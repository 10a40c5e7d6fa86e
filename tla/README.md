# NetLink: specifications, model checks and proofs

NetLink lets the members of a Space reach the computers in it: wake them, lock
or restart them, view their screens, send them files and print jobs, and share
a pool of mobile data. A NestJS control plane (`apps/api`) keeps every row that
matters in Postgres; a Go agent (`services/agent`) runs on each computer and
polls the control plane; desktop and mobile clients call its HTTP interface.

This directory models the parts of that program in which several actors meet.
It holds TLA+ modules translated from the source, the TLC configurations that
check them on small instances, and proofs, checked by TLAPS, of their safety
properties for instances of every size. `PROJECT.json` ties each definition to
the source lines it stands for and lists the hazards of the code with the
properties that cover them.

| module | what it is |
| --- | --- |
| `PowerContract` | what the system promises about a power command, abstractly |
| `OneTimeCode` | what it promises alike of an emailed code, a Pass and an enrolment token, abstractly |
| `SessionLineage` | what it promises of the lineage of a signed-in session, abstractly |
| `SessionStream` | what it promises of the stream of a remote session, abstractly |
| `PowerService`, `PowerAgent` | power commands in the control plane (`power.service.ts`) and in the agent (`agent.go`, `command.go`) |
| `PowerCommands` | the two together, the network between them, the properties |
| `RefreshTokens` | refresh tokens in the control plane (`session.service.ts`) |
| `DeviceSessions` | tokens, desktop clients, the network, the properties |
| `RemoteService` | remote desktop sessions in the control plane (`remote.service.ts`) |
| `RemoteSessions` | the same with the host agent, the viewer and the direct connection, the properties |
| `AccountChallenges` | registration, sign-in, emailed codes, the account guard (`auth.service.ts`, `challenge.service.ts`), the trust that an enrolment gives (`agents.service.ts`) |
| `SpacePasses` | Passes, membership, live connections (`data.service.ts`, `live.gateway.ts`) |
| `DataPool` | these with allocations and metered usage, the properties |
| `AgentEnrolment` | enrolment tokens, agents, the files of an agent (`agents.service.ts`, `agent.go`, `identity.go`) |
| `SharedWork` | these with shared folders and printers, transfers and print jobs (`files.service.ts`), the properties |
| `ClientScreens` | what the screens of the desktop offer and load, as a table |
| `DesktopClient` | the desktop window: sign-in, session, screens, requests under way, the properties |
| `MC...` | instances for TLC, with their `.cfg` files |
| `...Proofs` | eight modules of theorems, section 9 |

To check: `tlc -config MCPowerSafety.cfg MCPowerCommands.tla` and so on for the
other configurations (each begins `MC` and names its module in `PROJECT.json`);
`tlapm PowerCommandsProofs.tla` and so on for the other modules of proofs.

## 1. Inventory

For each component: its state, its operations, who it talks to, what is hard
about it, and what would make it correct. The sections named say what is
modelled of it.

**Power commands, control plane** (`power/power.service.ts`). State: a
`PowerCommand` row per command, the step-up challenges, the Wake Helper flag of
a computer. Operations: `requestCommand`, `cancelPending`, `collectFor` (an
agent's poll), `recordResult`, plus `setWakeHelper`, `registerMac` and the
history. Hard: every handler reads in one statement and writes in another, with
no transaction; only polls expire commands. Correct when a command is handed
over once, to the right machine, never before its countdown is over or after a
cancel, and always settles. *Section 2.*

**Power commands, agent** (`internal/agent/agent.go`, `pkg/command`). State: the
enrolment, the verification key, a replay guard in memory. One loop: heartbeat,
poll, verify, execute, report. Hard: the replay guard is lost on restart;
reports are sent once; the machine's clock may be wrong. Correct when nothing
is executed twice, out of its window, or for another machine. *Section 2.*

**Signed-in sessions** (`auth/session.service.ts`, `devices/devices.service.ts`,
`lib/api.ts` of the desktop). State: refresh tokens in lineages, device rows,
the session a client holds. Operations: sign-in, `rotate`, `revokeByToken`,
`revokeDeviceSessions`, the revocation of a device. Hard: exchanges of one token
overlap with each other and with revocations; answers are lost after the token
was spent. Correct when a lineage has one live token, an ended lineage stays
dead, and no well-behaved client is taken for a thief. *Section 3.*

**Remote sessions, control plane** (`remote/remote.service.ts`). State: a
`RemoteSession` row per session (requested, connecting, active, ended), the
signalling mailbox, rate counters. Operations: create, heartbeat, post and
collect signals, `pendingGrantsFor`, `markConnected`, `reportViolation`, end,
`expireStale`, `endSessionsForDevice`. It signs grants for the host agent and
issues TURN credentials. Hard: `markConnected` and `close` write what they have
read earlier; mail is marked delivered before it arrives; expiry works on a
snapshot. Correct when a session ends once, is active only while somebody is
connected, and its end reaches the host. *Section 4; the last does not hold.*

**Remote sessions, host** (`internal/agent/remote.go`, `internal/remote`).
State: the map of running sessions, the replay guard, the peer connection.
Operations: poll for grants, claim, negotiate, run, finish; permission checks on
each input. Hard: a grant is delivered again until the connection is reported;
the end of a session in the control plane is not pushed. Correct when a grant
is started once in the life of its process. *Section 4.*

**Remote sessions, viewer** (`lib/remote.ts` of the desktop): start, poll,
heartbeat, close. Correct when a closed window stops the stream. *Section 4.*

**Sign-in and challenges** (`auth/auth.service.ts`, `auth/challenge.service.ts`).
State: the account, its devices, emailed codes with attempt and resend budgets.
Operations: register, sign in, issue, resend, verify, consume. Hard: budgets are
read, then incremented; retiring the old code and creating the new one are two
statements; a device is removed meanwhile. Correct when a code lets in once,
nobody is signed in without proof of the address, all trust in a device goes
back to a device that was proved, and a removed device stays out. *Section 5.*

**Data pool** (`data/data.service.ts`). State: pools, Passes, allocations,
usage. Operations: create, claim and revoke a Pass, allocate, pause, resume,
release, refresh the usage from the provider. Hard: provider calls between
statements, stale totals. Correct when a Pass lets in once, nobody is charged
twice, and no refresh undoes a stop or leaves a used-up allocation running.
*Section 6.*

**Files and print jobs** (`files/files.service.ts`; `internal/files`,
`internal/printers`). State: transfer and job rows with their states and
progress. Hard: progress that comes late, jobs marked sent before they arrive.
Correct when a document is gone once it is handed over and a revoked computer
collects nothing. *Section 7, the control plane.*

**Live events** (`live/live.gateway.ts`). State: sockets and their rooms. Hard:
the handshake checks the device, then subscribes; a revocation in between is
missed. Correct when somebody who is out hears nothing. *Section 6.*

**Enrolment and heartbeats** (`agents/agents.service.ts`, `internal/enrollment`).
State: one-time tokens, agents, device rows. Hard: the token is spent before the
enrolment is refused; the agent may be killed between the files it writes and
removes. Correct when a token enrols one computer, and a computer is who it
believes to be until it is revoked, and then finds out. *Section 7.*

**Spaces, membership, permissions** (`spaces/spaces.service.ts`). Guards of all
other operations; in the models a permission is given. *Removing a member is in
section 6, the rest is not modelled.*

**Rate limiter and account guard** (`common/`): counters. The account guard has
a read-then-write. *The guard is in section 5, the limiter is not modelled.*

**Desktop window** (`screens`, `state`, `components`, `lib/api.ts`). State: the
session held, the refresh in flight, the step of the sign-in, the section shown
and its page, the handlers that wait for answers. Operations: everything a person
presses and everything the code sends by itself. Hard: handlers outlive the
component, the Space and the session they were started for. Correct when an
ended session stays ended and no page waits for an answer nobody asked for.
*Section 8.*

**Not to be modelled**: audit log (rows no component reads), mail (pure I/O),
password hashing and token cryptography (primitives: tokens and signatures are
unforgeable values), configuration, database access, metrics and health, the
agent's key storage, wake-on-LAN packet, power executors and release check
(operating system), the mobile app, the shared schemas as such, deployment.

How the components interact: members call the control plane over HTTP; agents
poll it every few seconds, over signed requests, and take orders only from the
answers; clients also hold a socket for live events. All shared state is in
Postgres, and but for the append to the signalling mailbox
(`remote.service.ts:377`) no handler uses a transaction around its reads and
writes: what protects it is the conditional update (`updateMany` with the
expected state in its `where`). Hence the grain of the models: **one action per
database statement that another handler can come between**, and statements are
merged only where what lies between them is unaffected by anyone else.

## 2. Power commands

### State

| variable | in the code |
| --- | --- |
| `now` | the control plane's clock |
| `rows[c]` | the `PowerCommand` row: state, action, `targetDeviceId`, `helperDeviceId`, `createdAt`, `executeAt`, `expiresAt`, `deliveredAt` (as a boolean), `cancelledAt`, the challenge that confirmed it |
| `spent` | challenges with `consumedAt` set |
| `revoked`, `online` | `device.revokedAt`; a last heartbeat younger than 90 s |
| `calls[k]` | a member's `requestCommand` or `cancelPending` between two statements |
| `polls[p]` | a `collectFor` between the sweep and its answer: what is still to claim, what is signed |
| `reports` | results on their way to `recordResult` |
| `knowsId`, `nonces` | the agent's enrolment names its id; its `MemoryNonceStore` |
| `awaiting`, `inbox`, `acting` | where the agent's single loop stands: waiting for a poll, envelopes collected, result to report |
| `ran[c]` | history: how often, by whom and when the command was carried out |

### Actions

`requestCommand` is `Request` (up to the look for a pending command, consuming
the confirmation), `CheckPending`, `Create`; `RequestRefusedOffline` is its one
refusal that leaves a trace, the confirmation being consumed before the machine
is found to be off. `cancelPending` is `FindCancellable` and `Cancel`.
`collectFor` is `BeginCollect` (the sweep and the find: a command another
handler changes between the two is claimed conditionally or not found, which
the later `Claim` also covers), one `Claim` per due command, and the answer,
which `Receive` delivers or `LoseAnswer` loses. `recordResult` is `RecordResult`.
The agent's loop is `Heartbeat`, `StartPoll`, `GiveUp` (the HTTP timeout, with
the handler still running), `Execute`, `ExecuteInVain`, `RefuseCommand` (one
turn of `handlePowerCommand`), `SendReport`. `Restart` ends the process between
any two steps. `GoStale`, `Revoke` and `Tick` are the environment.

### Abstractions

- `"lock"` stands for lock and sleep, `"restart"` for restart and shutdown: the
  code treats the members of each pair alike, apart from the call to the
  operating system.
- Permissions are given: a member who may not do something takes no step.
- A signature is an envelope nobody else can make. The agent's checks of action
  and signature therefore never fail and are left out; those of addressee,
  expiry, issue time and replay are kept.
- A computer that is down, that has not been able to fetch the key, or that has
  been told it is revoked (`forgetIdentity`), is one that takes no further step.
- `inbox` is a set, so collected envelopes are handled in any order; `take: 10`
  is left out, a poll collects all that is due.
- `Drift[a]` is constant: an agent's clock is off by a fixed amount.
- `issuedAt` of an envelope is the row's `createdAt`, as in `sign`.
- Who is a Wake Helper is a constant, and the same-network heuristic is left
  out: a wake may go to any helper that is on.

The bounds are `LastRequest` (no command is created later), `Horizon` (the
clock stops one unit after the last command that can exist has expired: from
there on only settling is left, which needs no clock), `Revocable` (the agents
that may be revoked), and the number of commands, requests and polls.

### Runs

| run | instance | question | distinct states |
| --- | --- | --- | --- |
| `power_safety` | 1 command, 2 requests, 2 agents, 2 overlapping polls, one clock behind, one machine a helper | is a command carried out at most once, by its addressee, in its window; is a cancel during the countdown final; is what the row says true; is a confirmation good for one command; is the contract implemented | 2,189,028 |
| `power_liveness` | 1 command, 2 agents, one of them steady | does every command settle | 169,172 |
| `power_cancel` | as `power_safety`, 1 request | *violated:* "Cancelled before it was sent" | - |
| `power_outstanding` | 2 commands, 2 requests, 1 agent | *violated:* "one outstanding command per machine" | - |

One command suffices for the first: commands share nothing but the machine's
loop and the replay guard, which is keyed by command; that two requests with one
confirmation cannot both go on to create shows in the requests; and the theorems
of section 9 are for any number of either. Two polls are needed for the overlap (the
first given up on by its agent), and two agents for a wake: the target comes up
by itself and polls while its helper has the command. Countdown and time to live
of one unit each allow every order of cancel, claim, expiry and execution;
with an agent one unit behind, a command is carried out after the control plane
has called it expired. Deadlock is checked on all four: an agent can always be
restarted, so the check is weak here, and nothing rests on it.

### Liveness and fairness

`EveryCommandSettles`: if one agent keeps running and is not revoked, no
command stays outstanding. `FairSpec` assumes that time passes; that a handler
that has begun goes on claiming and answers, or the answer is lost (weak
fairness: a Node handler is not abandoned by the server); and that an agent of
`Steady` handles what it has collected, reports, and polls (its loop does so
every three seconds). Polling has strong fairness because the model bounds the
polls in progress and the control plane does not: a poll of the other agent may
take the last slot again and again in the model, never in the code. Nothing is
assumed of members, of reports (each may be lost), of heartbeats, or of the
other agent, whose command must settle too: the sweep is global.

### What the violations show

`power_cancel`: `cancelPending` reads the command as not yet sent, a poll claims
it, and the write by id records "Cancelled before it was sent" on a command that
an agent has collected and carries out. The comment above it says a collected
command cannot be recalled and that saying so is better than a cancel that
silently fails. What does hold, and is proved, is that a cancel written while
the countdown is running is final.

`power_outstanding`: two requests both look for a pending command before either
creates one. The comment says one outstanding command per machine.

## 3. Signed-in sessions

### State

| variable | in the code |
| --- | --- |
| `tokens[t]` | the `RefreshToken` row: device, `familyId` (the lineage's first token), `rotatedAt`, `revokedAt`, `replacedById` |
| `rotations[r]` | a request to `rotate` between two statements, or on its way |
| `revoking[d]` | how far `devices.revoke` has come: device row, tokens, challenges |
| `late` | history: tokens created after their device was revoked |
| `signIn[d]` | a sign-in between its check, the new session and its arrival |
| `held[d]` | the refresh token of the desktop's in-memory session |
| `refreshing[d]` | `refreshInFlight` |
| `leaving[d]`, `left` | a logout in progress; history of who has begun one |

### Actions

`rotate` is `ReadToken` (the row and its device, and what follows from them),
`ClaimToken` (the conditional update), `IssueSuccessor` (the new row), and
`EndLineage` (`revokeFamily`, after a reuse, a lost claim or a revoked device).
Writing `replacedById` is a statement of its own in the code; it is written
with the successor here because nothing reads it. `devices.revoke` is
`RevokeDevice`, `RevokeDeviceSessions`, `ConsumeChallenges`, in that order.
`startSession` is `ServeSignIn`; the sign-in's checks are `BeginSignIn`, which a
code passes until the revocation has consumed it. `refresh` of the client is
`BeginRefresh` (with the coalescing of `refreshInFlight`), `FinishRefresh`,
`FailRefresh`; `logout` is `BeginLogout`, `ServeLogout`, `FinishLogout`. An
exchange goes on after its client has given up, and `Unheard` is its answer to
nobody. `PresentAgain` is a token of a device in `Copied` turning up again, from
a retry, a restored backup or a copy.

### Abstractions and bounds

Expiry of a token is a choice: any token may turn out to have expired when it is
read, which covers the lifetimes of trusted and other devices. Access tokens end
by themselves and are left out, and so are the live sockets and the remote
sessions that `devices.revoke` also ends (`SpacePasses`, `RemoteService`), the
device's name and trust, and the phone's persisted session. `Revocable`,
`Copied` and `Leavers` bound who may be revoked, presented again, or sign out;
`Token` and `Rotation` are identities, and when the tokens run out an instance
stops. That is why these two runs say `CHECK_DEADLOCK FALSE`.

### Runs

| run | instance | question | distinct states |
| --- | --- | --- | --- |
| `sessions_safety` | 2 devices, one that behaves and one copied, revocable and leaving; 3 tokens, 2 exchanges | is a lineage a baton that is handed on (`SessionLineage`); a token created after the revocation is never exchanged; the device that behaves keeps its session | 1,118,311 |
| `sessions_ended` | the same, no revocation | *violated:* "the whole family is revoked and every session on that lineage dies" | - |

`LineagesAreBatons` is a refinement: `SessionLineage` under a mapping that takes
the sign-ins for lineages. *Good* are the live tokens of a lineage, *taken* the
lineages of the exchanges between the claim and the new row, *begun* and *minted*
what there has been. It contains that a lineage has one live token at most, that
only a claim entitles to a successor, that there is one for each claim, and that
a lineage which lost its token in any other way is over. It also says openly what
`sessions_ended` is about: to end a lineage while its baton is taken ends nothing.

Three tokens are the lineage's first, its successor and a second session of
another device; two exchanges are what a race needs. The theorems are for any
number of either.

`sessions_ended`: the winner of two exchanges has claimed the token; the loser
finds it spent and ends the lineage; the winner then creates the successor,
which no revocation touches. The property allows for exchanges in progress, so
what is violated is the state in which everything has come to rest. A device's
*revocation* is not open to this, because the next exchange looks at the device
again: that is `LateTokensAreDeadEnds`, which holds.

## 4. Remote sessions

### State

| variable | in the code |
| --- | --- |
| `rows[s]` | the `RemoteSession` row: state, computer, `connectedAt` (as a boolean), how old it is, whether both sides have been quiet for five minutes |
| `mail[s]` | offer and answer not collected yet (`RemoteSignal`) |
| `spent` | consumed step-up codes |
| `calls[k]` | a request between two statements: what it is about to do, and the sessions it has yet to close on the way |
| `polling`, `granted`, `accepted` | the host agent: the poll it waits for, grants in hand, its replay guard |
| `peers[s]` | how far the host of `s` has come, from waiting for an offer to streaming |
| `windows[s]` | how far the viewer has come, from its ticket to closed |
| `linked` | the sessions whose two peers are connected |
| `starts[s]` | history: how often the host process has started `s` |

### Actions

`createSession` is `AskSession` (the confirmation, and the read of `expireStale`), the
closing of what was found stale (`CloseRead`, `CloseWrite`: `close` reads, then writes),
`LookForLive`, and `ReceiveTicket` (the row is created and the answer reaches a window
or is lost). `listSessions`, `pendingGrantsFor` (`StartPoll`, `Granted`), `endSession`
and `endSessionsForDevice` sweep in the same way. `postSignal` is `PostSignal` (the
read), then the statements in `Steps`, in that order: mark as connecting, append.
`collectSignals` reads messages and marks those it has read as delivered, and only then
answers. It is one action: a request that reads the same messages before another has
marked them is heard alone, since the host asks again only after it has given up on its
last request, or is of the window, which takes up one answer. `markConnected` is
`ReadConnected` and `MarkConnected`. The host's loop is `StartPoll`, `GiveUpPoll`,
`StartSession`; a host's life is `CollectOffer`, `PostAnswer`, `ReportConnected` or
`StreamUnreported`, `StopHost`, `FinishHost`; `Restart` ends the process at any step.
The viewer is `PostOffer`, `CollectAnswer`, `Beat`, `Leave` or `LeaveUnheard`,
`CloseWindow`; between the two the connection is still open, so that a window which is
*parting* may yet connect. `Connect` and `Disconnect` are the network between the peers.
`GrowOlder` and `GoQuiet` are time.

### Abstractions and bounds

Time is the age of a session in four steps, one for each deadline of the code (45
seconds, 120 seconds, four hours) and one before; which computers are offline is
an input of the statements that ask. Candidates and `bye` are left out: whether
the peers find a way to each other is the network's affair. TURN credentials
and the signature of a grant are cryptography. Whose a live session on the
computer is, is left open. `reportViolation` counts and does nothing else.
`Reached` bounds the sessions whose ticket and grant may arrive.

`StreamsOnce` is a refinement: `SessionStream` under a mapping that takes a stream
to run while its host is up, and to be over when it does not run and the one offer
of its session has been used (`OfferUsed`). A session is not bound to the life of a
host process: after a restart the replay guard is empty, and the grant of a session
whose report was lost is handed out again. What keeps a second host from streaming
is the offer. The window sends it once, the mailbox delivers it once, and it is gone.

### Runs

| run | instance | question | distinct states |
| --- | --- | --- | --- |
| `remote_safety` | 1 computer, 1 session, 2 requests at once, every loss, restarts | is a session started once in a process's life; is an active one never put back to connecting; is an end final once no request carries the session; is it streamed for one stretch of time at most (`SessionStream`); does every session end; does a closed window stop the stream | 397,784 |
| `remote_ceiling` | the same | *violated:* a session the control plane has ended is not streamed for ever | - |

One session and two requests suffice because every race here is of two requests
on one row; the theorems are for any number of both.

`FairSpec` assumes that a request that has begun is served, that sessions grow
older, that an agent of `Steady` polls and starts what it was granted, that a host
gives up, reports or finishes, and that a window that has begun to close does.
Nobody has to list sessions, to beat, to leave or to stay. The poll has strong
fairness for the reason given in section 2.

`remote_ceiling`: `expireStale` ends the row of a session after four hours, which
`contracts/src/remote.ts:74` calls a hard ceiling. But the window ignores what its
heartbeats are answered, the host learns of sessions only as grants to start, and
the frames go from peer to peer: nothing tells either of them. The same holds of
`endSessionsForDevice`, whose comment says that a revoked device loses its
sessions at once.

`QuietEndIsFinal` says less than one might wish, on purpose: `postSignal` and
`markConnected` write by id what they read before, so that an end recorded in
between is overwritten. That lasts until the sweep (`EverySessionEnds`).

## 5. Accounts and codes

### State

| variable | in the code |
| --- | --- |
| `account` | none, unverified or verified (`user.emailVerifiedAt`) |
| `guard` | the `AccountGuard` row: failures counted, and whether it is cooling off |
| `devices[d]`, `revoked` | the `Device` row, of a client or of an agent: known, trusted; `revokedAt` |
| `challenges[c]` | the `Challenge` row: live or consumed, purpose, device, attempts, resends, which request issued it |
| `calls[k]` | a request between two statements |
| `accepted[c]`, `sessions` | history: how often `c` let somebody in; devices a session was started for |
| `vouched[d]` | history: the device whose session asked for the token `d` was enrolled with |

### Actions

`register` is `Register`, `CreateAccount`. `login` is `LoginRight`,
`ClearFailures` (`recordSuccess`), `Admit` (`upsertDevice` and what follows from
the row) and `StartSession`, or `LoginWrong`, `ReadFailures`, `WriteFailures`
(`recordFailure`, which reads the count and writes it). `ChallengeService.issue`
is `Retire`, `Issue`; `consume` is `Submit` (the read and the comparison), then
`Miss` and perhaps `Burn`, or `Claim` (the conditional update), followed by
`VerifyEmail` or `VerifyDevice`. `resend` is `AskResend`, `Resend`.
`devices.revoke` is `Revoke`, `Silence`. `Enrol` is what `AgentsService.enroll`
does to the same table: a device that is not known yet is trusted without a code,
on the word of somebody who was signed in when the token was asked for
(`upsertAgentDevice`; tokens and agents as such are in section 7). `login` looks at
the row's trust and not at what kind of device it is. `Fail` ends any request
between two statements.

### Abstractions and bounds

A code is its number (each resend replaces it by the next), so that a code can be
compared with the one that was live when the row was read. Expiry, cooldown, the
limits per address and the decoy for a taken address are refusals without a
trace: requests that do not take place. Several accounts share nothing.
`Enrol` is one step: nothing of the account depends on what comes between its
statements, and who asked may have been signed out by then.
`MaxFailures` bounds the count of failures one above the threshold, where only the
length of the pause changes. Step-up codes are in sections 2 and 4.

### Run

| run | instance | question | distinct states |
| --- | --- | --- | --- |
| `account_safety` | 2 devices, 2 codes, 2 requests at once, 1 attempt, 1 resend, a threshold of 2 | is a challenge a one-time code (`OneTimeCode`); do the budgets hold up to the requests served at once; are two live codes for one purpose of simultaneous requests; what is behind sessions and trust; does a removed device stay out | 3,754,540 |

`CodesWorkOnce` is a refinement: `OneTimeCode` under a mapping that takes a live
challenge for an offered code, a consumed one that let nobody in for a withdrawn
code (it was replaced, or its guesses are used up, any number of them in one
statement), and the claim for the use. So a challenge lets in once, not before it
was issued, and not once another challenge was issued in its place and it was
retired. It does not say so of the code a *resend* replaces: a request that has
compared the old code with the row it read claims the challenge after the resend,
which the model contains (`Submit`, `Resend`, `Claim`) and `resend` does not
prevent. `DataPool` and `SharedWork` implement the
same module, where who takes the code may come to nothing before it lets in.

The budgets are stated as the code keeps them: the check precedes the increment,
so that guesses which arrive together all pass it. `BudgetsHold` bounds the excess
by the number of requests. `RivalsOnly` is what is true of the comment "only one
live challenge per (user, purpose)": two requests that both retire before either
creates leave two.

`ProvedTwice` says where sessions and trust come from. Nobody has either before a
code for the address was accepted. A device has given a code of its own, or was
vouched for by an enrolment; and of any set of devices that are trusted or have had
a session, one has given its code or was vouched for from outside the set. So
words do not go in a circle, and every chain of them ends at a device that proved
itself. It is all that can be said: `auth.service.ts:345` calls `verifyDevice`
the only place where trust is given ("here and only here"), and
`agents.service.ts:142` says of an agent's row that it is created already trusted.
The second is what the code does: a device that was enrolled signs in with the
password and without a code, as `login` asks for its trust alone.

With two attempts instead of one the run was also made once (8,429,799 states);
`BudgetsHold` and `Burn` need no more than one. The account guard is in the model
because it decides which sign-ins are heard, and no property but `TypeOK` is about
it: a pause only delays, and two failures counted at once lose one (section 10).

## 6. Data pool and live events

### State

| variable | in the code |
| --- | --- |
| `passes[p]` | the `Invitation` row: status, bytes, who claimed it |
| `members[m]` | the `SpaceMember` row: active or suspended |
| `sockets[x]` | a connection of `LiveGateway`: handshake begun or done, whose, whether it is in the Space's room |
| `allocations[m]` | the `DataAllocation` row: status, total, used |
| `recorded[m]` | the `DataUsageEvent` rows, unique by `providerRef` |
| `calls[k]` | a request between two statements |
| `entered[p]` | history: how often a Pass has let somebody in |

### Actions

`createPass` is `AskPass` (with `poolSummary` as its guard), `CreatePass`; `claimPass`
is `ReadPass`, `ClaimPass` (the conditional update), `Join`, `OpenAllocation` and
`GrantAccess`; `revokePass` is `RevokePass`. `revokeAccess` is `AskRevoke`,
`EndAllocation`, `Suspend`, `Silence` (`revokeSpaceAccess` of the gateway).
`refreshUsage` is `AskRefresh` (the row, and the provider's answer), `Expire` or one
`RecordUsage` for each event (stored, or dropped because it is there already or the
database fails: `data.service.ts:638` catches both alike) and `WriteUsage` (the totals
computed from what was read). `pauseAllocation` and `updateAllocation` are
`PauseAllocation`, `AskResize`, `Resize`. The gateway's `handleConnection` is
`ReadMemberships`, `Subscribe`; `handleDisconnect` and `disconnectDevice` are
`Disconnect`. `Fail` ends any request between two statements.

### Abstractions and bounds

A unit of data is one event. The provider is external and answers a refresh with any set
of events, those of earlier answers among them. Whether an allocation has lapsed or
reached its limit of today is an input of each refresh. One Space, with its pool
connected; permissions and Passes for one address are given. The events that are sent
over a connection change no state and are left out: what matters is who is in the room.

### Run

| run | instance | question | distinct states |
| --- | --- | --- | --- |
| `data_pool` | 1 member, 1 Pass, 1 connection, 2 units of data, a plan of 2, 2 requests at once | is a Pass a one-time code (`OneTimeCode`); do overlapping refreshes charge nobody twice; does somebody who is out hear nothing until a Pass of theirs is claimed; does a refresh respect that an allocation was stopped, and stop one it finds used up | 451,532 |

Requests, events and Passes are symmetric; all properties of the run are. A Pass is
*taken* from its claim to the membership it makes (`PassState`), and a Pass that is
revoked after its claim is the claimer's all the same. The same properties were also
checked once on 2 Passes, 1 event and a plan of 2 (2,755,796 states); the run kept
here is the smallest in which two refreshes fold different parts of the usage into
one row, a handshake races a removal, and a resume and a new total race the limit.

`LimitStops` is about steps. A refresh computes what it writes from a row it read before
the provider answered; in between, others pause, resume, resize, revoke and refresh. No
refresh makes an allocation run that was stopped meanwhile: only a resume and a new Pass
do. And none leaves an allocation running that its own write shows to be used up, unless
the total it knows is not the one in force any more. What a person does is left to the
person: a resume, or a total reduced to what was used, makes a used-up allocation run
until the next refresh. No fairness is assumed, and nothing is said of when that is:
`refreshUsage` is called by the two screens that show usage and by nothing else in the
control plane, so that an allocation nobody looks at is not stopped at all.

## 7. Enrolment and shared work

### State

| variable | in the code |
| --- | --- |
| `tokens[t]` | the `AgentEnrollmentToken` row |
| `devices[d]`, `agents` | `Device` rows by the key pair they are for; key pairs with an `Agent` row |
| `disk` | `device.key`, `identity.json`, `enrollment.json` |
| `process` | the agent process: where it stands, its fields `ident` and `current`, the request it waits for, why it forgets |
| `resources[d]` | folders and printers: unknown, listed, shared |
| `jobs[j]`, `transfers[x]` | `PrintJob` rows with their document, `FileTransfer` rows |
| `calls[k]` | a request between two statements |
| `enrolments[t]` | history: how often a token made an agent |

### Actions

`createEnrollmentToken` is `Mint`; `enroll` is `SpendToken` (the conditional update),
`Register` (`upsertAgentDevice`), `Join`, `AnswerEnrolment` (the answer, saved if the
process still waits for it). The agent is `Start` (`New`: `Load`, or `CreateKey` and
`CreateRecord`, with what a crash between the two leaves), `Enroll`, `EnrolInVain`,
`Beat` (a heartbeat or a poll: answered, lost, refused for the clock, or refused because
its nonce could not be stored), `Forget` (one file of `ResetIdentity` each), `Reset`,
`Stop` (the process ends at any step). `reportResources`, `setResourceEnabled` and
`approveFolder` are actions of one statement. `submitPrintJob` and `startTransfer` are
`AskForWork` and `SubmitPrintJob` or `StartTransfer`; `agentWork` is `Collect`,
`ActivateTransfers`, `FindPrintJobs`, `SendPrintJobs`; `recordPrintResult` and
`recordProgress` write whatever the state was.

### Abstractions and bounds

Signatures are unforgeable and nonces fresh; a clock that is off and a nonce that the
database does not take are outcomes of a request. Folders and printers are one resource
of each computer. The worker that collects and reports is external: at this commit
nothing in the agent calls `agent/work`. One process at a time uses the data directory.
Whether a computer is online is not asked where the code only chooses its wording by it.

### Run

| run | instance | question | distinct states |
| --- | --- | --- | --- |
| `shared_work` | 2 key pairs, 1 token, 1 print job, 1 transfer, 2 requests at once | is an enrolment token a one-time code (`OneTimeCode`); do the files on disk agree; is a document gone once handed over; is an identity forgotten only for a cause, and always after a revocation; does a revoked computer collect nothing | 649,342 |

A token is *taken* when it is spent and *used* when it made an agent
(`TokenState`): a device that is refused in between has cost the token.

Two key pairs are a computer before and after it has forgotten itself. Fairness:
a process that waits gives up after 15 seconds, one that is removing files goes
on, and one that keeps getting to its ticker is answered some time (strong
fairness of an answered heartbeat: an assumption about network and ticker). A
process may be stopped for ever, in which case nothing is claimed of it.

`ForgottenForCause` names two causes that the agent cannot tell from a revocation,
because the guard answers all three with 401: a clock that is off by five minutes
(`agent-signature.guard.ts:83`), and a nonce that could not be stored
(`agent-signature.guard.ts:135-138`, `159-167`), for which any failure of the
database will do. `client.go:317-321` makes a rejection of every 401, and the agent
erases its identity (`agent.go:424`). What is left, and holds, is that neither a lost
answer nor a crash nor a refused enrolment costs a computer its identity.

## 8. Desktop window

### State and actions

`ClientScreens` is a table: for every section, its controls - whom they are
offered to, the dialog they belong to, what disables them, what they close, open
and load again - and the requests its load makes one after another. `DesktopClient`
interprets it. A *task* (`tasks`, a bag) is one activation of an asynchronous
handler that waits for an answer: what it does, whether its component is still
there, whether it waits for a refresh, the session it was sent with.

`Submit`, `StepAnswered`, `SignedInAs` are `AuthFlow`; `Navigate`, `OpenDialog`,
`Dismiss`, `Done`, `Press` what a person does in the Shell; `LoadAnswered`,
`SpacesLoaded`, `DetailLoaded`, `ControlAnswered`, `CodeMailed` the handlers going
on; `ProviderAnswered` the `SpaceProvider`; `Switch`, `LiveEvent`, `LiveChanges`
the switcher and the socket of My Spaces; `PowerTimer` the poll of Power.
`Unauthorized`, `RefreshAnswered` are `request` and `refresh` of `NetLinkApi`,
`SignOut`, `SignOutAnswered` its `logout`, `DeviceForgotten` the bridge to the Go
side. `SetSession` is what every change of session does to the frames.
`OrphanAnswered` is a handler whose component is gone: it goes on asking, and is
seen by nobody. The dialogs for printing, for a limit and for control keep their own
`busy`: once one is closed its request goes on `OffStage`, the page is loaded by it
all the same, and a new dialog of the kind may send another (`Untracked`).

### Abstractions and bounds

The control plane is external: it may grant or refuse any request or find its
token expired. The rows of a page are alike, so one stands for them. Input
checking, wording, the count-down of a code and the health light are left out;
the window of a remote session is in section 4. `Most` bounds the requests under
way while somebody still presses buttons; what the code sends by itself it always
sends.

### Run

| run | instance | question | distinct states |
| --- | --- | --- | --- |
| `desktop_client` | 2 sign-ins, an own Space and another's, all sections and dialogs, `Most` = 2 | does a session that has ended stay ended, whatever is answered late; does no page wait for an answer that nobody asked for | 965,970 |

No fairness is stated: the window's progress is up to the network, and
`NobodyWaitsInVain` is the safety property that takes the place of a liveness
one: whoever waits has a handler under way that will end the wait if it is
answered. It makes an exception for the trusted devices, whose first failed load
leaves them loading (`DevicesScreen.tsx:29`).

`EndedSessionStaysEnded` makes one too: a session whose refresh is under way when
it is given up is installed again by the answer (`api.ts:521`). That is in the
model, and the property states what is left.

## 9. What is proved

TLAPS checks every theorem for all values of the constants, under the named
assumptions of the modules only: subsets are subsets, `None` is nobody, the names
of Spaces are not those of states, budgets and times to live are numbers of the
right kind, drifts are integers. The power,
session, remote, enrolment and desktop theorems do not assume that any set is
finite. Two theorems are about cardinalities and do: `GuessesAreCounted` (finitely many
requests are served at once) and `NobodyIsOvercharged` (there are finitely many
events). None uses the bounds of the runs.

Each module of proofs states one inductive invariant (`IInv`, or `SessionInv`)
and derives the properties from it; its header gives the argument in full.

**Power** (`PowerCommandsProofs`): `TypeCorrect`, `InductiveInvariant`,
`CommandAtMostOnce`, `CommandInWindow`, `CommandByAddressee`, `CancelIsFinal`,
`ResultsAreTrue`. `AtMostOnce` is not inductive by itself: that an agent
executes an envelope only once says nothing if a second envelope exists. The
strengthening says where an envelope can be. It is signed in the step that marks
the row delivered, and only a waiting row can be marked; a delivered row never
waits again (`RowsInv`, `DeliveredInv`). So it is in one place at a time: the
answer to one poll, one inbox, or used up (`OnePlaceInv`). What must hold when
it is carried out, its time and its addressee, held already when it was found
due (`DueInv`, `EnvelopeInv`). The proof shows that at-most-once rests on the
control plane's claim alone: nothing in it mentions what the replay guard
remembers, which is why restarts, with an empty guard, do no harm.

**The contract** (`PowerContractProofs`): `CommandsKeepContract`, `SettledIsFinal`,
`ConfirmedOnce`. The first is the refinement: `PowerContract` under the mapping of
`PowerCommands` is implemented. Whether a command is open, handed over, acted on
or lapsed depends on its row's delivered mark, on `ran` and on whether its
envelope is still alive somewhere. A step that touches neither rows nor `ran` can
only end the life of envelopes, a lapse; each of the kinds of steps that do is
shown to be one step of the contract. `SettledStaysSettled` is a consequence of the
contract, in which only a new command is told to be waiting, and is in no run of
its own.

**Sessions** (`DeviceSessionsProofs`): `SessionsInvariant`, `SessionTypesCorrect`,
`OneLiveToken`, `LineagesHandOn`, `LateTokensStayDead`, `HonestSessions`. A lineage's
live token is a baton: while an exchange is between its claim and the new row
(`Issues`), nothing in the lineage is live and no other exchange is there (`BatonInv`).
With that, each statement of the control plane is one step of `SessionLineage` or none
(`LineagesHandOn`): a sign-in starts a lineage, a claim takes the baton of one, a new
row hands it on, and what revokes rows ends the lineages whose tokens were good. A late
token is read after the revocation, so no exchange of it ever reaches the claim
(`LateInv`). For the client that behaves, custody (`CustodyInv`): a token of its own
that is live or in progress is in one place only - the session, a sign-in's answer, an
exchange's result - and is presented by one exchange, which therefore never finds it
spent.

**Remote sessions** (`RemoteSessionsProofs`): `RemoteInvariant`,
`RemoteTypesCorrect`, `StartedOnce`, `NeverBack`, `QuietEnds`, `EndsMeet`,
`OfferInOnePlace`, `StreamsRunOnce`. Grants come from the
row's own computer, so one replay guard sees every start (`StartsInv`). Nothing can
come of an offer before it is in the mailbox, and it gets there after the mark: as
long as a request has its mark before it there is no answer and no connection
(`MetInv`), so a mark never meets an active row. That is why the order of the two
statements in `postSignal` matters. `EndsMeet` (`BothEndsMet`, not part of a run) says
what an active session means: the viewer took up the host's answer, although the
control plane hears of it from the host alone, by a report that may be late, and
writes it by id; and no connection outlives its host or its window.
`StreamsRunOnce` is the refinement of `SessionStream`. It rests on `OneOffer`: the
offer is with one request, in the mailbox or with the host, never in two of these
places. Three steps move it on and every other step leaves it or loses it, so
that a host which was up has used it, and nothing puts it back (`OffersSpent`).

**Accounts** (`AccountChallengesProofs`): `AccountInvariant`,
`AccountTypesCorrect`, `CodesAcceptedOnce`, `CodesAreOneTime`,
`OnlyRivalsShareAPurpose`, `SessionsProvedTwice`, `RevokedDevicesStayOut`,
`GuessesAreCounted`. A proof once
given stays given: what was accepted keeps its purpose and device (`RowsInv`), and
whoever is past a proof has one behind them, a code's, somebody's word, or an earlier
trust (`ProofsInv`). Words do not go in a circle because only a device that is not
known is vouched for, by one that is (`WordsInv`: a device that has had a session is
known, and every set of devices has one that was not vouched for from within). For the
budgets:
attempts made and requests about to make one are together fewer than the budget
and the requests there can be (`BudgetsInv`). A challenge that let somebody in is
consumed, so that the steps which end challenges withdraw only what was offered
(`CodesAreOneTime`).

**Data pool** (`DataPoolProofs`): `PoolInvariant`, `PoolTypesCorrect`,
`PassesLetInOnce`, `PassesAreOneTime`, `NobodyIsOvercharged`, `PeopleOutHearNothing`,
`LimitsHold`. Only the claim of a pending Pass makes a request that joins, and there is
one for each Pass (`PassesInv`); a request that joins holds a Pass that was taken and
has let nobody in, which makes its step the use of it. What a refresh has counted was
recorded by then, and recorded events stay recorded (`MeterInv`), so that even a total
written from an old read is not too high. `LimitsHold` needs the types alone: a step
that leaves an allocation running and used up, and did not find it so, is a resume, a
new Pass, a new total, or a refresh that counted against another total.

**Enrolment and work** (`SharedWorkProofs`): `WorkInvariant`, `WorkTypesCorrect`,
`TokensEnrolOnce`, `TokensAreOneTime`, `ComputersAreThemselves`, `DocumentsAreDropped`,
`ForgottenForACause`, `RevokedServedNothing`. Who has claimed a token is alone with
it (`TokensInv`); the files are of one key pair, and what the process believes is
what the files say, at every step of writing and removing them (`FilesInv`,
`ProcessInv`); a job keeps its computer (`JobsInv`).

**Desktop** (`DesktopClientProofs`): `HeldSessionsAreOpen`,
`EndedSessionsStayEnded`, `HandlersGoOn`, `WaitersAreServed`. Both the session held
and the one being refreshed are sign-ins that are open, and every change of
session goes through `SetSession`. `NobodyWaitsInVain` is not inductive: it does not
say at which request of its load a handler is, nor that it is of the page that is
shown. `TasksInv` does: every handler under way is at a request of what it does;
sign-ins left over from before are gone from the frame and cannot clear the Shell
away; somebody waits for a refresh just when one is under way; the Spaces have the
provider as long as they are loading; and a page that must load has a loader of its
own section. Each step that empties a page starts its load in the same step
(`GoTo`, `SetSession`), and each answered request goes on to the next or leaves the
page ready. What the operators on bags do to the set of handlers is a set of lemmas
of its own.

**Only model-checked**: the liveness properties (`EveryCommandSettles`,
`EverySessionEnds`, `ClosedWindowStopsStream`, `RevokedIsForgotten`), which are out of
the prover's reach as is anything with ENABLED, and the four violations. Every other
property of a run is a theorem.

Operators introduced by a comment that begins "Variant:" are not part of any
specification. Each is a plausible bug in the definition that follows it, and
substituting it makes the property named in `PROJECT.json` fail.

## 10. What the models do not say

Met while reading the code, and either left out of the models or allowed by them
as it is; a reader who changes the code should know of them. Most contradict nothing
that is written down. These do, and have no run of their own:

- `auth.service.ts:345` ("here and only here") against `agents.service.ts:142` and
  183-195: an enrolment trusts a device too (section 5, `ProvedTwice`).
- `challenge.service.ts:129`, a resend "invalidates the previous one": a request that
  has compared the previous code goes on to its claim (160).
- `live.gateway.ts:24-26`, an event reaches only "someone already entitled": a
  handshake that has read the memberships before a removal and subscribes after it (59)
  is in the room of a Space its person was removed from. `Out` asks that no handshake of
  the person's is on its way, so that `OutHearsNothing` is about what comes after
  it, not about this race.
- `data.service.ts:145`, a Space does not promise more than the pool holds: Passes
  nobody has claimed do not count, and two Passes may be created from one look at it
  (147).
- `client.go:317-321`, a 401 "is different from a transient failure": the guard says
  401 to a wrong clock and to a write that failed as well (section 7,
  `ForgottenForCause`).

**Power.** The sweep writes "Expired before it was carried out" over commands that
were sent and may have been carried out (`power.service.ts:425`). A step-up
challenge is not bound to an action: the screen reuses one for another
(`PowerScreen.tsx:327`), and the server accepts it (`power.service.ts:326-355`).

**Sessions and codes.** `verifyDevice` does not look at `revokedAt`: a device
removed while its code is being claimed is trusted after its removal. The
account guard loses updates of failures that are counted at once, and a smaller count
that is written late ends the pause a larger one began
(`account-guard.service.ts:72-94`).

**Remote.** Two people who start a session on one computer at once both get one
(`remote.service.ts:153`). The comment at `devices.service.ts:83-86` says that a
revocation must reach the peer connection; only rows end.

**Data pool and live events.** `refreshUsage` passes the row's id to a provider that
knows only its own (`data.service.ts:621`). Pausing and removing never call the
provider. Overlapping refreshes undercount, as does one whose row the database does not
take (638); a refresh that reaches the limit after a removal turns "revoked" into
"paused" (655). A resume makes any allocation active, a used-up or a revoked one too,
and it runs until a screen looks at it. A claim that fails after it has taken the Pass
loses the Pass (341). A removal between the join and the allocation of a claim leaves an
active allocation to a suspended member. Connections keep hearing after a membership has
expired.

**Enrolment and work.** A token is spent before the device can be refused
(`agents.service.ts:83`). A crash of `ResetIdentity` between the key and
`identity.json` leaves an agent that cannot start until `reset`
(`identity.go:224`). Late progress reopens ended transfers
(`files.service.ts:210`). Overlapping polls hand a job out twice (257), and a lost
answer loses the document (268). The jobs queued for a revoked computer keep their
document. `agent/work` and `reapStaleAgents` have no caller, nor has `vault.go`.
Two processes on one data directory are not modelled.

**Desktop.** A refused request that comes late refreshes, and is replayed under,
the session of that moment, and a failing refresh drops whatever session is held.
`setActiveSpaceId` of the `SpaceProvider` is never called: the switcher of My
Spaces changes its own copy, and the sections stay with the first Space
(`space.tsx:14-20`, `SpacesScreen.tsx:26` and 176). A late detail of another Space
overwrites the one chosen (`SpacesScreen.tsx:49`). Escape loses the one-time code
of a Pass (`CreatePassDialog.tsx:45` and 76). The token for an agent of one Space
stays on screen in another (`EnrollAgentCard.tsx:24`). The timer of Power stops
after a failed load. A socket that comes back catches up on nothing. Two clicks on
"View" ask for two sessions. Failures of sharing, revoking a Pass, pausing,
removing and naming a helper show nothing.

**Not modelled.** Cryptography, key storage, mail, the operating system (power
executors, wake-on-LAN packet, capture and input, spooler), WebRTC and ICE,
configuration, metrics and audit rows, the limiter, deployment: primitives, pure
I/O, or rows no component reads. The agent's side of files and printing has no
caller at this commit. Roles, invitations by address and the default Space are
single statements. The mobile app persists its session: a lost answer between the
exchange and the write leaves a rotated token there, and restoring it is taken for
a reuse (`apps/mobile/src/lib/api.ts:102`); listed as a hazard.

## 11. What is left

1. The phone's persisted session, as a second client of `DeviceSessions`.
2. Membership with its roles and expiry as state, read by the guards of the other
   components instead of given.
3. More of an abstract contract of a remote session than `SessionStream`: when a
   stream must stop needs a decision on what an end in the control plane is to mean
   for the two peers (section 4).

The instances stay small (one or two rows of the component's table, two requests
in progress): every hazard listed in `PROJECT.json` is a race of two handlers, or
of one handler and a fault, and shows there.
