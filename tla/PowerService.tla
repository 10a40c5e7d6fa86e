---------------------------- MODULE PowerService ----------------------------
(***************************************************************************)
(* The control plane's half of power commands                              *)
(* (apps/api/src/power/power.service.ts).                                  *)
(*                                                                         *)
(* A command is a row.  requestCommand and cancelPending read it in one    *)
(* statement and write it in another, so each is split where another       *)
(* handler can come between: `calls` holds the members' requests in        *)
(* progress.  collectFor answers an agent's poll: it sweeps and finds the  *)
(* due commands, then claims them one statement at a time; `polls` holds   *)
(* the polls in progress, which live on when the agent has given up on     *)
(* them.                                                                   *)
(*                                                                         *)
(* "lock" stands for the actions that take effect at once (lock, sleep)    *)
(* and "restart" for the destructive ones (restart, shutdown).             *)
(***************************************************************************)
EXTENDS Integers, FiniteSets

CONSTANTS
  Agent,        \* enrolled computers of one Space
  WakeHelpers,  \* the agents configured as Wake Helpers
  Command,      \* identities for rows of PowerCommand
  Caller,       \* members' requests that can be in progress at once
  Poll,         \* agents' polls that can be in progress at once
  Challenge,    \* step-up codes that have been issued
  Ttl,          \* POWER_COMMAND_TTL_SECONDS
  Countdown,    \* POWER_COUNTDOWN_SECONDS
  LastRequest,  \* bound: no command is requested after this time
  Revocable,    \* bound: the agents whose device may be revoked
  None

ASSUME PowerConstants ==
  /\ Agent # {}
  /\ WakeHelpers \subseteq Agent /\ Revocable \subseteq Agent
  /\ Ttl \in Nat /\ Ttl > 0
  /\ Countdown \in Nat
  /\ LastRequest \in Nat
  /\ None \notin Agent /\ None \notin Challenge /\ None \notin Command

VARIABLES
  now,      \* the control plane's clock
  rows,     \* rows[c]: the row of command c
  spent,    \* the step-up challenges that have been consumed
  revoked,  \* the agents whose device is revoked
  online,   \* the agents whose last heartbeat is recent enough
  calls,    \* calls[k]: a member's request in progress
  polls,    \* polls[p]: an agent's poll in progress
  reports   \* results on their way from the agents

serviceVars == <<now, rows, spent, revoked, online, calls, polls, reports>>
-----------------------------------------------------------------------------
Actions == {"wake", "lock", "restart"}
States == {"none", "pending", "countdown", "sent",
           "succeeded", "failed", "cancelled", "expired"}
Waiting == {"pending", "countdown"}
Outstanding == {"pending", "countdown", "sent"}

Row == [state : States, action : Actions, target : Agent,
        helper : Agent \cup {None}, createdAt : Int, executeAt : Int,
        expiresAt : Int, delivered : BOOLEAN,
        cancelledAt : Int \cup {None}, confirmedBy : Challenge \cup {None}]

(* What is signed: who must act, on what, and until when.                  *)
Envelope == [id : Command, device : Agent, issuedAt : Int, expiresAt : Int]

Call == [phase : {"idle", "checking", "creating", "cancelling"},
         action : Actions, target : Agent, helper : Agent \cup {None},
         confirmedBy : Challenge \cup {None}, found : Command \cup {None}]

PollState == [phase : {"idle", "busy"}, agent : Agent,
              due : SUBSET Command, signed : SUBSET Envelope]

Report == [id : Command, device : Agent, succeeded : BOOLEAN]

Destructive(action) == action = "restart"

(* The machine a command is addressed to: the helper for a wake, else the  *)
(* target itself.                                                          *)
Addressee(row) == IF row.helper = None THEN row.target ELSE row.helper

AnyAgent == CHOOSE a \in Agent : TRUE

NoRow == [state |-> "none", action |-> "lock", target |-> AnyAgent, helper |-> None,
          createdAt |-> 0, executeAt |-> 0, expiresAt |-> 0, delivered |-> FALSE,
          cancelledAt |-> None, confirmedBy |-> None]
NoCall == [phase |-> "idle", action |-> "lock", target |-> AnyAgent, helper |-> None,
           confirmedBy |-> None, found |-> None]
NoPoll == [phase |-> "idle", agent |-> AnyAgent, due |-> {}, signed |-> {}]

ServiceInit ==
  /\ now = 0
  /\ rows = [c \in Command |-> NoRow]
  /\ spent = {}
  /\ revoked = {}
  /\ online = {}
  /\ calls = [k \in Caller |-> NoCall]
  /\ polls = [p \in Poll |-> NoPoll]
  /\ reports = {}
-----------------------------------------------------------------------------
(* requestCommand.                                                         *)

(* The agents a wake of t may be handed to.                                *)
HelpersFor(t) == (WakeHelpers \cap online) \ (revoked \cup {t})

(* Variant: the consumed challenge is not marked.                          *)
StepUpWithoutClaim(action, ch) ==
  IF Destructive(action) THEN ch \in Challenge \ spent /\ UNCHANGED spent
                         ELSE ch = None /\ UNCHANGED spent

(* verifyStepUp: a destructive command consumes a challenge nobody has     *)
(* consumed (challenges.consume claims it conditionally); the others carry *)
(* none.                                                                   *)
StepUp(action, ch) ==
  IF Destructive(action)
  THEN ch \in Challenge \ spent /\ spent' = spent \cup {ch}
  ELSE ch = None /\ UNCHANGED spent

(* Bound: a request is made only while a row is left for it.               *)
Room == now <= LastRequest /\ \E c \in Command : rows[c].state = "none"

(* Everything up to the look for a pending command: the target is known    *)
(* and not revoked, a destructive command is confirmed, and the machine is *)
(* on, or off with a helper to wake it.                                    *)
Request(k, action, t, h, ch) ==
  /\ calls[k].phase = "idle"
  /\ Room
  /\ t \notin revoked
  /\ StepUp(action, ch)
  /\ IF action = "wake" THEN t \notin online /\ h \in HelpersFor(t)
                        ELSE t \in online /\ h = None
  /\ calls' = [calls EXCEPT ![k] =
         [phase |-> "checking", action |-> action, target |-> t, helper |-> h,
          confirmedBy |-> ch, found |-> None]]
  /\ UNCHANGED <<now, rows, revoked, online, polls, reports>>

(* The confirmation is consumed before the machine is found to be off.     *)
RequestRefusedOffline(t, ch) ==
  /\ t \notin revoked \cup online
  /\ Room
  /\ StepUp("restart", ch)
  /\ UNCHANGED <<now, rows, revoked, online, calls, polls, reports>>

(* pendingCommand                                                          *)
PendingOn(t) == {c \in Command : /\ rows[c].target = t
                                 /\ rows[c].state \in Outstanding
                                 /\ rows[c].expiresAt > now}

CheckPending(k) ==
  /\ calls[k].phase = "checking"
  /\ calls' = [calls EXCEPT ![k] =
         IF PendingOn(calls[k].target) = {} THEN [calls[k] EXCEPT !.phase = "creating"]
                                            ELSE NoCall]
  /\ UNCHANGED <<now, rows, spent, revoked, online, polls, reports>>

NewRow(call) ==
  LET wait == IF Destructive(call.action) THEN Countdown ELSE 0
  IN [state |-> IF Destructive(call.action) THEN "countdown" ELSE "pending",
      action |-> call.action, target |-> call.target, helper |-> call.helper,
      createdAt |-> now, executeAt |-> now + wait, expiresAt |-> now + Ttl + wait,
      delivered |-> FALSE, cancelledAt |-> None, confirmedBy |-> call.confirmedBy]

Create(k, c) ==
  /\ calls[k].phase = "creating"
  /\ now <= LastRequest
  /\ rows[c].state = "none"
  /\ rows' = [rows EXCEPT ![c] = NewRow(calls[k])]
  /\ calls' = [calls EXCEPT ![k] = NoCall]
  /\ UNCHANGED <<now, spent, revoked, online, polls, reports>>
-----------------------------------------------------------------------------
(* cancelPending.  The read takes the newest outstanding command of the    *)
(* machine and refuses if it was sent; the write that follows does not ask *)
(* again.                                                                  *)

OutstandingOn(t) == {c \in Command : rows[c].target = t /\ rows[c].state \in Outstanding}

Newest(C) == {c \in C : \A d \in C : rows[d].createdAt <= rows[c].createdAt}

FindCancellable(k, t, c) ==
  /\ calls[k].phase = "idle"
  /\ t \notin revoked
  /\ c \in Newest(OutstandingOn(t))
  /\ rows[c].state # "sent"
  /\ calls' = [calls EXCEPT ![k] =
         [NoCall EXCEPT !.phase = "cancelling", !.target = t, !.found = c]]
  /\ UNCHANGED <<now, rows, spent, revoked, online, polls, reports>>

(* Variant: the time of the cancel is written and the state is not.        *)
CancelledRowDateOnly(row) == [row EXCEPT !.cancelledAt = now]

CancelledRow(row) == [row EXCEPT !.state = "cancelled", !.cancelledAt = now]

Cancel(k) ==
  /\ calls[k].phase = "cancelling"
  /\ rows' = [rows EXCEPT ![calls[k].found] = CancelledRow(rows[calls[k].found])]
  /\ calls' = [calls EXCEPT ![k] = NoCall]
  /\ UNCHANGED <<now, spent, revoked, online, polls, reports>>
-----------------------------------------------------------------------------
(* collectFor.                                                             *)

(* Variant: only what nobody has collected expires.                        *)
SweptWaitingOnly == [c \in Command |->
                       IF rows[c].state \in Waiting /\ rows[c].expiresAt < now
                       THEN [rows[c] EXCEPT !.state = "expired"]
                       ELSE rows[c]]

(* updateMany: every overdue command of every Space expires.               *)
Swept == [c \in Command |->
            IF rows[c].state \in Outstanding /\ rows[c].expiresAt < now
            THEN [rows[c] EXCEPT !.state = "expired"]
            ELSE rows[c]]

(* Variant: the target collects the wakes meant for its helper too.        *)
AddressedToEither(row, a) == row.helper = a \/ row.target = a

(* A wake goes to its helper; everything else to the target itself.        *)
AddressedTo(row, a) ==
  \/ row.helper = a
  \/ row.target = a /\ row.helper = None

(* Variant: commands are handed over while their countdown runs.           *)
DueForEarly(a) == {c \in Command : /\ rows[c].state \in Waiting
                                   /\ rows[c].expiresAt > now
                                   /\ AddressedTo(rows[c], a)}

DueFor(a) == {c \in Command : /\ rows[c].state \in Waiting
                              /\ rows[c].expiresAt > now
                              /\ AddressedTo(rows[c], a)
                              /\ rows[c].executeAt <= now}

(* The sweep and the find, for a poll whose signature the guard accepted.  *)
BeginCollect(p, a) ==
  /\ polls[p].phase = "idle"
  /\ a \notin revoked
  /\ rows' = Swept
  /\ polls' = [polls EXCEPT ![p] =
         [phase |-> "busy", agent |-> a, due |-> DueFor(a), signed |-> {}]]
  /\ UNCHANGED <<now, spent, revoked, online, calls, reports>>

Sign(c, a) == [id |-> c, device |-> a, issuedAt |-> rows[c].createdAt,
               expiresAt |-> rows[c].expiresAt]

(* Variant: the claim does not ask for the state again.                    *)
ClaimableAlways(c) == TRUE

(* The conditional update that makes a command this poll's.                *)
Claimable(c) == rows[c].state \in Waiting

(* Variant: the delivery is dated and the command left where polls find it. *)
ClaimedRowStillWaiting(row) == [row EXCEPT !.delivered = TRUE]

ClaimedRow(row) == [row EXCEPT !.state = "sent", !.delivered = TRUE]

Claim(p, c) ==
  /\ polls[p].phase = "busy"
  /\ c \in polls[p].due
  /\ IF Claimable(c)
     THEN /\ rows' = [rows EXCEPT ![c] = ClaimedRow(rows[c])]
          /\ polls' = [polls EXCEPT ![p].due = polls[p].due \ {c},
                                    ![p].signed = polls[p].signed \cup
                                                  {Sign(c, polls[p].agent)}]
     ELSE /\ polls' = [polls EXCEPT ![p].due = polls[p].due \ {c}]
          /\ UNCHANGED rows
  /\ UNCHANGED <<now, spent, revoked, online, calls, reports>>

(* Every due command has been claimed or found taken: the answer leaves.   *)
Answered(p) == polls[p].phase = "busy" /\ polls[p].due = {}
-----------------------------------------------------------------------------
(* recordResult, whatever state the row is in by then.                     *)

(* Variant: the row is acknowledged, and the outcome is not told.          *)
ResolveAcknowledged(c, succeeded) == rows' = [rows EXCEPT ![c].state = "acknowledged"]

(* Variant: any report counts as a success.                                *)
ResolveSucceeded(c, succeeded) == rows' = [rows EXCEPT ![c].state = "succeeded"]

Resolve(c, succeeded) ==
  rows' = [rows EXCEPT ![c].state = IF succeeded THEN "succeeded" ELSE "failed"]

RecordResult(m) ==
  /\ m \in reports
  /\ reports' = reports \ {m}
  /\ IF /\ m.device \notin revoked
        /\ m.device \in {rows[m.id].target, rows[m.id].helper}
     THEN Resolve(m.id, m.succeeded)
     ELSE UNCHANGED rows
  /\ UNCHANGED <<now, spent, revoked, online, calls, polls>>

(* The owner revokes the device of a computer.                             *)
Revoke(a) ==
  /\ a \in Revocable \ revoked
  /\ revoked' = revoked \cup {a}
  /\ UNCHANGED <<now, rows, spent, online, calls, polls, reports>>

(* The last heartbeat of a has grown older than 90 seconds.                *)
GoStale(a) ==
  /\ a \in online
  /\ online' = online \ {a}
  /\ UNCHANGED <<now, rows, spent, revoked, calls, polls, reports>>

Horizon == LastRequest + Countdown + Ttl + 1

Tick ==
  /\ now < Horizon
  /\ now' = now + 1
  /\ UNCHANGED <<rows, spent, revoked, online, calls, polls, reports>>
=============================================================================
