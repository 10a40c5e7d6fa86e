------------------------- MODULE AccountChallenges -------------------------
(***************************************************************************)
(* Registration, sign-in and the six-digit codes of one account            *)
(* (apps/api/src/auth/auth.service.ts, challenge.service.ts,               *)
(* common/account-guard.service.ts), the revocation of a device            *)
(* (devices/devices.service.ts) and the trust that an enrolment gives one  *)
(* (agents/agents.service.ts).                                             *)
(*                                                                         *)
(* Every handler is a sequence of statements on the database; `calls`      *)
(* holds the requests in progress with what they have read.  A code is     *)
(* known by its number: the challenge's first code is 0, and each resend   *)
(* replaces it by the next.  Refusals that change nothing (the limits per  *)
(* address, an expired code, the cooldown of a resend, the decoy for an    *)
(* address that is taken) are requests that do not take place.             *)
(***************************************************************************)
EXTENDS Integers, FiniteSets

CONSTANTS
  Device,       \* installations that sign in to the account
  Challenge,    \* identities for rows of Challenge
  Call,         \* requests the control plane can be serving at once
  MaxAttempts,  \* OTP_MAX_ATTEMPTS
  MaxResends,   \* OTP_MAX_RESENDS
  Threshold,    \* AccountGuardService.THRESHOLD
  None

ASSUME ChallengeConstants ==
  /\ MaxAttempts \in Nat \ {0} /\ MaxResends \in Nat /\ Threshold \in Nat \ {0}
  /\ IsFiniteSet(Call) /\ Call # {}
  /\ None \notin Device \cup Challenge \cup Call

VARIABLES
  account,     \* "none", "unverified" or "verified"
  guard,       \* the failures counted against the account, and whether it cools off
  devices,     \* devices[d]: whether d is known, and trusted
  revoked,     \* the devices that were removed from the account
  challenges,  \* challenges[c]: the row of challenge c
  calls,       \* calls[k]: a request in progress
  accepted,    \* history: how often each challenge was accepted
  sessions,    \* history: the devices a session was started for
  vouched      \* history: the device whose session asked for d's enrolment

vars == <<account, guard, devices, revoked, challenges, calls, accepted, sessions, vouched>>

rowVars == <<account, guard, devices, revoked, challenges>>
-----------------------------------------------------------------------------
Purpose == {"email_verification", "device_verification"}

Row == [state : {"none", "live", "consumed"}, purpose : Purpose, device : Device \cup {None},
        attempts : Nat, resends : Nat, issuer : Call \cup {None}]

NoRow == [state |-> "none", purpose |-> "email_verification", device |-> None,
          attempts |-> 0, resends |-> 0, issuer |-> None]

CallState ==
  [phase : {"idle", "registering", "failing", "counting", "clearing", "admitting", "starting",
            "retiring", "issuing", "missing", "burning", "claiming", "verifying", "trusting",
            "resending", "silencing"},
   device : Device \cup {None}, challenge : Challenge \cup {None}, failures : Nat]

NoCall == [phase |-> "idle", device |-> None, challenge |-> None, failures |-> 0]

Init ==
  /\ account = "none"
  /\ guard = [failures |-> 0, locked |-> FALSE]
  /\ devices = [d \in Device |-> "unknown"]
  /\ revoked = {}
  /\ challenges = [c \in Challenge |-> NoRow]
  /\ calls = [k \in Call |-> NoCall]
  /\ accepted = [c \in Challenge |-> 0]
  /\ sessions = {}
  /\ vouched = [d \in Device |-> None]

In(k, phase) == calls[k].phase = phase

Goes(k, phase) == calls' = [calls EXCEPT ![k].phase = phase]

Ends(k) == calls' = [calls EXCEPT ![k] = NoCall]

Live(c) == challenges[c].state = "live"

Consumed(cs) ==
  [c \in Challenge |-> IF c \in cs THEN [challenges[c] EXCEPT !.state = "consumed"]
                                   ELSE challenges[c]]
-----------------------------------------------------------------------------
(* ChallengeService.issue, for the purpose of the request: a device's      *)
(* sign-in, or the account's address.  What is live for the purpose is     *)
(* retired, then the new challenge is created and its code mailed.         *)

PurposeOf(k) == IF calls[k].device = None THEN "email_verification" ELSE "device_verification"

(* Variant: the challenges that were there stay good.                      *)
RetireNone(k) == {}

ToRetire(k) == {c \in Challenge : Live(c) /\ challenges[c].purpose = PurposeOf(k)}

Retire(k) ==
  /\ In(k, "retiring")
  /\ challenges' = Consumed(ToRetire(k))
  /\ Goes(k, "issuing")
  /\ UNCHANGED <<account, guard, devices, revoked, accepted, sessions, vouched>>

Issue(k, c) ==
  /\ In(k, "issuing")
  /\ challenges[c].state = "none"
  /\ challenges' = [challenges EXCEPT ![c] =
       [state |-> "live", purpose |-> PurposeOf(k), device |-> calls[k].device,
        attempts |-> 0, resends |-> 0, issuer |-> k]]
  /\ Ends(k)
  /\ UNCHANGED <<account, guard, devices, revoked, accepted, sessions, vouched>>

(* The request dies on the way.  Bound: also what happens when no identity *)
(* is left for a challenge.                                                *)
Fail(k) ==
  /\ ~In(k, "idle")
  /\ Ends(k)
  /\ UNCHANGED <<rowVars, accepted, sessions, vouched>>
-----------------------------------------------------------------------------
(* register: an address that is not confirmed yet gets a code again.       *)
Register(k) ==
  /\ In(k, "idle")
  /\ account # "verified"
  /\ Goes(k, IF account = "none" THEN "registering" ELSE "retiring")
  /\ UNCHANGED <<rowVars, accepted, sessions, vouched>>

(* The address is unique: of two registrations that found none one fails.  *)
CreateAccount(k) ==
  /\ In(k, "registering")
  /\ account = "none"
  /\ account' = "unverified"
  /\ Goes(k, "retiring")
  /\ UNCHANGED <<guard, devices, revoked, challenges, accepted, sessions, vouched>>
-----------------------------------------------------------------------------
(* login                                                                   *)

(* Bound: failures above the threshold change the length of the pause only *)
(* and are counted as the threshold.                                       *)
OneMore(failures) == IF failures < Threshold THEN failures + 1 ELSE Threshold

LoginWrong(k) ==
  /\ In(k, "idle")
  /\ account # "none" /\ ~guard.locked
  /\ Goes(k, "failing")
  /\ UNCHANGED <<rowVars, accepted, sessions, vouched>>

(* recordFailure: the count is read, and an hour later it starts again.    *)
ReadFailures(k) ==
  /\ In(k, "failing")
  /\ \E failures \in {1, OneMore(guard.failures)} :
       calls' = [calls EXCEPT ![k].phase = "counting", ![k].failures = failures]
  /\ UNCHANGED <<rowVars, accepted, sessions, vouched>>

WriteFailures(k) ==
  /\ In(k, "counting")
  /\ guard' = [failures |-> calls[k].failures, locked |-> calls[k].failures >= Threshold]
  /\ Ends(k)
  /\ UNCHANGED <<account, devices, revoked, challenges, accepted, sessions, vouched>>

(* The pause is over.                                                      *)
Unlock ==
  /\ guard.locked
  /\ guard' = [guard EXCEPT !.locked = FALSE]
  /\ UNCHANGED <<account, devices, revoked, challenges, calls, accepted, sessions, vouched>>

(* Who has not confirmed the address is sent a code for that first.        *)
NeedsAddress == account = "unverified"

LoginRight(k, d) ==
  /\ In(k, "idle")
  /\ account # "none" /\ ~guard.locked
  /\ calls' = [calls EXCEPT ![k] =
         IF NeedsAddress THEN [NoCall EXCEPT !.phase = "retiring"]
                         ELSE [NoCall EXCEPT !.phase = "clearing", !.device = d]]
  /\ UNCHANGED <<rowVars, accepted, sessions, vouched>>

(* recordSuccess                                                           *)
ClearFailures(k) ==
  /\ In(k, "clearing")
  /\ guard' = [failures |-> 0, locked |-> FALSE]
  /\ Goes(k, "admitting")
  /\ UNCHANGED <<account, devices, revoked, challenges, accepted, sessions, vouched>>

(* Variant: a device is known again once it asks.                          *)
TurnedAwayNever(d) == FALSE

TurnedAway(d) == d \in revoked

(* upsertDevice, and what follows from the row: a removed device is turned *)
(* away, a trusted one gets its session, any other needs a code.           *)
Admit(k) ==
  LET d == calls[k].device
  IN /\ In(k, "admitting")
     /\ devices' = [devices EXCEPT ![d] = IF devices[d] = "unknown" THEN "known" ELSE devices[d]]
     /\ IF TurnedAway(d) THEN Ends(k)
        ELSE Goes(k, IF devices[d] = "trusted" THEN "starting" ELSE "retiring")
     /\ UNCHANGED <<account, guard, revoked, challenges, accepted, sessions, vouched>>

(* sessions.startSession (module RefreshTokens).                           *)
StartSession(k) ==
  /\ In(k, "starting")
  /\ sessions' = sessions \cup {calls[k].device}
  /\ Ends(k)
  /\ UNCHANGED <<rowVars, accepted, vouched>>
-----------------------------------------------------------------------------
(* ChallengeService.consume                                                *)

(* Variant: attempts are counted, and not looked at.                       *)
GuessableAlways(c) == Live(c)

Guessable(c) == Live(c) /\ challenges[c].attempts < MaxAttempts

(* A code is compared with the one the row had when it was read.           *)
Submit(k, c, code) ==
  /\ In(k, "idle")
  /\ Guessable(c)
  /\ calls' = [calls EXCEPT ![k] =
         [NoCall EXCEPT !.phase = IF code = challenges[c].resends THEN "claiming" ELSE "missing",
                        !.challenge = c]]
  /\ UNCHANGED <<rowVars, accepted, sessions, vouched>>

(* The last attempt ends the challenge.                                    *)
Miss(k) ==
  LET c == calls[k].challenge
  IN /\ In(k, "missing")
     /\ challenges' = [challenges EXCEPT ![c].attempts = challenges[c].attempts + 1]
     /\ IF challenges[c].attempts + 1 < MaxAttempts THEN Ends(k) ELSE Goes(k, "burning")
     /\ UNCHANGED <<account, guard, devices, revoked, accepted, sessions, vouched>>

Burn(k) ==
  /\ In(k, "burning")
  /\ challenges' = Consumed({calls[k].challenge})
  /\ Ends(k)
  /\ UNCHANGED <<account, guard, devices, revoked, accepted, sessions, vouched>>

(* Variant: the claim does not ask whether the challenge is still live.    *)
ClaimableAlways(c) == TRUE

(* The condition of the claim.                                             *)
Claimable(c) == Live(c)

(* Variant: any code that is good completes a device.                      *)
PurposeUnasked(c) == "trusting"

(* A code is good for the purpose it was sent for.                         *)
GoodFor(c) == IF challenges[c].purpose = "email_verification" THEN "verifying" ELSE "trusting"

Claim(k) ==
  LET c == calls[k].challenge
  IN /\ In(k, "claiming")
     /\ IF Claimable(c)
        THEN /\ challenges' = Consumed({c})
             /\ accepted' = [accepted EXCEPT ![c] = accepted[c] + 1]
             /\ calls' = [calls EXCEPT ![k].phase = GoodFor(c),
                                       ![k].device = challenges[c].device]
        ELSE UNCHANGED <<challenges, accepted>> /\ Ends(k)
     /\ UNCHANGED <<account, guard, devices, revoked, sessions, vouched>>

(* verifyEmail                                                             *)
VerifyEmail(k) ==
  /\ In(k, "verifying")
  /\ account' = "verified"
  /\ Ends(k)
  /\ UNCHANGED <<guard, devices, revoked, challenges, accepted, sessions, vouched>>

(* verifyDevice: the device is the one on the challenge.                   *)
VerifyDevice(k, trust) ==
  /\ In(k, "trusting")
  /\ devices' = [devices EXCEPT ![calls[k].device] = IF trust THEN "trusted" ELSE "known"]
  /\ Goes(k, "starting")
  /\ UNCHANGED <<account, guard, revoked, challenges, accepted, sessions, vouched>>
-----------------------------------------------------------------------------
(* resend: a new code, and a new budget of attempts for it.                *)
AskResend(k, c) ==
  /\ In(k, "idle")
  /\ Live(c) /\ challenges[c].resends < MaxResends
  /\ calls' = [calls EXCEPT ![k] = [NoCall EXCEPT !.phase = "resending", !.challenge = c]]
  /\ UNCHANGED <<rowVars, accepted, sessions, vouched>>

Resend(k) ==
  LET c == calls[k].challenge
  IN /\ In(k, "resending")
     /\ challenges' = [challenges EXCEPT ![c].resends = challenges[c].resends + 1,
                                         ![c].attempts = 0]
     /\ Ends(k)
     /\ UNCHANGED <<account, guard, devices, revoked, accepted, sessions, vouched>>
-----------------------------------------------------------------------------
(* DevicesService.revoke.  Its tokens are RefreshTokens' affair and its    *)
(* remote sessions RemoteService's; here it loses its trust, and then the  *)
(* codes that were sent for it.                                            *)
Revoke(k, d) ==
  /\ In(k, "idle")
  /\ devices[d] # "unknown" /\ d \notin revoked
  /\ revoked' = revoked \cup {d}
  /\ devices' = [devices EXCEPT ![d] = "known"]
  /\ calls' = [calls EXCEPT ![k] = [NoCall EXCEPT !.phase = "silencing", !.device = d]]
  /\ UNCHANGED <<account, guard, challenges, accepted, sessions, vouched>>

Silence(k) ==
  /\ In(k, "silencing")
  /\ challenges' = Consumed({c \in Challenge : Live(c) /\ challenges[c].device = calls[k].device})
  /\ Ends(k)
  /\ UNCHANGED <<account, guard, devices, revoked, accepted, sessions, vouched>>
-----------------------------------------------------------------------------
(* AgentsService.enroll.  Its token and its rows are AgentEnrolment's      *)
(* affair; here it trusts a device without a code.  Whoever is signed in   *)
(* asks for the token, which may be redeemed when they no longer are.      *)

(* Variant: the token is not asked for.                                    *)
VouchesUnasked(by) == TRUE

Vouches(by) == by \in sessions

(* upsertAgentDevice: only a device that is not known yet is trusted.  One *)
(* that is known keeps the trust it has, one that was removed is refused.  *)
Enrol(d, by) ==
  /\ Vouches(by)
  /\ devices[d] = "unknown"
  /\ devices' = [devices EXCEPT ![d] = "trusted"]
  /\ vouched' = [vouched EXCEPT ![d] = by]
  /\ UNCHANGED <<account, guard, revoked, challenges, calls, accepted, sessions>>
-----------------------------------------------------------------------------
(* One code more than is ever sent: a guess.                               *)
Code == 0 .. (MaxResends + Cardinality(Call))

Login(k) ==
  \/ LoginWrong(k)
  \/ ReadFailures(k)
  \/ WriteFailures(k)
  \/ \E d \in Device : LoginRight(k, d)
  \/ ClearFailures(k)
  \/ Admit(k)
  \/ StartSession(k)

Verify(k) ==
  \/ \E c \in Challenge, code \in Code : Submit(k, c, code)
  \/ Miss(k)
  \/ Burn(k)
  \/ Claim(k)
  \/ VerifyEmail(k)
  \/ \E trust \in BOOLEAN : VerifyDevice(k, trust)

SendCode(k) ==
  \/ Retire(k)
  \/ \E c \in Challenge : Issue(k, c)
  \/ \E c \in Challenge : AskResend(k, c)
  \/ Resend(k)

Next ==
  \/ \E k \in Call :
       \/ Register(k) \/ CreateAccount(k)
       \/ Login(k) \/ Verify(k) \/ SendCode(k)
       \/ \E d \in Device : Revoke(k, d)
       \/ Silence(k)
       \/ Fail(k)
  \/ \E d, by \in Device : Enrol(d, by)
  \/ Unlock

Spec == Init /\ [][Next]_vars
-----------------------------------------------------------------------------
(* Types of all variables (schema.prisma User, Device, Challenge and       *)
(* AccountGuard).                                                          *)
TypeOK ==
  /\ account \in {"none", "unverified", "verified"}
  /\ guard \in [failures : 0 .. Threshold, locked : BOOLEAN]
  /\ devices \in [Device -> {"unknown", "known", "trusted"}]
  /\ revoked \subseteq Device
  /\ challenges \in [Challenge -> Row]
  /\ calls \in [Call -> CallState]
  /\ accepted \in [Challenge -> Nat]
  /\ sessions \subseteq Device
  /\ vouched \in [Device -> Device \cup {None}]

(* "It works exactly once": of requests that read the same live code, at   *)
(* most one is let in, and none once the challenge was superseded, burned  *)
(* or silenced (the claim of consume), as one-time codes promise.          *)
CodeState(c) ==
  CASE accepted[c] > 0 -> "used"
    [] accepted[c] = 0 /\ challenges[c].state = "none" -> "absent"
    [] accepted[c] = 0 /\ challenges[c].state = "live" -> "offered"
    [] accepted[c] = 0 /\ challenges[c].state = "consumed" -> "withdrawn"

OneTime == INSTANCE OneTimeCode WITH
  Code <- Challenge, state <- [c \in Challenge |-> CodeState(c)], uses <- accepted

CodesWorkOnce == OneTime!Spec

(* "Attempts are capped": guesses that arrive together may all find an     *)
(* attempt left, and so may resends, but only as many as are served at     *)
(* once (consume and resend, whose checks precede their increments).       *)
BudgetsHold ==
  \A c \in Challenge :
    /\ challenges[c].attempts < MaxAttempts + Cardinality(Call)
    /\ challenges[c].resends < MaxResends + Cardinality(Call)

(* "Only one live challenge per (user, purpose)", but for requests that    *)
(* were issued at the same time: whoever issues one after another leaves   *)
(* one (issue retires before it creates).                                  *)
RivalsOnly ==
  \A b, c \in Challenge :
    b # c /\ Live(b) /\ Live(c) /\ challenges[b].purpose = challenges[c].purpose
      => challenges[b].issuer # challenges[c].issuer

(* A code was sent for this very device, and accepted.                     *)
GaveItsCode(d) == \E c \in Challenge : accepted[c] > 0 /\ challenges[c].device = d

(* The devices that are trusted or have had a session.                     *)
Admitted == sessions \cup {d \in Device : devices[d] = "trusted"}

(* Nobody is admitted before a code for the address was accepted; and all  *)
(* trust goes back to a code for a device.  A device has given its own, or *)
(* an enrolment vouched for it that somebody signed in asked for - and not *)
(* in a circle: of any devices that are admitted, one has given its code   *)
(* or was vouched for from outside them (login's ways through verifyEmail, *)
(* verifyDevice and enroll).                                               *)
ProvedTwice ==
  /\ Admitted # {} =>
       /\ account = "verified"
       /\ \E c \in Challenge : accepted[c] > 0 /\ challenges[c].purpose = "email_verification"
  /\ \A ds \in SUBSET Admitted :
       ds # {} => \E d \in ds : GaveItsCode(d) \/ vouched[d] \in sessions \ ds

(* A removed device that has no code outstanding and no request past its   *)
(* admission, neither for a code nor with one.                             *)
Out(d) ==
  /\ d \in revoked
  /\ \A c \in Challenge : challenges[c].device = d => ~Live(c)
  /\ \A k \in Call :
       /\ In(k, "starting") \/ In(k, "trusting") \/ In(k, "retiring") \/ In(k, "issuing")
            => calls[k].device # d

(* "A code already in someone's inbox cannot be used to bring it back":    *)
(* a removed device stays out (login's look at revokedAt and the codes     *)
(* revoke silences).                                                       *)
RevokedStaysOut ==
  [][\A d \in Device : Out(d) => /\ Out(d)'
                                 /\ devices'[d] = devices[d]]_vars
=============================================================================
