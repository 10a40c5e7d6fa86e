--------------------------- MODULE DeviceSessions ---------------------------
(***************************************************************************)
(* Signed-in sessions end to end: the control plane (RefreshTokens), the   *)
(* desktop clients (apps/desktop/frontend/src/lib/api.ts) and the          *)
(* connection between them, on which an answer may be lost or come after   *)
(* the client has moved on.                                                *)
(*                                                                         *)
(* A client keeps its session in memory.  It coalesces its refreshes into  *)
(* one request, and drops the session when that fails.  The devices of     *)
(* Copied are the others: a token of theirs may be presented again at any  *)
(* time, by a retry, a restored backup or whoever has a copy.              *)
(***************************************************************************)
EXTENDS RefreshTokens

CONSTANTS
  Copied,
  Leavers  \* bound: the devices that may sign out

ASSUME ClientConstants == Copied \subseteq Device /\ Leavers \subseteq Device

VARIABLES
  signIn,      \* signIn[d]: a sign-in of d in progress
  held,        \* held[d]: the refresh token of d's session
  refreshing,  \* refreshing[d]: the exchange d waits for (refreshInFlight)
  leaving,     \* leaving[d]: the token d is signing out with
  left         \* history: the devices that have begun to sign out

clientVars == <<signIn, held, refreshing, leaving, left>>

vars == <<serverVars, clientVars>>
-----------------------------------------------------------------------------
SignIn == [phase : {"none", "checked", "answered"}, token : Token \cup {None}]
NoSignIn == [phase |-> "none", token |-> None]

Init ==
  /\ ServerInit
  /\ signIn = [d \in Device |-> NoSignIn]
  /\ held = [d \in Device |-> None]
  /\ refreshing = [d \in Device |-> None]
  /\ leaving = [d \in Device |-> None]
  /\ left = {}
-----------------------------------------------------------------------------
(* Signing in, with a password on a trusted device or with an emailed      *)
(* code: the check, the new session, and its arrival.  Once the device is  *)
(* revoked a password is refused, but a code is good until the revocation  *)
(* has consumed it.                                                        *)

BeginSignIn(d) ==
  /\ held[d] = None /\ signIn[d].phase = "none"
  /\ revoking[d] # "challenges"
  /\ signIn' = [signIn EXCEPT ![d] = [phase |-> "checked", token |-> None]]
  /\ UNCHANGED <<held, refreshing, leaving, left>>
  /\ UNCHANGED serverVars

ServeSignIn(d, t) ==
  /\ signIn[d].phase = "checked"
  /\ StartSession(d, t)
  /\ signIn' = [signIn EXCEPT ![d] = [phase |-> "answered", token |-> t]]
  /\ UNCHANGED <<held, refreshing, leaving, left>>

(* The answer arrives and is installed, or is lost.                        *)
FinishSignIn(d) ==
  /\ signIn[d].phase = "answered"
  /\ signIn' = [signIn EXCEPT ![d] = NoSignIn]
  /\ \/ held' = [held EXCEPT ![d] = signIn[d].token]
     \/ UNCHANGED held
  /\ UNCHANGED <<refreshing, leaving, left>>
  /\ UNCHANGED serverVars
-----------------------------------------------------------------------------
(* refresh.                                                                *)

(* Variant: every request that finds the session expired refreshes it.     *)
MayRefreshAlways(d) == held[d] # None

(* refreshInFlight                                                         *)
MayRefresh(d) == held[d] # None /\ refreshing[d] = None

BeginRefresh(d, r) ==
  /\ MayRefresh(d)
  /\ Present(r, held[d])
  /\ refreshing' = [refreshing EXCEPT ![d] = r]
  /\ UNCHANGED <<signIn, held, leaving, left>>

(* The new tokens are installed in whatever session there is by now; a     *)
(* refusal signs the client out.                                           *)
FinishRefresh(d) ==
  /\ refreshing[d] # None
  /\ Conclude(refreshing[d])
  /\ held' = [held EXCEPT ![d] = rotations[refreshing[d]].result]
  /\ refreshing' = [refreshing EXCEPT ![d] = None]
  /\ UNCHANGED <<signIn, leaving, left>>

(* The request fails on the way there or back, and the client signs out;   *)
(* the control plane may still work on it.                                 *)
FailRefresh(d) ==
  /\ refreshing[d] # None
  /\ held' = [held EXCEPT ![d] = None]
  /\ refreshing' = [refreshing EXCEPT ![d] = None]
  /\ UNCHANGED <<signIn, leaving, left>>
  /\ UNCHANGED serverVars

(* An answer nobody waits for.                                             *)
Unheard(r) ==
  /\ \A d \in Device : refreshing[d] # r
  /\ Conclude(r)
  /\ UNCHANGED clientVars

(* A token of a copied device turns up.                                    *)
PresentAgain(r, t) ==
  /\ tokens[t].issued
  /\ tokens[t].device \in Copied
  /\ Present(r, t)
  /\ UNCHANGED clientVars
-----------------------------------------------------------------------------
(* logout.                                                                 *)

BeginLogout(d) ==
  /\ d \in Leavers
  /\ held[d] # None /\ leaving[d] = None
  /\ leaving' = [leaving EXCEPT ![d] = held[d]]
  /\ left' = left \cup {d}
  /\ UNCHANGED <<signIn, held, refreshing>>
  /\ UNCHANGED serverVars

ServeLogout(d) ==
  /\ leaving[d] # None
  /\ RevokeByToken(leaving[d])
  /\ UNCHANGED clientVars

(* Served or not, the client forgets its session.                          *)
FinishLogout(d) ==
  /\ leaving[d] # None
  /\ held' = [held EXCEPT ![d] = None]
  /\ leaving' = [leaving EXCEPT ![d] = None]
  /\ UNCHANGED <<signIn, refreshing, left>>
  /\ UNCHANGED serverVars
-----------------------------------------------------------------------------
Client(d) ==
  \/ BeginSignIn(d)
  \/ \E t \in Token : ServeSignIn(d, t)
  \/ FinishSignIn(d)
  \/ \E r \in Rotation : BeginRefresh(d, r)
  \/ FinishRefresh(d)
  \/ FailRefresh(d)
  \/ BeginLogout(d)
  \/ ServeLogout(d)
  \/ FinishLogout(d)

Exchange(r) ==
  \/ \E t \in Token : PresentAgain(r, t)
  \/ ReadToken(r) /\ UNCHANGED clientVars
  \/ ClaimToken(r) /\ UNCHANGED clientVars
  \/ EndLineage(r) /\ UNCHANGED clientVars
  \/ \E s \in Token : IssueSuccessor(r, s) /\ UNCHANGED clientVars
  \/ Unheard(r)

Revocation(d) ==
  \/ RevokeDevice(d) /\ UNCHANGED clientVars
  \/ RevokeDeviceSessions(d) /\ UNCHANGED clientVars
  \/ ConsumeChallenges(d) /\ UNCHANGED clientVars

Next ==
  \/ \E d \in Device : Client(d)
  \/ \E r \in Rotation : Exchange(r)
  \/ \E d \in Device : Revocation(d)

Spec == Init /\ [][Next]_vars
-----------------------------------------------------------------------------
(* Types of all variables (schema.prisma RefreshToken; api.ts NetLinkApi). *)
TypeOK ==
  /\ tokens \in [Token -> Row]
  /\ rotations \in [Rotation -> RotationState]
  /\ revoking \in [Device -> RevocationSteps]
  /\ late \subseteq Token
  /\ signIn \in [Device -> SignIn]
  /\ held \in [Device -> Token \cup {None}]
  /\ refreshing \in [Device -> Rotation \cup {None}]
  /\ leaving \in [Device -> Token \cup {None}]
  /\ left \subseteq Device

(* A lineage is a baton, however exchanges of the same token overlap       *)
(* (rotate's conditional claim): one live token at most, none live twice,  *)
(* and once it is ended with no exchange about to issue in it, none ever   *)
(* again.                                                                  *)
LiveIn(f) == {t \in Token : Live(t) /\ tokens[t].family = f}

Issuing == {r \in Rotation : rotations[r].phase = "issuing"}

Lineage == INSTANCE SessionLineage WITH
  Lineage <- Token,
  good <- [f \in Token |-> LiveIn(f)],
  taken <- {tokens[rotations[r].token].family : r \in Issuing},
  begun <- {tokens[t].family : t \in {u \in Token : tokens[u].issued}},
  minted <- {t \in Token : tokens[t].issued}

LineagesAreBatons == Lineage!Spec

(* An exchange that was under way when the device was revoked may still    *)
(* create a token, after the revocation has ended the device's sessions;   *)
(* but that token is good for nothing: it is never exchanged (rotate's     *)
(* look at the device).                                                    *)
LateTokensAreDeadEnds == \A t \in late : ~tokens[t].rotated

(* A client that is not revoked and never signs out keeps its lineage,     *)
(* whatever other devices do, and whatever requests and answers are lost:  *)
(* refreshes of its own that come together are never taken for a reuse     *)
(* (refresh's coalescing, revokeFamily's and revokeDeviceSessions' scope). *)
HonestSessionsSurvive ==
  \A t \in Token :
    tokens[t].revoked =>
      \/ IsRevoked(tokens[t].device)
      \/ tokens[t].device \in left \cup Copied

(* Presenting a spent token kills its lineage: "the whole family is        *)
(* revoked and every session on that lineage dies" (rotate).  Stated once  *)
(* no exchange of the lineage is under way any more.                       *)
EndedLineagesStayDead ==
  \A s, t \in Token :
    /\ tokens[s].revoked
    /\ tokens[s].family = tokens[t].family
    /\ \A r \in Rotation :
         rotations[r].phase \in {"idle", "done"}
         \/ tokens[rotations[r].token].family # tokens[t].family
    => ~Live(t)
=============================================================================
