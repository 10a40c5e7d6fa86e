--------------------------- MODULE RefreshTokens ---------------------------
(***************************************************************************)
(* The control plane's half of signed-in sessions                          *)
(* (apps/api/src/auth/session.service.ts, devices.service.ts).             *)
(*                                                                         *)
(* A session is a lineage of refresh tokens: each is exchanged for the     *)
(* next.  rotate reads the presented token, claims it with a conditional   *)
(* update and creates its successor in a third statement; `rotations`      *)
(* holds the exchanges in progress, which go on when the client has given  *)
(* up on them.  Revoking a device is three statements too; `revoking` says *)
(* how far it has come.                                                    *)
(*                                                                         *)
(* A lineage is named by its first token.  When a token expires is left    *)
(* open: any token may have expired by the time it is read.                *)
(***************************************************************************)
EXTENDS Integers, FiniteSets

CONSTANTS
  Device,     \* the installations of NetLink on an account
  Token,      \* identities for rows of RefreshToken
  Rotation,   \* exchanges that can be in progress at once
  Revocable,  \* bound: the devices that may be revoked
  None

ASSUME TokenConstants ==
  /\ Device # {}
  /\ Revocable \subseteq Device
  /\ None \notin Device /\ None \notin Token /\ None \notin Rotation

VARIABLES
  tokens,     \* tokens[t]: the row of refresh token t
  rotations,  \* rotations[r]: an exchange in progress
  revoking,   \* revoking[d]: how far the revocation of device d has come
  late        \* history: the tokens created after their device was revoked

serverVars == <<tokens, rotations, revoking, late>>
-----------------------------------------------------------------------------
Row == [issued : BOOLEAN, device : Device, family : Token, rotated : BOOLEAN,
        revoked : BOOLEAN, replacedBy : Token \cup {None}]

RotationState ==
  [phase : {"idle", "sent", "claiming", "issuing", "ending", "done"},
   token : Token \cup {None}, result : Token \cup {None}]

RevocationSteps == {"none", "device", "tokens", "challenges"}

NoRotation == [phase |-> "idle", token |-> None, result |-> None]

NoRow(t) == [issued |-> FALSE, device |-> CHOOSE d \in Device : TRUE, family |-> t,
             rotated |-> FALSE, revoked |-> FALSE, replacedBy |-> None]

ServerInit ==
  /\ tokens = [t \in Token |-> NoRow(t)]
  /\ rotations = [r \in Rotation |-> NoRotation]
  /\ revoking = [d \in Device |-> "none"]
  /\ late = {}

(* device.revokedAt is set.                                                *)
IsRevoked(d) == revoking[d] # "none"

Spent(t) == tokens[t].rotated \/ tokens[t].revoked

Live(t) == tokens[t].issued /\ ~Spent(t)
-----------------------------------------------------------------------------
(* issue: a new row, in the lineage f.                                     *)
NewRow(d, f) == [issued |-> TRUE, device |-> d, family |-> f, rotated |-> FALSE,
                 revoked |-> FALSE, replacedBy |-> None]

Dated(t, d) == late' = IF IsRevoked(d) THEN late \cup {t} ELSE late

(* startSession, for a device that has been verified: a new lineage.       *)
StartSession(d, t) ==
  /\ ~tokens[t].issued
  /\ tokens' = [tokens EXCEPT ![t] = NewRow(d, t)]
  /\ Dated(t, d)
  /\ UNCHANGED <<rotations, revoking>>

(* revokeFamily                                                            *)
WithoutLineage(f) ==
  [t \in Token |-> IF tokens[t].issued /\ tokens[t].family = f
                   THEN [tokens[t] EXCEPT !.revoked = TRUE]
                   ELSE tokens[t]]
-----------------------------------------------------------------------------
(* rotate                                                                  *)

(* The token t is on its way to the control plane.                         *)
Present(r, t) ==
  /\ rotations[r].phase = "idle"
  /\ rotations' = [rotations EXCEPT ![r] =
         [phase |-> "sent", token |-> t, result |-> None]]
  /\ UNCHANGED <<tokens, revoking, late>>

(* Variant: what is over is given a name that nothing concludes.           *)
VerdictUnconcluded(t) == IF Spent(t) THEN {"revoked"} ELSE {"done", "claiming"}

(* Variant: the device of the token is not looked at.                      *)
VerdictOfAnyDevice(t) ==
  IF Spent(t) THEN {"ending"} ELSE {"done", "claiming"}

(* What the read decides: the lineage of a spent token is ended; a token   *)
(* that may have come to its expiry is refused; the lineage of a revoked   *)
(* device is ended; any other token is claimed.                            *)
Verdict(t) ==
  IF Spent(t) THEN {"ending"}
  ELSE {"done", IF IsRevoked(tokens[t].device) THEN "ending" ELSE "claiming"}

ReadToken(r) ==
  /\ rotations[r].phase = "sent"
  /\ \E verdict \in Verdict(rotations[r].token) :
       rotations' = [rotations EXCEPT ![r].phase = verdict]
  /\ UNCHANGED <<tokens, revoking, late>>

(* Variant: the claim does not ask again whether the token is spent.       *)
ClaimableAlways(t) == TRUE

(* The condition of the update that makes the exchange this request's.     *)
Claimable(t) == ~Spent(t)

ClaimToken(r) ==
  LET t == rotations[r].token
  IN /\ rotations[r].phase = "claiming"
     /\ IF Claimable(t)
        THEN /\ tokens' = [tokens EXCEPT ![t].rotated = TRUE]
             /\ rotations' = [rotations EXCEPT ![r].phase = "issuing"]
        ELSE /\ rotations' = [rotations EXCEPT ![r].phase = "ending"]
             /\ UNCHANGED tokens
     /\ UNCHANGED <<revoking, late>>

EndLineage(r) ==
  /\ rotations[r].phase = "ending"
  /\ tokens' = WithoutLineage(tokens[rotations[r].token].family)
  /\ rotations' = [rotations EXCEPT ![r].phase = "done"]
  /\ UNCHANGED <<revoking, late>>

(* The successor is created and the old row made to point at it.           *)
IssueSuccessor(r, s) ==
  LET t == rotations[r].token
  IN /\ rotations[r].phase = "issuing"
     /\ ~tokens[s].issued
     /\ tokens' = [tokens EXCEPT ![s] = NewRow(tokens[t].device, tokens[t].family),
                                 ![t].replacedBy = s]
     /\ rotations' = [rotations EXCEPT ![r].phase = "done", ![r].result = s]
     /\ Dated(s, tokens[t].device)
     /\ UNCHANGED revoking

(* The exchange has been answered, whoever listens.                        *)
Conclude(r) ==
  /\ rotations[r].phase = "done"
  /\ rotations' = [rotations EXCEPT ![r] = NoRotation]
  /\ UNCHANGED <<tokens, revoking, late>>
-----------------------------------------------------------------------------
(* revokeByToken                                                           *)
RevokeByToken(t) ==
  /\ tokens' = WithoutLineage(tokens[t].family)
  /\ UNCHANGED <<rotations, revoking, late>>

(* devices.revoke: the device row, then the device's tokens, and last the  *)
(* codes that could still sign it in.                                      *)
RevokeDevice(d) ==
  /\ d \in Revocable
  /\ revoking[d] = "none"
  /\ revoking' = [revoking EXCEPT ![d] = "device"]
  /\ UNCHANGED <<tokens, rotations, late>>

WithoutDevice(d) ==
  [t \in Token |-> IF tokens[t].issued /\ tokens[t].device = d
                   THEN [tokens[t] EXCEPT !.revoked = TRUE]
                   ELSE tokens[t]]

RevokeDeviceSessions(d) ==
  /\ revoking[d] = "device"
  /\ tokens' = WithoutDevice(d)
  /\ revoking' = [revoking EXCEPT ![d] = "tokens"]
  /\ UNCHANGED <<rotations, late>>

ConsumeChallenges(d) ==
  /\ revoking[d] = "tokens"
  /\ revoking' = [revoking EXCEPT ![d] = "challenges"]
  /\ UNCHANGED <<tokens, rotations, late>>
=============================================================================
