------------------------ MODULE DeviceSessionsProofs ------------------------
(***************************************************************************)
(* The safety properties of DeviceSessions, for every set of devices,      *)
(* tokens and exchanges.                                                   *)
(*                                                                         *)
(* The argument.  A lineage's live token is a baton: the claim that takes  *)
(* it away from an exchange's rivals is what entitles the exchange to      *)
(* create the next one, so while an exchange is between the two statements *)
(* nothing in the lineage is live and no other exchange is there.  A token *)
(* created late is read after its device was revoked, and so never claimed. *)
(* And a client whose refreshes are coalesced is the only holder of a      *)
(* token nobody has presented: it presents it once, so that no exchange of *)
(* it can find the token spent.                                            *)
(***************************************************************************)
EXTENDS DeviceSessions, TLAPS

Presented(r) == rotations[r].token

(* What is spent exists, and a lineage is one device's.                    *)
RowsInv ==
  \A t \in Token :
    /\ Spent(t) => tokens[t].issued
    /\ tokens[t].issued => /\ tokens[tokens[t].family].issued
                           /\ tokens[tokens[t].family].device = tokens[t].device

(* An exchange in progress is of a token that exists; it is about to issue *)
(* only when it has claimed.                                               *)
RotationsInv ==
  \A r \in Rotation :
    /\ rotations[r].phase = "idle" <=> Presented(r) = None
    /\ Presented(r) # None => tokens[Presented(r)].issued
    /\ rotations[r].phase = "issuing" => tokens[Presented(r)].rotated
    /\ rotations[r].result # None => rotations[r].phase = "done"

(* A lineage has one live token at most.                                   *)
OneLiveTokenPerLineage ==
  \A s, t \in Token : Live(s) /\ Live(t) /\ tokens[s].family = tokens[t].family => s = t

Issues(r, f) == rotations[r].phase = "issuing" /\ tokens[Presented(r)].family = f

BatonInv ==
  /\ OneLiveTokenPerLineage
  /\ \A r \in Rotation, t \in Token : Issues(r, tokens[t].family) => ~Live(t)
  /\ \A q, r \in Rotation : Issues(r, tokens[Presented(r)].family)
                            /\ Issues(q, tokens[Presented(r)].family) => q = r

LateInv ==
  /\ \A t \in late : tokens[t].issued /\ IsRevoked(tokens[t].device) /\ ~tokens[t].rotated
  /\ \A r \in Rotation : rotations[r].phase = "claiming" => Presented(r) \notin late
-----------------------------------------------------------------------------
LEMMA NoRowTypes == \A t \in Token : NoRow(t) \in Row
BY TokenConstants DEF NoRow, Row

LEMMA NewRowTypes == \A d \in Device, f \in Token : NewRow(d, f) \in Row
BY DEF NewRow, Row

(* The updates of one row.                                                 *)
SameLineage(x, y) == (y.issued <=> x.issued) /\ y.device = x.device /\ y.family = x.family

LEMMA RowUpdates ==
  ASSUME NEW x \in Row
  PROVE  /\ [x EXCEPT !.revoked = TRUE] \in Row
         /\ SameLineage(x, [x EXCEPT !.revoked = TRUE])
         /\ [x EXCEPT !.revoked = TRUE].revoked
         /\ [x EXCEPT !.revoked = TRUE].rotated <=> x.rotated
         /\ [x EXCEPT !.rotated = TRUE] \in Row
         /\ SameLineage(x, [x EXCEPT !.rotated = TRUE])
         /\ [x EXCEPT !.rotated = TRUE].revoked <=> x.revoked
         /\ [x EXCEPT !.rotated = TRUE].rotated
         /\ \A s \in Token :
              /\ [x EXCEPT !.replacedBy = s] \in Row
              /\ SameLineage(x, [x EXCEPT !.replacedBy = s])
              /\ [x EXCEPT !.replacedBy = s].revoked <=> x.revoked
              /\ [x EXCEPT !.replacedBy = s].rotated <=> x.rotated
BY DEF Row, SameLineage

(* What the three statements that end sessions leave alone.                *)
OnlyEnded(Ended) ==
  /\ tokens' \in [Token -> Row]
  /\ \A t \in Token :
       /\ SameLineage(tokens[t], tokens'[t])
       /\ tokens'[t].rotated <=> tokens[t].rotated
       /\ tokens'[t].revoked <=> tokens[t].revoked \/ t \in Ended

LEMMA LineageEnds ==
  ASSUME tokens \in [Token -> Row], NEW f \in Token, tokens' = WithoutLineage(f)
  PROVE  OnlyEnded({t \in Token : tokens[t].issued /\ tokens[t].family = f})
<1> DEFINE Ended == {t \in Token : tokens[t].issued /\ tokens[t].family = f}
<1>1. \A t \in Token : tokens'[t] = IF t \in Ended THEN [tokens[t] EXCEPT !.revoked = TRUE]
                                                   ELSE tokens[t]
  BY DEF WithoutLineage
<1>2. tokens' \in [Token -> Row]
  BY <1>1, RowUpdates DEF WithoutLineage
<1>3. ASSUME NEW t \in Token
      PROVE  /\ SameLineage(tokens[t], tokens'[t])
             /\ tokens'[t].rotated <=> tokens[t].rotated
             /\ tokens'[t].revoked <=> tokens[t].revoked \/ t \in Ended
  <2> tokens[t] \in Row
    OBVIOUS
  <2>1. CASE t \in Ended
    <3>1. tokens'[t] = [tokens[t] EXCEPT !.revoked = TRUE]
      BY <1>1, <2>1
    <3> HIDE DEF Ended
    <3> QED BY <2>1, <3>1 DEF Row, SameLineage
  <2>2. CASE t \notin Ended
    <3>1. tokens'[t] = tokens[t]
      BY <1>1, <2>2
    <3> HIDE DEF Ended
    <3> QED BY <2>2, <3>1 DEF SameLineage
  <2> QED BY <2>1, <2>2
<1> QED BY <1>2, <1>3 DEF OnlyEnded

LEMMA DeviceEnds ==
  ASSUME tokens \in [Token -> Row], NEW d \in Device, tokens' = WithoutDevice(d)
  PROVE  OnlyEnded({t \in Token : tokens[t].issued /\ tokens[t].device = d})
<1> DEFINE Ended == {t \in Token : tokens[t].issued /\ tokens[t].device = d}
<1>1. \A t \in Token : tokens'[t] = IF t \in Ended THEN [tokens[t] EXCEPT !.revoked = TRUE]
                                                   ELSE tokens[t]
  BY DEF WithoutDevice
<1>2. tokens' \in [Token -> Row]
  BY <1>1, RowUpdates DEF WithoutDevice
<1>3. ASSUME NEW t \in Token
      PROVE  /\ SameLineage(tokens[t], tokens'[t])
             /\ tokens'[t].rotated <=> tokens[t].rotated
             /\ tokens'[t].revoked <=> tokens[t].revoked \/ t \in Ended
  <2> tokens[t] \in Row
    OBVIOUS
  <2>1. CASE t \in Ended
    <3>1. tokens'[t] = [tokens[t] EXCEPT !.revoked = TRUE]
      BY <1>1, <2>1
    <3> HIDE DEF Ended
    <3> QED BY <2>1, <3>1 DEF Row, SameLineage
  <2>2. CASE t \notin Ended
    <3>1. tokens'[t] = tokens[t]
      BY <1>1, <2>2
    <3> HIDE DEF Ended
    <3> QED BY <2>2, <3>1 DEF SameLineage
  <2> QED BY <2>1, <2>2
<1> QED BY <1>2, <1>3 DEF OnlyEnded

(* The types hold initially and every step keeps them.                     *)
LEMMA TypeInit == Init => TypeOK
BY NoRowTypes
   DEF Init, ServerInit, TypeOK, NoRotation, RotationState, RevocationSteps, SignIn, NoSignIn

LEMMA TypeClient ==
  ASSUME TypeOK, NEW d \in Device, Client(d)
  PROVE  TypeOK'
<1> USE DEF TypeOK, clientVars, serverVars, SignIn, NoSignIn
<1>1. CASE BeginSignIn(d)
  BY <1>1 DEF BeginSignIn
<1>2. ASSUME NEW t \in Token, ServeSignIn(d, t) PROVE TypeOK'
  BY <1>2, NewRowTypes DEF ServeSignIn, StartSession, Dated
<1>3. CASE FinishSignIn(d)
  BY <1>3 DEF FinishSignIn
<1>4. ASSUME NEW r \in Rotation, BeginRefresh(d, r) PROVE TypeOK'
  BY <1>4 DEF BeginRefresh, Present, RotationState
<1>5. CASE FinishRefresh(d)
  BY <1>5 DEF FinishRefresh, Conclude, NoRotation, RotationState
<1>6. CASE FailRefresh(d)
  BY <1>6 DEF FailRefresh
<1>7. CASE BeginLogout(d)
  BY <1>7 DEF BeginLogout
<1>8. CASE ServeLogout(d)
  <2>1. leaving[d] \in Token
    BY <1>8 DEF ServeLogout
  <2>2. tokens[leaving[d]].family \in Token
    BY <2>1 DEF Row
  <2> QED BY <1>8, <2>1, <2>2, LineageEnds DEF ServeLogout, RevokeByToken, OnlyEnded
<1>9. CASE FinishLogout(d)
  BY <1>9 DEF FinishLogout
<1> QED BY <1>1, <1>2, <1>3, <1>4, <1>5, <1>6, <1>7, <1>8, <1>9 DEF Client

LEMMA TypeExchange ==
  ASSUME TypeOK, RotationsInv, NEW r \in Rotation, Exchange(r)
  PROVE  TypeOK'
<1> USE DEF TypeOK, clientVars, RotationState
<1>0. rotations[r].phase # "idle" => Presented(r) \in Token /\ tokens[Presented(r)] \in Row
  BY DEF RotationsInv, Presented
<1>1. ASSUME NEW t \in Token, PresentAgain(r, t) PROVE TypeOK'
  BY <1>1 DEF PresentAgain, Present
<1>2. CASE ReadToken(r) /\ UNCHANGED clientVars
  <2>1. PICK phase \in {"ending", "done", "claiming"} :
          rotations' = [rotations EXCEPT ![r].phase = phase]
    BY <1>2 DEF ReadToken, Verdict
  <2>2. [rotations[r] EXCEPT !.phase = phase] \in RotationState
    OBVIOUS
  <2>3. rotations' \in [Rotation -> RotationState]
    BY <2>1, <2>2
  <2> QED BY <1>2, <2>3 DEF ReadToken
<1>3. CASE ClaimToken(r) /\ UNCHANGED clientVars
  <2>1. tokens' \in [Token -> Row]
    BY <1>3, <1>0, RowUpdates DEF ClaimToken, Presented
  <2>2. \E phase \in {"issuing", "ending"} : rotations' = [rotations EXCEPT ![r].phase = phase]
    BY <1>3 DEF ClaimToken
  <2>3. PICK phase \in {"issuing", "ending"} : rotations' = [rotations EXCEPT ![r].phase = phase]
    BY <2>2
  <2>4. [rotations[r] EXCEPT !.phase = phase] \in RotationState
    OBVIOUS
  <2>5. rotations' \in [Rotation -> RotationState]
    BY <2>3, <2>4
  <2> QED BY <1>3, <2>1, <2>5 DEF ClaimToken
<1>4. CASE EndLineage(r) /\ UNCHANGED clientVars
  <2>1. tokens[Presented(r)].family \in Token
    BY <1>4, <1>0 DEF EndLineage, Row
  <2>2. tokens' \in [Token -> Row]
    BY <1>4, <2>1, LineageEnds DEF EndLineage, OnlyEnded, Presented
  <2>3. rotations' = [rotations EXCEPT ![r].phase = "done"]
    BY <1>4 DEF EndLineage
  <2>4. [rotations[r] EXCEPT !.phase = "done"] \in RotationState
    OBVIOUS
  <2>5. rotations' \in [Rotation -> RotationState]
    BY <2>3, <2>4
  <2> QED BY <1>4, <2>2, <2>5 DEF EndLineage
<1>5. ASSUME NEW s \in Token, IssueSuccessor(r, s) /\ UNCHANGED clientVars PROVE TypeOK'
  <2>1. /\ tokens[Presented(r)].device \in Device
        /\ tokens[Presented(r)].family \in Token
        /\ rotations[r].phase = "issuing"
    BY <1>5, <1>0 DEF IssueSuccessor, Row
  <2>2. tokens' \in [Token -> Row]
    BY <1>5, <1>0, <2>1, NewRowTypes, RowUpdates DEF IssueSuccessor, Presented
  <2>3. rotations' = [rotations EXCEPT ![r].phase = "done", ![r].result = s]
    BY <1>5 DEF IssueSuccessor
  <2>4. rotations' \in [Rotation -> RotationState]
    <3>1. [rotations[r] EXCEPT !.phase = "done", !.result = s] \in RotationState
      OBVIOUS
    <3>2. rotations' = [rotations EXCEPT ![r] = [rotations[r] EXCEPT !.phase = "done", !.result = s]]
      BY <2>3
    <3> QED BY <3>1, <3>2
  <2> QED BY <1>5, <2>2, <2>4 DEF IssueSuccessor, Dated
<1>6. CASE Unheard(r)
  BY <1>6 DEF Unheard, Conclude, NoRotation
<1> QED BY <1>1, <1>2, <1>3, <1>4, <1>5, <1>6 DEF Exchange

LEMMA TypeRevocation ==
  ASSUME TypeOK, NEW d \in Device, Revocation(d)
  PROVE  TypeOK'
<1> USE DEF TypeOK, clientVars, RevocationSteps
<1>1. CASE RevokeDevice(d) /\ UNCHANGED clientVars
  BY <1>1 DEF RevokeDevice
<1>2. CASE RevokeDeviceSessions(d) /\ UNCHANGED clientVars
  BY <1>2, DeviceEnds DEF RevokeDeviceSessions, OnlyEnded
<1>3. CASE ConsumeChallenges(d) /\ UNCHANGED clientVars
  BY <1>3 DEF ConsumeChallenges
<1> QED BY <1>1, <1>2, <1>3 DEF Revocation
-----------------------------------------------------------------------------
(* The control plane's part of the invariant, action by action.            *)
ServerInv == RowsInv /\ RotationsInv /\ BatonInv /\ LateInv

LEMMA ServerStart ==
  ASSUME TypeOK, ServerInv, NEW d \in Device, NEW t \in Token, StartSession(d, t)
  PROVE  ServerInv'
<1> USE DEF StartSession, NewRow, ServerInv
<1>1. /\ ~tokens[t].issued
      /\ tokens' = [tokens EXCEPT ![t] = NewRow(d, t)]
      /\ UNCHANGED <<rotations, revoking>>
  OBVIOUS
<1>2. \A u \in Token : u # t => tokens'[u] = tokens[u]
  BY <1>1 DEF TypeOK
<1>3. tokens'[t] = NewRow(d, t)
  BY <1>1 DEF TypeOK
<1>4. \A u \in Token : tokens[u].issued => tokens[u].family # t
  BY DEF RowsInv
<1>5. \A r \in Rotation : Presented(r) # None => Presented(r) \in Token /\ Presented(r) # t
  BY DEF RotationsInv, TypeOK, RotationState, Presented
<1>6. RowsInv'
  BY <1>2, <1>3, <1>4 DEF RowsInv, Spent, TypeOK, Row
<1>7. RotationsInv'
  BY <1>1, <1>2, <1>5 DEF RotationsInv, Presented
<1>8. BatonInv'
  <2>1. OneLiveTokenPerLineage'
    BY <1>2, <1>3, <1>4 DEF BatonInv, OneLiveTokenPerLineage, Live, Spent
  <2>2. \A r \in Rotation, f \in Token : Issues(r, f)' <=> Issues(r, f)
    BY <1>1, <1>2, <1>5 DEF Issues, Presented, RotationsInv
  <2>3. \A r \in Rotation : ~Issues(r, t)
    BY <1>4, <1>5 DEF Issues, RotationsInv
  <2>4. \A r \in Rotation, u \in Token : Issues(r, tokens[u].family)' => ~Live(u)'
    BY <1>2, <1>3, <2>2, <2>3 DEF BatonInv, Live, Spent, TypeOK, Row
  <2>5. \A q, r \in Rotation : (/\ Issues(r, tokens[Presented(r)].family)
                                /\ Issues(q, tokens[Presented(r)].family))' => q = r
    BY <1>1, <1>2, <1>5, <2>2 DEF BatonInv, Issues, Presented, RotationsInv
  <2> QED BY <2>1, <2>4, <2>5 DEF BatonInv
<1>9. LateInv'
  <2>1. late' \subseteq late \cup {t} /\ (t \in late' \ late => IsRevoked(d))
    BY DEF Dated
  <2>2. t \notin late
    BY DEF LateInv
  <2>3. \A r \in Rotation : rotations[r].phase = "claiming" => Presented(r) \in Token /\ Presented(r) # t
    BY <1>5 DEF RotationsInv
  <2> QED BY <1>1, <1>2, <1>3, <2>1, <2>2, <2>3 DEF LateInv, TypeOK, IsRevoked, Presented
<1> QED BY <1>6, <1>7, <1>8, <1>9

LEMMA ServerPresent ==
  ASSUME TypeOK, ServerInv, NEW r \in Rotation, NEW t \in Token,
         tokens[t].issued, Present(r, t)
  PROVE  ServerInv'
<1> USE DEF Present, ServerInv, TypeOK, RotationState
<1>1. /\ tokens' = tokens /\ late' = late /\ revoking' = revoking
      /\ \A q \in Rotation : q # r => rotations'[q] = rotations[q]
      /\ rotations'[r] = [phase |-> "sent", token |-> t, result |-> None]
  OBVIOUS
<1>2. \A q \in Rotation, f \in Token : Issues(q, f)' => Issues(q, f) /\ q # r
  BY <1>1 DEF Issues, Presented
<1>3. RowsInv'
  BY <1>1 DEF RowsInv, Spent
<1>4. RotationsInv'
  BY <1>1, TokenConstants DEF RotationsInv, Presented
<1>5. BatonInv'
  BY <1>1 DEF BatonInv, OneLiveTokenPerLineage, Live, Spent, Issues, Presented
<1>6. LateInv'
  BY <1>1 DEF LateInv, IsRevoked, Presented
<1> QED BY <1>3, <1>4, <1>5, <1>6

LEMMA ServerRead ==
  ASSUME TypeOK, ServerInv, NEW r \in Rotation, ReadToken(r)
  PROVE  ServerInv'
<1> USE DEF ReadToken, ServerInv, TypeOK, RotationState
<1>1. /\ tokens' = tokens /\ late' = late /\ revoking' = revoking
      /\ \A q \in Rotation : q # r => rotations'[q] = rotations[q]
      /\ rotations[r].phase = "sent"
      /\ rotations'[r].phase \in Verdict(Presented(r))
      /\ rotations'[r].token = Presented(r) /\ rotations'[r].result = rotations[r].result
  BY DEF Presented
<1>2. rotations'[r].phase \in {"ending", "done", "claiming"}
  BY <1>1 DEF Verdict
<1>3. \A q \in Rotation : Presented(q)' = Presented(q)
  BY <1>1 DEF Presented
<1>4. RowsInv'
  BY <1>1 DEF RowsInv, Spent
<1>5. RotationsInv'
  BY <1>1, <1>2, <1>3 DEF RotationsInv
<1>6. BatonInv'
  BY <1>1, <1>2, <1>3 DEF BatonInv, OneLiveTokenPerLineage, Live, Spent, Issues
<1>7. LateInv'
  <2>1. rotations'[r].phase = "claiming" => Presented(r) \notin late
    BY <1>1 DEF Verdict, LateInv
  <2> QED BY <1>1, <1>3, <2>1 DEF LateInv, IsRevoked
<1> QED BY <1>4, <1>5, <1>6, <1>7

LEMMA ServerClaim ==
  ASSUME TypeOK, ServerInv, NEW r \in Rotation, ClaimToken(r)
  PROVE  ServerInv'
<1> USE DEF ServerInv
<1> DEFINE t == Presented(r)
<1>1. /\ late' = late /\ revoking' = revoking
      /\ rotations[r].phase = "claiming"
      /\ t \in Token /\ tokens[t].issued /\ t \notin late
  BY DEF ClaimToken, RotationsInv, LateInv, Presented, TypeOK, RotationState
<1>2. CASE Claimable(t)
  <2>1. /\ tokens' = [tokens EXCEPT ![t].rotated = TRUE]
        /\ rotations' = [rotations EXCEPT ![r].phase = "issuing"]
    BY <1>2 DEF ClaimToken, Presented
  <2>2. \A q \in Rotation : /\ Presented(q)' = Presented(q)
                            /\ rotations'[q].result = rotations[q].result
                            /\ q # r => rotations'[q].phase = rotations[q].phase
    BY <2>1 DEF Presented, TypeOK, RotationState
  <2>3. rotations'[r].phase = "issuing"
    BY <2>1 DEF TypeOK, RotationState
  <2>4. \A u \in Token : /\ SameLineage(tokens[u], tokens'[u])
                         /\ tokens'[u].revoked <=> tokens[u].revoked
                         /\ tokens'[u].rotated <=> tokens[u].rotated \/ u = t
    BY <1>1, <2>1 DEF TypeOK, Row, SameLineage
  <2>5. Live(t) /\ \A u \in Token : Live(u)' <=> Live(u) /\ u # t
    BY <1>1, <1>2, <2>4 DEF Live, Spent, Claimable, SameLineage
  <2>6. \A q \in Rotation : Presented(q) # None => Presented(q) \in Token
    BY DEF TypeOK, RotationState, Presented
  <2>7. RowsInv'
    BY <1>1, <2>4 DEF RowsInv, Spent, SameLineage, TypeOK, Row
  <2>8. RotationsInv'
    BY <1>1, <2>2, <2>3, <2>4, <2>6 DEF RotationsInv, SameLineage
  <2>9. BatonInv'
    <3>1. \A q \in Rotation, f \in Token :
            Issues(q, f)' <=> Issues(q, f) \/ (q = r /\ f = tokens[t].family)
      BY <1>1, <2>2, <2>3, <2>4, <2>6, TokenConstants DEF Issues, RotationsInv, SameLineage
    <3>2. \A q \in Rotation : ~Issues(q, tokens[t].family)
      BY <1>1, <2>5 DEF BatonInv
    <3>3. OneLiveTokenPerLineage'
      BY <2>4, <2>5 DEF BatonInv, OneLiveTokenPerLineage, SameLineage
    <3>4. \A q \in Rotation, u \in Token : Issues(q, tokens[u].family)' => ~Live(u)'
      BY <1>1, <2>4, <2>5, <3>1 DEF BatonInv, OneLiveTokenPerLineage, SameLineage, TypeOK, Row
    <3>5. \A p, q \in Rotation : (/\ Issues(q, tokens[Presented(q)].family)
                                  /\ Issues(p, tokens[Presented(q)].family))' => p = q
      <4> SUFFICES ASSUME NEW p \in Rotation, NEW q \in Rotation,
                          Issues(q, tokens[Presented(q)].family)',
                          Issues(p, tokens[Presented(q)].family)'
                   PROVE  p = q
        OBVIOUS
      <4>1. /\ Presented(q)' = Presented(q) /\ Presented(q) \in Token
            /\ tokens'[Presented(q)].family = tokens[Presented(q)].family
            /\ tokens[Presented(q)].family \in Token
        BY <1>1, <2>2, <2>3, <2>4, <2>6, TokenConstants
           DEF Issues, RotationsInv, SameLineage, TypeOK, Row
      <4> QED BY <1>1, <3>1, <3>2, <4>1 DEF BatonInv
    <3> QED BY <3>3, <3>4, <3>5 DEF BatonInv
  <2>10. LateInv'
    BY <1>1, <2>2, <2>3, <2>4 DEF LateInv, IsRevoked, SameLineage, TypeOK
  <2> QED BY <2>7, <2>8, <2>9, <2>10
<1>3. CASE ~Claimable(t)
  <2>1. tokens' = tokens /\ rotations' = [rotations EXCEPT ![r].phase = "ending"]
    BY <1>3 DEF ClaimToken, Presented
  <2>2. \A q \in Rotation : /\ Presented(q)' = Presented(q)
                            /\ rotations'[q].result = rotations[q].result
                            /\ q # r => rotations'[q].phase = rotations[q].phase
    BY <2>1 DEF Presented, TypeOK, RotationState
  <2>3. rotations'[r].phase = "ending"
    BY <2>1 DEF TypeOK, RotationState
  <2>4. RowsInv'
    BY <2>1 DEF RowsInv, Spent
  <2>5. RotationsInv'
    BY <1>1, <2>1, <2>2, <2>3 DEF RotationsInv
  <2>6. BatonInv'
    BY <1>1, <2>1, <2>2, <2>3 DEF BatonInv, OneLiveTokenPerLineage, Live, Spent, Issues
  <2>7. LateInv'
    BY <1>1, <2>1, <2>2, <2>3 DEF LateInv, IsRevoked
  <2> QED BY <2>4, <2>5, <2>6, <2>7
<1> QED BY <1>2, <1>3

(* The statements that end sessions: revokeFamily, revokeDeviceSessions.   *)
LEMMA ServerEnd ==
  ASSUME TypeOK, ServerInv, NEW Ended, OnlyEnded(Ended),
         \A t \in Token \cap Ended : tokens[t].issued,
         late' = late,
         \A d \in Device : IsRevoked(d) => IsRevoked(d)',
         \A r \in Rotation :
           /\ Presented(r)' = Presented(r)
           /\ rotations'[r].result = rotations[r].result
           /\ \/ rotations'[r].phase = rotations[r].phase
              \/ rotations[r].phase = "ending" /\ rotations'[r].phase = "done"
  PROVE  ServerInv'
<1> USE DEF ServerInv
<1>1. \A t \in Token : /\ SameLineage(tokens[t], tokens'[t])
                       /\ tokens'[t].rotated <=> tokens[t].rotated
                       /\ tokens'[t].revoked <=> tokens[t].revoked \/ t \in Ended
  BY DEF OnlyEnded
<1>2. \A t \in Token : Live(t)' => Live(t)
  BY <1>1 DEF Live, Spent, SameLineage
<1>3. \A r \in Rotation : Presented(r) # None => Presented(r) \in Token
  BY DEF TypeOK, RotationState, Presented
<1>4. RowsInv'
  BY <1>1 DEF RowsInv, Spent, SameLineage, TypeOK, Row
<1>5. RotationsInv'
  BY <1>1, <1>3 DEF RotationsInv, SameLineage
<1>6. BatonInv'
  <2>1. \A r \in Rotation, f \in Token : Issues(r, f)' <=> Issues(r, f)
    BY <1>1, <1>3, TokenConstants DEF Issues, RotationsInv, SameLineage
  <2>2. \A r \in Rotation : rotations[r].phase = "issuing" =>
          /\ Presented(r) \in Token
          /\ tokens[Presented(r)].family \in Token
          /\ tokens'[Presented(r)].family = tokens[Presented(r)].family
    BY <1>1, <1>3 DEF RotationsInv, SameLineage, TypeOK, Row
  <2>3. OneLiveTokenPerLineage'
    BY <1>1, <1>2 DEF BatonInv, OneLiveTokenPerLineage, SameLineage
  <2>4. \A r \in Rotation, t \in Token : Issues(r, tokens[t].family)' => ~Live(t)'
    BY <1>1, <1>2, <2>1 DEF BatonInv, SameLineage, TypeOK, Row
  <2>5. \A q, r \in Rotation : (/\ Issues(r, tokens[Presented(r)].family)
                                /\ Issues(q, tokens[Presented(r)].family))' => q = r
    <3> SUFFICES ASSUME NEW q \in Rotation, NEW r \in Rotation,
                        Issues(r, tokens[Presented(r)].family)',
                        Issues(q, tokens[Presented(r)].family)'
                 PROVE  q = r
      OBVIOUS
    <3>1. rotations[r].phase = "issuing" /\ Presented(r)' = Presented(r)
      BY DEF Issues
    <3> QED BY <2>1, <2>2, <3>1 DEF BatonInv
  <2> QED BY <2>3, <2>4, <2>5 DEF BatonInv
<1>7. LateInv'
  BY <1>1 DEF LateInv, SameLineage, TypeOK, Row
<1> QED BY <1>4, <1>5, <1>6, <1>7

(* What creating the successor s of the token t changes.                   *)
LEMMA SuccessorRow ==
  ASSUME TypeOK, ServerInv, NEW r \in Rotation, NEW s \in Token, IssueSuccessor(r, s)
  PROVE  /\ rotations[r].phase = "issuing"
         /\ Presented(r) \in Token /\ tokens[Presented(r)].issued
         /\ ~tokens[s].issued /\ ~tokens[s].rotated /\ ~tokens[s].revoked
         /\ s # Presented(r)
         /\ tokens'[s] = NewRow(tokens[Presented(r)].device, tokens[Presented(r)].family)
         /\ \A u \in Token \ {s} : /\ SameLineage(tokens[u], tokens'[u])
                                   /\ tokens'[u].rotated <=> tokens[u].rotated
                                   /\ tokens'[u].revoked <=> tokens[u].revoked
         /\ \A q \in Rotation : /\ Presented(q)' = Presented(q)
                                /\ q # r => rotations'[q] = rotations[q]
         /\ rotations'[r].phase = "done" /\ rotations'[r].result = s
         /\ revoking' = revoking
         /\ late' = IF IsRevoked(tokens[Presented(r)].device) THEN late \cup {s} ELSE late
<1> DEFINE t == Presented(r)
<1>1. /\ rotations[r].phase = "issuing" /\ revoking' = revoking
      /\ ~tokens[s].issued
      /\ tokens' = [tokens EXCEPT ![s] = NewRow(tokens[t].device, tokens[t].family),
                                  ![t].replacedBy = s]
      /\ rotations' = [rotations EXCEPT ![r].phase = "done", ![r].result = s]
      /\ late' = IF IsRevoked(tokens[t].device) THEN late \cup {s} ELSE late
  BY DEF IssueSuccessor, Dated, Presented
<1>2. t \in Token /\ tokens[t].issued /\ s # t
  BY <1>1 DEF ServerInv, RotationsInv, TypeOK, RotationState, Presented
<1>3. ~tokens[s].rotated /\ ~tokens[s].revoked
  BY <1>1 DEF ServerInv, RowsInv, Spent
<1>4. tokens'[s] = NewRow(tokens[t].device, tokens[t].family)
  BY <1>1, <1>2 DEF TypeOK
<1>5. ASSUME NEW u \in Token \ {s}
      PROVE  /\ SameLineage(tokens[u], tokens'[u])
             /\ tokens'[u].rotated <=> tokens[u].rotated
             /\ tokens'[u].revoked <=> tokens[u].revoked
  <2>1. CASE u = t
    <3>1. tokens'[t] = [tokens[t] EXCEPT !.replacedBy = s]
      BY <1>1, <1>2 DEF TypeOK
    <3> QED BY <1>2, <2>1, <3>1 DEF TypeOK, Row, SameLineage
  <2>2. CASE u # t
    <3>1. tokens'[u] = tokens[u]
      BY <1>1, <2>2 DEF TypeOK
    <3> QED BY <3>1 DEF SameLineage
  <2> QED BY <2>1, <2>2
<1>6. /\ \A q \in Rotation : /\ Presented(q)' = Presented(q)
                             /\ q # r => rotations'[q] = rotations[q]
      /\ rotations'[r].phase = "done" /\ rotations'[r].result = s
  BY <1>1 DEF Presented, TypeOK, RotationState
<1> QED BY <1>1, <1>2, <1>3, <1>4, <1>5, <1>6

LEMMA ServerIssue ==
  ASSUME TypeOK, ServerInv, NEW r \in Rotation, NEW s \in Token, IssueSuccessor(r, s)
  PROVE  ServerInv'
<1> DEFINE t == Presented(r)
<1>1. /\ rotations[r].phase = "issuing"
      /\ t \in Token /\ tokens[t].issued
      /\ ~tokens[s].issued /\ ~tokens[s].rotated /\ ~tokens[s].revoked
      /\ s # t
      /\ tokens'[s] = NewRow(tokens[t].device, tokens[t].family)
      /\ \A u \in Token \ {s} : /\ SameLineage(tokens[u], tokens'[u])
                                /\ tokens'[u].rotated <=> tokens[u].rotated
                                /\ tokens'[u].revoked <=> tokens[u].revoked
      /\ \A q \in Rotation : /\ Presented(q)' = Presented(q)
                             /\ q # r => rotations'[q] = rotations[q]
      /\ rotations'[r].phase = "done" /\ rotations'[r].result = s
      /\ revoking' = revoking
      /\ late' = IF IsRevoked(tokens[t].device) THEN late \cup {s} ELSE late
  BY SuccessorRow
<1> USE DEF ServerInv
<1>2. /\ tokens'[s].issued /\ ~tokens'[s].rotated /\ ~tokens'[s].revoked
      /\ tokens'[s].device = tokens[t].device /\ tokens'[s].family = tokens[t].family
  BY <1>1 DEF NewRow
<1>3. \A q \in Rotation : Presented(q) # None => Presented(q) \in Token /\ Presented(q) # s
  BY <1>1 DEF RotationsInv, TypeOK, RotationState, Presented
<1>4. RowsInv'
  <2>1. tokens[t].family \in Token /\ tokens[t].family # s /\ tokens[tokens[t].family].issued
        /\ tokens[tokens[t].family].device = tokens[t].device
    BY <1>1 DEF RowsInv, TypeOK, Row
  <2> QED BY <1>1, <1>2, <2>1 DEF RowsInv, Spent, SameLineage, TypeOK, Row
<1>5. RotationsInv'
  BY <1>1, <1>3, TokenConstants DEF RotationsInv, SameLineage
<1>6. BatonInv'
  <2>1. \A q \in Rotation, f \in Token : Issues(q, f)' <=> Issues(q, f) /\ q # r
    BY <1>1, <1>3, TokenConstants DEF Issues, RotationsInv, SameLineage
  <2>2. Issues(r, tokens[t].family)
    BY <1>1 DEF Issues
  <2>3. \A u \in Token : Live(u)' <=> Live(u) \/ u = s
    BY <1>1, <1>2 DEF Live, Spent, SameLineage
  <2>4. \A u \in Token : Live(u) => tokens[u].family # tokens[t].family
    BY <2>2, <1>1 DEF BatonInv
  <2>5. \A q \in Rotation : q # r => ~Issues(q, tokens[t].family)
    BY <2>2 DEF BatonInv
  <2>6. OneLiveTokenPerLineage'
    <3>1. \A u \in Token : Live(u) => u # s
      BY <1>1 DEF Live
    <3> QED BY <1>1, <1>2, <2>3, <2>4, <3>1 DEF BatonInv, OneLiveTokenPerLineage, SameLineage
  <2>7. \A q \in Rotation, u \in Token : Issues(q, tokens[u].family)' => ~Live(u)'
    BY <1>1, <1>2, <2>1, <2>3, <2>5 DEF BatonInv, SameLineage, TypeOK, Row
  <2>8. \A p, q \in Rotation : (/\ Issues(q, tokens[Presented(q)].family)
                                /\ Issues(p, tokens[Presented(q)].family))' => p = q
    <3> SUFFICES ASSUME NEW p \in Rotation, NEW q \in Rotation,
                        Issues(q, tokens[Presented(q)].family)',
                        Issues(p, tokens[Presented(q)].family)'
                 PROVE  p = q
      OBVIOUS
    <3>1. q # r /\ rotations[q].phase = "issuing" /\ Presented(q)' = Presented(q)
      BY <1>1 DEF Issues
    <3>2. /\ Presented(q) \in Token /\ tokens[Presented(q)].family \in Token
          /\ tokens'[Presented(q)].family = tokens[Presented(q)].family
      BY <1>1, <1>3, <3>1 DEF RotationsInv, SameLineage, TypeOK, Row
    <3> QED BY <2>1, <3>1, <3>2 DEF BatonInv
  <2> QED BY <2>6, <2>7, <2>8 DEF BatonInv
<1>7. LateInv'
  BY <1>1, <1>2, <1>3 DEF LateInv, IsRevoked, SameLineage, TypeOK, Row, RotationsInv
<1> QED BY <1>4, <1>5, <1>6, <1>7

LEMMA ServerConclude ==
  ASSUME TypeOK, ServerInv, NEW r \in Rotation, Conclude(r)
  PROVE  ServerInv'
<1> USE DEF ServerInv
<1>1. /\ tokens' = tokens /\ late' = late /\ revoking' = revoking
      /\ \A q \in Rotation : q # r => rotations'[q] = rotations[q]
      /\ rotations'[r] = NoRotation
  BY DEF Conclude, TypeOK
<1>2. \A q \in Rotation : Presented(q)' = IF q = r THEN None ELSE Presented(q)
  BY <1>1 DEF Presented, NoRotation
<1>3. RowsInv'
  BY <1>1 DEF RowsInv, Spent
<1>4. RotationsInv'
  BY <1>1, <1>2 DEF RotationsInv, NoRotation
<1>5. BatonInv'
  BY <1>1, <1>2 DEF BatonInv, OneLiveTokenPerLineage, Live, Spent, Issues, NoRotation
<1>6. LateInv'
  BY <1>1, <1>2 DEF LateInv, IsRevoked, NoRotation
<1> QED BY <1>3, <1>4, <1>5, <1>6

LEMMA ServerIdle ==
  ASSUME TypeOK, ServerInv, UNCHANGED <<tokens, rotations, late>>,
         \A d \in Device : IsRevoked(d) => IsRevoked(d)'
  PROVE  ServerInv'
<1> USE DEF ServerInv
<1>1. RowsInv'
  BY DEF RowsInv, Spent
<1>2. RotationsInv'
  BY DEF RotationsInv, Presented
<1>3. BatonInv'
  BY DEF BatonInv, OneLiveTokenPerLineage, Live, Spent, Issues, Presented
<1>4. LateInv'
  BY DEF LateInv, Presented, TypeOK, Row
<1> QED BY <1>1, <1>2, <1>3, <1>4

LEMMA ServerStarts == Init => ServerInv
BY DEF Init, ServerInit, ServerInv, RowsInv, RotationsInv, BatonInv, LateInv,
       OneLiveTokenPerLineage, Spent, Live, Issues, Presented, NoRow, NoRotation
-----------------------------------------------------------------------------
(* What a client has been given exists.                                    *)
KnownInv ==
  /\ \A d \in Device : held[d] # None => tokens[held[d]].issued
  /\ \A d \in Device : signIn[d].token # None => tokens[signIn[d].token].issued
  /\ \A r \in Rotation : rotations[r].result # None => tokens[rotations[r].result].issued

SafeInv == TypeOK /\ ServerInv /\ KnownInv

(* A row, once created, is never removed.                                  *)
RowsStay == \A t \in Token : tokens[t].issued => tokens'[t].issued

LEMMA KnownKept ==
  ASSUME TypeOK, KnownInv, RowsStay, UNCHANGED <<held, signIn>>,
         \A r \in Rotation : rotations'[r].result \in {None, rotations[r].result}
  PROVE  KnownInv'
BY DEF TypeOK, KnownInv, RowsStay, SignIn, RotationState

LEMMA SafeClient ==
  ASSUME SafeInv, NEW d \in Device, Client(d)
  PROVE  ServerInv' /\ KnownInv'
<1> USE DEF SafeInv, clientVars, serverVars
<1>0. TypeOK /\ ServerInv /\ KnownInv
  OBVIOUS
<1>i. ASSUME UNCHANGED serverVars PROVE ServerInv'
  BY <1>0, <1>i, ServerIdle DEF IsRevoked
<1>1. CASE BeginSignIn(d)
  <2>1. KnownInv'
    BY <1>1 DEF BeginSignIn, KnownInv, TypeOK, SignIn
  <2> QED BY <1>1, <1>i, <2>1 DEF BeginSignIn
<1>2. ASSUME NEW t \in Token, ServeSignIn(d, t) PROVE ServerInv' /\ KnownInv'
  <2>1. ServerInv'
    BY <1>0, <1>2, ServerStart DEF ServeSignIn
  <2>2. RowsStay /\ tokens'[t].issued
    BY <1>2 DEF ServeSignIn, StartSession, NewRow, RowsStay, TypeOK
  <2>3. KnownInv'
    BY <1>2, <2>2 DEF ServeSignIn, StartSession, KnownInv, TypeOK, SignIn, RotationState, RowsStay
  <2> QED BY <2>1, <2>3
<1>3. CASE FinishSignIn(d)
  <2>1. KnownInv'
    BY <1>3 DEF FinishSignIn, KnownInv, TypeOK, SignIn, NoSignIn
  <2> QED BY <1>3, <1>i, <2>1 DEF FinishSignIn
<1>4. ASSUME NEW r \in Rotation, BeginRefresh(d, r) PROVE ServerInv' /\ KnownInv'
  <2>1. held[d] \in Token /\ tokens[held[d]].issued
    BY <1>4 DEF BeginRefresh, MayRefresh, TypeOK, KnownInv
  <2>2. ServerInv'
    BY <1>0, <1>4, <2>1, ServerPresent DEF BeginRefresh
  <2>3. KnownInv'
    BY <1>4 DEF BeginRefresh, Present, KnownInv, TypeOK
  <2> QED BY <2>2, <2>3
<1>5. CASE FinishRefresh(d)
  <2>1. refreshing[d] \in Rotation
    BY <1>5 DEF FinishRefresh, TypeOK
  <2>2. ServerInv'
    BY <1>0, <1>5, <2>1, ServerConclude DEF FinishRefresh
  <2>3. KnownInv'
    BY <1>5, <2>1 DEF FinishRefresh, Conclude, NoRotation, KnownInv, TypeOK
  <2> QED BY <2>2, <2>3
<1>6. CASE FailRefresh(d)
  <2>1. KnownInv'
    BY <1>6 DEF FailRefresh, KnownInv, TypeOK
  <2> QED BY <1>6, <1>i, <2>1 DEF FailRefresh
<1>7. CASE BeginLogout(d)
  <2>1. KnownInv'
    BY <1>7 DEF BeginLogout, KnownInv
  <2> QED BY <1>7, <1>i, <2>1 DEF BeginLogout
<1>8. CASE ServeLogout(d)
  <2> DEFINE f == tokens[leaving[d]].family
             Ended == {t \in Token : tokens[t].issued /\ tokens[t].family = f}
  <2>1. f \in Token /\ tokens \in [Token -> Row]
    BY <1>8 DEF ServeLogout, TypeOK, Row
  <2>2. OnlyEnded(Ended)
    BY <1>8, <2>1, LineageEnds DEF ServeLogout, RevokeByToken
  <2>3. /\ late' = late /\ revoking' = revoking /\ rotations' = rotations
        /\ UNCHANGED clientVars
    BY <1>8 DEF ServeLogout, RevokeByToken
  <2>4. \A t \in Token \cap Ended : tokens[t].issued
    OBVIOUS
  <2>5. RowsStay
    BY <2>2 DEF OnlyEnded, SameLineage, RowsStay
  <2> HIDE DEF Ended
  <2>6. ServerInv'
    BY <1>0, <2>2, <2>3, <2>4, ServerEnd DEF IsRevoked, Presented
  <2>7. KnownInv'
    BY <1>0, <2>3, <2>5, KnownKept
  <2> QED BY <2>6, <2>7
<1>9. CASE FinishLogout(d)
  <2>1. KnownInv'
    BY <1>9 DEF FinishLogout, KnownInv, TypeOK
  <2> QED BY <1>9, <1>i, <2>1 DEF FinishLogout
<1> QED BY <1>1, <1>2, <1>3, <1>4, <1>5, <1>6, <1>7, <1>8, <1>9 DEF Client

LEMMA SafeExchange ==
  ASSUME SafeInv, NEW r \in Rotation, Exchange(r)
  PROVE  ServerInv' /\ KnownInv'
<1> USE DEF SafeInv, clientVars
<1>0. TypeOK /\ ServerInv /\ KnownInv
  OBVIOUS
<1>1. ASSUME NEW t \in Token, PresentAgain(r, t) PROVE ServerInv' /\ KnownInv'
  <2>1. ServerInv'
    BY <1>0, <1>1, ServerPresent DEF PresentAgain
  <2>2. KnownInv'
    BY <1>0, <1>1, KnownKept DEF PresentAgain, Present, RowsStay, TypeOK
  <2> QED BY <2>1, <2>2
<1>2. CASE ReadToken(r) /\ UNCHANGED clientVars
  <2>1. ServerInv'
    BY <1>0, <1>2, ServerRead
  <2>2. KnownInv'
    BY <1>0, <1>2, KnownKept DEF ReadToken, RowsStay, TypeOK, RotationState
  <2> QED BY <2>1, <2>2
<1>3. CASE ClaimToken(r) /\ UNCHANGED clientVars
  <2>1. ServerInv'
    BY <1>0, <1>3, ServerClaim
  <2>2. RowsStay
    BY <1>3 DEF ClaimToken, RowsStay, TypeOK, Row
  <2>3. \A q \in Rotation : rotations'[q].result = rotations[q].result
    <3>1. CASE rotations' = [rotations EXCEPT ![r].phase = "issuing"]
      BY <3>1 DEF TypeOK, RotationState
    <3>2. CASE rotations' = [rotations EXCEPT ![r].phase = "ending"]
      BY <3>2 DEF TypeOK, RotationState
    <3> QED BY <1>3, <3>1, <3>2 DEF ClaimToken
  <2>4. KnownInv'
    BY <1>0, <1>3, <2>2, <2>3, KnownKept
  <2> QED BY <2>1, <2>4
<1>4. CASE EndLineage(r) /\ UNCHANGED clientVars
  <2> DEFINE f == tokens[Presented(r)].family
             Ended == {t \in Token : tokens[t].issued /\ tokens[t].family = f}
  <2>1. f \in Token /\ tokens \in [Token -> Row]
    BY <1>4 DEF EndLineage, ServerInv, RotationsInv, Presented, TypeOK, RotationState, Row
  <2>2. OnlyEnded(Ended)
    BY <1>4, <2>1, LineageEnds DEF EndLineage, Presented
  <2>3. /\ late' = late /\ revoking' = revoking
        /\ rotations[r].phase = "ending"
        /\ rotations' = [rotations EXCEPT ![r].phase = "done"]
    BY <1>4 DEF EndLineage
  <2>4. \A q \in Rotation : /\ Presented(q)' = Presented(q)
                            /\ rotations'[q].result = rotations[q].result
                            /\ \/ rotations'[q].phase = rotations[q].phase
                               \/ rotations[q].phase = "ending" /\ rotations'[q].phase = "done"
    BY <2>3 DEF Presented, TypeOK, RotationState
  <2>5. \A t \in Token \cap Ended : tokens[t].issued
    OBVIOUS
  <2>6. RowsStay
    BY <2>2 DEF OnlyEnded, SameLineage, RowsStay
  <2> HIDE DEF Ended
  <2>7. ServerInv'
    BY <1>0, <2>2, <2>3, <2>4, <2>5, ServerEnd DEF IsRevoked
  <2>8. KnownInv'
    BY <1>0, <1>4, <2>4, <2>6, KnownKept
  <2> QED BY <2>7, <2>8
<1>5. ASSUME NEW s \in Token, IssueSuccessor(r, s) /\ UNCHANGED clientVars
      PROVE  ServerInv' /\ KnownInv'
  <2>1. ServerInv'
    BY <1>0, <1>5, ServerIssue
  <2>2. /\ tokens'[s] = NewRow(tokens[Presented(r)].device, tokens[Presented(r)].family)
        /\ \A u \in Token \ {s} : SameLineage(tokens[u], tokens'[u])
        /\ \A q \in Rotation : q # r => rotations'[q] = rotations[q]
        /\ rotations'[r].result = s
    BY <1>0, <1>5, SuccessorRow
  <2>3. RowsStay /\ tokens'[s].issued
    BY <2>2 DEF NewRow, RowsStay, SameLineage
  <2>4. KnownInv'
    BY <1>5, <2>2, <2>3 DEF KnownInv, TypeOK, SignIn, RotationState, RowsStay
  <2> QED BY <2>1, <2>4
<1>6. CASE Unheard(r)
  <2>1. ServerInv'
    BY <1>0, <1>6, ServerConclude DEF Unheard
  <2>2. KnownInv'
    BY <1>0, <1>6, KnownKept DEF Unheard, Conclude, NoRotation, RowsStay, TypeOK
  <2> QED BY <2>1, <2>2
<1> QED BY <1>1, <1>2, <1>3, <1>4, <1>5, <1>6 DEF Exchange

LEMMA SafeRevocation ==
  ASSUME SafeInv, NEW d \in Device, Revocation(d)
  PROVE  ServerInv' /\ KnownInv'
<1> USE DEF SafeInv, clientVars
<1>0. TypeOK /\ ServerInv /\ KnownInv
  OBVIOUS
<1>1. CASE RevokeDevice(d) /\ UNCHANGED clientVars
  <2>1. \A e \in Device : IsRevoked(e) => IsRevoked(e)'
    BY <1>1 DEF RevokeDevice, IsRevoked, TypeOK
  <2>2. ServerInv'
    BY <1>0, <1>1, <2>1, ServerIdle DEF RevokeDevice
  <2>3. KnownInv'
    BY <1>0, <1>1, KnownKept DEF RevokeDevice, RowsStay
  <2> QED BY <2>2, <2>3
<1>2. CASE RevokeDeviceSessions(d) /\ UNCHANGED clientVars
  <2> DEFINE Ended == {t \in Token : tokens[t].issued /\ tokens[t].device = d}
  <2>1. OnlyEnded(Ended)
    BY <1>2, DeviceEnds DEF RevokeDeviceSessions, TypeOK
  <2>2. /\ late' = late /\ rotations' = rotations
        /\ \A e \in Device : IsRevoked(e) => IsRevoked(e)'
    BY <1>2 DEF RevokeDeviceSessions, IsRevoked, TypeOK
  <2>3. \A t \in Token \cap Ended : tokens[t].issued
    OBVIOUS
  <2>4. RowsStay
    BY <2>1 DEF OnlyEnded, SameLineage, RowsStay
  <2> HIDE DEF Ended
  <2>5. ServerInv'
    BY <1>0, <2>1, <2>2, <2>3, ServerEnd DEF Presented
  <2>6. KnownInv'
    BY <1>0, <1>2, <2>2, <2>4, KnownKept
  <2> QED BY <2>5, <2>6
<1>3. CASE ConsumeChallenges(d) /\ UNCHANGED clientVars
  <2>1. \A e \in Device : IsRevoked(e) => IsRevoked(e)'
    BY <1>3 DEF ConsumeChallenges, IsRevoked, TypeOK
  <2>2. ServerInv'
    BY <1>0, <1>3, <2>1, ServerIdle DEF ConsumeChallenges
  <2>3. KnownInv'
    BY <1>0, <1>3, KnownKept DEF ConsumeChallenges, RowsStay
  <2> QED BY <2>2, <2>3
<1> QED BY <1>1, <1>2, <1>3 DEF Revocation
-----------------------------------------------------------------------------
LEMMA SafeStarts == Init => SafeInv
BY TypeInit, ServerStarts
   DEF Init, ServerInit, SafeInv, KnownInv, NoSignIn, NoRotation

LEMMA SafeStep ==
  ASSUME SafeInv, [Next]_vars
  PROVE  SafeInv'
<1> USE DEF SafeInv
<1>1. ASSUME NEW d \in Device, Client(d) PROVE SafeInv'
  BY <1>1, TypeClient, SafeClient
<1>2. ASSUME NEW r \in Rotation, Exchange(r) PROVE SafeInv'
  BY <1>2, TypeExchange, SafeExchange DEF ServerInv
<1>3. ASSUME NEW d \in Device, Revocation(d) PROVE SafeInv'
  BY <1>3, TypeRevocation, SafeRevocation
<1>4. CASE UNCHANGED vars
  <2>1. TypeOK'
    BY <1>4 DEF vars, serverVars, clientVars, TypeOK
  <2>2. ServerInv'
    BY <1>4, ServerIdle DEF vars, serverVars, clientVars, IsRevoked
  <2>3. KnownInv'
    BY <1>4, KnownKept DEF vars, serverVars, clientVars, RowsStay
  <2> QED BY <2>1, <2>2, <2>3
<1> QED BY <1>1, <1>2, <1>3, <1>4 DEF Next

(* The strengthening is an invariant of the system.                        *)
THEOREM SessionsInvariant == Spec => []SafeInv
<1>1. SafeInv /\ [Next]_vars => SafeInv'
  BY SafeStep
<1> QED BY <1>1, SafeStarts, PTL DEF Spec

(* Every variable keeps its type: rows, exchanges and clients as declared. *)
THEOREM SessionTypesCorrect == Spec => []TypeOK
<1>1. SafeInv => TypeOK
  BY DEF SafeInv
<1> QED BY <1>1, SessionsInvariant, PTL

(* A lineage never has two live tokens, whatever exchanges overlap         *)
(* (rotate's conditional claim).                                           *)
THEOREM OneLiveToken == Spec => []OneLiveTokenPerLineage
<1>1. SafeInv => OneLiveTokenPerLineage
  BY DEF SafeInv, ServerInv, BatonInv
<1> QED BY <1>1, SessionsInvariant, PTL

(* A token created after its device was revoked is never exchanged         *)
(* (rotate's look at the device, before its claim).                        *)
THEOREM LateTokensStayDead == Spec => []LateTokensAreDeadEnds
<1>1. SafeInv => LateTokensAreDeadEnds
  BY DEF SafeInv, ServerInv, LateInv, LateTokensAreDeadEnds
<1> QED BY <1>1, SessionsInvariant, PTL
-----------------------------------------------------------------------------
(* The client's part.  A device is to blame when its sessions may end.     *)
Blamed(d) == IsRevoked(d) \/ d \in left \cup Copied

(* Nobody has presented the token.                                         *)
Untouched(t) == ~tokens[t].rotated /\ \A r \in Rotation : Presented(r) # t

OwnUntouched(t, d) == tokens[t].device = d /\ (~Blamed(d) => Untouched(t))

(* Each token on its way to a client, or held by one, is in one place.     *)
HeldInv ==
  \A d \in Device : held[d] # None =>
    /\ tokens[held[d]].device = d
    /\ ~Blamed(d) => \/ Untouched(held[d])
                     \/ refreshing[d] # None /\ Presented(refreshing[d]) = held[d]

SignInInv ==
  \A d \in Device : signIn[d].phase = "answered" =>
    /\ signIn[d].token # None
    /\ OwnUntouched(signIn[d].token, d)
    /\ held[d] # signIn[d].token

ResultsInv ==
  \A r \in Rotation : rotations[r].result # None =>
    /\ OwnUntouched(rotations[r].result, tokens[Presented(r)].device)
    /\ \A d \in Device : held[d] # rotations[r].result
    /\ \A d \in Device : signIn[d].phase = "answered"
                           => signIn[d].token # rotations[r].result
    /\ \A q \in Rotation \ {r} : rotations[q].result # rotations[r].result

WaitingInv ==
  /\ \A d \in Device : refreshing[d] # None =>
       /\ Presented(refreshing[d]) # None
       /\ tokens[Presented(refreshing[d])].device = d
  /\ \A d, e \in Device : refreshing[d] # None /\ refreshing[d] = refreshing[e] => d = e

(* Exchanges of a token of a device without blame have no rival.           *)
RivalsInv ==
  \A r \in Rotation : Presented(r) # None /\ ~Blamed(tokens[Presented(r)].device) =>
    /\ \A q \in Rotation \ {r} : Presented(q) # Presented(r)
    /\ rotations[r].phase \in {"sent", "claiming"} => ~tokens[Presented(r)].rotated
    /\ rotations[r].phase # "ending"

CustodyInv == HeldInv /\ SignInInv /\ ResultsInv /\ WaitingInv /\ RivalsInv

LeavingInv ==
  \A d \in Device : leaving[d] # None =>
    d \in left /\ tokens[leaving[d]].issued /\ tokens[leaving[d]].device = d

IInv == SafeInv /\ CustodyInv /\ HonestSessionsSurvive /\ LeavingInv

SteadyRows ==
  \A t \in Token : tokens[t].issued =>
    /\ tokens'[t].issued
    /\ tokens'[t].device = tokens[t].device
    /\ tokens'[t].rotated <=> tokens[t].rotated

BlameGrows == \A d \in Device : Blamed(d) => Blamed(d)'

(* What every exchange and client stands on.                               *)
LEMMA Known ==
  ASSUME TypeOK, ServerInv, KnownInv
  PROVE  /\ \A r \in Rotation : Presented(r) # None =>
              /\ Presented(r) \in Token
              /\ tokens[Presented(r)].issued
              /\ tokens[Presented(r)].device \in Device
         /\ \A r \in Rotation : rotations[r].result # None =>
              /\ rotations[r].result \in Token
              /\ tokens[rotations[r].result].issued
              /\ Presented(r) # None
         /\ \A d \in Device : held[d] # None => held[d] \in Token /\ tokens[held[d]].issued
         /\ \A d \in Device : signIn[d].token # None =>
              signIn[d].token \in Token /\ tokens[signIn[d].token].issued
         /\ \A d \in Device : refreshing[d] # None => refreshing[d] \in Rotation
BY DEF TypeOK, ServerInv, KnownInv, RotationsInv, Presented, Row, RotationState, SignIn

(* Steps that only take tokens away from clients and exchanges.            *)
LEMMA CustodyShrinks ==
  ASSUME SafeInv, CustodyInv, SteadyRows, BlameGrows,
         \A d \in Device :
           \/ held'[d] = None
           \/ held'[d] = held[d] /\ refreshing'[d] = refreshing[d],
         \A d \in Device : signIn'[d] = signIn[d] \/ signIn'[d].phase # "answered",
         \A d \in Device : refreshing'[d] \in {None, refreshing[d]},
         \A r \in Rotation :
           /\ \/ Presented(r)' = Presented(r)
              \/ Presented(r)' = None /\ \A d \in Device : refreshing'[d] # r
           /\ \/ rotations'[r].result = None
              \/ rotations'[r].result = rotations[r].result /\ Presented(r)' = Presented(r)
           /\ rotations'[r].phase \in {rotations[r].phase, "done", "idle"}
  PROVE  CustodyInv'
<1> USE DEF SteadyRows, BlameGrows
<1>0. TypeOK /\ ServerInv /\ KnownInv
  BY DEF SafeInv
<1>1. HeldInv'
  BY <1>0, Known DEF CustodyInv, HeldInv, Untouched
<1>2. SignInInv'
  BY <1>0, Known DEF CustodyInv, SignInInv, OwnUntouched, Untouched
<1>3. ResultsInv'
  BY <1>0, Known DEF CustodyInv, ResultsInv, OwnUntouched, Untouched
<1>4. WaitingInv'
  BY <1>0, Known DEF CustodyInv, WaitingInv
<1>5. RivalsInv'
  BY <1>0, Known DEF CustodyInv, RivalsInv
<1> QED BY <1>1, <1>2, <1>3, <1>4, <1>5 DEF CustodyInv

LEMMA CustodyServeSignIn ==
  ASSUME SafeInv, CustodyInv, NEW d \in Device, NEW t \in Token, ServeSignIn(d, t)
  PROVE  CustodyInv'
<1>0. TypeOK /\ ServerInv /\ KnownInv
  BY DEF SafeInv
<1>1. /\ ~tokens[t].issued /\ tokens' = [tokens EXCEPT ![t] = NewRow(d, t)]
      /\ UNCHANGED <<rotations, revoking, held, refreshing, left>>
      /\ signIn' = [signIn EXCEPT ![d] = [phase |-> "answered", token |-> t]]
  BY DEF ServeSignIn, StartSession
<1>2. /\ \A u \in Token : u # t => tokens'[u] = tokens[u]
      /\ tokens'[t].device = d /\ ~tokens'[t].rotated
      /\ \A e \in Device : e # d => signIn'[e] = signIn[e]
      /\ signIn'[d].token = t
  BY <1>0, <1>1 DEF TypeOK, NewRow, SignIn
<1>3. /\ \A e \in Device : Blamed(e)' <=> Blamed(e)
      /\ \A r \in Rotation : Presented(r)' = Presented(r)
  BY <1>1 DEF Blamed, IsRevoked, Presented
<1>4. HeldInv'
  BY <1>0, <1>1, <1>2, <1>3, Known DEF CustodyInv, HeldInv, Untouched
<1>5. SignInInv'
  BY <1>0, <1>1, <1>2, <1>3, Known, TokenConstants
     DEF CustodyInv, SignInInv, OwnUntouched, Untouched
<1>6. ResultsInv'
  BY <1>0, <1>1, <1>2, <1>3, Known DEF CustodyInv, ResultsInv, OwnUntouched, Untouched
<1>7. WaitingInv'
  BY <1>0, <1>1, <1>2, <1>3, Known DEF CustodyInv, WaitingInv
<1>8. RivalsInv'
  BY <1>0, <1>1, <1>2, <1>3, Known DEF CustodyInv, RivalsInv
<1> QED BY <1>4, <1>5, <1>6, <1>7, <1>8 DEF CustodyInv

LEMMA CustodyFinishSignIn ==
  ASSUME SafeInv, CustodyInv, NEW d \in Device, FinishSignIn(d)
  PROVE  CustodyInv'
<1>0. TypeOK /\ ServerInv /\ KnownInv
  BY DEF SafeInv
<1>1. /\ UNCHANGED <<tokens, rotations, revoking, refreshing, left>>
      /\ signIn[d].phase = "answered"
      /\ signIn' = [signIn EXCEPT ![d] = NoSignIn]
      /\ held' = [held EXCEPT ![d] = signIn[d].token] \/ UNCHANGED held
  BY DEF FinishSignIn, serverVars
<1>2. /\ \A e \in Device : e # d => held'[e] = held[e] /\ signIn'[e] = signIn[e]
      /\ held'[d] \in {held[d], signIn[d].token}
      /\ signIn'[d].phase # "answered"
  BY <1>0, <1>1 DEF TypeOK, SignIn, NoSignIn
<1>3. /\ \A e \in Device : Blamed(e)' <=> Blamed(e)
      /\ \A r \in Rotation : Presented(r)' = Presented(r)
      /\ \A t \in Token : Untouched(t)' <=> Untouched(t)
  BY <1>1 DEF Blamed, IsRevoked, Presented, Untouched
<1>4. HeldInv'
  BY <1>0, <1>1, <1>2, <1>3, Known DEF CustodyInv, HeldInv, SignInInv, OwnUntouched
<1>5. SignInInv'
  BY <1>0, <1>1, <1>2, <1>3, Known DEF CustodyInv, SignInInv, OwnUntouched
<1>6. ResultsInv'
  BY <1>0, <1>1, <1>2, <1>3, Known DEF CustodyInv, ResultsInv, OwnUntouched
<1>7. WaitingInv'
  BY <1>0, <1>1, <1>2, <1>3, Known DEF CustodyInv, WaitingInv
<1>8. RivalsInv'
  BY <1>0, <1>1, <1>2, <1>3, Known DEF CustodyInv, RivalsInv
<1> QED BY <1>4, <1>5, <1>6, <1>7, <1>8 DEF CustodyInv

(* A client presents the token it holds for the first time.                *)
LEMMA CustodyBeginRefresh ==
  ASSUME SafeInv, CustodyInv, NEW d \in Device, NEW r \in Rotation, BeginRefresh(d, r)
  PROVE  CustodyInv'
<1> DEFINE t == held[d]
<1>0. TypeOK /\ ServerInv /\ KnownInv
  BY DEF SafeInv
<1>1. /\ t # None /\ refreshing[d] = None
      /\ rotations[r].phase = "idle"
      /\ rotations' = [rotations EXCEPT ![r] = [phase |-> "sent", token |-> t, result |-> None]]
      /\ refreshing' = [refreshing EXCEPT ![d] = r]
      /\ UNCHANGED <<tokens, revoking, held, signIn, left>>
  BY DEF BeginRefresh, MayRefresh, Present
<1>2. /\ Presented(r) = None /\ rotations[r].result = None
      /\ Presented(r)' = t /\ rotations'[r].result = None /\ rotations'[r].phase = "sent"
      /\ \A q \in Rotation : q # r => rotations'[q] = rotations[q] /\ Presented(q)' = Presented(q)
      /\ refreshing'[d] = r /\ r # None
      /\ \A e \in Device : e # d => refreshing'[e] = refreshing[e] /\ refreshing[e] # r
  BY <1>0, <1>1, TokenConstants
     DEF Presented, TypeOK, RotationState, ServerInv, RotationsInv, CustodyInv, WaitingInv
<1>3. /\ t \in Token /\ tokens[t].device = d /\ (~Blamed(d) => Untouched(t))
      /\ \A e \in Device : Blamed(e)' <=> Blamed(e)
  BY <1>0, <1>1, Known DEF CustodyInv, HeldInv, Blamed, IsRevoked
<1>4. \A u \in Token : u # t /\ Untouched(u) => Untouched(u)'
  BY <1>1, <1>2 DEF Untouched
<1> HIDE DEF t
<1>5. HeldInv'
  BY <1>0, <1>1, <1>2, <1>3, <1>4, Known DEF CustodyInv, HeldInv, t
<1>6. SignInInv'
  BY <1>0, <1>1, <1>2, <1>3, <1>4, Known DEF CustodyInv, SignInInv, OwnUntouched, t
<1>7. ResultsInv'
  BY <1>0, <1>1, <1>2, <1>3, <1>4, Known DEF CustodyInv, ResultsInv, OwnUntouched, t
<1>8. WaitingInv'
  BY <1>0, <1>1, <1>2, <1>3, Known DEF CustodyInv, WaitingInv
<1>9. RivalsInv'
  BY <1>0, <1>1, <1>2, <1>3, Known DEF CustodyInv, RivalsInv, Untouched
<1> QED BY <1>5, <1>6, <1>7, <1>8, <1>9 DEF CustodyInv

LEMMA CustodyFinishRefresh ==
  ASSUME SafeInv, CustodyInv, NEW d \in Device, FinishRefresh(d),
         NEW r \in Rotation, r = refreshing[d],
         NEW s, s = rotations[r].result
  PROVE  CustodyInv'
<1>0. TypeOK /\ ServerInv /\ KnownInv
  BY DEF SafeInv
<1>1. /\ rotations' = [rotations EXCEPT ![r] = NoRotation]
      /\ held' = [held EXCEPT ![d] = s]
      /\ refreshing' = [refreshing EXCEPT ![d] = None]
      /\ UNCHANGED <<tokens, revoking, signIn, left>>
  BY DEF FinishRefresh, Conclude
<1>2. /\ r # None /\ Presented(r) # None /\ tokens[Presented(r)].device = d
      /\ \A e \in Device : e # d => refreshing[e] # r
  BY <1>0, Known, TokenConstants DEF CustodyInv, WaitingInv
<1>3. /\ Presented(r)' = None /\ rotations'[r].result = None /\ rotations'[r].phase = "idle"
      /\ \A q \in Rotation : q # r => rotations'[q] = rotations[q] /\ Presented(q)' = Presented(q)
      /\ held'[d] = s /\ refreshing'[d] = None
      /\ \A e \in Device : e # d => held'[e] = held[e] /\ refreshing'[e] = refreshing[e]
  BY <1>0, <1>1, <1>2 DEF Presented, TypeOK, NoRotation
<1>4. s # None => /\ s \in Token /\ tokens[s].device = d /\ (~Blamed(d) => Untouched(s))
                  /\ \A q \in Rotation : q # r => rotations[q].result # s
                  /\ \A e \in Device : signIn[e].phase = "answered" => signIn[e].token # s
  BY <1>0, <1>2, Known DEF CustodyInv, ResultsInv, OwnUntouched
<1>5. /\ \A e \in Device : Blamed(e)' <=> Blamed(e)
      /\ \A t \in Token : Untouched(t) => Untouched(t)'
  BY <1>1, <1>3, TokenConstants DEF Blamed, IsRevoked, Untouched
<1>6. HeldInv'
  BY <1>0, <1>1, <1>2, <1>3, <1>4, <1>5, Known DEF CustodyInv, HeldInv
<1>7. SignInInv'
  BY <1>0, <1>1, <1>3, <1>4, <1>5, Known DEF CustodyInv, SignInInv, OwnUntouched
<1>8. ResultsInv'
  BY <1>0, <1>1, <1>2, <1>3, <1>4, <1>5, Known DEF CustodyInv, ResultsInv, OwnUntouched
<1>9. WaitingInv'
  BY <1>0, <1>1, <1>2, <1>3, Known DEF CustodyInv, WaitingInv
<1>10. RivalsInv'
  BY <1>0, <1>1, <1>3, <1>5, Known DEF CustodyInv, RivalsInv
<1> QED BY <1>6, <1>7, <1>8, <1>9, <1>10 DEF CustodyInv

LEMMA CustodyPresentAgain ==
  ASSUME SafeInv, CustodyInv, NEW r \in Rotation, NEW t \in Token, PresentAgain(r, t)
  PROVE  CustodyInv'
<1>0. TypeOK /\ ServerInv /\ KnownInv
  BY DEF SafeInv
<1>1. /\ tokens[t].device \in Copied
      /\ rotations[r].phase = "idle"
      /\ rotations' = [rotations EXCEPT ![r] = [phase |-> "sent", token |-> t, result |-> None]]
      /\ UNCHANGED <<tokens, revoking, held, signIn, refreshing, left>>
  BY DEF PresentAgain, Present, clientVars
<1>2. /\ Presented(r) = None /\ rotations[r].result = None
      /\ Presented(r)' = t /\ rotations'[r].result = None
      /\ \A q \in Rotation : q # r => rotations'[q] = rotations[q] /\ Presented(q)' = Presented(q)
      /\ \A e \in Device : refreshing[e] # None => refreshing[e] # r
  BY <1>0, <1>1
     DEF Presented, TypeOK, RotationState, ServerInv, RotationsInv, CustodyInv, WaitingInv
<1>3. /\ \A e \in Device : Blamed(e)' <=> Blamed(e)
      /\ Blamed(tokens[t].device) /\ tokens[t].device \in Device
  BY <1>1, ClientConstants DEF Blamed, IsRevoked
<1>4. \A u \in Token : u # t /\ Untouched(u) => Untouched(u)'
  BY <1>1, <1>2 DEF Untouched
<1>5. HeldInv'
  BY <1>0, <1>1, <1>2, <1>3, <1>4, Known DEF CustodyInv, HeldInv
<1>6. SignInInv'
  BY <1>0, <1>1, <1>2, <1>3, <1>4, Known DEF CustodyInv, SignInInv, OwnUntouched
<1>7. ResultsInv'
  BY <1>0, <1>1, <1>2, <1>3, <1>4, Known DEF CustodyInv, ResultsInv, OwnUntouched
<1>8. WaitingInv'
  BY <1>0, <1>1, <1>2, <1>3, Known DEF CustodyInv, WaitingInv
<1>9. RivalsInv'
  BY <1>0, <1>1, <1>2, <1>3, Known DEF CustodyInv, RivalsInv
<1> QED BY <1>5, <1>6, <1>7, <1>8, <1>9 DEF CustodyInv

(* The read finds an untouched lineage, unless the device is to blame.     *)
LEMMA CustodyRead ==
  ASSUME IInv, NEW r \in Rotation, ReadToken(r), UNCHANGED clientVars
  PROVE  CustodyInv'
<1> DEFINE t == Presented(r)
<1>0. TypeOK /\ ServerInv /\ KnownInv /\ CustodyInv /\ HonestSessionsSurvive
  BY DEF IInv, SafeInv
<1>1. rotations[r].phase = "sent" /\ UNCHANGED <<tokens, revoking, held, signIn, refreshing, left>>
  BY DEF ReadToken, clientVars
<1>2. /\ \A q \in Rotation : /\ Presented(q)' = Presented(q)
                             /\ rotations'[q].result = rotations[q].result
                             /\ q # r => rotations'[q].phase = rotations[q].phase
      /\ rotations'[r].phase \in Verdict(t)
  BY <1>0 DEF ReadToken, Presented, TypeOK, RotationState
<1>3. /\ \A e \in Device : Blamed(e)' <=> Blamed(e)
      /\ \A u \in Token : Untouched(u)' <=> Untouched(u)
  BY <1>1, <1>2 DEF Blamed, IsRevoked, Untouched
<1>4. t # None /\ t \in Token
  BY <1>0, <1>1, Known DEF ServerInv, RotationsInv
<1>5. ~Blamed(tokens[t].device) => ~Spent(t) /\ ~IsRevoked(tokens[t].device)
  BY <1>0, <1>1, <1>4 DEF CustodyInv, RivalsInv, HonestSessionsSurvive, Spent, Blamed
<1>6. ~Blamed(tokens[t].device) => rotations'[r].phase # "ending" /\ ~tokens[t].rotated
  BY <1>2, <1>5 DEF Verdict, Spent
<1> HIDE DEF t
<1>7. HeldInv'
  BY <1>0, <1>1, <1>2, <1>3, Known DEF CustodyInv, HeldInv
<1>8. SignInInv'
  BY <1>0, <1>1, <1>2, <1>3, Known DEF CustodyInv, SignInInv, OwnUntouched
<1>9. ResultsInv'
  BY <1>0, <1>1, <1>2, <1>3, Known DEF CustodyInv, ResultsInv, OwnUntouched
<1>10. WaitingInv'
  BY <1>0, <1>1, <1>2, Known DEF CustodyInv, WaitingInv
<1>11. RivalsInv'
  BY <1>0, <1>1, <1>2, <1>3, <1>6, Known DEF CustodyInv, RivalsInv, t
<1> QED BY <1>7, <1>8, <1>9, <1>10, <1>11 DEF CustodyInv

LEMMA CustodyClaim ==
  ASSUME IInv, NEW r \in Rotation, ClaimToken(r), UNCHANGED clientVars
  PROVE  CustodyInv'
<1> DEFINE t == Presented(r)
<1>0. TypeOK /\ ServerInv /\ KnownInv /\ CustodyInv /\ HonestSessionsSurvive
  BY DEF IInv, SafeInv
<1>1. rotations[r].phase = "claiming" /\ UNCHANGED <<revoking, held, signIn, refreshing, left>>
  BY DEF ClaimToken, clientVars
<1>2. t # None /\ t \in Token
  BY <1>0, <1>1, Known DEF ServerInv, RotationsInv
<1>3. /\ \A q \in Rotation : /\ Presented(q)' = Presented(q)
                             /\ rotations'[q].result = rotations[q].result
                             /\ q # r => rotations'[q].phase = rotations[q].phase
      /\ \A u \in Token : /\ tokens'[u].device = tokens[u].device
                          /\ u # t => tokens'[u] = tokens[u]
      /\ Claimable(t) => rotations'[r].phase = "issuing"
  <2>1. CASE Claimable(t)
    <3>1. /\ tokens' = [tokens EXCEPT ![t].rotated = TRUE]
          /\ rotations' = [rotations EXCEPT ![r].phase = "issuing"]
      BY <2>1 DEF ClaimToken, Presented
    <3> QED BY <1>0, <1>2, <3>1 DEF Presented, TypeOK, RotationState, Row
  <2>2. CASE ~Claimable(t)
    <3>1. tokens' = tokens /\ rotations' = [rotations EXCEPT ![r].phase = "ending"]
      BY <2>2 DEF ClaimToken, Presented
    <3> QED BY <1>0, <2>2, <3>1 DEF Presented, TypeOK, RotationState
  <2> QED BY <2>1, <2>2
<1>4. \A e \in Device : Blamed(e)' <=> Blamed(e)
  BY <1>1 DEF Blamed, IsRevoked
<1>5. \A u \in Token : Untouched(u) => Untouched(u)'
  BY <1>2, <1>3 DEF Untouched
<1>6. ~Blamed(tokens[t].device) => ~Spent(t)
  BY <1>0, <1>1, <1>2 DEF CustodyInv, RivalsInv, HonestSessionsSurvive, Spent, Blamed
<1>7. ~Blamed(tokens[t].device) => rotations'[r].phase = "issuing"
  BY <1>3, <1>6 DEF Claimable
<1> HIDE DEF t
<1>8. HeldInv'
  BY <1>0, <1>1, <1>3, <1>4, <1>5, Known DEF CustodyInv, HeldInv
<1>9. SignInInv'
  BY <1>0, <1>1, <1>3, <1>4, <1>5, Known DEF CustodyInv, SignInInv, OwnUntouched
<1>10. ResultsInv'
  BY <1>0, <1>1, <1>3, <1>4, <1>5, Known DEF CustodyInv, ResultsInv, OwnUntouched
<1>11. WaitingInv'
  BY <1>0, <1>1, <1>3, Known DEF CustodyInv, WaitingInv
<1>12. RivalsInv'
  BY <1>0, <1>1, <1>3, <1>4, <1>7, Known DEF CustodyInv, RivalsInv, t
<1> QED BY <1>8, <1>9, <1>10, <1>11, <1>12 DEF CustodyInv

LEMMA CustodyIssue ==
  ASSUME SafeInv, CustodyInv, NEW r \in Rotation, NEW s \in Token,
         IssueSuccessor(r, s), UNCHANGED clientVars
  PROVE  CustodyInv'
<1> DEFINE t == Presented(r)
<1>0. TypeOK /\ ServerInv /\ KnownInv
  BY DEF SafeInv
<1>1. /\ rotations[r].phase = "issuing"
      /\ t \in Token /\ tokens[t].issued /\ ~tokens[s].issued /\ s # t
      /\ tokens'[s] = NewRow(tokens[t].device, tokens[t].family)
      /\ \A u \in Token \ {s} : /\ SameLineage(tokens[u], tokens'[u])
                                /\ tokens'[u].rotated <=> tokens[u].rotated
      /\ \A q \in Rotation : /\ Presented(q)' = Presented(q)
                             /\ q # r => rotations'[q] = rotations[q]
      /\ rotations'[r].phase = "done" /\ rotations'[r].result = s
      /\ revoking' = revoking
  BY <1>0, SuccessorRow
<1>2. UNCHANGED <<held, signIn, refreshing, left>>
  BY DEF clientVars
<1>3. /\ tokens'[s].device = tokens[t].device /\ ~tokens'[s].rotated
      /\ \A u \in Token : u # s => tokens'[u].device = tokens[u].device
  BY <1>1 DEF NewRow, SameLineage
<1>4. /\ \A e \in Device : Blamed(e)' <=> Blamed(e)
      /\ \A u \in Token : u # s => (Untouched(u)' <=> Untouched(u))
  BY <1>1, <1>2 DEF Blamed, IsRevoked, Untouched
<1>5. Untouched(s)'
  BY <1>0, <1>1, <1>3, Known, TokenConstants DEF Untouched
<1> HIDE DEF t
<1>6. HeldInv'
  BY <1>0, <1>1, <1>2, <1>3, <1>4, Known DEF CustodyInv, HeldInv
<1>7. SignInInv'
  BY <1>0, <1>1, <1>2, <1>3, <1>4, Known DEF CustodyInv, SignInInv, OwnUntouched
<1>8. ResultsInv'
  BY <1>0, <1>1, <1>2, <1>3, <1>4, <1>5, Known, TokenConstants
     DEF CustodyInv, ResultsInv, OwnUntouched, t
<1>9. WaitingInv'
  BY <1>0, <1>1, <1>2, <1>3, Known DEF CustodyInv, WaitingInv
<1>10. RivalsInv'
  BY <1>0, <1>1, <1>2, <1>3, <1>4, Known DEF CustodyInv, RivalsInv
<1> QED BY <1>6, <1>7, <1>8, <1>9, <1>10 DEF CustodyInv

(* A step ends no session of a device without blame.                       *)
EndsOnlyBlamed ==
  \A t \in Token : tokens'[t].revoked =>
    \/ tokens[t].revoked /\ tokens'[t].device = tokens[t].device
    \/ Blamed(tokens[t].device)'

SameDevices ==
  \A t \in Token : tokens[t].issued => tokens'[t].issued /\ tokens'[t].device = tokens[t].device

LEMMA BlameKept ==
  ASSUME IInv, BlameGrows, EndsOnlyBlamed, SameDevices, left \subseteq left',
         \A d \in Device : leaving'[d] \in {None, leaving[d]}
  PROVE  HonestSessionsSurvive' /\ LeavingInv'
<1>0. TypeOK /\ HonestSessionsSurvive /\ LeavingInv
  BY DEF IInv, SafeInv
<1>1. \A t \in Token : tokens[t].device \in Device
  BY <1>0 DEF TypeOK, Row
<1>2. \A t \in Token : tokens[t].revoked => Blamed(tokens[t].device)
  BY <1>0 DEF HonestSessionsSurvive, Blamed
<1>3. \A t \in Token : tokens'[t].revoked => Blamed(tokens[t].device)'
  BY <1>1, <1>2 DEF EndsOnlyBlamed, BlameGrows
<1>4. HonestSessionsSurvive'
  BY <1>3 DEF HonestSessionsSurvive, Blamed
<1>5. \A d \in Device : leaving[d] # None => leaving[d] \in Token
  BY <1>0 DEF TypeOK
<1>6. LeavingInv'
  BY <1>0, <1>5 DEF LeavingInv, SameDevices
<1> QED BY <1>4, <1>6

(* Steps that leave the rows alone.                                        *)
LEMMA RowsIdle ==
  ASSUME IInv, tokens' = tokens, left \subseteq left',
         \A d \in Device : IsRevoked(d) => IsRevoked(d)'
  PROVE  SteadyRows /\ BlameGrows /\ EndsOnlyBlamed /\ SameDevices
BY DEF SteadyRows, BlameGrows, EndsOnlyBlamed, SameDevices, Blamed

(* Statements that end the sessions of devices to blame.                   *)
LEMMA RowsEnd ==
  ASSUME IInv, NEW Ended, OnlyEnded(Ended), left' = left,
         \A d \in Device : IsRevoked(d) => IsRevoked(d)',
         \A t \in Token \cap Ended : Blamed(tokens[t].device)
  PROVE  SteadyRows /\ BlameGrows /\ EndsOnlyBlamed /\ SameDevices
<1>1. \A t \in Token : /\ SameLineage(tokens[t], tokens'[t])
                       /\ tokens'[t].rotated <=> tokens[t].rotated
                       /\ tokens'[t].revoked <=> tokens[t].revoked \/ t \in Ended
  BY DEF OnlyEnded
<1>2. SteadyRows /\ SameDevices
  BY <1>1 DEF SteadyRows, SameDevices, SameLineage
<1>3. BlameGrows
  BY DEF BlameGrows, Blamed
<1>4. \A t \in Token : tokens[t].device \in Device
  BY DEF IInv, SafeInv, TypeOK, Row
<1>5. EndsOnlyBlamed
  BY <1>1, <1>3, <1>4 DEF EndsOnlyBlamed, BlameGrows, SameLineage
<1> QED BY <1>2, <1>3, <1>5

LEMMA ClientStep ==
  ASSUME IInv, NEW d \in Device, Client(d)
  PROVE  CustodyInv' /\ HonestSessionsSurvive' /\ LeavingInv'
<1> DEFINE Goal == CustodyInv /\ HonestSessionsSurvive /\ LeavingInv
<1>0. TypeOK /\ ServerInv /\ KnownInv /\ SafeInv /\ CustodyInv /\ LeavingInv
  BY DEF IInv, SafeInv
<1>i. ASSUME UNCHANGED serverVars, left \subseteq left'
      PROVE  /\ SteadyRows /\ BlameGrows /\ EndsOnlyBlamed /\ SameDevices
             /\ \A r \in Rotation : Presented(r)' = Presented(r) /\ rotations'[r] = rotations[r]
  BY <1>i, RowsIdle DEF serverVars, IsRevoked, Presented
<1>1. CASE BeginSignIn(d)
  <2>1. /\ UNCHANGED serverVars /\ UNCHANGED <<held, refreshing, leaving, left>>
        /\ \A e \in Device : signIn'[e] = signIn[e] \/ signIn'[e].phase # "answered"
    BY <1>0, <1>1 DEF BeginSignIn, TypeOK, SignIn
  <2> QED BY <1>0, <1>i, <2>1, CustodyShrinks, BlameKept
<1>2. ASSUME NEW t \in Token, ServeSignIn(d, t) PROVE Goal'
  <2>1. /\ ~tokens[t].issued /\ tokens' = [tokens EXCEPT ![t] = NewRow(d, t)]
        /\ UNCHANGED <<revoking, leaving, left>>
    BY <1>2 DEF ServeSignIn, StartSession
  <2>2. /\ ~tokens'[t].revoked
        /\ \A u \in Token : u # t => tokens'[u] = tokens[u]
    BY <1>0, <2>1 DEF TypeOK, NewRow
  <2>3. BlameGrows /\ EndsOnlyBlamed /\ SameDevices
    BY <2>1, <2>2 DEF BlameGrows, Blamed, IsRevoked, EndsOnlyBlamed, SameDevices
  <2> QED BY <1>0, <1>2, <2>1, <2>3, CustodyServeSignIn, BlameKept
<1>3. CASE FinishSignIn(d)
  <2>1. UNCHANGED serverVars /\ UNCHANGED <<leaving, left>>
    BY <1>3 DEF FinishSignIn
  <2> QED BY <1>0, <1>3, <1>i, <2>1, CustodyFinishSignIn, BlameKept
<1>4. ASSUME NEW r \in Rotation, BeginRefresh(d, r) PROVE Goal'
  <2>1. UNCHANGED <<tokens, revoking, leaving, left>>
    BY <1>4 DEF BeginRefresh, Present
  <2>2. SteadyRows /\ BlameGrows /\ EndsOnlyBlamed /\ SameDevices
    BY <2>1, RowsIdle DEF IsRevoked
  <2> QED BY <1>0, <1>4, <2>1, <2>2, CustodyBeginRefresh, BlameKept
<1>5. CASE FinishRefresh(d)
  <2>1. UNCHANGED <<tokens, revoking, leaving, left>> /\ refreshing[d] \in Rotation
    BY <1>0, <1>5 DEF FinishRefresh, Conclude, TypeOK
  <2>2. SteadyRows /\ BlameGrows /\ EndsOnlyBlamed /\ SameDevices
    BY <2>1, RowsIdle DEF IsRevoked
  <2>3. CustodyInv'
    BY <1>0, <1>5, <2>1, CustodyFinishRefresh
  <2> QED BY <2>1, <2>2, <2>3, BlameKept
<1>6. CASE FailRefresh(d)
  <2>1. /\ UNCHANGED serverVars /\ UNCHANGED <<signIn, leaving, left>>
        /\ \A e \in Device : \/ held'[e] = None
                             \/ held'[e] = held[e] /\ refreshing'[e] = refreshing[e]
        /\ \A e \in Device : refreshing'[e] \in {None, refreshing[e]}
    BY <1>0, <1>6 DEF FailRefresh, TypeOK
  <2> QED BY <1>0, <1>i, <2>1, CustodyShrinks, BlameKept
<1>7. CASE BeginLogout(d)
  <2>1. /\ UNCHANGED serverVars /\ UNCHANGED <<signIn, held, refreshing>>
        /\ held[d] # None /\ leaving' = [leaving EXCEPT ![d] = held[d]]
        /\ left' = left \cup {d}
    BY <1>7 DEF BeginLogout
  <2>2. CustodyInv'
    BY <1>0, <1>i, <2>1, CustodyShrinks
  <2>3. HonestSessionsSurvive'
    BY <1>0, <2>1 DEF IInv, HonestSessionsSurvive, IsRevoked, serverVars
  <2>4. tokens[held[d]].issued /\ tokens[held[d]].device = d
    BY <1>0, <2>1 DEF KnownInv, CustodyInv, HeldInv
  <2>5. LeavingInv'
    BY <1>0, <2>1, <2>4 DEF LeavingInv, serverVars, TypeOK
  <2> QED BY <2>2, <2>3, <2>5
<1>8. CASE ServeLogout(d)
  <2> DEFINE f == tokens[leaving[d]].family
             Ended == {t \in Token : tokens[t].issued /\ tokens[t].family = f}
  <2>1. /\ leaving[d] \in Token /\ f \in Token /\ tokens \in [Token -> Row]
        /\ d \in left /\ tokens[leaving[d]].issued /\ tokens[leaving[d]].device = d
    BY <1>0, <1>8 DEF ServeLogout, TypeOK, Row, LeavingInv
  <2>2. OnlyEnded(Ended)
    BY <1>8, <2>1, LineageEnds DEF ServeLogout, RevokeByToken
  <2>3. revoking' = revoking /\ rotations' = rotations /\ UNCHANGED clientVars
    BY <1>8 DEF ServeLogout, RevokeByToken
  <2>4. \A t \in Token \cap Ended : tokens[t].device = d
    BY <1>0, <2>1 DEF ServerInv, RowsInv
  <2>5. \A t \in Token \cap Ended : Blamed(tokens[t].device)
    BY <2>1, <2>4 DEF Blamed
  <2> HIDE DEF Ended
  <2>6. SteadyRows /\ BlameGrows /\ EndsOnlyBlamed /\ SameDevices
    BY <2>2, <2>3, <2>5, RowsEnd DEF IsRevoked, clientVars
  <2>7. \A r \in Rotation : Presented(r)' = Presented(r) /\ rotations'[r] = rotations[r]
    BY <2>3 DEF Presented
  <2> QED BY <1>0, <2>3, <2>6, <2>7, CustodyShrinks, BlameKept DEF clientVars
<1>9. CASE FinishLogout(d)
  <2>1. /\ UNCHANGED serverVars /\ UNCHANGED <<signIn, refreshing, left>>
        /\ \A e \in Device : held'[e] \in {None, held[e]} /\ leaving'[e] \in {None, leaving[e]}
    BY <1>0, <1>9 DEF FinishLogout, TypeOK
  <2> QED BY <1>0, <1>i, <2>1, CustodyShrinks, BlameKept
<1> QED BY <1>1, <1>2, <1>3, <1>4, <1>5, <1>6, <1>7, <1>8, <1>9 DEF Client

LEMMA ExchangeStep ==
  ASSUME IInv, NEW r \in Rotation, Exchange(r)
  PROVE  CustodyInv' /\ HonestSessionsSurvive' /\ LeavingInv'
<1> DEFINE Goal == CustodyInv /\ HonestSessionsSurvive /\ LeavingInv
<1>0. TypeOK /\ ServerInv /\ KnownInv /\ SafeInv /\ CustodyInv /\ HonestSessionsSurvive
  BY DEF IInv, SafeInv
<1>i. ASSUME tokens' = tokens, revoking' = revoking, UNCHANGED clientVars, CustodyInv'
      PROVE  Goal'
  <2>1. SteadyRows /\ BlameGrows /\ EndsOnlyBlamed /\ SameDevices
    BY <1>i, RowsIdle DEF IsRevoked, clientVars
  <2> QED BY <1>i, <2>1, BlameKept DEF clientVars
<1>1. ASSUME NEW t \in Token, PresentAgain(r, t) PROVE Goal'
  BY <1>0, <1>1, <1>i, CustodyPresentAgain DEF PresentAgain, Present
<1>2. CASE ReadToken(r) /\ UNCHANGED clientVars
  BY <1>2, <1>i, CustodyRead DEF ReadToken
<1>3. CASE ClaimToken(r) /\ UNCHANGED clientVars
  <2> DEFINE t == rotations[r].token
  <2>1. tokens' = tokens \/ tokens' = [tokens EXCEPT ![t].rotated = TRUE]
    BY <1>3 DEF ClaimToken
  <2>2. \A u \in Token : /\ tokens'[u].issued <=> tokens[u].issued
                         /\ tokens'[u].device = tokens[u].device
                         /\ tokens'[u].revoked <=> tokens[u].revoked
    BY <1>0, <2>1 DEF TypeOK, Row
  <2>3. BlameGrows
    BY <1>3 DEF ClaimToken, BlameGrows, Blamed, IsRevoked, clientVars
  <2>4. EndsOnlyBlamed /\ SameDevices
    BY <2>2 DEF EndsOnlyBlamed, SameDevices
  <2> QED BY <1>3, <2>3, <2>4, CustodyClaim, BlameKept DEF clientVars
<1>4. CASE EndLineage(r) /\ UNCHANGED clientVars
  <2> DEFINE f == tokens[Presented(r)].family
             Ended == {t \in Token : tokens[t].issued /\ tokens[t].family = f}
  <2>1. /\ Presented(r) \in Token /\ f \in Token /\ tokens \in [Token -> Row]
        /\ tokens[Presented(r)].issued
        /\ Blamed(tokens[Presented(r)].device)
    BY <1>0, <1>4, Known
       DEF EndLineage, ServerInv, RotationsInv, CustodyInv, RivalsInv, TypeOK, Row
  <2>2. OnlyEnded(Ended)
    BY <1>4, <2>1, LineageEnds DEF EndLineage, Presented
  <2>3. revoking' = revoking /\ rotations' = [rotations EXCEPT ![r].phase = "done"]
    BY <1>4 DEF EndLineage
  <2>4. \A t \in Token \cap Ended : Blamed(tokens[t].device)
    BY <1>0, <2>1 DEF ServerInv, RowsInv
  <2> HIDE DEF Ended
  <2>5. SteadyRows /\ BlameGrows /\ EndsOnlyBlamed /\ SameDevices
    BY <1>4, <2>2, <2>3, <2>4, RowsEnd DEF IsRevoked, clientVars
  <2>6. \A q \in Rotation : /\ Presented(q)' = Presented(q)
                            /\ rotations'[q].result = rotations[q].result
                            /\ rotations'[q].phase \in {rotations[q].phase, "done"}
    BY <1>0, <2>3 DEF Presented, TypeOK, RotationState
  <2> QED BY <1>0, <1>4, <2>5, <2>6, CustodyShrinks, BlameKept DEF clientVars
<1>5. ASSUME NEW s \in Token, IssueSuccessor(r, s) /\ UNCHANGED clientVars PROVE Goal'
  <2>1. /\ ~tokens[s].issued
        /\ tokens'[s] = NewRow(tokens[Presented(r)].device, tokens[Presented(r)].family)
        /\ \A u \in Token \ {s} : /\ SameLineage(tokens[u], tokens'[u])
                                  /\ tokens'[u].revoked <=> tokens[u].revoked
        /\ revoking' = revoking
    BY <1>0, <1>5, SuccessorRow
  <2>2. BlameGrows /\ EndsOnlyBlamed /\ SameDevices
    BY <1>5, <2>1
       DEF BlameGrows, Blamed, IsRevoked, EndsOnlyBlamed, SameDevices, SameLineage, NewRow, clientVars
  <2> QED BY <1>0, <1>5, <2>2, CustodyIssue, BlameKept DEF clientVars
<1>6. CASE Unheard(r)
  <2>1. /\ tokens' = tokens /\ revoking' = revoking /\ UNCHANGED clientVars
        /\ rotations' = [rotations EXCEPT ![r] = NoRotation]
        /\ \A d \in Device : refreshing[d] # r
    BY <1>6 DEF Unheard, Conclude
  <2>2. \A q \in Rotation : /\ q # r => Presented(q)' = Presented(q) /\ rotations'[q] = rotations[q]
                            /\ q = r => Presented(q)' = None /\ rotations'[q] = NoRotation
    BY <1>0, <2>1 DEF Presented, TypeOK, NoRotation
  <2>3. SteadyRows /\ BlameGrows
    BY <2>1, RowsIdle DEF IsRevoked, clientVars
  <2>4. CustodyInv'
    BY <1>0, <2>1, <2>2, <2>3, CustodyShrinks DEF clientVars, NoRotation
  <2> QED BY <1>i, <2>1, <2>4
<1> QED BY <1>1, <1>2, <1>3, <1>4, <1>5, <1>6 DEF Exchange

LEMMA RevocationStep ==
  ASSUME IInv, NEW d \in Device, Revocation(d)
  PROVE  CustodyInv' /\ HonestSessionsSurvive' /\ LeavingInv'
<1>0. TypeOK /\ SafeInv /\ CustodyInv
  BY DEF IInv, SafeInv
<1>1. /\ UNCHANGED <<rotations, clientVars>>
      /\ \A e \in Device : IsRevoked(e) => IsRevoked(e)'
      /\ \A r \in Rotation : Presented(r)' = Presented(r)
  BY <1>0 DEF Revocation, RevokeDevice, RevokeDeviceSessions, ConsumeChallenges,
              IsRevoked, Presented, TypeOK
<1>2. SteadyRows /\ BlameGrows /\ EndsOnlyBlamed /\ SameDevices
  <2>1. CASE tokens' = tokens
    BY <1>1, <2>1, RowsIdle DEF clientVars
  <2>2. CASE RevokeDeviceSessions(d)
    <3> DEFINE Ended == {t \in Token : tokens[t].issued /\ tokens[t].device = d}
    <3>1. OnlyEnded(Ended)
      BY <1>0, <2>2, DeviceEnds DEF RevokeDeviceSessions, TypeOK
    <3>2. \A t \in Token \cap Ended : Blamed(tokens[t].device)
      BY <2>2 DEF RevokeDeviceSessions, Blamed, IsRevoked
    <3> HIDE DEF Ended
    <3> QED BY <1>1, <3>1, <3>2, RowsEnd DEF clientVars
  <2> QED BY <2>1, <2>2 DEF Revocation, RevokeDevice, ConsumeChallenges
<1> QED BY <1>0, <1>1, <1>2, CustodyShrinks, BlameKept DEF clientVars
-----------------------------------------------------------------------------
LEMMA InvariantStarts == Init => IInv
<1> SUFFICES ASSUME Init PROVE IInv
  OBVIOUS
<1>1. SafeInv
  BY SafeStarts
<1>2. HeldInv /\ SignInInv /\ ResultsInv /\ WaitingInv /\ LeavingInv
  BY DEF Init, ServerInit, HeldInv, SignInInv, ResultsInv, WaitingInv, LeavingInv,
         NoSignIn, NoRotation
<1>3. RivalsInv
  BY DEF Init, ServerInit, RivalsInv, Presented, NoRotation
<1>4. HonestSessionsSurvive
  BY DEF Init, ServerInit, HonestSessionsSurvive, NoRow
<1> QED BY <1>1, <1>2, <1>3, <1>4 DEF IInv, CustodyInv

LEMMA InvariantStep ==
  ASSUME IInv, [Next]_vars
  PROVE  IInv'
<1>1. SafeInv'
  BY SafeStep DEF IInv
<1>2. CustodyInv' /\ HonestSessionsSurvive' /\ LeavingInv'
  <2>1. CASE Next
    BY <2>1, ClientStep, ExchangeStep, RevocationStep DEF Next
  <2>2. CASE UNCHANGED vars
    <3>1. /\ tokens' = tokens /\ rotations' = rotations /\ revoking' = revoking
          /\ UNCHANGED clientVars
      BY <2>2 DEF vars, serverVars, clientVars
    <3>2. SteadyRows /\ BlameGrows /\ EndsOnlyBlamed /\ SameDevices
      BY <3>1, RowsIdle DEF IsRevoked, clientVars
    <3>3. \A r \in Rotation : Presented(r)' = Presented(r)
      BY <3>1 DEF Presented
    <3> QED BY <3>1, <3>2, <3>3, CustodyShrinks, BlameKept DEF IInv, clientVars
  <2> QED BY <2>1, <2>2
<1> QED BY <1>1, <1>2 DEF IInv

(* A client that is not revoked and never signs out keeps its lineage,     *)
(* whatever other devices do and whatever is lost: refreshes that come     *)
(* together are coalesced, so that none of them is taken for a reuse.      *)
THEOREM HonestSessions == Spec => []HonestSessionsSurvive
<1>1. IInv => HonestSessionsSurvive
  BY DEF IInv
<1>2. IInv /\ [Next]_vars => IInv'
  BY InvariantStep
<1> QED BY <1>1, <1>2, InvariantStarts, PTL DEF Spec
-----------------------------------------------------------------------------
(* Lineages as batons: each step of the abstract specification, in terms   *)
(* of the rows and exchanges.                                              *)
LineageStep == Lineage!Next \/ UNCHANGED Lineage!vars

Taken == {tokens[rotations[r].token].family : r \in Issuing}
Begun == {tokens[t].family : t \in {u \in Token : tokens[u].issued}}
Minted == {t \in Token : tokens[t].issued}

LEMMA TakenIs ==
  \A f : f \in Taken <=> \E r \in Rotation : Issues(r, f)
BY DEF Taken, Issuing, Issues, Presented

LEMMA LineagesStay ==
  ASSUME \A f \in Token : LiveIn(f)' = LiveIn(f), Taken' = Taken, Begun' = Begun, Minted' = Minted
  PROVE  LineageStep
BY DEF LineageStep, Lineage!vars, Taken, Begun, Minted

LEMMA LineageStarts ==
  ASSUME NEW f \in Token, NEW t \in Token, f \notin Begun, Begun' = Begun \cup {f},
         t \notin Minted, Minted' = Minted \cup {t}, Taken' = Taken,
         \A g \in Token : LiveIn(g)' = IF g = f THEN {t} ELSE LiveIn(g)
  PROVE  LineageStep
<1>1. Lineage!Start(f, t)
  BY DEF Lineage!Start, Lineage!Mint, Taken, Begun, Minted
<1> QED BY <1>1 DEF LineageStep, Lineage!Next

LEMMA BatonTaken ==
  ASSUME NEW f \in Token, LiveIn(f) # {}, f \notin Taken, Taken' = Taken \cup {f},
         \A g \in Token : LiveIn(g)' = IF g = f THEN {} ELSE LiveIn(g),
         Begun' = Begun, Minted' = Minted
  PROVE  LineageStep
<1>1. Lineage!Take(f)
  BY DEF Lineage!Take, Taken, Begun, Minted
<1> QED BY <1>1 DEF LineageStep, Lineage!Next

LEMMA BatonHandedOn ==
  ASSUME NEW f \in Token, NEW t \in Token, f \in Taken, Taken' = Taken \ {f},
         t \notin Minted, Minted' = Minted \cup {t}, Begun' = Begun,
         \A g \in Token : LiveIn(g)' = IF g = f THEN {t} ELSE LiveIn(g)
  PROVE  LineageStep
<1>1. Lineage!HandOn(f, t)
  BY DEF Lineage!HandOn, Lineage!Mint, Taken, Begun, Minted
<1> QED BY <1>1 DEF LineageStep, Lineage!Next

LEMMA LineagesEnd ==
  ASSUME \A f \in Token : LiveIn(f)' \in {{}, LiveIn(f)},
         Taken' = Taken, Begun' = Begun, Minted' = Minted
  PROVE  LineageStep
<1>1. Lineage!End
  BY DEF Lineage!End, Taken, Begun, Minted
<1> QED BY <1>1 DEF LineageStep, Lineage!Next

(* Every step that creates no token and takes none.                        *)
LEMMA NothingIssued ==
  ASSUME ServerInv, tokens' = tokens,
         \A r \in Rotation : \/ rotations'[r] = rotations[r]
                             \/ /\ rotations[r].phase # "issuing"
                                /\ rotations'[r].phase # "issuing"
  PROVE  LineageStep
<1>1. Begun' = Begun /\ Minted' = Minted
  BY DEF Begun, Minted
<1>2. \A f \in Token : LiveIn(f)' = LiveIn(f)
  BY DEF LiveIn, Live, Spent
<1>3. Issuing' = Issuing /\ \A r \in Issuing : rotations'[r] = rotations[r]
  BY DEF Issuing
<1>4. Taken' = Taken
  BY <1>3 DEF Taken
<1> QED BY <1>1, <1>2, <1>4, LineagesStay

LEMMA StartIsStep ==
  ASSUME TypeOK, ServerInv, NEW d \in Device, NEW t \in Token, StartSession(d, t)
  PROVE  LineageStep
<1>1. /\ ~tokens[t].issued /\ rotations' = rotations
      /\ tokens' = [tokens EXCEPT ![t] = NewRow(d, t)]
  BY DEF StartSession
<1>2. /\ tokens'[t].issued /\ tokens'[t].family = t /\ Live(t)' /\ ~Live(t)
      /\ \A u \in Token : u # t => tokens'[u] = tokens[u]
  BY <1>1 DEF TypeOK, NewRow, Live, Spent
<1>3. \A u \in Token : tokens[u].issued => tokens[u].family # t
  BY <1>1 DEF ServerInv, RowsInv
<1>4. \A r \in Issuing : rotations[r].token \in Token /\ rotations[r].token # t
  BY <1>1 DEF Issuing, ServerInv, RotationsInv, TypeOK, RotationState, Presented
<1>5. t \notin Begun /\ Begun' = Begun \cup {t}
  BY <1>2, <1>3, <1>1 DEF Begun
<1>6. t \notin Minted /\ Minted' = Minted \cup {t}
  BY <1>1, <1>2 DEF Minted
<1>7. Taken' = Taken
  BY <1>1, <1>2, <1>4 DEF Taken, Issuing
<1>8. \A u \in Token : u # t => (Live(u)' <=> Live(u))
  BY <1>2 DEF Live, Spent
<1>9. \A g \in Token : LiveIn(g)' = IF g = t THEN {t} ELSE LiveIn(g)
  BY <1>2, <1>3, <1>8 DEF LiveIn, Live
<1> QED BY <1>5, <1>6, <1>7, <1>9, LineageStarts

LEMMA ClaimIsStep ==
  ASSUME TypeOK, ServerInv, NEW r \in Rotation, ClaimToken(r)
  PROVE  LineageStep
<1>1. /\ rotations[r].phase = "claiming" /\ rotations[r].token \in Token
      /\ tokens[rotations[r].token].issued
  BY DEF ClaimToken, ServerInv, RotationsInv, Presented, TypeOK, RotationState
<1>2. PICK t \in Token : t = rotations[r].token
  BY <1>1
<1>3. PICK f \in Token : f = tokens[t].family
  BY DEF TypeOK, Row
<1>4. CASE Claimable(t)
  <2>1. /\ tokens' = [tokens EXCEPT ![t].rotated = TRUE]
        /\ rotations' = [rotations EXCEPT ![r].phase = "issuing"]
    BY <1>2, <1>4 DEF ClaimToken
  <2>2. \A u \in Token : /\ SameLineage(tokens[u], tokens'[u])
                         /\ tokens'[u].revoked <=> tokens[u].revoked
                         /\ tokens'[u].rotated <=> tokens[u].rotated \/ u = t
    BY <2>1 DEF TypeOK, Row, SameLineage
  <2>3. Live(t) /\ \A u \in Token : Live(u)' <=> Live(u) /\ u # t
    BY <1>1, <1>2, <1>4, <2>2 DEF Live, Spent, Claimable, SameLineage
  <2>4. \A u \in Token : Live(u) /\ tokens[u].family = f => u = t
    BY <1>3, <2>3 DEF ServerInv, BatonInv, OneLiveTokenPerLineage
  <2>5. \A g \in Token : LiveIn(g)' = IF g = f THEN {} ELSE LiveIn(g)
    BY <1>3, <2>2, <2>3, <2>4 DEF LiveIn, SameLineage
  <2>6. t \in LiveIn(f)
    BY <1>3, <2>3 DEF LiveIn
  <2>7. f \notin Taken
    BY <1>3, <2>3, TakenIs DEF ServerInv, BatonInv
  <2>8. /\ \A q \in Rotation : /\ rotations'[q].token = rotations[q].token
                               /\ q # r => rotations'[q].phase = rotations[q].phase
        /\ rotations'[r].phase = "issuing"
    BY <2>1 DEF TypeOK, RotationState
  <2>9. Issuing' = Issuing \cup {r}
    BY <2>8 DEF Issuing
  <2>10. \A q \in Issuing : rotations[q].token \in Token
    BY DEF Issuing, ServerInv, RotationsInv, TypeOK, RotationState, Presented
  <2>11. Taken' = Taken \cup {f}
    <3>1. \A q \in Rotation : rotations'[q].token = rotations[q].token
      BY <2>8
    <3>2. \A q \in Issuing \cup {r} :
            tokens'[rotations'[q].token].family = tokens[rotations[q].token].family
      BY <1>2, <2>2, <2>10, <3>1 DEF SameLineage, Issuing
    <3>3. Taken' = {tokens'[rotations'[q].token].family : q \in Issuing \cup {r}}
      BY <2>9 DEF Taken
    <3>4. Taken' = {tokens[rotations[q].token].family : q \in Issuing \cup {r}}
      BY <3>2, <3>3
    <3> QED
      BY <1>2, <1>3, <3>4 DEF Taken
  <2>12. Begun' = Begun /\ Minted' = Minted
    BY <2>2 DEF Begun, Minted, SameLineage
  <2> QED BY <2>5, <2>6, <2>7, <2>11, <2>12, BatonTaken
<1>5. CASE ~Claimable(t)
  <2>1. tokens' = tokens /\ rotations' = [rotations EXCEPT ![r].phase = "ending"]
    BY <1>2, <1>5 DEF ClaimToken
  <2>2. \A q \in Rotation : q # r => rotations'[q] = rotations[q]
    BY <2>1 DEF TypeOK
  <2>3. rotations'[r].phase = "ending"
    BY <2>1 DEF TypeOK, RotationState
  <2> QED BY <1>1, <2>1, <2>2, <2>3, NothingIssued
<1> QED BY <1>4, <1>5

LEMMA IssueIsStep ==
  ASSUME TypeOK, ServerInv, NEW r \in Rotation, NEW s \in Token, IssueSuccessor(r, s)
  PROVE  LineageStep
<1>1. PICK t \in Token : t = Presented(r)
  BY SuccessorRow
<1>2. PICK f \in Token : f = tokens[t].family
  BY DEF TypeOK, Row
<1>3. /\ rotations[r].phase = "issuing" /\ tokens[t].issued /\ ~tokens[s].issued
      /\ tokens'[s] = NewRow(tokens[t].device, f)
      /\ \A u \in Token \ {s} : /\ SameLineage(tokens[u], tokens'[u])
                                /\ tokens'[u].rotated <=> tokens[u].rotated
                                /\ tokens'[u].revoked <=> tokens[u].revoked
      /\ \A q \in Rotation : /\ Presented(q)' = Presented(q)
                             /\ q # r => rotations'[q] = rotations[q]
      /\ rotations'[r].phase = "done"
  BY <1>1, <1>2, SuccessorRow
<1>4. tokens'[s].issued /\ tokens'[s].family = f /\ Live(s)' /\ ~Live(s)
  BY <1>3 DEF NewRow, Live, Spent
<1>5. \A u \in Token \ {s} : /\ tokens'[u].family = tokens[u].family
                             /\ tokens'[u].issued <=> tokens[u].issued
                             /\ Live(u)' <=> Live(u)
  BY <1>3 DEF SameLineage, Live, Spent
<1>6. Issues(r, f)
  BY <1>1, <1>2, <1>3 DEF Issues
<1>7. f \in Taken
  BY <1>6, TakenIs
<1>8. \A u \in Token : Live(u) => tokens[u].family # f
  BY <1>1, <1>2, <1>6 DEF ServerInv, BatonInv
<1>9. \A q \in Rotation : Issues(q, f) => q = r
  BY <1>1, <1>2, <1>6 DEF ServerInv, BatonInv
<1>10. \A q \in Issuing : /\ rotations[q].token \in Token \ {s}
                          /\ rotations'[q].token = rotations[q].token
  BY <1>3 DEF Issuing, ServerInv, RotationsInv, TypeOK, RotationState, Presented
<1>11. Issuing' = Issuing \ {r}
  BY <1>3 DEF Issuing
<1>12. Taken' = Taken \ {f}
  BY <1>1, <1>2, <1>5, <1>9, <1>10, <1>11 DEF Taken, Issues, Presented, Issuing
<1>13. s \notin Minted /\ Minted' = Minted \cup {s}
  BY <1>3, <1>4, <1>5 DEF Minted
<1>14. Begun' = Begun
  BY <1>2, <1>3, <1>4, <1>5 DEF Begun
<1>15. \A g \in Token : LiveIn(g)' = IF g = f THEN {s} ELSE LiveIn(g)
  BY <1>4, <1>5, <1>8 DEF LiveIn
<1> QED BY <1>7, <1>12, <1>13, <1>14, <1>15, BatonHandedOn

(* Ending all of some lineages, as a sign-out, a reuse and the revocation  *)
(* of a device do.                                                         *)
LEMMA EndIsStep ==
  ASSUME TypeOK, ServerInv, NEW Ended, OnlyEnded(Ended),
         \A s, t \in Token : /\ tokens[s].issued /\ tokens[t].issued
                             /\ tokens[s].family = tokens[t].family
                             => (s \in Ended <=> t \in Ended),
         \A r \in Rotation : \/ rotations'[r] = rotations[r]
                             \/ /\ rotations[r].phase # "issuing"
                                /\ rotations'[r].phase # "issuing"
  PROVE  LineageStep
<1>1. \A t \in Token : /\ tokens'[t].family = tokens[t].family
                       /\ tokens'[t].issued <=> tokens[t].issued
                       /\ Live(t)' <=> Live(t) /\ t \notin Ended
  BY DEF OnlyEnded, SameLineage, Live, Spent
<1>2. Begun' = Begun /\ Minted' = Minted
  BY <1>1 DEF Begun, Minted
<1>3. Issuing' = Issuing /\ \A r \in Issuing : rotations'[r] = rotations[r]
  BY DEF Issuing
<1>4. \A r \in Issuing : rotations[r].token \in Token
  BY DEF Issuing, ServerInv, RotationsInv, TypeOK, RotationState, Presented
<1>5. Taken' = Taken
  BY <1>1, <1>3, <1>4 DEF Taken
<1>6. ASSUME NEW f \in Token PROVE LiveIn(f)' \in {{}, LiveIn(f)}
  <2>1. CASE \E t \in LiveIn(f) : t \in Ended
    <3>1. \A u \in LiveIn(f) : u \in Ended
      BY <2>1 DEF LiveIn, Live
    <3>2. LiveIn(f)' = {}
      BY <1>1, <3>1 DEF LiveIn
    <3> QED BY <3>2
  <2>2. CASE ~\E t \in LiveIn(f) : t \in Ended
    <3>1. LiveIn(f)' = LiveIn(f)
      BY <1>1, <2>2 DEF LiveIn
    <3> QED BY <3>1
  <2> QED BY <2>1, <2>2
<1> QED BY <1>2, <1>5, <1>6, LineagesEnd

LEMMA EveryStepIsLineage ==
  ASSUME SafeInv, [Next]_vars
  PROVE  LineageStep
<1> USE DEF SafeInv
<1>0. TypeOK /\ ServerInv
  OBVIOUS
<1>i. ASSUME UNCHANGED serverVars PROVE LineageStep
  BY <1>0, <1>i, NothingIssued DEF serverVars
<1>p. ASSUME NEW r \in Rotation, NEW t, Present(r, t) PROVE LineageStep
  BY <1>0, <1>p, NothingIssued DEF Present, TypeOK
<1>c. ASSUME NEW r \in Rotation, Conclude(r) PROVE LineageStep
  BY <1>0, <1>c, NothingIssued DEF Conclude, NoRotation, TypeOK
<1>1. ASSUME NEW d \in Device, Client(d) PROVE LineageStep
  <2>1. CASE ServeLogout(d)
    <3> DEFINE f == tokens[leaving[d]].family
               Ended == {t \in Token : tokens[t].issued /\ tokens[t].family = f}
    <3>1. f \in Token /\ tokens \in [Token -> Row] /\ rotations' = rotations
      BY <2>1 DEF ServeLogout, RevokeByToken, TypeOK, Row
    <3>2. OnlyEnded(Ended)
      BY <2>1, <3>1, LineageEnds DEF ServeLogout, RevokeByToken
    <3>3. \A s, t \in Token : /\ tokens[s].issued /\ tokens[t].issued
                              /\ tokens[s].family = tokens[t].family
                              => (s \in Ended <=> t \in Ended)
      OBVIOUS
    <3> HIDE DEF Ended
    <3> QED BY <1>0, <3>1, <3>2, <3>3, EndIsStep
  <2>2. ASSUME NEW t \in Token, ServeSignIn(d, t) PROVE LineageStep
    BY <1>0, <2>2, StartIsStep DEF ServeSignIn
  <2>3. ASSUME NEW r \in Rotation, BeginRefresh(d, r) PROVE LineageStep
    BY <1>p, <2>3 DEF BeginRefresh
  <2>4. CASE FinishRefresh(d)
    BY <1>c, <2>4 DEF FinishRefresh, TypeOK
  <2> QED BY <1>1, <1>i, <2>1, <2>2, <2>3, <2>4
          DEF Client, BeginSignIn, FinishSignIn, FailRefresh, BeginLogout, FinishLogout
<1>2. ASSUME NEW r \in Rotation, Exchange(r) PROVE LineageStep
  <2>1. ASSUME NEW t \in Token, PresentAgain(r, t) PROVE LineageStep
    BY <1>p, <2>1 DEF PresentAgain
  <2>2. CASE ReadToken(r)
    <3>1. /\ tokens' = tokens /\ rotations[r].phase = "sent"
          /\ \A q \in Rotation : q # r => rotations'[q] = rotations[q]
          /\ rotations'[r].phase \in {"ending", "done", "claiming"}
      BY <2>2 DEF ReadToken, Verdict, TypeOK, RotationState
    <3> QED BY <1>0, <3>1, NothingIssued
  <2>3. CASE EndLineage(r)
    <3> DEFINE f == tokens[Presented(r)].family
               Ended == {t \in Token : tokens[t].issued /\ tokens[t].family = f}
    <3>1. f \in Token /\ tokens \in [Token -> Row]
      BY <2>3 DEF EndLineage, ServerInv, RotationsInv, Presented, TypeOK, RotationState, Row
    <3>2. OnlyEnded(Ended)
      BY <2>3, <3>1, LineageEnds DEF EndLineage, Presented
    <3>3. /\ rotations[r].phase = "ending" /\ rotations'[r].phase = "done"
          /\ \A q \in Rotation : q # r => rotations'[q] = rotations[q]
      BY <2>3 DEF EndLineage, TypeOK, RotationState
    <3>4. \A s, t \in Token : /\ tokens[s].issued /\ tokens[t].issued
                              /\ tokens[s].family = tokens[t].family
                              => (s \in Ended <=> t \in Ended)
      OBVIOUS
    <3> HIDE DEF Ended
    <3> QED BY <1>0, <3>2, <3>3, <3>4, EndIsStep
  <2>4. CASE ClaimToken(r)
    BY <1>0, <2>4, ClaimIsStep
  <2>5. ASSUME NEW s \in Token, IssueSuccessor(r, s) PROVE LineageStep
    BY <1>0, <2>5, IssueIsStep
  <2>6. CASE Unheard(r)
    BY <1>c, <2>6 DEF Unheard
  <2> QED BY <1>2, <2>1, <2>2, <2>3, <2>4, <2>5, <2>6 DEF Exchange
<1>3. ASSUME NEW d \in Device, Revocation(d) PROVE LineageStep
  <2>1. CASE RevokeDeviceSessions(d)
    <3> DEFINE Ended == {t \in Token : tokens[t].issued /\ tokens[t].device = d}
    <3>1. OnlyEnded(Ended) /\ rotations' = rotations
      BY <2>1, DeviceEnds DEF RevokeDeviceSessions, TypeOK
    <3>2. \A s, t \in Token : /\ tokens[s].issued /\ tokens[t].issued
                              /\ tokens[s].family = tokens[t].family
                              => (s \in Ended <=> t \in Ended)
      BY DEF ServerInv, RowsInv
    <3> HIDE DEF Ended
    <3> QED BY <1>0, <3>1, <3>2, EndIsStep
  <2>2. CASE RevokeDevice(d) \/ ConsumeChallenges(d)
    BY <1>0, <2>2, NothingIssued DEF RevokeDevice, ConsumeChallenges
  <2> QED BY <1>3, <2>1, <2>2 DEF Revocation
<1>4. CASE UNCHANGED vars
  BY <1>4, <1>i DEF vars
<1> QED BY <1>1, <1>2, <1>3, <1>4 DEF Next

(* Every lineage is a baton: it starts once, whoever takes its live token  *)
(* alone issues the next, and one that was ended with no exchange about to *)
(* issue in it has no live token ever again (startSession, rotate,         *)
(* revokeFamily and revokeDeviceSessions).                                 *)
THEOREM LineagesHandOn == Spec => LineagesAreBatons
<1>1. Init => Lineage!Init
  BY DEF Init, ServerInit, NoRow, NoRotation, LiveIn, Live, Issuing, Lineage!Init
<1>2. SafeInv /\ [Next]_vars => [Lineage!Next]_(Lineage!vars)
  BY EveryStepIsLineage DEF LineageStep
<1> QED
  BY <1>1, <1>2, SessionsInvariant, PTL DEF Spec, LineagesAreBatons, Lineage!Spec
=============================================================================
