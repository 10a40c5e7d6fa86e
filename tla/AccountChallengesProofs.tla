---------------------- MODULE AccountChallengesProofs ----------------------
(***************************************************************************)
(* The safety properties of AccountChallenges, for every set of devices,   *)
(* challenges and requests, and every budget.                              *)
(*                                                                         *)
(* The argument.  A challenge is accepted by the claim that ends it, and   *)
(* an identity is used for one row, so a proof once given stays given:     *)
(* what was accepted keeps its purpose and its device (RowsInv).  Whoever  *)
(* is past its address has had a code for it accepted, and a session or a  *)
(* trust comes from a device's code, from somebody's word or from a trust  *)
(* there was before (ProofsInv).  Words do not go in a circle: who has had *)
(* a session is known, and only who is not gets one (WordsInv).  A request *)
(* that is about to create a challenge has none of its own left            *)
(* (RivalsInv).  For the budgets: the attempts made and the requests about *)
(* to make one are together fewer than the budget and the requests there   *)
(* can be (BudgetsInv).                                                    *)
(***************************************************************************)
EXTENDS AccountChallenges, TLAPS, FiniteSetTheorems

(* What a request in progress carries.                                     *)
CallsInv ==
  \A k \in Call :
    /\ calls[k].failures <= Threshold
    /\ calls[k].phase \in {"idle", "registering", "failing", "counting"} =>
         calls[k].device = None
    /\ calls[k].phase \in {"clearing", "admitting", "starting", "trusting", "silencing"} =>
         calls[k].device # None
    /\ calls[k].phase \in {"missing", "burning", "claiming", "resending"} =>
         /\ calls[k].challenge # None
         /\ challenges[calls[k].challenge].state # "none"

(* A challenge is for a device or for the address, and is accepted by the  *)
(* claim that ends it.                                                     *)
RowsInv ==
  \A c \in Challenge :
    /\ accepted[c] <= 1
    /\ challenges[c].state # "consumed" => accepted[c] = 0
    /\ challenges[c].state # "none" =>
         (challenges[c].purpose = "device_verification" <=> challenges[c].device # None)

(* Who is about to create a challenge has none for its purpose yet.        *)
RivalsInv ==
  /\ RivalsOnly
  /\ \A k \in Call, c \in Challenge :
       In(k, "issuing") /\ Live(c) /\ challenges[c].purpose = PurposeOf(k)
         => challenges[c].issuer # k

AddressProved ==
  \E c \in Challenge : accepted[c] > 0 /\ challenges[c].purpose = "email_verification"

(* Its own code, or somebody's word.                                       *)
Backed(d) == GaveItsCode(d) \/ vouched[d] # None

(* How far the account, a challenge, a request, a device has come, and the *)
(* proofs that are behind it.                                              *)
ProofsInv ==
  /\ account = "verified" => AddressProved
  /\ \A c \in Challenge :
       challenges[c].state # "none" /\ challenges[c].device # None => account = "verified"
  /\ \A k \in Call :
       /\ calls[k].phase \in {"clearing", "admitting", "retiring", "issuing", "starting", "trusting"}
            /\ calls[k].device # None => account = "verified"
       /\ calls[k].phase = "verifying" => AddressProved
       /\ calls[k].phase \in {"starting", "trusting"} => Backed(calls[k].device)
  /\ \A d \in Device :
       d \in sessions \/ devices[d] = "trusted" => account = "verified" /\ Backed(d)

(* A removed device was known.                                             *)
RemovedInv == \A d \in revoked : devices[d] # "unknown"

(* The inductive invariant.                                                *)
IInv ==
  /\ TypeOK
  /\ CallsInv
  /\ RowsInv
  /\ RivalsInv
  /\ ProofsInv
  /\ RemovedInv
-----------------------------------------------------------------------------
Phases ==
  {"idle", "registering", "failing", "counting", "clearing", "admitting", "starting",
   "retiring", "issuing", "missing", "burning", "claiming", "verifying", "trusting",
   "resending", "silencing"}

LEMMA GoesTypes ==
  ASSUME calls \in [Call -> CallState], NEW k \in Call, NEW phase \in Phases, Goes(k, phase)
  PROVE  calls' \in [Call -> CallState]
BY DEF Goes, CallState, Phases

LEMMA EndsTypes ==
  ASSUME calls \in [Call -> CallState], NEW k \in Call, Ends(k)
  PROVE  calls' \in [Call -> CallState]
BY DEF Ends, CallState, NoCall

LEMMA AttemptTypes ==
  ASSUME NEW row \in Row
  PROVE  [row EXCEPT !.attempts = row.attempts + 1] \in Row
<1>1. row.attempts + 1 \in Nat
  BY DEF Row
<1> QED BY <1>1 DEF Row

LEMMA ConsumedTypes ==
  ASSUME challenges \in [Challenge -> Row], NEW cs
  PROVE  Consumed(cs) \in [Challenge -> Row]
BY DEF Consumed, Row

LEMMA RegisterKeeps ==
  ASSUME IInv, NEW k \in Call, Register(k)
  PROVE  IInv'
<1> USE ChallengeConstants DEF IInv, rowVars
<1>1. TypeOK'
  BY DEF Register, In, Goes, TypeOK, CallsInv, Row, CallState, Purpose
<1>2. CallsInv'
  BY DEF Register, In, Goes, TypeOK, CallsInv, CallState, Row
<1>3. RowsInv'
  BY DEF Register, In, Goes, TypeOK, RowsInv, CallsInv, Row, CallState
<1>4. RivalsInv'
  BY DEF Register, In, Goes, TypeOK, RivalsInv, RivalsOnly, Live, PurposeOf, Row,
         CallState
<1>5. ProofsInv'
  BY DEF Register, In, Goes, TypeOK, ProofsInv, CallsInv, RowsInv, AddressProved,
         Backed, GaveItsCode, Row, CallState
<1>6. RemovedInv'
  BY DEF Register, In, Goes, TypeOK, RemovedInv, CallsInv, CallState
<1> QED
  BY <1>1, <1>2, <1>3, <1>4, <1>5, <1>6

LEMMA CreateAccountKeeps ==
  ASSUME IInv, NEW k \in Call, CreateAccount(k)
  PROVE  IInv'
<1> USE ChallengeConstants DEF IInv, rowVars
<1>1. TypeOK'
  BY DEF CreateAccount, In, Goes, TypeOK, CallsInv, Row, CallState, Purpose
<1>2. CallsInv'
  BY DEF CreateAccount, In, Goes, TypeOK, CallsInv, CallState, Row
<1>3. RowsInv'
  BY DEF CreateAccount, In, Goes, TypeOK, RowsInv, CallsInv, Row, CallState
<1>4. RivalsInv'
  BY DEF CreateAccount, In, Goes, TypeOK, RivalsInv, RivalsOnly, Live, PurposeOf, Row,
         CallState
<1>5. ProofsInv'
  BY DEF CreateAccount, In, Goes, TypeOK, ProofsInv, CallsInv, RowsInv, AddressProved,
         Backed, GaveItsCode, Row, CallState
<1>6. RemovedInv'
  BY DEF CreateAccount, In, Goes, TypeOK, RemovedInv, CallsInv, CallState
<1> QED
  BY <1>1, <1>2, <1>3, <1>4, <1>5, <1>6

LEMMA LoginWrongKeeps ==
  ASSUME IInv, NEW k \in Call, LoginWrong(k)
  PROVE  IInv'
<1> USE ChallengeConstants DEF IInv, rowVars
<1>1. TypeOK'
  BY DEF LoginWrong, In, Goes, TypeOK, CallsInv, Row, CallState, Purpose
<1>2. CallsInv'
  BY DEF LoginWrong, In, Goes, TypeOK, CallsInv, CallState, Row
<1>3. RowsInv'
  BY DEF LoginWrong, In, Goes, TypeOK, RowsInv, CallsInv, Row, CallState
<1>4. RivalsInv'
  BY DEF LoginWrong, In, Goes, TypeOK, RivalsInv, RivalsOnly, Live, PurposeOf, Row,
         CallState
<1>5. ProofsInv'
  BY DEF LoginWrong, In, Goes, TypeOK, ProofsInv, CallsInv, RowsInv, AddressProved,
         Backed, GaveItsCode, Row, CallState
<1>6. RemovedInv'
  BY DEF LoginWrong, In, Goes, TypeOK, RemovedInv, CallsInv, CallState
<1> QED
  BY <1>1, <1>2, <1>3, <1>4, <1>5, <1>6

LEMMA ReadFailuresKeeps ==
  ASSUME IInv, NEW k \in Call, ReadFailures(k)
  PROVE  IInv'
<1> USE ChallengeConstants DEF IInv, rowVars
<1>1. TypeOK'
  <2>1. PICK n \in {1, OneMore(guard.failures)} :
          calls' = [calls EXCEPT ![k].phase = "counting", ![k].failures = n]
    BY DEF ReadFailures
  <2>2. n \in Nat
    BY <2>1 DEF TypeOK, OneMore
  <2>3. calls' \in [Call -> CallState]
    <3>1. [calls[k] EXCEPT !.phase = "counting", !.failures = n] \in CallState
      <4>1. calls[k] \in CallState
        BY DEF TypeOK
      <4> QED
        BY <2>2, <4>1 DEF CallState
    <3> QED
      BY <2>1, <3>1 DEF TypeOK
  <2> QED
    BY <2>3 DEF ReadFailures, TypeOK
<1>2. CallsInv'
  BY DEF ReadFailures, In, TypeOK, CallsInv, CallState, Row
<1>3. RowsInv'
  BY DEF ReadFailures, In, TypeOK, RowsInv, CallsInv, Row, CallState
<1>4. RivalsInv'
  BY DEF ReadFailures, In, TypeOK, RivalsInv, RivalsOnly, Live, PurposeOf, Row, CallState
<1>5. ProofsInv'
  BY DEF ReadFailures, In, TypeOK, ProofsInv, CallsInv, RowsInv, AddressProved,
         Backed, GaveItsCode, Row, CallState
<1>6. RemovedInv'
  BY DEF ReadFailures, In, TypeOK, RemovedInv, CallsInv, CallState
<1> QED
  BY <1>1, <1>2, <1>3, <1>4, <1>5, <1>6

LEMMA WriteFailuresKeeps ==
  ASSUME IInv, NEW k \in Call, WriteFailures(k)
  PROVE  IInv'
<1> USE ChallengeConstants DEF IInv, rowVars
<1>1. TypeOK'
  BY DEF WriteFailures, In, Ends, NoCall, TypeOK, CallsInv, Row, CallState, Purpose
<1>2. CallsInv'
  BY DEF WriteFailures, In, Ends, NoCall, TypeOK, CallsInv, CallState, Row
<1>3. RowsInv'
  BY DEF WriteFailures, In, Ends, NoCall, TypeOK, RowsInv, CallsInv, Row, CallState
<1>4. RivalsInv'
  BY DEF WriteFailures, In, Ends, NoCall, TypeOK, RivalsInv, RivalsOnly, Live, PurposeOf,
         Row, CallState
<1>5. ProofsInv'
  BY DEF WriteFailures, In, Ends, NoCall, TypeOK, ProofsInv, CallsInv, RowsInv,
         AddressProved, Backed, GaveItsCode, Row, CallState
<1>6. RemovedInv'
  BY DEF WriteFailures, In, Ends, NoCall, TypeOK, RemovedInv, CallsInv, CallState
<1> QED
  BY <1>1, <1>2, <1>3, <1>4, <1>5, <1>6

LEMMA LoginRightKeeps ==
  ASSUME IInv, NEW k \in Call, NEW d \in Device, LoginRight(k, d)
  PROVE  IInv'
<1> USE ChallengeConstants DEF IInv, rowVars
<1>1. TypeOK'
  BY DEF LoginRight, In, NoCall, NeedsAddress, TypeOK, CallsInv, Row, CallState, Purpose
<1>2. CallsInv'
  BY DEF LoginRight, In, NoCall, NeedsAddress, TypeOK, CallsInv, CallState, Row
<1>3. RowsInv'
  BY DEF LoginRight, In, NoCall, NeedsAddress, TypeOK, RowsInv, CallsInv, Row, CallState
<1>4. RivalsInv'
  BY DEF LoginRight, In, NoCall, NeedsAddress, TypeOK, RivalsInv, RivalsOnly, Live,
         PurposeOf, Row, CallState
<1>5. ProofsInv'
  BY DEF LoginRight, In, NoCall, NeedsAddress, TypeOK, ProofsInv, CallsInv, RowsInv,
         AddressProved, Backed, GaveItsCode, Row, CallState
<1>6. RemovedInv'
  BY DEF LoginRight, In, NoCall, NeedsAddress, TypeOK, RemovedInv, CallsInv, CallState
<1> QED
  BY <1>1, <1>2, <1>3, <1>4, <1>5, <1>6

LEMMA ClearFailuresKeeps ==
  ASSUME IInv, NEW k \in Call, ClearFailures(k)
  PROVE  IInv'
<1> USE ChallengeConstants DEF IInv, rowVars
<1>1. TypeOK'
  BY DEF ClearFailures, In, Goes, TypeOK, CallsInv, Row, CallState, Purpose
<1>2. CallsInv'
  BY DEF ClearFailures, In, Goes, TypeOK, CallsInv, CallState, Row
<1>3. RowsInv'
  BY DEF ClearFailures, In, Goes, TypeOK, RowsInv, CallsInv, Row, CallState
<1>4. RivalsInv'
  BY DEF ClearFailures, In, Goes, TypeOK, RivalsInv, RivalsOnly, Live, PurposeOf, Row,
         CallState
<1>5. ProofsInv'
  BY DEF ClearFailures, In, Goes, TypeOK, ProofsInv, CallsInv, RowsInv, AddressProved,
         Backed, GaveItsCode, Row, CallState
<1>6. RemovedInv'
  BY DEF ClearFailures, In, Goes, TypeOK, RemovedInv, CallsInv, CallState
<1> QED
  BY <1>1, <1>2, <1>3, <1>4, <1>5, <1>6

LEMMA AdmitKeeps ==
  ASSUME IInv, NEW k \in Call, Admit(k)
  PROVE  IInv'
<1> USE ChallengeConstants DEF IInv, rowVars
<1>1. CASE TurnedAway(calls[k].device)
  <2>1. /\ calls' = [calls EXCEPT ![k] = NoCall]
        /\ calls[k].phase = "admitting"
        /\ calls[k].device \in Device
        /\ devices' = [devices EXCEPT ![calls[k].device] =
                     IF devices[calls[k].device] = "unknown" THEN "known" ELSE devices[calls[k].device]]
        /\ UNCHANGED <<account, guard, revoked, challenges, accepted, sessions, vouched>>
    BY <1>1 DEF Admit, In, Ends, CallsInv, TypeOK, CallState
  <2>2. TypeOK'
    BY <2>1 DEF TypeOK, CallsInv, Row, CallState, Purpose, NoCall
  <2>3. CallsInv'
    BY <2>1 DEF TypeOK, CallsInv, CallState, Row, NoCall
  <2>4. RowsInv'
    BY <2>1 DEF TypeOK, RowsInv, CallsInv, Row, CallState, NoCall
  <2>5. RivalsInv'
    BY <2>1 DEF TypeOK, RivalsInv, RivalsOnly, Live, In, PurposeOf, Row, CallState, NoCall
  <2>6. ProofsInv'
    BY <2>1 DEF TypeOK, ProofsInv, CallsInv, RowsInv, AddressProved, Backed, GaveItsCode, Row,
           CallState, NoCall
  <2>7. RemovedInv'
    BY <2>1 DEF TypeOK, RemovedInv, CallsInv, CallState, NoCall
  <2> QED
    BY <2>2, <2>3, <2>4, <2>5, <2>6, <2>7
<1>2. CASE ~TurnedAway(calls[k].device) /\ devices[calls[k].device] = "trusted"
  <2>1. /\ calls' = [calls EXCEPT ![k].phase = "starting"]
        /\ calls[k].phase = "admitting"
        /\ calls[k].device \in Device
        /\ devices[calls[k].device] = "trusted"
        /\ devices' = devices
        /\ UNCHANGED <<account, guard, revoked, challenges, accepted, sessions, vouched>>
    BY <1>2 DEF Admit, In, Goes, CallsInv, TypeOK, CallState
  <2>2. TypeOK'
    BY <2>1 DEF TypeOK, CallsInv, Row, CallState, Purpose
  <2>3. CallsInv'
    BY <2>1 DEF TypeOK, CallsInv, CallState, Row
  <2>4. RowsInv'
    BY <2>1 DEF TypeOK, RowsInv, CallsInv, Row, CallState
  <2>5. RivalsInv'
    BY <2>1 DEF TypeOK, RivalsInv, RivalsOnly, Live, In, PurposeOf, Row, CallState
  <2>6. ProofsInv'
    BY <2>1 DEF TypeOK, ProofsInv, CallsInv, RowsInv, AddressProved, Backed, GaveItsCode, Row,
           CallState
  <2>7. RemovedInv'
    BY <2>1 DEF TypeOK, RemovedInv, CallsInv, CallState
  <2> QED
    BY <2>2, <2>3, <2>4, <2>5, <2>6, <2>7
<1>3. CASE ~TurnedAway(calls[k].device) /\ devices[calls[k].device] # "trusted"
  <2>1. /\ calls' = [calls EXCEPT ![k].phase = "retiring"]
        /\ calls[k].phase = "admitting"
        /\ calls[k].device \in Device
        /\ devices' = [devices EXCEPT ![calls[k].device] =
                     IF devices[calls[k].device] = "unknown" THEN "known" ELSE devices[calls[k].device]]
        /\ UNCHANGED <<account, guard, revoked, challenges, accepted, sessions, vouched>>
    BY <1>3 DEF Admit, In, Goes, CallsInv, TypeOK, CallState
  <2>2. TypeOK'
    <3>1. calls' \in [Call -> CallState]
      BY <2>1, GoesTypes DEF Goes, TypeOK, Phases
    <3>2. devices' \in [Device -> {"unknown", "known", "trusted"}]
      BY <2>1 DEF TypeOK
    <3> QED
      BY <2>1, <3>1, <3>2 DEF TypeOK
  <2>3. CallsInv'
    BY <2>1 DEF TypeOK, CallsInv, CallState, Row
  <2>4. RowsInv'
    BY <2>1 DEF TypeOK, RowsInv, CallsInv, Row, CallState
  <2>5. RivalsInv'
    BY <2>1 DEF TypeOK, RivalsInv, RivalsOnly, Live, In, PurposeOf, Row, CallState
  <2>6. ProofsInv'
    BY <2>1 DEF TypeOK, ProofsInv, CallsInv, RowsInv, AddressProved, Backed, GaveItsCode, Row,
           CallState
  <2>7. RemovedInv'
    BY <2>1 DEF TypeOK, RemovedInv, CallsInv, CallState
  <2> QED
    BY <2>2, <2>3, <2>4, <2>5, <2>6, <2>7
<1> QED
  BY <1>1, <1>2, <1>3

LEMMA StartSessionKeeps ==
  ASSUME IInv, NEW k \in Call, StartSession(k)
  PROVE  IInv'
<1> USE ChallengeConstants DEF IInv, rowVars
<1>1. TypeOK'
  BY DEF StartSession, In, Ends, NoCall, TypeOK, CallsInv, Row, CallState, Purpose
<1>2. CallsInv'
  BY DEF StartSession, In, Ends, NoCall, TypeOK, CallsInv, CallState, Row
<1>3. RowsInv'
  BY DEF StartSession, In, Ends, NoCall, TypeOK, RowsInv, CallsInv, Row, CallState
<1>4. RivalsInv'
  BY DEF StartSession, In, Ends, NoCall, TypeOK, RivalsInv, RivalsOnly, Live, PurposeOf,
         Row, CallState
<1>5. ProofsInv'
  BY DEF StartSession, In, Ends, NoCall, TypeOK, ProofsInv, CallsInv, RowsInv,
         AddressProved, Backed, GaveItsCode, Row, CallState
<1>6. RemovedInv'
  BY DEF StartSession, In, Ends, NoCall, TypeOK, RemovedInv, CallsInv, CallState
<1> QED
  BY <1>1, <1>2, <1>3, <1>4, <1>5, <1>6

LEMMA SubmitKeeps ==
  ASSUME IInv, NEW k \in Call, NEW c \in Challenge, NEW code \in Code, Submit(k, c, code)
  PROVE  IInv'
<1> USE ChallengeConstants DEF IInv, rowVars
<1>1. TypeOK'
  BY DEF Submit, In, NoCall, Guessable, Live, TypeOK, CallsInv, Row, CallState, Purpose
<1>2. CallsInv'
  BY DEF Submit, In, NoCall, Guessable, Live, TypeOK, CallsInv, CallState, Row
<1>3. RowsInv'
  BY DEF Submit, In, NoCall, Guessable, Live, TypeOK, RowsInv, CallsInv, Row, CallState
<1>4. RivalsInv'
  BY DEF Submit, In, NoCall, Guessable, Live, TypeOK, RivalsInv, RivalsOnly, PurposeOf,
         Row, CallState
<1>5. ProofsInv'
  BY DEF Submit, In, NoCall, Guessable, Live, TypeOK, ProofsInv, CallsInv, RowsInv,
         AddressProved, Backed, GaveItsCode, Row, CallState
<1>6. RemovedInv'
  BY DEF Submit, In, NoCall, Guessable, Live, TypeOK, RemovedInv, CallsInv, CallState
<1> QED
  BY <1>1, <1>2, <1>3, <1>4, <1>5, <1>6

LEMMA MissKeeps ==
  ASSUME IInv, NEW k \in Call, Miss(k)
  PROVE  IInv'
<1> USE ChallengeConstants DEF IInv, rowVars
<1>1. CASE challenges[calls[k].challenge].attempts + 1 < MaxAttempts
  <2>1. /\ calls' = [calls EXCEPT ![k] = NoCall]
        /\ calls[k].phase = "missing"
        /\ calls[k].challenge \in Challenge
        /\ challenges' = [challenges EXCEPT ![calls[k].challenge].attempts =
                       challenges[calls[k].challenge].attempts + 1]
        /\ UNCHANGED <<account, guard, devices, revoked, accepted, sessions, vouched>>
    BY <1>1 DEF Miss, In, Ends, CallsInv, TypeOK, CallState
  <2>2. TypeOK'
    <3>1. challenges' \in [Challenge -> Row]
      <4>1. [challenges[calls[k].challenge] EXCEPT
               !.attempts = challenges[calls[k].challenge].attempts + 1] \in Row
        <5>1. challenges[calls[k].challenge] \in Row
          BY <2>1 DEF TypeOK
        <5> QED
          BY <5>1, AttemptTypes
      <4> QED
        BY <2>1, <4>1 DEF TypeOK
    <3>2. calls' \in [Call -> CallState]
      BY <2>1 DEF TypeOK, CallState, NoCall
    <3> QED
      BY <2>1, <3>1, <3>2 DEF TypeOK
  <2>3. CallsInv'
    BY <2>1 DEF TypeOK, CallsInv, CallState, Row, NoCall
  <2>4. RowsInv'
    BY <2>1 DEF TypeOK, RowsInv, CallsInv, Row, CallState, NoCall
  <2>5. RivalsInv'
    BY <2>1 DEF TypeOK, RivalsInv, RivalsOnly, Live, In, PurposeOf, Row, CallState, NoCall
  <2>6. ProofsInv'
    BY <2>1 DEF TypeOK, ProofsInv, CallsInv, RowsInv, AddressProved, Backed, GaveItsCode, Row,
           CallState, NoCall
  <2>7. RemovedInv'
    BY <2>1 DEF TypeOK, RemovedInv, CallsInv, CallState, NoCall
  <2> QED
    BY <2>2, <2>3, <2>4, <2>5, <2>6, <2>7
<1>2. CASE ~(challenges[calls[k].challenge].attempts + 1 < MaxAttempts)
  <2>1. /\ calls' = [calls EXCEPT ![k].phase = "burning"]
        /\ calls[k].phase = "missing"
        /\ calls[k].challenge \in Challenge
        /\ challenges' = [challenges EXCEPT ![calls[k].challenge].attempts =
                       challenges[calls[k].challenge].attempts + 1]
        /\ UNCHANGED <<account, guard, devices, revoked, accepted, sessions, vouched>>
    BY <1>2 DEF Miss, In, Goes, CallsInv, TypeOK, CallState
  <2>2. TypeOK'
    <3>1. challenges' \in [Challenge -> Row]
      <4>1. [challenges[calls[k].challenge] EXCEPT
               !.attempts = challenges[calls[k].challenge].attempts + 1] \in Row
        <5>1. challenges[calls[k].challenge] \in Row
          BY <2>1 DEF TypeOK
        <5> QED
          BY <5>1, AttemptTypes
      <4> QED
        BY <2>1, <4>1 DEF TypeOK
    <3>2. calls' \in [Call -> CallState]
      BY <2>1 DEF TypeOK, CallState, NoCall
    <3> QED
      BY <2>1, <3>1, <3>2 DEF TypeOK
  <2>3. CallsInv'
    BY <2>1 DEF TypeOK, CallsInv, CallState, Row
  <2>4. RowsInv'
    BY <2>1 DEF TypeOK, RowsInv, CallsInv, Row, CallState
  <2>5. RivalsInv'
    BY <2>1 DEF TypeOK, RivalsInv, RivalsOnly, Live, In, PurposeOf, Row, CallState
  <2>6. ProofsInv'
    BY <2>1 DEF TypeOK, ProofsInv, CallsInv, RowsInv, AddressProved, Backed, GaveItsCode, Row,
           CallState
  <2>7. RemovedInv'
    BY <2>1 DEF TypeOK, RemovedInv, CallsInv, CallState
  <2> QED
    BY <2>2, <2>3, <2>4, <2>5, <2>6, <2>7
<1> QED
  BY <1>1, <1>2

LEMMA BurnKeeps ==
  ASSUME IInv, NEW k \in Call, Burn(k)
  PROVE  IInv'
<1> USE ChallengeConstants DEF IInv, rowVars
<1>1. TypeOK'
  BY ConsumedTypes, EndsTypes DEF Burn, TypeOK
<1>2. CallsInv'
  BY DEF Burn, In, Ends, NoCall, Consumed, TypeOK, CallsInv, CallState, Row
<1>3. RowsInv'
  BY DEF Burn, In, Ends, NoCall, Consumed, TypeOK, RowsInv, CallsInv, Row, CallState
<1>4. RivalsInv'
  BY DEF Burn, In, Ends, NoCall, Consumed, TypeOK, RivalsInv, RivalsOnly, Live, PurposeOf,
         Row, CallState
<1>5. ProofsInv'
  BY DEF Burn, In, Ends, NoCall, Consumed, TypeOK, ProofsInv, CallsInv, RowsInv,
         AddressProved, Backed, GaveItsCode, Row, CallState
<1>6. RemovedInv'
  BY DEF Burn, In, Ends, NoCall, Consumed, TypeOK, RemovedInv, CallsInv, CallState
<1> QED
  BY <1>1, <1>2, <1>3, <1>4, <1>5, <1>6

LEMMA ClaimKeeps ==
  ASSUME IInv, NEW k \in Call, Claim(k)
  PROVE  IInv'
<1> USE ChallengeConstants DEF IInv, rowVars
<1>1. CASE Claimable(calls[k].challenge)
  <2>1. /\ calls[k].challenge \in Challenge
        /\ challenges[calls[k].challenge].state = "live"
        /\ calls' = [calls EXCEPT ![k].phase = GoodFor(calls[k].challenge),
                             ![k].device = challenges[calls[k].challenge].device]
        /\ calls[k].phase = "claiming"
        /\ challenges' = [challenges EXCEPT ![calls[k].challenge].state = "consumed"]
        /\ accepted' = [accepted EXCEPT ![calls[k].challenge] = accepted[calls[k].challenge] + 1]
        /\ UNCHANGED <<account, guard, devices, revoked, sessions, vouched>>
    BY <1>1 DEF Claim, In, Claimable, Live, Consumed, CallsInv, TypeOK, CallState
  <2>2. TypeOK'
    <3>1. challenges' \in [Challenge -> Row]
      <4>1. [challenges[calls[k].challenge] EXCEPT !.state = "consumed"] \in Row
        <5>1. challenges[calls[k].challenge] \in Row
          BY <2>1 DEF TypeOK
        <5> QED
          BY <5>1 DEF Row
      <4> QED
        BY <2>1, <4>1 DEF TypeOK
    <3>2. calls' \in [Call -> CallState]
      <4>1. [calls[k] EXCEPT !.phase = GoodFor(calls[k].challenge),
                             !.device = challenges[calls[k].challenge].device] \in CallState
        <5>1. /\ calls[k] \in CallState
              /\ GoodFor(calls[k].challenge) \in {"verifying", "trusting"}
              /\ challenges[calls[k].challenge].device \in Device \cup {None}
          BY <2>1 DEF TypeOK, GoodFor, Row
        <5> QED
          BY <5>1 DEF CallState
      <4> QED
        BY <2>1, <4>1 DEF TypeOK
    <3>3. accepted' \in [Challenge -> Nat]
      BY <2>1 DEF TypeOK
    <3> QED
      BY <2>1, <3>1, <3>2, <3>3 DEF TypeOK
  <2>3. CallsInv'
    <3>1. /\ calls'[k].phase \in {"verifying", "trusting"}
          /\ calls'[k].phase = "trusting" => calls'[k].device # None
          /\ calls'[k].failures = calls[k].failures
      BY <2>1 DEF GoodFor, TypeOK, CallState, RowsInv, Row, Purpose
    <3>2. \A m \in Call : m # k => calls'[m] = calls[m]
      BY <2>1 DEF TypeOK
    <3>3. \A c \in Challenge : challenges[c].state # "none" => challenges'[c].state # "none"
      BY <2>1 DEF TypeOK, Row
    <3> QED
      BY <3>1, <3>2, <3>3 DEF CallsInv, TypeOK, CallState
  <2>4. RowsInv'
    BY <2>1 DEF TypeOK, RowsInv, CallsInv, Row, CallState, GoodFor
  <2>5. RivalsInv'
    <3>1. \A c \in Challenge :
            /\ challenges'[c].purpose = challenges[c].purpose
            /\ challenges'[c].issuer = challenges[c].issuer
            /\ challenges'[c].state = "live" => challenges[c].state = "live"
      BY <2>1 DEF TypeOK, Row
    <3>2. /\ calls'[k].phase # "issuing"
          /\ \A m \in Call : m # k => calls'[m] = calls[m]
      BY <2>1 DEF TypeOK, CallState, GoodFor
    <3>3. RivalsOnly'
      BY <3>1 DEF RivalsInv, RivalsOnly, Live
    <3>4. ASSUME NEW m \in Call, NEW c \in Challenge,
                 In(m, "issuing")', Live(c)', challenges'[c].purpose = PurposeOf(m)'
          PROVE  challenges'[c].issuer # m
      <4>1. calls'[m] = calls[m] /\ In(m, "issuing")
        BY <3>2, <3>4 DEF In
      <4>2. Live(c) /\ challenges[c].purpose = PurposeOf(m)
        BY <3>1, <3>4, <4>1 DEF Live, PurposeOf
      <4> QED
        BY <3>1, <4>1, <4>2 DEF RivalsInv
    <3> QED
      BY <3>3, <3>4 DEF RivalsInv
  <2>6. ProofsInv'
    <3> DEFINE c == calls[k].challenge
    <3>1. /\ c \in Challenge
          /\ calls'[k].phase = GoodFor(c)
          /\ calls'[k].device = challenges[c].device
          /\ \A m \in Call : m # k => calls'[m] = calls[m]
      BY <2>1 DEF TypeOK, CallState
    <3>2. \A b \in Challenge : /\ challenges'[b].purpose = challenges[b].purpose
                               /\ challenges'[b].device = challenges[b].device
                               /\ challenges[b].state = "none" => challenges'[b].state = "none"
      BY <2>1 DEF TypeOK, Row
    <3>3. /\ accepted'[c] > 0
          /\ \A b \in Challenge : accepted[b] > 0 => accepted'[b] > 0
      BY <2>1 DEF TypeOK
    <3>4. /\ GoodFor(c) \in {"verifying", "trusting"}
          /\ GoodFor(c) = "verifying" => challenges[c].purpose = "email_verification"
          /\ GoodFor(c) = "trusting" => account = "verified"
      BY <2>1 DEF GoodFor, ProofsInv, RowsInv, TypeOK, Row, Purpose
    <3>5. /\ account' = account /\ devices' = devices
          /\ sessions' = sessions /\ vouched' = vouched
      BY <2>1
    <3> HIDE DEF c
    <3>6. AddressProved => AddressProved'
      BY <3>2, <3>3 DEF AddressProved
    <3>7. account' = "verified" => AddressProved'
      BY <3>5, <3>6 DEF ProofsInv
    <3>8. \A b \in Challenge :
            challenges'[b].state # "none" /\ challenges'[b].device # None => account' = "verified"
      BY <3>2, <3>5 DEF ProofsInv
    <3>9. \A m \in Call :
            /\ calls'[m].phase \in {"clearing", "admitting", "retiring", "issuing",
                                    "starting", "trusting"}
                 /\ calls'[m].device # None => account' = "verified"
            /\ calls'[m].phase = "verifying" => AddressProved'
      <4>1. GoodFor(c) = "verifying" => AddressProved'
        BY <3>1, <3>2, <3>3, <3>4 DEF AddressProved
      <4> QED
        BY <3>1, <3>4, <3>5, <3>6, <4>1 DEF ProofsInv
    <3>10. \A m \in Call :
             calls'[m].phase \in {"starting", "trusting"} => Backed(calls[m].device)'
      <4>1. Backed(calls[k].device)'
        BY <3>1, <3>2, <3>3 DEF Backed, GaveItsCode
      <4>2. ASSUME NEW m \in Call, m # k, calls[m].phase \in {"starting", "trusting"}
            PROVE  Backed(calls[m].device)'
        BY <3>1, <3>2, <3>3, <3>5, <4>2 DEF Backed, GaveItsCode, ProofsInv
      <4> QED
        BY <3>1, <4>1, <4>2
    <3>11. \A d \in Device :
             d \in sessions' \/ devices'[d] = "trusted" => account' = "verified" /\ Backed(d)'
      BY <3>2, <3>3, <3>5 DEF Backed, GaveItsCode, ProofsInv
    <3> QED
      BY <3>7, <3>8, <3>9, <3>10, <3>11 DEF ProofsInv
  <2>7. RemovedInv'
    BY <2>1 DEF TypeOK, RemovedInv, CallsInv, CallState, GoodFor
  <2> QED
    BY <2>2, <2>3, <2>4, <2>5, <2>6, <2>7
<1>2. CASE ~Claimable(calls[k].challenge)
  <2>1. /\ calls' = [calls EXCEPT ![k] = NoCall]
        /\ UNCHANGED <<account, guard, devices, revoked, challenges, accepted, sessions, vouched>>
    BY <1>2 DEF Claim, Ends
  <2>2. TypeOK'
    BY <2>1 DEF TypeOK, CallsInv, Row, CallState, Purpose, NoCall
  <2>3. CallsInv'
    BY <2>1 DEF TypeOK, CallsInv, CallState, Row, NoCall
  <2>4. RowsInv'
    BY <2>1 DEF TypeOK, RowsInv, CallsInv, Row, CallState, NoCall
  <2>5. RivalsInv'
    BY <2>1 DEF TypeOK, RivalsInv, RivalsOnly, Live, In, PurposeOf, Row, CallState, NoCall
  <2>6. ProofsInv'
    BY <2>1 DEF TypeOK, ProofsInv, CallsInv, RowsInv, AddressProved, Backed, GaveItsCode, Row,
           CallState, NoCall
  <2>7. RemovedInv'
    BY <2>1 DEF TypeOK, RemovedInv, CallsInv, CallState, NoCall
  <2> QED
    BY <2>2, <2>3, <2>4, <2>5, <2>6, <2>7
<1> QED
  BY <1>1, <1>2

LEMMA VerifyEmailKeeps ==
  ASSUME IInv, NEW k \in Call, VerifyEmail(k)
  PROVE  IInv'
<1> USE ChallengeConstants DEF IInv, rowVars
<1>1. TypeOK'
  BY DEF VerifyEmail, In, Ends, NoCall, TypeOK, CallsInv, Row, CallState, Purpose
<1>2. CallsInv'
  BY DEF VerifyEmail, In, Ends, NoCall, TypeOK, CallsInv, CallState, Row
<1>3. RowsInv'
  BY DEF VerifyEmail, In, Ends, NoCall, TypeOK, RowsInv, CallsInv, Row, CallState
<1>4. RivalsInv'
  BY DEF VerifyEmail, In, Ends, NoCall, TypeOK, RivalsInv, RivalsOnly, Live, PurposeOf,
         Row, CallState
<1>5. ProofsInv'
  BY DEF VerifyEmail, In, Ends, NoCall, TypeOK, ProofsInv, CallsInv, RowsInv,
         AddressProved, Backed, GaveItsCode, Row, CallState
<1>6. RemovedInv'
  BY DEF VerifyEmail, In, Ends, NoCall, TypeOK, RemovedInv, CallsInv, CallState
<1> QED
  BY <1>1, <1>2, <1>3, <1>4, <1>5, <1>6

LEMMA VerifyDeviceKeeps ==
  ASSUME IInv, NEW k \in Call, NEW trust \in BOOLEAN, VerifyDevice(k, trust)
  PROVE  IInv'
<1> USE ChallengeConstants DEF IInv, rowVars
<1>1. TypeOK'
  BY DEF VerifyDevice, In, Goes, TypeOK, CallsInv, Row, CallState, Purpose
<1>2. CallsInv'
  BY DEF VerifyDevice, In, Goes, TypeOK, CallsInv, CallState, Row
<1>3. RowsInv'
  BY DEF VerifyDevice, In, Goes, TypeOK, RowsInv, CallsInv, Row, CallState
<1>4. RivalsInv'
  BY DEF VerifyDevice, In, Goes, TypeOK, RivalsInv, RivalsOnly, Live, PurposeOf, Row,
         CallState
<1>5. ProofsInv'
  BY DEF VerifyDevice, In, Goes, TypeOK, ProofsInv, CallsInv, RowsInv, AddressProved,
         Backed, GaveItsCode, Row, CallState
<1>6. RemovedInv'
  BY DEF VerifyDevice, In, Goes, TypeOK, RemovedInv, CallsInv, CallState
<1> QED
  BY <1>1, <1>2, <1>3, <1>4, <1>5, <1>6

LEMMA RetireKeeps ==
  ASSUME IInv, NEW k \in Call, Retire(k)
  PROVE  IInv'
<1> USE ChallengeConstants DEF IInv, rowVars
<1>1. TypeOK'
  BY ConsumedTypes, GoesTypes DEF Retire, TypeOK, Phases
<1>2. CallsInv'
  BY DEF Retire, In, Goes, Consumed, ToRetire, PurposeOf, Live, TypeOK, CallsInv,
         CallState, Row
<1>3. RowsInv'
  BY DEF Retire, In, Goes, Consumed, ToRetire, PurposeOf, Live, TypeOK, RowsInv, CallsInv,
         Row, CallState
<1>4. RivalsInv'
  BY DEF Retire, In, Goes, Consumed, ToRetire, PurposeOf, Live, TypeOK, RivalsInv,
         RivalsOnly, Row, CallState
<1>5. ProofsInv'
  BY DEF Retire, In, Goes, Consumed, ToRetire, PurposeOf, Live, TypeOK, ProofsInv,
         CallsInv, RowsInv, AddressProved, Backed, GaveItsCode, Row, CallState
<1>6. RemovedInv'
  BY DEF Retire, In, Goes, Consumed, ToRetire, PurposeOf, Live, TypeOK, RemovedInv,
         CallsInv, CallState
<1> QED
  BY <1>1, <1>2, <1>3, <1>4, <1>5, <1>6

LEMMA IssueKeeps ==
  ASSUME IInv, NEW k \in Call, NEW c \in Challenge, Issue(k, c)
  PROVE  IInv'
<1> USE ChallengeConstants DEF IInv, rowVars
<1>1. TypeOK'
  BY DEF Issue, In, Ends, NoCall, PurposeOf, TypeOK, CallsInv, Row, CallState, Purpose
<1>2. CallsInv'
  BY DEF Issue, In, Ends, NoCall, PurposeOf, TypeOK, CallsInv, CallState, Row
<1>3. RowsInv'
  BY DEF Issue, In, Ends, NoCall, PurposeOf, TypeOK, RowsInv, CallsInv, Row, CallState
<1>4. RivalsInv'
  BY DEF Issue, In, Ends, NoCall, PurposeOf, TypeOK, RivalsInv, RivalsOnly, Live, Row,
         CallState
<1>5. ProofsInv'
  BY DEF Issue, In, Ends, NoCall, PurposeOf, TypeOK, ProofsInv, CallsInv, RowsInv,
         AddressProved, Backed, GaveItsCode, Row, CallState
<1>6. RemovedInv'
  BY DEF Issue, In, Ends, NoCall, PurposeOf, TypeOK, RemovedInv, CallsInv, CallState
<1> QED
  BY <1>1, <1>2, <1>3, <1>4, <1>5, <1>6

LEMMA AskResendKeeps ==
  ASSUME IInv, NEW k \in Call, NEW c \in Challenge, AskResend(k, c)
  PROVE  IInv'
<1> USE ChallengeConstants DEF IInv, rowVars
<1>1. TypeOK'
  BY DEF AskResend, In, NoCall, Live, TypeOK, CallsInv, Row, CallState, Purpose
<1>2. CallsInv'
  BY DEF AskResend, In, NoCall, Live, TypeOK, CallsInv, CallState, Row
<1>3. RowsInv'
  BY DEF AskResend, In, NoCall, Live, TypeOK, RowsInv, CallsInv, Row, CallState
<1>4. RivalsInv'
  BY DEF AskResend, In, NoCall, Live, TypeOK, RivalsInv, RivalsOnly, PurposeOf, Row,
         CallState
<1>5. ProofsInv'
  BY DEF AskResend, In, NoCall, Live, TypeOK, ProofsInv, CallsInv, RowsInv, AddressProved,
         Backed, GaveItsCode, Row, CallState
<1>6. RemovedInv'
  BY DEF AskResend, In, NoCall, Live, TypeOK, RemovedInv, CallsInv, CallState
<1> QED
  BY <1>1, <1>2, <1>3, <1>4, <1>5, <1>6

LEMMA ResendKeeps ==
  ASSUME IInv, NEW k \in Call, Resend(k)
  PROVE  IInv'
<1> USE ChallengeConstants DEF IInv, rowVars
<1>1. CASE TRUE
  <2>1. /\ calls' = [calls EXCEPT ![k] = NoCall]
        /\ calls[k].challenge \in Challenge
        /\ challenges' = [challenges EXCEPT ![calls[k].challenge].resends =
                         challenges[calls[k].challenge].resends + 1,
                                   ![calls[k].challenge].attempts = 0]
        /\ UNCHANGED <<account, guard, devices, revoked, accepted, sessions, vouched>>
    BY <1>1 DEF Resend, In, Ends, CallsInv, TypeOK, CallState
  <2>2. TypeOK'
    <3>1. challenges' \in [Challenge -> Row]
      <4>1. [challenges[calls[k].challenge] EXCEPT
               !.resends = challenges[calls[k].challenge].resends + 1, !.attempts = 0] \in Row
        <5>1. challenges[calls[k].challenge] \in Row
          BY <2>1 DEF TypeOK
        <5> QED
          <6>1. ASSUME NEW r \in Row PROVE [r EXCEPT !.resends = r.resends + 1, !.attempts = 0] \in Row
            <7>1. r.resends + 1 \in Nat
              BY DEF Row
            <7> QED
              BY <7>1 DEF Row
          <6> QED
            BY <5>1, <6>1
      <4> QED
        BY <2>1, <4>1 DEF TypeOK
    <3>2. calls' \in [Call -> CallState]
      BY <2>1 DEF TypeOK, CallState, NoCall
    <3> QED
      BY <2>1, <3>1, <3>2 DEF TypeOK
  <2>a. \A b \in Challenge : /\ challenges'[b].purpose = challenges[b].purpose
                             /\ challenges'[b].device = challenges[b].device
                             /\ challenges'[b].issuer = challenges[b].issuer
                             /\ challenges'[b].state = challenges[b].state
    BY <2>1 DEF TypeOK, Row
  <2>b. /\ calls'[k] = NoCall
        /\ \A m \in Call : m # k => calls'[m] = calls[m]
    BY <2>1 DEF TypeOK
  <2>3. CallsInv'
    <3>1. ASSUME NEW m \in Call, m # k PROVE calls[m].challenge \in Challenge \cup {None}
      BY DEF TypeOK, CallState
    <3> QED
      BY <2>a, <2>b, <3>1 DEF CallsInv, NoCall
  <2>4. RowsInv'
    <3>1. accepted' = accepted
      BY <2>1
    <3> QED
      BY <2>a, <3>1 DEF RowsInv
  <2>5. RivalsInv'
    <3>1. RivalsOnly'
      BY <2>a DEF RivalsInv, RivalsOnly, Live
    <3>2. ASSUME NEW m \in Call, NEW c \in Challenge,
                 In(m, "issuing")', Live(c)', challenges'[c].purpose = PurposeOf(m)'
          PROVE  challenges'[c].issuer # m
      <4>1. m # k /\ calls'[m] = calls[m]
        BY <2>b, <3>2 DEF In, NoCall
      <4>2. In(m, "issuing") /\ Live(c) /\ challenges[c].purpose = PurposeOf(m)
        BY <2>a, <3>2, <4>1 DEF In, Live, PurposeOf
      <4> QED
        BY <2>a, <4>2 DEF RivalsInv
    <3> QED
      BY <3>1, <3>2 DEF RivalsInv
  <2>6. ProofsInv'
    <3>3. /\ account' = account /\ devices' = devices /\ accepted' = accepted
          /\ sessions' = sessions /\ vouched' = vouched
      BY <2>1
    <3>4. /\ AddressProved' <=> AddressProved
          /\ \A m \in Call : m # k => (Backed(calls[m].device)' <=> Backed(calls[m].device))
          /\ \A d : Backed(d)' <=> Backed(d)
      BY <2>a, <2>b, <3>3 DEF AddressProved, Backed, GaveItsCode
    <3> QED
      BY <2>a, <2>b, <3>3, <3>4 DEF ProofsInv, NoCall
  <2>7. RemovedInv'
    BY <2>1 DEF TypeOK, RemovedInv, CallsInv, CallState, NoCall
  <2> QED
    BY <2>2, <2>3, <2>4, <2>5, <2>6, <2>7
<1> QED
  BY <1>1

LEMMA RevokeKeeps ==
  ASSUME IInv, NEW k \in Call, NEW d \in Device, Revoke(k, d)
  PROVE  IInv'
<1> USE ChallengeConstants DEF IInv, rowVars
<1>1. TypeOK'
  BY DEF Revoke, In, NoCall, TypeOK, CallsInv, Row, CallState, Purpose
<1>2. CallsInv'
  BY DEF Revoke, In, NoCall, TypeOK, CallsInv, CallState, Row
<1>3. RowsInv'
  BY DEF Revoke, In, NoCall, TypeOK, RowsInv, CallsInv, Row, CallState
<1>4. RivalsInv'
  BY DEF Revoke, In, NoCall, TypeOK, RivalsInv, RivalsOnly, Live, PurposeOf, Row,
         CallState
<1>5. ProofsInv'
  BY DEF Revoke, In, NoCall, TypeOK, ProofsInv, CallsInv, RowsInv, AddressProved,
         Backed, GaveItsCode, Row, CallState
<1>6. RemovedInv'
  BY DEF Revoke, In, NoCall, TypeOK, RemovedInv, CallsInv, CallState
<1> QED
  BY <1>1, <1>2, <1>3, <1>4, <1>5, <1>6

LEMMA SilenceKeeps ==
  ASSUME IInv, NEW k \in Call, Silence(k)
  PROVE  IInv'
<1> USE ChallengeConstants DEF IInv, rowVars
<1>1. TypeOK'
  BY ConsumedTypes, EndsTypes DEF Silence, TypeOK
<1>2. CallsInv'
  BY DEF Silence, In, Ends, NoCall, Consumed, Live, TypeOK, CallsInv, CallState, Row
<1>3. RowsInv'
  BY DEF Silence, In, Ends, NoCall, Consumed, Live, TypeOK, RowsInv, CallsInv, Row,
         CallState
<1>4. RivalsInv'
  BY DEF Silence, In, Ends, NoCall, Consumed, Live, TypeOK, RivalsInv, RivalsOnly,
         PurposeOf, Row, CallState
<1>5. ProofsInv'
  BY DEF Silence, In, Ends, NoCall, Consumed, Live, TypeOK, ProofsInv, CallsInv, RowsInv,
         AddressProved, Backed, GaveItsCode, Row, CallState
<1>6. RemovedInv'
  BY DEF Silence, In, Ends, NoCall, Consumed, Live, TypeOK, RemovedInv, CallsInv,
         CallState
<1> QED
  BY <1>1, <1>2, <1>3, <1>4, <1>5, <1>6

LEMMA FailKeeps ==
  ASSUME IInv, NEW k \in Call, Fail(k)
  PROVE  IInv'
<1> USE ChallengeConstants DEF IInv, rowVars
<1>1. TypeOK'
  BY DEF Fail, In, Ends, NoCall, TypeOK, CallsInv, Row, CallState, Purpose
<1>2. CallsInv'
  BY DEF Fail, In, Ends, NoCall, TypeOK, CallsInv, CallState, Row
<1>3. RowsInv'
  BY DEF Fail, In, Ends, NoCall, TypeOK, RowsInv, CallsInv, Row, CallState
<1>4. RivalsInv'
  BY DEF Fail, In, Ends, NoCall, TypeOK, RivalsInv, RivalsOnly, Live, PurposeOf, Row,
         CallState
<1>5. ProofsInv'
  BY DEF Fail, In, Ends, NoCall, TypeOK, ProofsInv, CallsInv, RowsInv, AddressProved,
         Backed, GaveItsCode, Row, CallState
<1>6. RemovedInv'
  BY DEF Fail, In, Ends, NoCall, TypeOK, RemovedInv, CallsInv, CallState
<1> QED
  BY <1>1, <1>2, <1>3, <1>4, <1>5, <1>6

LEMMA UnlockKeeps ==
  ASSUME IInv, Unlock
  PROVE  IInv'
<1> USE ChallengeConstants DEF IInv, rowVars
<1>1. TypeOK'
  BY DEF Unlock, TypeOK, CallsInv, Row, CallState, Purpose
<1>2. CallsInv'
  BY DEF Unlock, TypeOK, CallsInv, CallState, Row
<1>3. RowsInv'
  BY DEF Unlock, TypeOK, RowsInv, CallsInv, Row, CallState
<1>4. RivalsInv'
  BY DEF Unlock, TypeOK, RivalsInv, RivalsOnly, Live, In, PurposeOf, Row, CallState
<1>5. ProofsInv'
  BY DEF Unlock, TypeOK, ProofsInv, CallsInv, RowsInv, AddressProved, Backed, GaveItsCode, Row,
         CallState
<1>6. RemovedInv'
  BY DEF Unlock, TypeOK, RemovedInv, CallsInv, CallState
<1> QED
  BY <1>1, <1>2, <1>3, <1>4, <1>5, <1>6

LEMMA EnrolKeeps ==
  ASSUME IInv, NEW d \in Device, NEW by \in Device, Enrol(d, by)
  PROVE  IInv'
<1> USE ChallengeConstants DEF IInv
<1>1. /\ by \in sessions
      /\ devices[d] = "unknown"
      /\ devices' = [devices EXCEPT ![d] = "trusted"]
      /\ vouched' = [vouched EXCEPT ![d] = by]
      /\ UNCHANGED <<account, guard, revoked, challenges, calls, accepted, sessions>>
  BY DEF Enrol, Vouches
<1>2. TypeOK'
  BY <1>1 DEF TypeOK
<1>3. CallsInv' /\ RowsInv'
  BY <1>1 DEF CallsInv, RowsInv
<1>4. RivalsInv'
  BY <1>1 DEF RivalsInv, RivalsOnly, Live, In, PurposeOf
<1>5. ProofsInv'
  <2>1. AddressProved' <=> AddressProved
    BY <1>1 DEF AddressProved
  <2>2. vouched'[d] # None /\ \A e \in Device : e # d => vouched'[e] = vouched[e]
    BY <1>1 DEF TypeOK
  <2>3. \A e \in Device : Backed(e) \/ e = d => Backed(e)'
    BY <1>1, <2>2 DEF Backed, GaveItsCode
  <2>4. \A m \in Call : calls[m].phase \in {"starting", "trusting"} => calls[m].device \in Device
    BY DEF TypeOK, CallsInv, CallState
  <2>5. \A e \in Device : e # d => devices'[e] = devices[e]
    BY <1>1 DEF TypeOK
  <2>6. account = "verified"
    BY <1>1 DEF ProofsInv, TypeOK
  <2> QED
    BY <1>1, <2>1, <2>3, <2>4, <2>5, <2>6 DEF ProofsInv
<1>6. RemovedInv'
  BY <1>1 DEF TypeOK, RemovedInv
<1> QED
  BY <1>2, <1>3, <1>4, <1>5, <1>6

-----------------------------------------------------------------------------
LEMMA InvInit == Init => IInv
<1> SUFFICES ASSUME Init PROVE IInv
  OBVIOUS
<1> USE ChallengeConstants
<1>1. TypeOK
  BY DEF Init, TypeOK, NoCall, NoRow, CallState, Row, Purpose
<1>2. CallsInv /\ RowsInv
  BY DEF Init, CallsInv, RowsInv, NoCall, NoRow
<1>3. RivalsInv
  BY DEF Init, RivalsInv, RivalsOnly, Live, In, NoCall, NoRow
<1>4. ProofsInv /\ RemovedInv
  BY DEF Init, ProofsInv, RemovedInv, NoCall, NoRow
<1> QED
  BY <1>1, <1>2, <1>3, <1>4 DEF IInv

(* A step that changes nothing.                                            *)
LEMMA StutterKeeps == IInv /\ UNCHANGED vars => IInv'
<1> SUFFICES ASSUME IInv, UNCHANGED vars PROVE IInv'
  OBVIOUS
<1>1. TypeOK' /\ CallsInv' /\ RowsInv' /\ RemovedInv'
  BY DEF vars, IInv, TypeOK, CallsInv, RowsInv, RemovedInv
<1>2. RivalsInv' /\ ProofsInv'
  BY DEF vars, IInv, RivalsInv, RivalsOnly, Live, In, PurposeOf, ProofsInv, AddressProved,
         Backed, GaveItsCode
<1> QED
  BY <1>1, <1>2 DEF IInv

LEMMA InvStep == IInv /\ [Next]_vars => IInv'
<1> SUFFICES ASSUME IInv, [Next]_vars PROVE IInv'
  OBVIOUS
<1>1. ASSUME NEW k \in Call, Login(k) PROVE IInv'
  BY <1>1, LoginWrongKeeps, ReadFailuresKeeps, WriteFailuresKeeps, LoginRightKeeps,
     ClearFailuresKeeps, AdmitKeeps, StartSessionKeeps
     DEF Login
<1>2. ASSUME NEW k \in Call, Verify(k) PROVE IInv'
  BY <1>2, SubmitKeeps, MissKeeps, BurnKeeps, ClaimKeeps, VerifyEmailKeeps, VerifyDeviceKeeps
     DEF Verify
<1>3. ASSUME NEW k \in Call, SendCode(k) PROVE IInv'
  BY <1>3, RetireKeeps, IssueKeeps, AskResendKeeps, ResendKeeps DEF SendCode
<1>4. ASSUME NEW k \in Call, Register(k) \/ CreateAccount(k) PROVE IInv'
  BY <1>4, RegisterKeeps, CreateAccountKeeps
<1>5. ASSUME NEW k \in Call, (\E d \in Device : Revoke(k, d)) \/ Silence(k) \/ Fail(k) PROVE IInv'
  BY <1>5, RevokeKeeps, SilenceKeeps, FailKeeps
<1>6. CASE Unlock
  BY <1>6, UnlockKeeps
<1>7. CASE UNCHANGED vars
  BY <1>7, StutterKeeps
<1>8. ASSUME NEW d \in Device, NEW by \in Device, Enrol(d, by) PROVE IInv'
  BY <1>8, EnrolKeeps
<1> QED
  BY <1>1, <1>2, <1>3, <1>4, <1>5, <1>6, <1>7, <1>8 DEF Next

(* IInv is an invariant: what was accepted keeps its purpose and device,   *)
(* whoever is past a proof has one behind them, and whoever is about to    *)
(* create a challenge has none of their own left.                          *)
THEOREM AccountInvariant == Spec => []IInv
BY InvInit, InvStep, PTL DEF Spec
-----------------------------------------------------------------------------
(* Every variable keeps its type.                                          *)
THEOREM AccountTypesCorrect == Spec => []TypeOK
<1>1. IInv => TypeOK
  BY DEF IInv
<1> QED
  BY <1>1, AccountInvariant, PTL

(* A code works once, and not at all once its challenge was superseded,    *)
(* burned or silenced (consume).                                           *)
AcceptedOnce ==
  \A c \in Challenge : accepted[c] <= 1 /\ (Live(c) => accepted[c] = 0)

THEOREM CodesAcceptedOnce == Spec => []AcceptedOnce
<1>1. IInv => AcceptedOnce
  BY DEF IInv, RowsInv, AcceptedOnce, Live
<1> QED
  BY <1>1, AccountInvariant, PTL

(* Two live challenges for one purpose are of requests that were being     *)
(* served at once (issue).                                                 *)
THEOREM OnlyRivalsShareAPurpose == Spec => []RivalsOnly
<1>1. IInv => RivalsOnly
  BY DEF IInv, RivalsInv
<1> QED
  BY <1>1, AccountInvariant, PTL
-----------------------------------------------------------------------------
(* Where a trust comes from.  A device that has had a session is known, so *)
(* that no enrolment gives it trust any more: who asked for an enrolment   *)
(* was there before it, and words for one another go back to a beginning.  *)

KnownInv ==
  /\ \A d \in sessions : devices[d] # "unknown"
  /\ \A k \in Call : In(k, "starting") => devices[calls[k].device] # "unknown"

NoCircle ==
  \A ds \in SUBSET Device : ds # {} => \E d \in ds : vouched[d] \notin ds

WordsInv ==
  /\ KnownInv
  /\ \A d \in Device : vouched[d] # None => vouched[d] \in sessions
  /\ NoCircle

(* A step in which nobody vouches, and who has a session was known.        *)
LEMMA NobodyVouches ==
  ASSUME WordsInv, vouched' = vouched, sessions \subseteq sessions',
         \A d \in Device : devices[d] # "unknown" => devices'[d] # "unknown",
         sessions' \subseteq Device,
         \A d \in sessions' : d \in sessions
                                \/ \E k \in Call : In(k, "starting") /\ calls[k].device = d,
         \A k \in Call : In(k, "starting")' =>
           /\ calls'[k].device \in Device
           /\ \/ In(k, "starting") /\ calls'[k].device = calls[k].device
              \/ devices'[calls'[k].device] # "unknown"
  PROVE  WordsInv'
<1>1. KnownInv'
  BY DEF WordsInv, KnownInv
<1> QED
  BY <1>1 DEF WordsInv, NoCircle

(* One more word, for a device that nobody's word comes from.              *)
LEMMA EnrolVouches ==
  ASSUME IInv, WordsInv, NEW d \in Device, NEW by \in Device, Enrol(d, by)
  PROVE  WordsInv'
<1> USE ChallengeConstants
<1>1. /\ by \in sessions
      /\ devices[d] = "unknown"
      /\ devices' = [devices EXCEPT ![d] = "trusted"]
      /\ vouched' = [vouched EXCEPT ![d] = by]
      /\ sessions' = sessions /\ calls' = calls
  BY DEF Enrol, Vouches
<1>2. d \notin sessions /\ by # d
  BY <1>1 DEF WordsInv, KnownInv
<1>3. vouched'[d] = by /\ \A e \in Device : e # d => vouched'[e] = vouched[e]
  BY <1>1 DEF IInv, TypeOK
<1>4. KnownInv'
  BY <1>1 DEF IInv, TypeOK, WordsInv, KnownInv, In
<1>5. \A e \in Device : vouched'[e] # None => vouched'[e] \in sessions'
  BY <1>1, <1>3 DEF WordsInv
<1>6. ASSUME NEW ds \in SUBSET Device, ds # {} PROVE \E e \in ds : vouched'[e] \notin ds
  <2>1. CASE d \notin ds
    <3>1. PICK e \in ds : vouched[e] \notin ds
      BY <1>6 DEF WordsInv, NoCircle
    <3> QED
      BY <1>3, <2>1, <3>1
  <2>2. CASE d \in ds /\ ds \ {d} = {}
    BY <1>2, <1>3, <2>2
  <2>3. CASE d \in ds /\ ds \ {d} # {}
    <3>1. ds \ {d} \in SUBSET Device
      OBVIOUS
    <3>2. PICK e \in ds \ {d} : vouched[e] \notin ds \ {d}
      BY <2>3, <3>1 DEF WordsInv, NoCircle
    <3>3. vouched[e] # d
      BY <1>2, <3>2 DEF WordsInv
    <3> QED
      BY <1>3, <3>2, <3>3
  <2> QED
    BY <2>1, <2>2, <2>3
<1>7. NoCircle'
  BY <1>6 DEF NoCircle
<1> QED
  BY <1>4, <1>5, <1>7 DEF WordsInv

LEMMA WordsStep ==
  ASSUME IInv, IInv', WordsInv, [Next]_vars
  PROVE  WordsInv'
<1> USE ChallengeConstants DEF rowVars
<1> DEFINE Silent ==
      /\ vouched' = vouched /\ sessions \subseteq sessions'
      /\ \A d \in Device : devices[d] # "unknown" => devices'[d] # "unknown"
      /\ \A d \in sessions' : d \in sessions
                                \/ \E k \in Call : In(k, "starting") /\ calls[k].device = d
      /\ \A k \in Call : In(k, "starting")' =>
           \/ In(k, "starting") /\ calls'[k].device = calls[k].device
           \/ devices'[calls'[k].device] # "unknown"
<1>a. /\ calls \in [Call -> CallState] /\ calls' \in [Call -> CallState]
      /\ devices \in [Device -> {"unknown", "known", "trusted"}]
      /\ challenges \in [Challenge -> Row]
  BY DEF IInv, TypeOK
<1>b. Silent => WordsInv'
  <2>1. /\ sessions' \subseteq Device
        /\ \A k \in Call : In(k, "starting")' => calls'[k].device \in Device
    BY DEF IInv, TypeOK, CallsInv, CallState, In
  <2> QED
    BY <2>1, NobodyVouches
<1>1. ASSUME NEW k \in Call, Register(k) PROVE Silent
  BY <1>a, <1>1 DEF Register, Goes, In
<1>2. ASSUME NEW k \in Call, CreateAccount(k) PROVE Silent
  BY <1>a, <1>2 DEF CreateAccount, Goes, In
<1>3. ASSUME NEW k \in Call, LoginWrong(k) PROVE Silent
  BY <1>a, <1>3 DEF LoginWrong, Goes, In
<1>4. ASSUME NEW k \in Call, ReadFailures(k) PROVE Silent
  BY <1>a, <1>4 DEF ReadFailures, In
<1>5. ASSUME NEW k \in Call, WriteFailures(k) PROVE Silent
  BY <1>a, <1>5 DEF WriteFailures, Ends, NoCall, In
<1>6. ASSUME NEW k \in Call, NEW d \in Device, LoginRight(k, d) PROVE Silent
  BY <1>a, <1>6 DEF LoginRight, NoCall, In
<1>7. ASSUME NEW k \in Call, ClearFailures(k) PROVE Silent
  BY <1>a, <1>7 DEF ClearFailures, Goes, In
<1>8. ASSUME NEW k \in Call, Admit(k) PROVE Silent
  <2> DEFINE d == calls[k].device
  <2>1. /\ d \in Device
        /\ devices' = [devices EXCEPT ![d] = IF devices[d] = "unknown" THEN "known" ELSE devices[d]]
        /\ sessions' = sessions /\ vouched' = vouched
    BY <1>8 DEF Admit, IInv, TypeOK, CallsInv, CallState, In
  <2>2. \A e \in Device : devices[e] # "unknown" \/ e = d => devices'[e] # "unknown"
    BY <1>a, <2>1
  <2>3. \/ calls' = [calls EXCEPT ![k] = NoCall]
        \/ \E p \in {"starting", "retiring"} : calls' = [calls EXCEPT ![k].phase = p]
    BY <1>8 DEF Admit, Goes, Ends
  <2>4. \A j \in Call : In(j, "starting")' => calls'[j].device = calls[j].device
                                              /\ (j = k \/ In(j, "starting"))
    BY <1>a, <2>3 DEF NoCall, CallState, In
  <2> QED
    BY <2>1, <2>2, <2>4
<1>9. ASSUME NEW k \in Call, StartSession(k) PROVE Silent
  BY <1>a, <1>9 DEF StartSession, Ends, NoCall, In
<1>10. ASSUME NEW k \in Call, Burn(k) PROVE Silent
  BY <1>a, <1>10 DEF Burn, Ends, NoCall, In
<1>11. ASSUME NEW k \in Call, Claim(k) PROVE Silent
  <2> DEFINE b == calls[k].challenge
  <2>1. vouched' = vouched /\ sessions' = sessions /\ devices' = devices
    BY <1>11 DEF Claim
  <2>2. \/ calls' = [calls EXCEPT ![k] = NoCall]
        \/ \E p \in {"verifying", "trusting"} :
             calls' = [calls EXCEPT ![k].phase = p, ![k].device = challenges[b].device]
    BY <1>11 DEF Claim, Ends, GoodFor
  <2>3. \A j \in Call : In(j, "starting")' => calls'[j] = calls[j]
    BY <1>a, <2>2 DEF NoCall, CallState, In
  <2> QED
    BY <2>1, <2>3 DEF In
<1>12. ASSUME NEW k \in Call, VerifyEmail(k) PROVE Silent
  BY <1>a, <1>12 DEF VerifyEmail, Ends, NoCall, In
<1>13. ASSUME NEW k \in Call, NEW trust \in BOOLEAN, VerifyDevice(k, trust) PROVE Silent
  <2> DEFINE d == calls[k].device
  <2>1. /\ d \in Device
        /\ devices' = [devices EXCEPT ![d] = IF trust THEN "trusted" ELSE "known"]
        /\ sessions' = sessions /\ vouched' = vouched
        /\ calls' = [calls EXCEPT ![k].phase = "starting"]
    BY <1>13 DEF VerifyDevice, Goes, IInv, TypeOK, CallsInv, CallState, In
  <2>2. \A e \in Device : devices[e] # "unknown" \/ e = d => devices'[e] # "unknown"
    BY <1>a, <2>1
  <2>3. \A j \in Call : calls'[j].device = calls[j].device /\ (j # k => calls'[j] = calls[j])
    BY <1>a, <2>1 DEF CallState
  <2> QED
    BY <2>1, <2>2, <2>3 DEF In
<1>14. ASSUME NEW k \in Call, Retire(k) PROVE Silent
  BY <1>a, <1>14 DEF Retire, Goes, In
<1>15. ASSUME NEW k \in Call, NEW c \in Challenge, Issue(k, c) PROVE Silent
  BY <1>a, <1>15 DEF Issue, Ends, NoCall, In
<1>16. ASSUME NEW k \in Call, NEW d \in Device, Revoke(k, d) PROVE Silent
  BY <1>a, <1>16 DEF Revoke, NoCall, In
<1>17. ASSUME NEW k \in Call, Silence(k) PROVE Silent
  BY <1>a, <1>17 DEF Silence, Ends, NoCall, In
<1>18. ASSUME NEW k \in Call, Fail(k) PROVE Silent
  BY <1>a, <1>18 DEF Fail, Ends, NoCall, In
<1>19. ASSUME NEW k \in Call, NEW c \in Challenge, NEW code \in Code, Submit(k, c, code) PROVE Silent
  BY <1>a, <1>19 DEF Submit, NoCall, In
<1>20. ASSUME NEW k \in Call, Miss(k) PROVE Silent
  <2>1. /\ vouched' = vouched /\ sessions' = sessions /\ devices' = devices
        /\ \/ calls' = [calls EXCEPT ![k] = NoCall]
           \/ calls' = [calls EXCEPT ![k].phase = "burning"]
    BY <1>20 DEF Miss, Goes, Ends
  <2>2. \A j \in Call : In(j, "starting")' => calls'[j] = calls[j]
    BY <1>a, <2>1 DEF NoCall, CallState, In
  <2> QED
    BY <2>1, <2>2 DEF In
<1>21. ASSUME NEW k \in Call, NEW c \in Challenge, AskResend(k, c) PROVE Silent
  BY <1>a, <1>21 DEF AskResend, NoCall, In
<1>22. ASSUME NEW k \in Call, Resend(k) PROVE Silent
  BY <1>a, <1>22 DEF Resend, Ends, NoCall, In
<1>23. CASE Unlock \/ UNCHANGED vars
  <2>1. Silent
    BY <1>23 DEF Unlock, vars, In
  <2> QED
    BY <1>b, <2>1
<1> HIDE DEF Silent
<1> QED
  BY <1>b, <1>1, <1>2, <1>3, <1>4, <1>5, <1>6, <1>7, <1>8, <1>9, <1>10, <1>11, <1>12, <1>13,
     <1>14, <1>15, <1>16, <1>17, <1>18, <1>19, <1>20, <1>21, <1>22, <1>23, EnrolVouches
     DEF Next, Login, Verify, SendCode

(* Nobody is admitted before a code for the address was accepted, and all  *)
(* trust goes back to a device that gave its own code: whoever was vouched *)
(* for was so by a session, and not in a circle (login, verifyEmail,       *)
(* verifyDevice, and enroll for a session's token).                        *)
THEOREM SessionsProvedTwice == Spec => []ProvedTwice
<1>1. Init => WordsInv
  BY ChallengeConstants DEF Init, WordsInv, KnownInv, NoCircle, In, NoCall
<1>2. IInv /\ IInv' /\ WordsInv /\ [Next]_vars => WordsInv'
  BY WordsStep
<1>3. IInv /\ WordsInv => ProvedTwice
  <2> SUFFICES ASSUME IInv, WordsInv PROVE ProvedTwice
    OBVIOUS
  <2>1. ASSUME NEW d \in Admitted
        PROVE  d \in Device /\ account = "verified" /\ AddressProved /\ Backed(d)
    BY <2>1 DEF Admitted, IInv, TypeOK, ProofsInv
  <2>2. ASSUME NEW ds \in SUBSET Admitted, ds # {}
        PROVE  \E d \in ds : GaveItsCode(d) \/ vouched[d] \in sessions \ ds
    <3>1. ds \in SUBSET Device
      BY <2>1
    <3>2. PICK d \in ds : vouched[d] \notin ds
      BY <2>2, <3>1 DEF WordsInv, NoCircle
    <3>3. GaveItsCode(d) \/ vouched[d] \in sessions
      BY <2>1, <3>1, <3>2 DEF Backed, WordsInv
    <3> QED
      BY <3>2, <3>3
  <2> QED
    BY <2>1, <2>2 DEF ProvedTwice, AddressProved
<1> QED
  BY <1>1, <1>2, <1>3, AccountInvariant, PTL DEF Spec
-----------------------------------------------------------------------------
(* A device that is out stays out: the steps that could let it in.         *)

(* What the rows and the requests of others leave of Out.                  *)
LEMMA OutFromParts ==
  ASSUME NEW d \in Device, Out(d), d \in revoked',
         \A c \in Challenge : challenges'[c].device = d /\ challenges'[c].state = "live"
           => challenges[c].device = d /\ challenges[c].state = "live",
         \A k \in Call : calls'[k].phase \in {"starting", "trusting", "retiring", "issuing"}
           => calls'[k].device # d
  PROVE  Out(d)'
BY DEF Out, Live, In

LEMMA OutStaysOut ==
  ASSUME IInv, [Next]_vars, NEW d \in Device, Out(d)
  PROVE  Out(d)' /\ devices'[d] = devices[d]
<1> USE ChallengeConstants DEF IInv, TypeOK, rowVars
<1> DEFINE Kept == /\ d \in revoked'
                   /\ devices'[d] = devices[d]
                   /\ \A c \in Challenge :
                        challenges'[c].device = d /\ challenges'[c].state = "live"
                          => challenges[c].device = d /\ challenges[c].state = "live"
                   /\ \A k \in Call :
                        calls'[k].phase \in {"starting", "trusting", "retiring", "issuing"}
                          => calls'[k].device # d
<1>0. SUFFICES Kept
  BY OutFromParts
<1>a. /\ d \in revoked /\ d # None
      /\ \A c \in Challenge : challenges[c].device = d => challenges[c].state # "live"
      /\ \A k \in Call : calls[k].phase \in {"starting", "trusting", "retiring", "issuing"}
                           => calls[k].device # d
  BY DEF Out, Live, In
<1>1. ASSUME NEW k \in Call, Register(k) PROVE Kept
  BY <1>a, <1>1 DEF Register, In, Goes, CallsInv
<1>2. ASSUME NEW k \in Call, CreateAccount(k) PROVE Kept
  BY <1>a, <1>2 DEF CreateAccount, In, Goes, CallsInv
<1>3. ASSUME NEW k \in Call, LoginWrong(k) PROVE Kept
  BY <1>a, <1>3 DEF LoginWrong, In, Goes
<1>4. ASSUME NEW k \in Call, ReadFailures(k) PROVE Kept
  BY <1>a, <1>4 DEF ReadFailures, In
<1>5. ASSUME NEW k \in Call, WriteFailures(k) PROVE Kept
  BY <1>a, <1>5 DEF WriteFailures, In, Ends, NoCall
<1>6. ASSUME NEW k \in Call, NEW e \in Device, LoginRight(k, e) PROVE Kept
  BY <1>a, <1>6 DEF LoginRight, In, NoCall, NeedsAddress
<1>7. ASSUME NEW k \in Call, ClearFailures(k) PROVE Kept
  BY <1>a, <1>7 DEF ClearFailures, In, Goes
<1>8. ASSUME NEW k \in Call, Admit(k) PROVE Kept
  <2> DEFINE e == calls[k].device
  <2>1. /\ UNCHANGED <<revoked, challenges>>
        /\ devices' = [devices EXCEPT ![e] = IF devices[e] = "unknown" THEN "known" ELSE devices[e]]
    BY <1>8 DEF Admit
  <2>2. devices'[d] = devices[d]
    BY <1>a, <2>1 DEF RemovedInv
  <2>3. CASE e \in revoked
    <3>1. calls' = [calls EXCEPT ![k] = NoCall]
      BY <1>8, <2>3 DEF Admit, TurnedAway, Ends
    <3> QED
      BY <1>a, <2>1, <2>2, <3>1 DEF NoCall
  <2>4. CASE e \notin revoked
    <3>1. /\ e # d
          /\ \E p \in {"starting", "retiring"} : calls' = [calls EXCEPT ![k].phase = p]
      BY <1>a, <1>8, <2>4 DEF Admit, TurnedAway, Goes
    <3>2. \A j \in Call : calls'[j].device = calls[j].device
                          /\ (j # k => calls'[j] = calls[j])
      BY <3>1 DEF CallState
    <3> QED
      BY <1>a, <2>1, <2>2, <3>1, <3>2
  <2> QED
    BY <2>3, <2>4
<1>9. ASSUME NEW k \in Call, StartSession(k) PROVE Kept
  BY <1>a, <1>9 DEF StartSession, In, Ends, NoCall
<1>10. ASSUME NEW k \in Call, NEW c \in Challenge, NEW code \in Code, Submit(k, c, code) PROVE Kept
  BY <1>a, <1>10 DEF Submit, In, NoCall
<1>11. ASSUME NEW k \in Call, Miss(k) PROVE Kept
  <2> DEFINE c == calls[k].challenge
  <2>1. /\ In(k, "missing")
        /\ UNCHANGED <<revoked, devices>>
        /\ challenges' = [challenges EXCEPT ![c].attempts = challenges[c].attempts + 1]
    BY <1>11 DEF Miss
  <2>2. \A b \in Challenge : /\ challenges'[b].device = challenges[b].device
                             /\ challenges'[b].state = challenges[b].state
    BY <2>1 DEF Row
  <2>3. \/ calls' = [calls EXCEPT ![k] = NoCall]
        \/ calls' = [calls EXCEPT ![k].phase = "burning"]
    BY <1>11 DEF Miss, Goes, Ends
  <2>4. \A j \in Call : calls'[j].phase \in {"starting", "trusting", "retiring", "issuing"}
                          => calls'[j] = calls[j]
    BY <2>3 DEF NoCall, CallState
  <2> QED
    BY <1>a, <2>1, <2>2, <2>4
<1>12. ASSUME NEW k \in Call, Burn(k) PROVE Kept
  BY <1>a, <1>12 DEF Burn, In, Ends, NoCall, Consumed, Row
<1>13. ASSUME NEW k \in Call, Claim(k) PROVE Kept
  <2> DEFINE c == calls[k].challenge
  <2>1. CASE ~Claimable(c)
    BY <1>a, <1>13, <2>1 DEF Claim, Ends, NoCall
  <2>2. CASE Claimable(c)
    <3>1. /\ UNCHANGED <<revoked, devices>>
          /\ challenges' = Consumed({c})
          /\ calls[k].phase = "claiming"
          /\ calls' = [calls EXCEPT ![k].phase = GoodFor(c), ![k].device = challenges[c].device]
      BY <1>13, <2>2 DEF Claim, In
    <3>2. \A b \in Challenge : /\ challenges'[b].device = challenges[b].device
                               /\ challenges'[b].state = "live" =>
                                    b # c /\ challenges[b].state = "live"
      BY <3>1 DEF Consumed, Row
    <3>3. c \in Challenge /\ challenges[c].state = "live"
      BY <2>2, <3>1 DEF CallsInv, CallState, Claimable, Live
    <3>4. /\ calls'[k].device = challenges[c].device
          /\ calls'[k].phase = GoodFor(c)
          /\ \A j \in Call : j # k => calls'[j] = calls[j]
      BY <3>1 DEF CallState
    <3>5. challenges[c].device # d
      BY <1>a, <3>3
    <3>6. \A j \in Call : calls'[j].phase \in {"starting", "trusting", "retiring", "issuing"}
                            => calls'[j].device # d
      BY <1>a, <3>4, <3>5
    <3>7. \A b \in Challenge : challenges'[b].device = d /\ challenges'[b].state = "live"
                                 => challenges[b].device = d /\ challenges[b].state = "live"
      BY <3>2
    <3>8. d \in revoked' /\ devices'[d] = devices[d]
      BY <1>a, <3>1
    <3> QED
      BY <3>6, <3>7, <3>8
  <2> QED
    BY <2>1, <2>2
<1>14. ASSUME NEW k \in Call, VerifyEmail(k) PROVE Kept
  BY <1>a, <1>14 DEF VerifyEmail, In, Ends, NoCall
<1>15. ASSUME NEW k \in Call, NEW trust \in BOOLEAN, VerifyDevice(k, trust) PROVE Kept
  BY <1>a, <1>15 DEF VerifyDevice, In, Goes
<1>16. ASSUME NEW k \in Call, Retire(k) PROVE Kept
  BY <1>a, <1>16 DEF Retire, In, Goes, Consumed, Row
<1>17. ASSUME NEW k \in Call, NEW c \in Challenge, Issue(k, c) PROVE Kept
  BY <1>a, <1>17 DEF Issue, In, Ends, NoCall
<1>18. ASSUME NEW k \in Call, NEW c \in Challenge, AskResend(k, c) PROVE Kept
  BY <1>a, <1>18 DEF AskResend, In, NoCall
<1>19. ASSUME NEW k \in Call, Resend(k) PROVE Kept
  <2> DEFINE c == calls[k].challenge
  <2>1. /\ UNCHANGED <<revoked, devices>>
        /\ challenges' = [challenges EXCEPT ![c].resends = challenges[c].resends + 1, ![c].attempts = 0]
        /\ calls' = [calls EXCEPT ![k] = NoCall]
    BY <1>19 DEF Resend, Ends
  <2>2. \A b \in Challenge : /\ challenges'[b].device = challenges[b].device
                             /\ challenges'[b].state = challenges[b].state
    BY <2>1 DEF Row
  <2>3. \A j \in Call : calls'[j].phase \in {"starting", "trusting", "retiring", "issuing"}
                          => calls'[j] = calls[j]
    BY <2>1 DEF NoCall
  <2> QED
    BY <1>a, <2>1, <2>2, <2>3
<1>20. ASSUME NEW k \in Call, NEW e \in Device, Revoke(k, e) PROVE Kept
  BY <1>a, <1>20 DEF Revoke, In, NoCall
<1>21. ASSUME NEW k \in Call, Silence(k) PROVE Kept
  BY <1>a, <1>21 DEF Silence, In, Ends, NoCall, Consumed, Row
<1>22. ASSUME NEW k \in Call, Fail(k) PROVE Kept
  BY <1>a, <1>22 DEF Fail, In, Ends, NoCall
<1>23. CASE Unlock
  BY <1>23, <1>a DEF Unlock
<1>24. CASE UNCHANGED vars
  BY <1>24, <1>a DEF vars
<1>25. ASSUME NEW e \in Device, NEW by \in Device, Enrol(e, by) PROVE Kept
  <2>1. e # d
    BY <1>a, <1>25 DEF Enrol, RemovedInv
  <2> QED
    BY <1>25, <1>a, <2>1 DEF Enrol
<1> HIDE DEF Kept
<1> QED
  BY <1>1, <1>2, <1>3, <1>4, <1>5, <1>6, <1>7, <1>8, <1>9, <1>10, <1>11, <1>12, <1>13,
     <1>14, <1>15, <1>16, <1>17, <1>18, <1>19, <1>20, <1>21, <1>22, <1>23, <1>24, <1>25
     DEF Next, Login, Verify, SendCode

(* A removed device with nothing outstanding stays out and untrusted,      *)
(* whatever follows (login's look at revokedAt, revoke's silencing).       *)
THEOREM RevokedDevicesStayOut == Spec => RevokedStaysOut
<1>1. IInv /\ [Next]_vars
        => [\A d \in Device : Out(d) => /\ Out(d)'
                                        /\ devices'[d] = devices[d]]_vars
  BY OutStaysOut
<1> QED
  BY <1>1, AccountInvariant, PTL DEF Spec, RevokedStaysOut
-----------------------------------------------------------------------------
(* The budgets.  Whoever is about to count an attempt, or a resend, found  *)
(* room for it, but cannot know of the others who did.                     *)

Missing(c) == {k \in Call : In(k, "missing") /\ calls[k].challenge = c}

Resending(c) == {k \in Call : In(k, "resending") /\ calls[k].challenge = c}

BudgetsInv ==
  \A c \in Challenge :
    /\ challenges[c].attempts + Cardinality(Missing(c)) < MaxAttempts + Cardinality(Call)
    /\ challenges[c].resends + Cardinality(Resending(c)) < MaxResends + Cardinality(Call)

(* How the sizes of sets of requests compare.                              *)
LEMMA Sizes ==
  ASSUME NEW T \in SUBSET Call, NEW S \in SUBSET T
  PROVE  /\ Cardinality(S) \in Nat /\ Cardinality(T) \in Nat /\ Cardinality(Call) \in Nat
         /\ Cardinality(S) <= Cardinality(T) /\ Cardinality(T) <= Cardinality(Call)
         /\ \A k \in T : k \notin S => Cardinality(S) < Cardinality(T)
<1>1. IsFiniteSet(Call) /\ IsFiniteSet(T) /\ IsFiniteSet(S)
  BY ChallengeConstants, FS_Subset
<1>2. /\ Cardinality(S) \in Nat /\ Cardinality(T) \in Nat /\ Cardinality(Call) \in Nat
      /\ Cardinality(S) <= Cardinality(T) /\ Cardinality(T) <= Cardinality(Call)
  BY <1>1, FS_Subset, FS_CardinalityType
<1>3. Cardinality(S) = Cardinality(T) => S = T
  BY <1>1, FS_Subset
<1> QED
  BY <1>2, <1>3

(* A step in which nobody is newly about to count, and no count grows.     *)
LEMMA BudgetsShrink ==
  ASSUME IInv, IInv', BudgetsInv,
         \A c \in Challenge : /\ challenges'[c].attempts <= challenges[c].attempts
                              /\ challenges'[c].resends <= challenges[c].resends,
         \A k \in Call : calls'[k].phase \in {"missing", "resending"} => calls'[k] = calls[k]
  PROVE  BudgetsInv'
<1> SUFFICES ASSUME NEW c \in Challenge
    PROVE /\ challenges'[c].attempts + Cardinality(Missing(c)') < MaxAttempts + Cardinality(Call)
          /\ challenges'[c].resends + Cardinality(Resending(c)') < MaxResends + Cardinality(Call)
  BY DEF BudgetsInv
<1>1. /\ challenges[c].attempts \in Nat /\ challenges'[c].attempts \in Nat
      /\ challenges[c].resends \in Nat /\ challenges'[c].resends \in Nat
  BY DEF IInv, TypeOK, Row
<1>2. Missing(c) \in SUBSET Call /\ Missing(c)' \in SUBSET Missing(c)
  BY DEF Missing, In
<1>3. Resending(c) \in SUBSET Call /\ Resending(c)' \in SUBSET Resending(c)
  BY DEF Resending, In
<1>4. /\ Cardinality(Missing(c)) \in Nat /\ Cardinality(Missing(c)') \in Nat
      /\ Cardinality(Missing(c)') <= Cardinality(Missing(c))
      /\ Cardinality(Resending(c)) \in Nat /\ Cardinality(Resending(c)') \in Nat
      /\ Cardinality(Resending(c)') <= Cardinality(Resending(c))
      /\ Cardinality(Call) \in Nat
  BY <1>2, <1>3, Sizes
<1>5. /\ challenges[c].attempts + Cardinality(Missing(c)) < MaxAttempts + Cardinality(Call)
      /\ challenges[c].resends + Cardinality(Resending(c)) < MaxResends + Cardinality(Call)
  BY DEF BudgetsInv
<1>6. /\ challenges'[c].attempts <= challenges[c].attempts
      /\ challenges'[c].resends <= challenges[c].resends
  OBVIOUS
<1> QED
  BY <1>1, <1>4, <1>5, <1>6, ChallengeConstants

(* A request begins only while there is room.                              *)
LEMMA SubmitInBudget ==
  ASSUME IInv, IInv', BudgetsInv, NEW k \in Call, NEW b \in Challenge, NEW code \in Code,
         Submit(k, b, code)
  PROVE  BudgetsInv'
<1> SUFFICES ASSUME NEW c \in Challenge
    PROVE /\ challenges'[c].attempts + Cardinality(Missing(c)') < MaxAttempts + Cardinality(Call)
          /\ challenges'[c].resends + Cardinality(Resending(c)') < MaxResends + Cardinality(Call)
  BY DEF BudgetsInv
<1>1. /\ challenges' = challenges
      /\ challenges[b].attempts < MaxAttempts
      /\ \E p \in {"claiming", "missing"} :
           calls' = [calls EXCEPT ![k] = [NoCall EXCEPT !.phase = p, !.challenge = b]]
  BY DEF Submit, Guessable, rowVars
<1>2. challenges[c].attempts \in Nat /\ challenges[c].resends \in Nat
  BY DEF IInv, TypeOK, Row
<1>3. Missing(c)' \in SUBSET Call /\ (c # b => Missing(c)' \subseteq Missing(c))
  BY <1>1 DEF Missing, In, NoCall, IInv, TypeOK
<1>4. Missing(c) \in SUBSET Call /\ Resending(c) \in SUBSET Call
      /\ Resending(c)' \in SUBSET Resending(c)
  BY <1>1 DEF Missing, Resending, In, NoCall, IInv, TypeOK
<1>5. /\ Cardinality(Missing(c)) \in Nat /\ Cardinality(Missing(c)') \in Nat
      /\ Cardinality(Missing(c)') <= Cardinality(Call) /\ Cardinality(Call) \in Nat
      /\ c # b => Cardinality(Missing(c)') <= Cardinality(Missing(c))
  BY <1>3, <1>4, Sizes
<1>6. /\ Cardinality(Resending(c)) \in Nat /\ Cardinality(Resending(c)') \in Nat
      /\ Cardinality(Resending(c)') <= Cardinality(Resending(c))
  BY <1>4, Sizes
<1>7. /\ challenges[c].attempts + Cardinality(Missing(c)) < MaxAttempts + Cardinality(Call)
      /\ challenges[c].resends + Cardinality(Resending(c)) < MaxResends + Cardinality(Call)
  BY DEF BudgetsInv
<1>8. CASE c = b
  BY <1>1, <1>2, <1>5, <1>6, <1>7, <1>8, ChallengeConstants
<1>9. CASE c # b
  BY <1>1, <1>2, <1>5, <1>6, <1>7, <1>9, ChallengeConstants
<1> QED
  BY <1>8, <1>9

LEMMA AskResendInBudget ==
  ASSUME IInv, IInv', BudgetsInv, NEW k \in Call, NEW b \in Challenge, AskResend(k, b)
  PROVE  BudgetsInv'
<1> SUFFICES ASSUME NEW c \in Challenge
    PROVE /\ challenges'[c].attempts + Cardinality(Missing(c)') < MaxAttempts + Cardinality(Call)
          /\ challenges'[c].resends + Cardinality(Resending(c)') < MaxResends + Cardinality(Call)
  BY DEF BudgetsInv
<1>1. /\ challenges' = challenges
      /\ challenges[b].resends < MaxResends
      /\ calls' = [calls EXCEPT ![k] = [NoCall EXCEPT !.phase = "resending", !.challenge = b]]
  BY DEF AskResend, rowVars
<1>2. challenges[c].attempts \in Nat /\ challenges[c].resends \in Nat
  BY DEF IInv, TypeOK, Row
<1>3. Resending(c)' \in SUBSET Call /\ (c # b => Resending(c)' \subseteq Resending(c))
  BY <1>1 DEF Resending, In, NoCall, IInv, TypeOK
<1>4. Missing(c) \in SUBSET Call /\ Resending(c) \in SUBSET Call
      /\ Missing(c)' \in SUBSET Missing(c)
  BY <1>1 DEF Missing, Resending, In, NoCall, IInv, TypeOK
<1>5. /\ Cardinality(Resending(c)) \in Nat /\ Cardinality(Resending(c)') \in Nat
      /\ Cardinality(Resending(c)') <= Cardinality(Call) /\ Cardinality(Call) \in Nat
      /\ c # b => Cardinality(Resending(c)') <= Cardinality(Resending(c))
  BY <1>3, <1>4, Sizes
<1>6. /\ Cardinality(Missing(c)) \in Nat /\ Cardinality(Missing(c)') \in Nat
      /\ Cardinality(Missing(c)') <= Cardinality(Missing(c))
  BY <1>4, Sizes
<1>7. /\ challenges[c].attempts + Cardinality(Missing(c)) < MaxAttempts + Cardinality(Call)
      /\ challenges[c].resends + Cardinality(Resending(c)) < MaxResends + Cardinality(Call)
  BY DEF BudgetsInv
<1>8. CASE c = b
  BY <1>1, <1>2, <1>5, <1>6, <1>7, <1>8, ChallengeConstants
<1>9. CASE c # b
  BY <1>1, <1>2, <1>5, <1>6, <1>7, <1>9, ChallengeConstants
<1> QED
  BY <1>8, <1>9

(* Whoever counts is no longer about to.                                   *)
LEMMA MissInBudget ==
  ASSUME IInv, IInv', BudgetsInv, NEW k \in Call, Miss(k)
  PROVE  BudgetsInv'
<1> SUFFICES ASSUME NEW c \in Challenge
    PROVE /\ challenges'[c].attempts + Cardinality(Missing(c)') < MaxAttempts + Cardinality(Call)
          /\ challenges'[c].resends + Cardinality(Resending(c)') < MaxResends + Cardinality(Call)
  BY DEF BudgetsInv
<1> DEFINE b == calls[k].challenge
<1>1. /\ In(k, "missing")
      /\ challenges' = [challenges EXCEPT ![b].attempts = challenges[b].attempts + 1]
  BY DEF Miss
<1>2. \/ calls' = [calls EXCEPT ![k] = NoCall]
      \/ calls' = [calls EXCEPT ![k].phase = "burning"]
  BY DEF Miss, Goes, Ends
<1>3. challenges[c].attempts \in Nat /\ challenges[c].resends \in Nat
  BY DEF IInv, TypeOK, Row
<1>4. /\ challenges'[c].resends = challenges[c].resends
      /\ challenges'[c].attempts =
           IF c = b THEN challenges[c].attempts + 1 ELSE challenges[c].attempts
  BY <1>1 DEF IInv, TypeOK, Row
<1>5. /\ Missing(c) \in SUBSET Call /\ Missing(c)' \in SUBSET Missing(c)
      /\ c = b => k \in Missing(c) /\ k \notin Missing(c)'
      /\ Resending(c) \in SUBSET Call /\ Resending(c)' \in SUBSET Resending(c)
  <2>1. \A j \in Call : calls'[j].phase \in {"missing", "resending"} => calls'[j] = calls[j]
    BY <1>1, <1>2 DEF NoCall, CallState, IInv, TypeOK
  <2>2. calls'[k].phase # "missing"
    BY <1>2 DEF NoCall, CallState, IInv, TypeOK
  <2> QED
    BY <1>1, <2>1, <2>2 DEF Missing, Resending, In
<1>6. /\ Cardinality(Missing(c)) \in Nat /\ Cardinality(Missing(c)') \in Nat
      /\ Cardinality(Missing(c)') <= Cardinality(Missing(c)) /\ Cardinality(Call) \in Nat
      /\ c = b => Cardinality(Missing(c)') < Cardinality(Missing(c))
  BY <1>5, Sizes
<1>7. /\ Cardinality(Resending(c)) \in Nat /\ Cardinality(Resending(c)') \in Nat
      /\ Cardinality(Resending(c)') <= Cardinality(Resending(c))
  BY <1>5, Sizes
<1>8. /\ challenges[c].attempts + Cardinality(Missing(c)) < MaxAttempts + Cardinality(Call)
      /\ challenges[c].resends + Cardinality(Resending(c)) < MaxResends + Cardinality(Call)
  BY DEF BudgetsInv
<1> QED
  BY <1>3, <1>4, <1>6, <1>7, <1>8, ChallengeConstants

LEMMA ResendInBudget ==
  ASSUME IInv, IInv', BudgetsInv, NEW k \in Call, Resend(k)
  PROVE  BudgetsInv'
<1> SUFFICES ASSUME NEW c \in Challenge
    PROVE /\ challenges'[c].attempts + Cardinality(Missing(c)') < MaxAttempts + Cardinality(Call)
          /\ challenges'[c].resends + Cardinality(Resending(c)') < MaxResends + Cardinality(Call)
  BY DEF BudgetsInv
<1> DEFINE b == calls[k].challenge
<1>1. /\ In(k, "resending")
      /\ challenges' = [challenges EXCEPT ![b].resends = challenges[b].resends + 1,
                                          ![b].attempts = 0]
      /\ calls' = [calls EXCEPT ![k] = NoCall]
  BY DEF Resend, Ends
<1>2. challenges[c].attempts \in Nat /\ challenges[c].resends \in Nat
  BY DEF IInv, TypeOK, Row
<1>3. /\ challenges'[c].resends =
           IF c = b THEN challenges[c].resends + 1 ELSE challenges[c].resends
      /\ challenges'[c].attempts = IF c = b THEN 0 ELSE challenges[c].attempts
  <2>1. challenges \in [Challenge -> Row] /\ challenges[c] \in Row
    BY DEF IInv, TypeOK
  <2>2. CASE c = b
    BY <1>1, <2>1, <2>2 DEF Row
  <2>3. CASE c # b
    BY <1>1, <2>1, <2>3
  <2> QED BY <2>2, <2>3
<1>4. /\ Resending(c) \in SUBSET Call /\ Resending(c)' \in SUBSET Resending(c)
      /\ c = b => k \in Resending(c) /\ k \notin Resending(c)'
      /\ Missing(c) \in SUBSET Call /\ Missing(c)' \in SUBSET Missing(c)
  BY <1>1 DEF Missing, Resending, In, NoCall, IInv, TypeOK
<1>5. /\ Cardinality(Resending(c)) \in Nat /\ Cardinality(Resending(c)') \in Nat
      /\ Cardinality(Resending(c)') <= Cardinality(Resending(c)) /\ Cardinality(Call) \in Nat
      /\ c = b => Cardinality(Resending(c)') < Cardinality(Resending(c))
  BY <1>4, Sizes
<1>6. /\ Cardinality(Missing(c)) \in Nat /\ Cardinality(Missing(c)') \in Nat
      /\ Cardinality(Missing(c)') <= Cardinality(Missing(c))
  BY <1>4, Sizes
<1>7. /\ challenges[c].attempts + Cardinality(Missing(c)) < MaxAttempts + Cardinality(Call)
      /\ challenges[c].resends + Cardinality(Resending(c)) < MaxResends + Cardinality(Call)
  BY DEF BudgetsInv
<1> QED
  BY <1>2, <1>3, <1>5, <1>6, <1>7, ChallengeConstants

LEMMA BudgetsStep ==
  ASSUME IInv, IInv', BudgetsInv, [Next]_vars
  PROVE  BudgetsInv'
<1> USE ChallengeConstants DEF rowVars
<1> DEFINE Calm == /\ \A c \in Challenge :
                        /\ challenges'[c].attempts <= challenges[c].attempts
                        /\ challenges'[c].resends <= challenges[c].resends
                   /\ \A j \in Call :
                        calls'[j].phase \in {"missing", "resending"} => calls'[j] = calls[j]
<1>a. /\ challenges \in [Challenge -> Row] /\ calls \in [Call -> CallState]
      /\ \A c \in Challenge : /\ challenges[c].attempts \in Nat /\ challenges[c].resends \in Nat
                              /\ challenges[c].attempts >= 0 /\ challenges[c].resends >= 0
  BY DEF IInv, TypeOK, Row
<1>b. Calm => BudgetsInv'
  BY BudgetsShrink
<1>1. ASSUME NEW k \in Call, Register(k) PROVE Calm
  BY <1>a, <1>1 DEF Register, Goes, CallState
<1>2. ASSUME NEW k \in Call, CreateAccount(k) PROVE Calm
  BY <1>a, <1>2 DEF CreateAccount, Goes, CallState
<1>3. ASSUME NEW k \in Call, LoginWrong(k) PROVE Calm
  BY <1>a, <1>3 DEF LoginWrong, Goes, CallState
<1>4. ASSUME NEW k \in Call, ReadFailures(k) PROVE Calm
  BY <1>a, <1>4 DEF ReadFailures, CallState
<1>5. ASSUME NEW k \in Call, WriteFailures(k) PROVE Calm
  BY <1>a, <1>5 DEF WriteFailures, Ends, NoCall
<1>6. ASSUME NEW k \in Call, NEW d \in Device, LoginRight(k, d) PROVE Calm
  BY <1>a, <1>6 DEF LoginRight, NoCall
<1>7. ASSUME NEW k \in Call, ClearFailures(k) PROVE Calm
  BY <1>a, <1>7 DEF ClearFailures, Goes, CallState
<1>8. ASSUME NEW k \in Call, Admit(k) PROVE Calm
  <2>1. challenges' = challenges
    BY <1>8 DEF Admit
  <2>2. \/ calls' = [calls EXCEPT ![k] = NoCall]
        \/ \E p \in {"starting", "retiring"} : calls' = [calls EXCEPT ![k].phase = p]
    BY <1>8 DEF Admit, Goes, Ends
  <2> QED
    BY <1>a, <2>1, <2>2 DEF NoCall, CallState
<1>9. ASSUME NEW k \in Call, StartSession(k) PROVE Calm
  BY <1>a, <1>9 DEF StartSession, Ends, NoCall
<1>10. ASSUME NEW k \in Call, Burn(k) PROVE Calm
  BY <1>a, <1>10 DEF Burn, Ends, NoCall, Consumed, Row
<1>11. ASSUME NEW k \in Call, Claim(k) PROVE Calm
  <2> DEFINE b == calls[k].challenge
  <2>1. challenges' = challenges \/ challenges' = Consumed({b})
    BY <1>11 DEF Claim
  <2>2. \/ calls' = [calls EXCEPT ![k] = NoCall]
        \/ \E p \in {"verifying", "trusting"} :
             calls' = [calls EXCEPT ![k].phase = p, ![k].device = challenges[b].device]
    BY <1>11 DEF Claim, Ends, GoodFor
  <2>3. \A c \in Challenge : /\ challenges'[c].attempts <= challenges[c].attempts
                             /\ challenges'[c].resends <= challenges[c].resends
    BY <1>a, <2>1 DEF Consumed, Row
  <2>4. \A j \in Call : calls'[j].phase \in {"missing", "resending"} => calls'[j] = calls[j]
    BY <1>a, <2>2 DEF NoCall, CallState
  <2> QED
    BY <2>3, <2>4
<1>12. ASSUME NEW k \in Call, VerifyEmail(k) PROVE Calm
  BY <1>a, <1>12 DEF VerifyEmail, Ends, NoCall
<1>13. ASSUME NEW k \in Call, NEW trust \in BOOLEAN, VerifyDevice(k, trust) PROVE Calm
  BY <1>a, <1>13 DEF VerifyDevice, Goes, CallState
<1>14. ASSUME NEW k \in Call, Retire(k) PROVE Calm
  BY <1>a, <1>14 DEF Retire, Goes, Consumed, Row, CallState
<1>15. ASSUME NEW k \in Call, NEW c \in Challenge, Issue(k, c) PROVE Calm
  BY <1>a, <1>15 DEF Issue, Ends, NoCall, Row
<1>16. ASSUME NEW k \in Call, NEW d \in Device, Revoke(k, d) PROVE Calm
  BY <1>a, <1>16 DEF Revoke, NoCall
<1>17. ASSUME NEW k \in Call, Silence(k) PROVE Calm
  BY <1>a, <1>17 DEF Silence, Ends, NoCall, Consumed, Row
<1>18. ASSUME NEW k \in Call, Fail(k) PROVE Calm
  BY <1>a, <1>18 DEF Fail, Ends, NoCall
<1>19. CASE Unlock
  <2>1. Calm
    BY <1>a, <1>19 DEF Unlock
  <2> QED
    BY <1>b, <2>1
<1>20. CASE UNCHANGED vars
  <2>1. Calm
    BY <1>a, <1>20 DEF vars
  <2> QED
    BY <1>b, <2>1
<1>21. ASSUME NEW d \in Device, NEW by \in Device, Enrol(d, by) PROVE Calm
  BY <1>a, <1>21 DEF Enrol
<1> HIDE DEF Calm
<1> QED
  BY <1>b, <1>1, <1>2, <1>3, <1>4, <1>5, <1>6, <1>7, <1>8, <1>9, <1>10, <1>11, <1>12, <1>13,
     <1>14, <1>15, <1>16, <1>17, <1>18, <1>19, <1>20, <1>21,
     SubmitInBudget, AskResendInBudget, MissInBudget, ResendInBudget
     DEF Next, Login, Verify, SendCode

(* A code may be guessed at, and sent again, no more often than its        *)
(* budget and one time for every other request that is served at once      *)
(* (consume and resend look before they count).                            *)
THEOREM GuessesAreCounted == Spec => []BudgetsHold
<1>1. Init => BudgetsInv
  <2> SUFFICES ASSUME Init, NEW c \in Challenge
        PROVE /\ challenges[c].attempts + Cardinality(Missing(c)) < MaxAttempts + Cardinality(Call)
              /\ challenges[c].resends + Cardinality(Resending(c)) < MaxResends + Cardinality(Call)
    BY DEF BudgetsInv
  <2>1. Missing(c) = {} /\ Resending(c) = {}
    BY DEF Init, Missing, Resending, In, NoCall
  <2>2. challenges[c].attempts = 0 /\ challenges[c].resends = 0
    BY DEF Init, NoRow
  <2>3. Cardinality({}) = 0 /\ Cardinality(Call) \in Nat /\ Cardinality(Call) # 0
    BY ChallengeConstants, FS_EmptySet, FS_CardinalityType
  <2> QED
    BY <2>1, <2>2, <2>3, ChallengeConstants
<1>2. IInv /\ IInv' /\ BudgetsInv /\ [Next]_vars => BudgetsInv'
  BY BudgetsStep
<1>3. IInv /\ BudgetsInv => BudgetsHold
  <2> SUFFICES ASSUME IInv, BudgetsInv, NEW c \in Challenge
        PROVE /\ challenges[c].attempts < MaxAttempts + Cardinality(Call)
              /\ challenges[c].resends < MaxResends + Cardinality(Call)
    BY DEF BudgetsHold
  <2>1. /\ Missing(c) \in SUBSET Call /\ Missing(c) \in SUBSET Missing(c)
        /\ Resending(c) \in SUBSET Call /\ Resending(c) \in SUBSET Resending(c)
    BY DEF Missing, Resending
  <2>2. Cardinality(Missing(c)) \in Nat /\ Cardinality(Resending(c)) \in Nat
        /\ Cardinality(Call) \in Nat
    BY <2>1, Sizes
  <2>3. challenges[c].attempts \in Nat /\ challenges[c].resends \in Nat
    BY DEF IInv, TypeOK, Row
  <2>4. /\ challenges[c].attempts + Cardinality(Missing(c)) < MaxAttempts + Cardinality(Call)
        /\ challenges[c].resends + Cardinality(Resending(c)) < MaxResends + Cardinality(Call)
    BY DEF BudgetsInv
  <2> QED
    BY <2>2, <2>3, <2>4, ChallengeConstants
<1> QED
  BY <1>1, <1>2, <1>3, AccountInvariant, PTL DEF Spec
-----------------------------------------------------------------------------
(* Codes as one-time codes: each step of the abstract specification, in    *)
(* terms of the rows.                                                      *)
OneTimeStep == OneTime!Next \/ UNCHANGED OneTime!vars


LEMMA CodesStay ==
  ASSUME \A c \in Challenge : CodeState(c)' = CodeState(c), accepted' = accepted
  PROVE  OneTimeStep
BY DEF OneTimeStep, OneTime!vars

LEMMA CodeOffered ==
  ASSUME NEW c \in Challenge, CodeState(c) = "absent", accepted' = accepted,
         \A b \in Challenge : CodeState(b)' = IF b = c THEN "offered" ELSE CodeState(b)
  PROVE  OneTimeStep
<1>1. OneTime!Offer(c)
  BY DEF OneTime!Offer, OneTime!Becomes
<1> QED
  BY <1>1 DEF OneTimeStep, OneTime!Next

LEMMA CodesWithdrawn ==
  ASSUME NEW cs \in SUBSET Challenge, \A c \in cs : CodeState(c) = "offered", accepted' = accepted,
         \A c \in Challenge : CodeState(c)' = IF c \in cs THEN "withdrawn" ELSE CodeState(c)
  PROVE  OneTimeStep
<1>1. OneTime!Withdraw(cs)
  BY DEF OneTime!Withdraw
<1> QED
  BY <1>1 DEF OneTimeStep, OneTime!Next

LEMMA CodeUsed ==
  ASSUME NEW c \in Challenge, CodeState(c) = "offered",
         accepted' = [accepted EXCEPT ![c] = accepted[c] + 1],
         \A b \in Challenge : CodeState(b)' = IF b = c THEN "used" ELSE CodeState(b)
  PROVE  OneTimeStep
<1>1. OneTime!Use(c)
  BY DEF OneTime!Use, OneTime!Becomes, OneTime!LetIn
<1> QED
  BY <1>1 DEF OneTimeStep, OneTime!Next

(* Retiring, burning and silencing: what is live is withdrawn, and what    *)
(* was accepted or withdrawn before stays as it is.                        *)
LEMMA ConsumedIsWithdrawn ==
  ASSUME IInv, NEW cs \in SUBSET Challenge, \A c \in cs : challenges[c].state # "none",
         challenges' = Consumed(cs), accepted' = accepted
  PROVE  OneTimeStep
<1> DEFINE W == {c \in cs : CodeState(c) = "offered"}
<1>1. \A c \in Challenge : CodeState(c)' = IF c \in W THEN "withdrawn" ELSE CodeState(c)
  <2> TAKE c \in Challenge
  <2>1. challenges[c] \in Row /\ accepted[c] \in Nat
    BY DEF IInv, TypeOK
  <2>2. challenges'[c].state = IF c \in cs THEN "consumed" ELSE challenges[c].state
    BY <2>1 DEF Consumed, Row
  <2>3. challenges[c].state \in {"none", "live", "consumed"}
    BY <2>1 DEF Row
  <2>4. c \in cs => challenges[c].state # "none"
    OBVIOUS
  <2>5. c \in W <=> c \in cs /\ CodeState(c) = "offered"
    OBVIOUS
  <2> HIDE DEF W
  <2> QED
    BY <2>1, <2>2, <2>3, <2>4, <2>5 DEF CodeState
<1>2. W \in SUBSET Challenge /\ \A c \in W : CodeState(c) = "offered"
  OBVIOUS
<1> HIDE DEF W
<1> QED
  BY <1>1, <1>2, CodesWithdrawn

LEMMA RetireIsStep ==
  ASSUME IInv, NEW k \in Call, Retire(k)
  PROVE  OneTimeStep
<1>1. ToRetire(k) \in SUBSET Challenge /\ \A c \in ToRetire(k) : challenges[c].state # "none"
  BY DEF ToRetire, Live
<1> QED
  BY <1>1, ConsumedIsWithdrawn DEF Retire

LEMMA SilenceIsStep ==
  ASSUME IInv, NEW k \in Call, Silence(k)
  PROVE  OneTimeStep
<1> DEFINE cs == {c \in Challenge : Live(c) /\ challenges[c].device = calls[k].device}
<1>1. cs \in SUBSET Challenge /\ \A c \in cs : challenges[c].state # "none"
  BY DEF Live
<1>2. challenges' = Consumed(cs) /\ accepted' = accepted
  BY DEF Silence
<1> HIDE DEF cs
<1> QED
  BY <1>1, <1>2, ConsumedIsWithdrawn

LEMMA BurnIsStep ==
  ASSUME IInv, NEW k \in Call, Burn(k)
  PROVE  OneTimeStep
<1>1. calls[k].challenge \in Challenge /\ challenges[calls[k].challenge].state # "none"
  BY DEF IInv, TypeOK, CallsInv, CallState, Burn, In
<1> QED
  BY <1>1, ConsumedIsWithdrawn DEF Burn

LEMMA IssueIsStep ==
  ASSUME IInv, NEW k \in Call, NEW c \in Challenge, Issue(k, c)
  PROVE  OneTimeStep
<1>1. challenges \in [Challenge -> Row] /\ accepted \in [Challenge -> Nat]
  BY DEF IInv, TypeOK
<1>2. challenges[c].state = "none" /\ accepted[c] = 0 /\ accepted' = accepted
  BY DEF Issue, IInv, RowsInv
<1>3. \A b \in Challenge : challenges'[b].state = IF b = c THEN "live" ELSE challenges[b].state
  BY <1>1 DEF Issue
<1>4. CodeState(c) = "absent"
  BY <1>2 DEF CodeState
<1>5. \A b \in Challenge : CodeState(b)' = IF b = c THEN "offered" ELSE CodeState(b)
  <2> TAKE b \in Challenge
  <2>1. CASE b = c
    BY <1>2, <1>3, <2>1 DEF CodeState
  <2>2. CASE b # c
    <3>1. accepted[b] \in Nat /\ challenges[b].state \in {"none", "live", "consumed"}
      BY <1>1 DEF Row
    <3>2. accepted'[b] = accepted[b] /\ challenges'[b].state = challenges[b].state
      BY <1>2, <1>3, <2>2
    <3> QED
      BY <2>2, <3>1, <3>2 DEF CodeState
  <2> QED
    BY <2>1, <2>2
<1> QED
  BY <1>2, <1>4, <1>5, CodeOffered

LEMMA ClaimIsStep ==
  ASSUME IInv, NEW k \in Call, Claim(k)
  PROVE  OneTimeStep
<1> DEFINE c == calls[k].challenge
<1>1. challenges \in [Challenge -> Row] /\ accepted \in [Challenge -> Nat] /\ c \in Challenge
  BY DEF IInv, TypeOK, CallsInv, CallState, Claim, In
<1>2. CASE Claimable(c)
  <2>1. challenges[c].state = "live" /\ accepted[c] = 0
    BY <1>1, <1>2 DEF Claimable, Live, IInv, RowsInv
  <2>2. challenges' = Consumed({c}) /\ accepted' = [accepted EXCEPT ![c] = accepted[c] + 1]
    BY <1>2 DEF Claim
  <2> HIDE DEF c
  <2>3. CodeState(c) = "offered"
    BY <2>1 DEF CodeState
  <2>4. \A b \in Challenge : b # c => challenges'[b] = challenges[b] /\ accepted'[b] = accepted[b]
    BY <1>1, <2>2 DEF Consumed
  <2>5. accepted'[c] = 1
    BY <1>1, <2>1, <2>2
  <2>6. \A b \in Challenge : CodeState(b)' = IF b = c THEN "used" ELSE CodeState(b)
    <3> TAKE b \in Challenge
    <3>1. CASE b = c
      BY <2>5, <3>1 DEF CodeState
    <3>2. CASE b # c
      <4>1. accepted[b] \in Nat /\ challenges[b].state \in {"none", "live", "consumed"}
        BY <1>1 DEF Row
      <4>2. accepted'[b] = accepted[b] /\ challenges'[b].state = challenges[b].state
        BY <2>4, <3>2
      <4> QED
        BY <3>2, <4>1, <4>2 DEF CodeState
    <3> QED
      BY <3>1, <3>2
  <2> QED
    BY <1>1, <2>2, <2>3, <2>6, CodeUsed
<1>3. CASE ~Claimable(c)
  BY <1>3, CodesStay DEF Claim, CodeState
<1> QED
  BY <1>2, <1>3

(* Attempts and resends change neither.                                    *)
LEMMA CountingStays ==
  ASSUME IInv, NEW k \in Call, Miss(k) \/ Resend(k)
  PROVE  OneTimeStep
<1>1. challenges \in [Challenge -> Row] /\ calls[k].challenge \in Challenge
  BY DEF IInv, TypeOK, CallsInv, CallState, Miss, Resend, In
<1>2. accepted' = accepted /\ \A b \in Challenge : challenges'[b].state = challenges[b].state
  BY <1>1 DEF Miss, Resend, Row
<1> QED
  BY <1>2, CodesStay DEF CodeState

LEMMA RowsUntouched ==
  ASSUME UNCHANGED <<challenges, accepted>>
  PROVE  OneTimeStep
BY CodesStay DEF CodeState

LEMMA EveryStepIsOneTime ==
  ASSUME IInv, [Next]_vars
  PROVE  OneTimeStep
<1>1. ASSUME NEW k \in Call, Login(k) PROVE UNCHANGED <<challenges, accepted>>
  BY <1>1 DEF Login, LoginWrong, ReadFailures, WriteFailures, LoginRight, ClearFailures, Admit,
              StartSession, rowVars
<1>2. ASSUME NEW k \in Call, Verify(k) PROVE OneTimeStep
  <2>1. ASSUME \/ \E c \in Challenge, code \in Code : Submit(k, c, code)
               \/ VerifyEmail(k) \/ \E trust \in BOOLEAN : VerifyDevice(k, trust)
        PROVE  UNCHANGED <<challenges, accepted>>
    BY <2>1 DEF Submit, VerifyEmail, VerifyDevice, rowVars
  <2> QED
    BY <1>2, <2>1, RowsUntouched, CountingStays, BurnIsStep, ClaimIsStep DEF Verify
<1>3. ASSUME NEW k \in Call, SendCode(k) PROVE OneTimeStep
  <2>1. ASSUME NEW c \in Challenge, AskResend(k, c) PROVE UNCHANGED <<challenges, accepted>>
    BY <2>1 DEF AskResend, rowVars
  <2> QED
    BY <1>3, <2>1, RowsUntouched, RetireIsStep, IssueIsStep, CountingStays DEF SendCode
<1>4. ASSUME NEW k \in Call, \/ Register(k) \/ CreateAccount(k) \/ Fail(k)
                             \/ \E d \in Device : Revoke(k, d)
      PROVE  UNCHANGED <<challenges, accepted>>
  BY <1>4 DEF Register, CreateAccount, Fail, Revoke, rowVars
<1>5. Unlock \/ UNCHANGED vars \/ (\E d, by \in Device : Enrol(d, by))
        => UNCHANGED <<challenges, accepted>>
  BY DEF Unlock, vars, Enrol
<1> QED
  BY <1>1, <1>2, <1>3, <1>4, <1>5, RowsUntouched, SilenceIsStep DEF Next

(* Every code, of sign-in and registration, is a one-time code: offered    *)
(* once, let in with once at most, never after it was superseded, burned   *)
(* or silenced (issue and consume of ChallengeService).                    *)
THEOREM CodesAreOneTime == Spec => CodesWorkOnce
<1>1. Init => OneTime!Init
  BY DEF Init, NoRow, CodeState, OneTime!Init
<1>2. IInv /\ [Next]_vars => [OneTime!Next]_(OneTime!vars)
  BY EveryStepIsOneTime DEF OneTimeStep
<1> QED
  BY <1>1, <1>2, AccountInvariant, PTL DEF Spec, CodesWorkOnce, OneTime!Spec
=============================================================================
