--------------------------- MODULE SessionLineage --------------------------
(***************************************************************************)
(* What the control plane promises of the lineage of a signed-in session:  *)
(* its refresh token is a baton.  One token at most is good at any time,   *)
(* and none for a second time.  Whoever takes the baton alone hands on a   *)
(* new one; a lineage whose baton was neither handed on nor taken is over, *)
(* and no token of it is ever good again.  Ending it while the baton is    *)
(* taken ends nothing.  DeviceSessions is shown to implement this.         *)
(***************************************************************************)
CONSTANTS Lineage, Token

VARIABLES
  good,    \* good[l]: the tokens of lineage l that can be exchanged
  taken,   \* the lineages whose baton is being passed
  begun,   \* the lineages there have been
  minted   \* the tokens there have been

vars == <<good, taken, begun, minted>>

Init ==
  /\ good = [l \in Lineage |-> {}]
  /\ taken = {} /\ begun = {} /\ minted = {}

(* The token t is new, and good from now on.                               *)
Mint(l, t) ==
  /\ t \notin minted
  /\ minted' = minted \cup {t}
  /\ good' = [good EXCEPT ![l] = {t}]

Start(l, t) ==
  /\ l \notin begun
  /\ begun' = begun \cup {l}
  /\ Mint(l, t)
  /\ UNCHANGED taken

Take(l) ==
  /\ good[l] # {} /\ l \notin taken
  /\ good' = [good EXCEPT ![l] = {}]
  /\ taken' = taken \cup {l}
  /\ UNCHANGED <<begun, minted>>

HandOn(l, t) ==
  /\ l \in taken
  /\ taken' = taken \ {l}
  /\ Mint(l, t)
  /\ UNCHANGED begun

(* Any number at once: the sessions of a device end together.              *)
End ==
  /\ LET ended == {l \in Lineage : good'[l] = {}}
     IN good' = [l \in Lineage |-> IF l \in ended THEN {} ELSE good[l]]
  /\ UNCHANGED <<taken, begun, minted>>

Next ==
  \/ \E l \in Lineage, t \in Token : Start(l, t) \/ HandOn(l, t)
  \/ \E l \in Lineage : Take(l)
  \/ End

Spec == Init /\ [][Next]_vars
=============================================================================
