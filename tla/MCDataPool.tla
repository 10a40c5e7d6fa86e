----------------------------- MODULE MCDataPool ----------------------------
(* Instances of DataPool for TLC.                                          *)
EXTENDS DataPool, TLC

(* Requests are alike, and so are events.                                  *)
Symmetry == Permutations(Call) \cup Permutations(Event) \cup Permutations(Pass)
=============================================================================
