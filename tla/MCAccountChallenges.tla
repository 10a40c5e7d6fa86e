------------------------ MODULE MCAccountChallenges ------------------------
(* Instances of AccountChallenges for TLC.                                 *)
EXTENDS AccountChallenges, TLC

Symmetry == Permutations(Call) \cup Permutations(Challenge) \cup Permutations(Device)
=============================================================================
