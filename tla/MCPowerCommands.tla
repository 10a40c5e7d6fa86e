-------------------------- MODULE MCPowerCommands --------------------------
(* Instances of PowerCommands for TLC.                                     *)
EXTENDS PowerCommands, TLC

CONSTANTS a1, a2

(* a1, which is switched off and on, is behind the control plane by one    *)
(* unit of time; a2, the Wake Helper, agrees with it.                      *)
MCDrift == [a \in {a1, a2} |-> IF a = a1 THEN -1 ELSE 0]
NoDrift == [a \in Agent |-> 0]

Symmetry == Permutations(Command) \cup Permutations(Caller)
            \cup Permutations(Poll) \cup Permutations(Challenge)
=============================================================================
