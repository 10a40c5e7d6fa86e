-------------------------- MODULE MCDeviceSessions --------------------------
(* Instances of DeviceSessions for TLC.                                    *)
EXTENDS DeviceSessions, TLC

CONSTANTS d1, d2

Symmetry == Permutations(Token) \cup Permutations(Rotation)
=============================================================================
