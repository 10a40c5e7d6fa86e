---------------------------- MODULE MCSharedWork ---------------------------
(* Instances of SharedWork for TLC.                                        *)
EXTENDS SharedWork
=============================================================================
