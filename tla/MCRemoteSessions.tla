-------------------------- MODULE MCRemoteSessions -------------------------
(* Instances of RemoteSessions for TLC.                                    *)
EXTENDS RemoteSessions
=============================================================================
