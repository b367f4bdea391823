--------------------------- MODULE MCRemoteDaemon ---------------------------
(* Instances of RemoteDaemon for the model checker.                        *)
EXTENDS RemoteDaemon
=============================================================================
