------------------------- MODULE MCRemoteConnection -------------------------
(* Instances of RemoteConnection for the model checker.                    *)
EXTENDS RemoteConnection
=============================================================================
