-------------------------- MODULE MCHostConnections -------------------------
(* Instances of HostConnections for the model checker.                     *)
EXTENDS HostConnections
=============================================================================
