------------------------ MODULE MCConnectionSession ------------------------
(* Instances of ConnectionSession for the model checker.                   *)
EXTENDS ConnectionSession
=============================================================================
