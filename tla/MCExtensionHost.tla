-------------------------- MODULE MCExtensionHost --------------------------
(* Instances of ExtensionHost for the model checker.                       *)
EXTENDS ExtensionHost
=============================================================================
