--------------------------- MODULE MCWorkspaceSetup ---------------------------
(* Instances of WorkspaceSetup for the model checker.                      *)
EXTENDS WorkspaceSetup, TLC

\* One is the command, the other is not.
OneCommand == \A a \in Setups : kind[a] = "connect" <=> a = CHOOSE b \in Setups : TRUE
=============================================================================
