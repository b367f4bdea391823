------------------------- MODULE MCServerInstaller -------------------------
(* Instances of ServerInstaller for the model checker.                     *)
EXTENDS ServerInstaller, TLC

\* Both versions come with the same Node runtime.
SameRuntime == [v \in Versions |-> CHOOSE r \in Runtimes : TRUE]

\* One call, whichever, installs a version that the host does not have yet.
NewFirst == version[CHOOSE i \in Installers : TRUE] \notin OldVersions
=============================================================================
