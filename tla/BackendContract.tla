--------------------------- MODULE BackendContract ---------------------------
(***************************************************************************)
(* What a connection promises the callers of its workspace backend, and    *)
(* what ConnectionSession relies on: a call is answered by the backend, or *)
(* it fails together with the connection; never does a call fail by itself *)
(* and leave the connection to the next one, and never does it outlive the *)
(* connection or wait for ever.                                            *)
(***************************************************************************)

CONSTANT Calls

VARIABLES
    closed,     \* the connection has closed
    call        \* the promise of a call

vars == <<closed, call>>

Init ==
    /\ closed = FALSE
    /\ call = [c \in Calls |-> "idle"]

Begin(c) ==
    /\ ~closed
    /\ call[c] = "idle"
    /\ call' = [call EXCEPT ![c] = "running"]
    /\ UNCHANGED closed

Refuse(c) ==
    /\ closed
    /\ call[c] = "idle"
    /\ call' = [call EXCEPT ![c] = "failed"]
    /\ UNCHANGED closed

Answer(c) ==
    /\ ~closed
    /\ call[c] = "running"
    /\ call' = [call EXCEPT ![c] = "answered"]
    /\ UNCHANGED closed

\* The calls that run fail with the connection.
Close ==
    /\ ~closed
    /\ closed' = TRUE
    /\ call' = [c \in Calls |-> IF call[c] = "running" THEN "failed" ELSE call[c]]

Next ==
    \/ \E c \in Calls : Begin(c) \/ Refuse(c) \/ Answer(c)
    \/ Close

Spec == Init /\ [][Next]_vars

\* Every call comes to its end.
CallsSettle ==
    \A c \in Calls : call[c] = "running" ~> call[c] \in {"answered", "failed"}
=============================================================================
