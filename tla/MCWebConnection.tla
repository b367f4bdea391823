-------------------------- MODULE MCWebConnection --------------------------
(* Instances of WebConnection for the model checker.                       *)
EXTENDS WebConnection, TLC

Alike == Permutations(Attempts)

\* Calls under way, besides restorations, disconnects and storage operations.
Calls ==
    {a \in Attempts : connect[a] # "idle"} \cup {p \in Callers : prepare[p] # "idle"}
    \cup (IF switch = "idle" THEN {} ELSE {"container"})

\* How much is under way at once: two calls and two storage operations, or a
\* socket with two of them.
Load == Cardinality(Calls) + Len(queue) + 2 * Cardinality({k \in Sockets : socket[k] # "none"})

\* Nothing follows an override.
Bounds == Cardinality(Calls) <= 2 /\ Len(queue) <= 2 /\ Load <= 4 /\ ~overrode
=============================================================================
