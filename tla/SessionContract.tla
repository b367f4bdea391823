-------------------------- MODULE SessionContract --------------------------
(***************************************************************************)
(* What a caller of a remote workspace connection may rely on, whatever    *)
(* transports carry its calls and however often they are exchanged:        *)
(*                                                                         *)
(*   - a call begins on at most one carrier and never begins again, so a   *)
(*     write whose outcome is unknown is never replayed;                   *)
(*   - a running call fails only in the step that loses its own carrier;   *)
(*   - a call that never began is refused only once the connection is      *)
(*     closed;                                                             *)
(*   - a closed connection begins nothing, and never reopens.              *)
(*                                                                         *)
(* It abstracts the `Connection` interface: there is no router, no update, *)
(* no drain and no rollback here.                                          *)
(***************************************************************************)
EXTENDS Naturals

CONSTANTS Calls,      \* invokeBackend calls
          Carriers,   \* SSH transports
          NoCarrier   \* the carrier of a call that has not begun

VARIABLES state,      \* [Calls -> CallState]
          carrier,    \* [Calls -> Carriers \cup {NoCarrier}]
          lost,       \* carriers that have closed
          open        \* the connection still accepts calls

contractVars == <<state, carrier, lost, open>>

CallState == {"idle", "waiting", "running", "answered", "failed"}

Init ==
    /\ state = [c \in Calls |-> "idle"]
    /\ carrier = [c \in Calls |-> NoCarrier]
    /\ lost = {}
    /\ open = TRUE

\* The connection may hold a call back before it begins.
Hold(c) ==
    /\ state[c] = "idle"
    /\ state' = [state EXCEPT ![c] = "waiting"]
    /\ UNCHANGED <<carrier, lost, open>>

Begin(c, k) ==
    /\ state[c] \in {"idle", "waiting"}
    /\ open
    /\ k \notin lost
    /\ state' = [state EXCEPT ![c] = "running"]
    /\ carrier' = [carrier EXCEPT ![c] = k]
    /\ UNCHANGED <<lost, open>>

Refuse(c) ==
    /\ state[c] \in {"idle", "waiting"}
    /\ ~open
    /\ state' = [state EXCEPT ![c] = "failed"]
    /\ UNCHANGED <<carrier, lost, open>>

Answer(c) ==
    /\ state[c] = "running"
    /\ state' = [state EXCEPT ![c] = "answered"]
    /\ UNCHANGED <<carrier, lost, open>>

\* Carriers are lost, with the calls that run on them and perhaps with the
\* connection itself; the calls of every other carrier keep running.
Lose(K) ==
    /\ lost' = lost \cup K
    /\ state' = [c \in Calls |->
                    IF state[c] = "running" /\ carrier[c] \in K
                    THEN "failed" ELSE state[c]]
    /\ open' \in {open, FALSE}
    /\ UNCHANGED carrier

Next ==
    \/ \E c \in Calls : Hold(c) \/ Refuse(c) \/ Answer(c)
    \/ \E c \in Calls, k \in Carriers : Begin(c, k)
    \/ \E K \in SUBSET Carriers : Lose(K)

Spec == Init /\ [][Next]_contractVars
=============================================================================
