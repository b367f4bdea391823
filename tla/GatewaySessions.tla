-------------------------- MODULE GatewaySessions --------------------------
(***************************************************************************)
(* The browser sessions of the web gateway, as its two halves know them: a *)
(* session is created while the gateway accepts requests, and is revoked   *)
(* for good, alone or with all the others; close revokes all there are.    *)
(* GatewayAccess decides when, and implements this; GatewayWorkspace is    *)
(* built on it.                                                            *)
(***************************************************************************)
EXTENDS Naturals, FiniteSets

CONSTANT Sessions

VARIABLES
    closing,    \* how far close has come
    session     \* the sessions map

vars == <<closing, session>>

Init ==
    /\ closing = "open"
    /\ session = [s \in Sessions |-> "none"]

\* The HTTP server accepts requests until close reaches server.close.
Accepts == closing \in {"open", "revoked"}
Live == {s \in Sessions : session[s] = "live"}

Revoke(S) == session' = [s \in Sessions |-> IF s \in S THEN "gone" ELSE session[s]]

Login(s) ==
    /\ Accepts
    /\ session[s] = "none"
    /\ session' = [session EXCEPT ![s] = "live"]
    /\ UNCHANGED closing

RevokeOne(s) ==
    /\ session[s] = "live"
    /\ Revoke({s})
    /\ UNCHANGED closing

RevokeAll ==
    /\ Revoke(Live)
    /\ UNCHANGED closing

Close ==
    /\ closing = "open"
    /\ closing' = "revoked"
    /\ Revoke(Live)

Drain ==
    /\ closing = "revoked"
    /\ closing' = "draining"
    /\ UNCHANGED session

End ==
    /\ closing = "draining"
    /\ closing' = "closed"
    /\ UNCHANGED session

Next ==
    \/ \E s \in Sessions : Login(s) \/ RevokeOne(s)
    \/ RevokeAll \/ Close \/ Drain \/ End

Spec == Init /\ [][Next]_vars
=============================================================================
