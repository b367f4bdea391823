-------------------------- MODULE GatewayWorkspace --------------------------
(***************************************************************************)
(* What a session of the web gateway of a remote server gives access to,   *)
(* and how it is taken away.  A session buys single-use tickets; a ticket  *)
(* opens one pair of WebSockets, of the browser and to a workspace process *)
(* on the host or in the dev container of the session, where it may create *)
(* a terminal.  A session also grants previews of HTTP servers of the host *)
(* to whoever has their address.  How sessions come and go is in           *)
(* GatewayAccess: here a session is created, and sessions are revoked, at  *)
(* any time before close.                                                  *)
(*                                                                         *)
(* A step is one handler of the event loop, or what runs after its await.  *)
(* A pair is named by the ticket that opened it, a container by its        *)
(* session, a terminal by its pair; the previews of a session are one, and *)
(* so are the requests that are served through them.  The time a ticket or *)
(* a preview is valid is left to choice; what is forwarded is left out.    *)
(*                                                                         *)
(* An operator with a suffix in lower case, as TerminalReady_unchecked, is *)
(* a wrong variant of the definition below it, and no part of Spec.        *)
(***************************************************************************)
EXTENDS Optional, Naturals, FiniteSets

CONSTANTS Sessions,
          Tickets,
          MaxTickets    \* 64 in the code

ASSUME NoneAssumption == None \notin Sessions

VARIABLES
    closing,    \* how far close has come
    awaited,    \* what is under way in the cleanups that close awaits
    session,    \* the sessions map
    ticket,     \* the tickets map
    of,         \* ticket.sessionToken
    boxed,      \* the tickets with a container
    pair,       \* the WebSocket pair a ticket opened
    term,       \* the terminal a pair created in its container
    box,        \* the container backend of a session
    granted,    \* the sessions with a grant in the previews
    served      \* those of them with a request under way

sockets == <<ticket, of, boxed, pair, term>>
previews == <<granted, served>>
vars == <<closing, awaited, session, sockets, box, previews>>

\* Types; and a ticket that has opened a pair is used up.
TypeOK ==
    /\ closing \in {"open", "revoked", "draining", "closed"}
    /\ awaited \in SUBSET (Sessions \cup Tickets)
    /\ session \in [Sessions -> {"none", "live", "gone"}]
    /\ ticket \in [Tickets -> {"none", "valid", "used"}]
    /\ of \in [Tickets -> Sessions \cup {None}]
    /\ boxed \in SUBSET Tickets
    /\ pair \in [Tickets -> {"none", "open", "terminated", "closed"}]
    /\ term \in [Tickets -> {"none", "creating", "running", "disposing", "disposed"}]
    /\ box \in [Sessions -> {"none", "opening", "open", "closing", "closed"}]
    /\ granted \in SUBSET Sessions
    /\ served \in SUBSET Sessions
    /\ \A t \in Tickets : /\ of[t] = None <=> ticket[t] = "none"
                          /\ pair[t] # "none" => ticket[t] = "used"

Init ==
    /\ closing = "open"
    /\ awaited = {}
    /\ session = [s \in Sessions |-> "none"]
    /\ ticket = [t \in Tickets |-> "none"]
    /\ of = [t \in Tickets |-> None]
    /\ boxed = {}
    /\ pair = [t \in Tickets |-> "none"]
    /\ term = [t \in Tickets |-> "none"]
    /\ box = [s \in Sessions |-> "none"]
    /\ granted = {}
    /\ served = {}

GS == INSTANCE GatewaySessions
Accepts == GS!Accepts
Live == GS!Live

----------------------------------------------------------------------------
(* Sessions.                                                               *)

\* /auth/pair, /auth/account.
Login(s) == GS!Login(s) /\ UNCHANGED <<awaited, sockets, box, previews>>

Terminate(T) ==
    pair' = [t \in Tickets |-> IF t \in T /\ pair[t] = "open" THEN "terminated"
                                                              ELSE pair[t]]

\* remove, for the grants of the sessions in S: their requests are destroyed.
Withdraw(S) ==
    /\ granted' = granted \ S
    /\ served' = served \ S

Lose_keepsPreviews(S) ==
    /\ box' = [s \in Sessions |-> IF s \in S /\ box[s] = "open" THEN "closing" ELSE box[s]]
    /\ ticket' = [t \in Tickets |-> IF of[t] \in S THEN "used" ELSE ticket[t]]
    /\ Terminate({t \in Tickets : of[t] \in S})
    /\ UNCHANGED <<of, boxed, term, previews>>

Lose_everySocket(S) ==
    /\ box' = [s \in Sessions |-> IF s \in S /\ box[s] = "open" THEN "closing" ELSE box[s]]
    /\ ticket' = [t \in Tickets |-> IF of[t] \in S THEN "used" ELSE ticket[t]]
    /\ Terminate(Tickets)
    /\ Withdraw(S)
    /\ UNCHANGED <<of, boxed, term>>

\* revokeSession, for each session in S: the signal of the session aborts,
\* which closes its container, its previews and tickets go, its sockets are
\* terminated.
Lose(S) ==
    /\ box' = [s \in Sessions |-> IF s \in S /\ box[s] = "open" THEN "closing" ELSE box[s]]
    /\ ticket' = [t \in Tickets |-> IF of[t] \in S THEN "used" ELSE ticket[t]]
    /\ Terminate({t \in Tickets : of[t] \in S})
    /\ Withdraw(S)
    /\ UNCHANGED <<of, boxed, term>>

\* A browser signs out, or its session expires.
RevokeOne(s) == GS!RevokeOne(s) /\ Lose({s}) /\ UNCHANGED awaited

\* revoke-web, or an account check that denies access.
RevokeAll == GS!RevokeAll /\ Lose(Live) /\ UNCHANGED awaited

----------------------------------------------------------------------------
(* The dev container of a session.                                         *)

\* /devcontainer/open: what was opened once is not opened again.
OpenBox(s) ==
    /\ Accepts
    /\ session[s] = "live"
    /\ box[s] = "none"
    /\ box' = [box EXCEPT ![s] = "opening"]
    /\ UNCHANGED <<closing, awaited, session, sockets, previews>>

\* A backend that starts after the session was revoked is closed at once.
BoxOpens(s) ==
    /\ box[s] = "opening"
    /\ box' = [box EXCEPT ![s] = IF session[s] = "gone" THEN "closing" ELSE "open"]
    /\ UNCHANGED <<closing, awaited, session, sockets, previews>>

\* It does not start, and the browser may try again; or the abort of the
\* signal has ended its startup, and closes what was started.
BoxFails(s) ==
    /\ box[s] = "opening"
    /\ box' = [box EXCEPT ![s] = IF session[s] = "gone" THEN "closing" ELSE "none"]
    /\ UNCHANGED <<closing, awaited, session, sockets, previews>>

\* The backend process ends by itself: its proxy is closed, but it stays in
\* session.containers.
BoxDies(s) ==
    /\ box[s] = "open"
    /\ box' = [box EXCEPT ![s] = "closing"]
    /\ UNCHANGED <<closing, awaited, session, sockets, previews>>

BoxClosed(s) ==
    /\ box[s] = "closing"
    /\ box' = [box EXCEPT ![s] = "closed"]
    /\ UNCHANGED <<closing, awaited, session, sockets, previews>>

\* session.containers.has.
HasBox(s) == session[s] = "live" /\ box[s] \in {"open", "closing", "closed"}

----------------------------------------------------------------------------
(* Tickets, socket pairs and terminals.                                    *)

\* /auth/websocket-ticket: the expired tickets are dropped before the others
\* are counted.
IssueTicket(s, t) ==
    /\ Accepts
    /\ session[s] = "live"
    /\ ticket[t] = "none"
    /\ LET valid == {u \in Tickets : ticket[u] = "valid"}
       IN \E kept \in SUBSET valid :
             /\ Cardinality(kept) < MaxTickets
             /\ ticket' = [u \in Tickets |->
                             CASE u = t -> "valid"
                               [] u \in valid \ kept -> "used"
                               [] OTHER -> ticket[u]]
    /\ of' = [of EXCEPT ![t] = s]
    /\ \/ UNCHANGED boxed
       \/ HasBox(s) /\ boxed' = boxed \cup {t}
    /\ UNCHANGED <<closing, awaited, session, pair, term, box, previews>>

Upgrade_keepsTicket(t) ==
    /\ Accepts
    /\ ticket[t] = "valid"
    /\ pair' = [pair EXCEPT ![t] = "open"]
    /\ UNCHANGED <<closing, awaited, session, ticket, of, boxed, term, box, previews>>

\* An upgrade with a ticket for its target: the ticket is used up first.
Upgrade(t) ==
    /\ Accepts
    /\ ticket[t] = "valid"
    /\ session[of[t]] = "live"
    /\ t \in boxed => HasBox(of[t])
    /\ ticket' = [ticket EXCEPT ![t] = "used"]
    /\ pair' = [pair EXCEPT ![t] = "open"]
    /\ UNCHANGED <<closing, awaited, session, of, boxed, term, box, previews>>

\* It has expired, it is for another target, or there is no room.
UpgradeRefused(t) ==
    /\ Accepts
    /\ ticket[t] = "valid"
    /\ ticket' = [ticket EXCEPT ![t] = "used"]
    /\ UNCHANGED <<closing, awaited, session, of, boxed, pair, term, box, previews>>

\* closeBoth, when a socket has closed or failed: both are terminated, and
\* the disposal of the terminal is added to the cleanups.
PairCloses(t) ==
    /\ pair[t] \in {"open", "terminated"}
    /\ pair' = [pair EXCEPT ![t] = "closed"]
    /\ term' = [term EXCEPT ![t] = IF @ = "running" THEN "disposing" ELSE @]
    /\ UNCHANGED <<closing, awaited, session, ticket, of, boxed, box, previews>>

\* A Terminal.create of the browser is prepared in the container first.
CreateTerminal(t) ==
    /\ pair[t] \in {"open", "terminated"}
    /\ t \in boxed
    /\ term[t] = "none"
    /\ term' = [term EXCEPT ![t] = "creating"]
    /\ UNCHANGED <<closing, awaited, session, ticket, of, boxed, pair, box, previews>>

TerminalReady_unchecked(t) ==
    /\ term[t] = "creating"
    /\ term' = [term EXCEPT ![t] = "running"]
    /\ UNCHANGED <<closing, awaited, session, ticket, of, boxed, pair, box, previews>>

\* The pair takes charge of it, or it is disposed when the pair is gone.
TerminalReady(t) ==
    /\ term[t] = "creating"
    /\ term' = [term EXCEPT ![t] = IF pair[t] = "closed" THEN "disposing" ELSE "running"]
    /\ UNCHANGED <<closing, awaited, session, ticket, of, boxed, pair, box, previews>>

\* Preparing it fails: closeBoth.
TerminalFails(t) ==
    /\ term[t] = "creating"
    /\ term' = [term EXCEPT ![t] = "disposed"]
    /\ pair' = [pair EXCEPT ![t] = "closed"]
    /\ UNCHANGED <<closing, awaited, session, ticket, of, boxed, box, previews>>

TerminalDisposed(t) ==
    /\ term[t] = "disposing"
    /\ term' = [term EXCEPT ![t] = "disposed"]
    /\ UNCHANGED <<closing, awaited, session, ticket, of, boxed, pair, box, previews>>

----------------------------------------------------------------------------
(* Previews.                                                               *)

\* /auth/http-preview: what was granted once is granted by the same address.
CreatePreview(s) ==
    /\ Accepts
    /\ session[s] = "live"
    /\ granted' = granted \cup {s}
    /\ UNCHANGED <<closing, awaited, session, sockets, box, served>>

\* A request with the address of a grant is passed to the server of the host.
ServePreview(s) ==
    /\ Accepts
    /\ s \in granted
    /\ session[s] = "live"
    /\ served' = served \cup {s}
    /\ UNCHANGED <<closing, awaited, session, sockets, box, granted>>

\* The responses have closed, of themselves or for an error or a time-out.
PreviewServed(s) ==
    /\ s \in served
    /\ served' = served \ {s}
    /\ UNCHANGED <<closing, awaited, session, sockets, box, granted>>

\* /auth/revoke-previews; or the hour of the grant is over, which the timer or
\* the next request notices.
RevokePreviews(s) ==
    /\ s \in granted
    /\ Withdraw({s})
    /\ UNCHANGED <<closing, awaited, session, sockets, box>>

----------------------------------------------------------------------------
(* close.                                                                  *)

\* What the cleanups wait for: the startup of the containers of revoked
\* sessions, and the disposal of terminals.  The removal of a container is
\* not in them: the abort has closed it, so that its close returns at once.
Pending(gone) ==
    {s \in gone : box[s] = "opening"} \cup {t \in Tickets : term[t] = "disposing"}

\* The cleanups that exist now are awaited.
CloseGateway ==
    /\ GS!Close
    /\ Lose(Live)
    /\ awaited' = Pending(Sessions)

\* They have settled.  Requests were accepted meanwhile, so that there may be
\* new sockets and previews: those are terminated too.
CloseServer ==
    /\ GS!Drain
    /\ awaited \cap Pending(Sessions) = {}
    /\ awaited' = {}
    /\ Terminate(Tickets)
    /\ Withdraw(Sessions)
    /\ UNCHANGED <<ticket, of, boxed, term, box>>

\* server.close calls back when the last connection has ended, and the
\* cleanups that were added since have settled.
Closed ==
    /\ GS!End
    /\ \A t \in Tickets : pair[t] \in {"none", "closed"}
    /\ served = {}
    /\ Pending(Sessions \ Live) = {}
    /\ UNCHANGED <<awaited, sockets, box, previews>>

----------------------------------------------------------------------------
Next ==
    \/ \E s \in Sessions :
          \/ Login(s) \/ RevokeOne(s)
          \/ OpenBox(s) \/ BoxOpens(s) \/ BoxFails(s) \/ BoxDies(s) \/ BoxClosed(s)
          \/ CreatePreview(s) \/ ServePreview(s) \/ PreviewServed(s) \/ RevokePreviews(s)
    \/ \E s \in Sessions, t \in Tickets : IssueTicket(s, t)
    \/ \E t \in Tickets :
          \/ Upgrade(t) \/ UpgradeRefused(t) \/ PairCloses(t)
          \/ CreateTerminal(t) \/ TerminalReady(t) \/ TerminalFails(t)
          \/ TerminalDisposed(t)
    \/ RevokeAll \/ CloseGateway \/ CloseServer \/ Closed

\* What was started ends: a container starts or fails within its deadline and
\* its removal has a timeout, a terminal command ends, and the close event of
\* a terminated socket comes.  Nothing is assumed of the browsers.
Fairness ==
    /\ \A s \in Sessions : /\ WF_vars(BoxOpens(s) \/ BoxFails(s))
                           /\ WF_vars(BoxClosed(s))
    /\ \A t \in Tickets : /\ WF_vars(pair[t] = "terminated" /\ PairCloses(t))
                          /\ WF_vars(TerminalReady(t) \/ TerminalFails(t))
                          /\ WF_vars(TerminalDisposed(t))
    /\ WF_vars(CloseServer)
    /\ WF_vars(Closed)

Spec == Init /\ [][Next]_vars
FairSpec == Spec /\ Fairness

----------------------------------------------------------------------------
(* Properties.                                                             *)

\* A revoked session keeps nothing: no ticket, no open socket, no preview or
\* request through one, and no container, not even one whose startup ends
\* after the revocation (revokeSession, /devcontainer/open).  No request is
\* served through a grant that is gone.
RevokedKeepsNothing ==
    /\ \A s \in Sessions : session[s] = "gone" =>
          /\ box[s] # "open"
          /\ s \notin granted
          /\ \A t \in Tickets : of[t] = s => ticket[t] = "used" /\ pair[t] # "open"
    /\ served \subseteq granted

\* The gateway terminates the sockets of sessions that are revoked, and those
\* of others only when it closes (revokeSession).
OnlyRevokedTerminated ==
    [][\A t \in Tickets : pair[t] = "open" /\ pair'[t] = "terminated"
         => session'[of[t]] = "gone" \/ closing' = "draining"]_vars

\* A terminal that is created in a container does not outlive its sockets.
TerminalsEnd ==
    \A t \in Tickets : term[t] \in {"creating", "running"} /\ pair[t] = "closed"
                       ~> term[t] = "disposed"

\* The container of a revoked session is taken down, started or not.
BoxesEnd ==
    \A s \in Sessions : session[s] = "gone" ~> box[s] \in {"none", "closed"}

\* Nothing that runs in a container outlives what it was started for.
HeldEnds == TerminalsEnd /\ BoxesEnd

\* close ends, although browsers may sign in and connect while it waits.
CloseEnds == closing = "revoked" ~> closing = "closed"

\* What a revocation or a close begins comes to its end.
AllEnds == HeldEnds /\ CloseEnds
=============================================================================
