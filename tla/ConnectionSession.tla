------------------------- MODULE ConnectionSession -------------------------
(***************************************************************************)
(* One SSH host's ConnectionSession: the session over an old but           *)
(* compatible server (the transport "original"), the background updater    *)
(* that installs the current server, opens a second transport ("updated")  *)
(* and hands the session over to it, and the BackendRouter whose selected  *)
(* backend new editor sockets reach.                                       *)
(*                                                                         *)
(* Everything runs on one event loop: a step of the model is what runs     *)
(* between two awaits.  A RemoteConnection is reduced to what the session  *)
(* sees of it: whether it is connecting, ready or closed, the RPCs it      *)
(* carries, and the queue of open requests of its remote CLI.              *)
(*                                                                         *)
(* An operator with a suffix in lower case, as Issue_unchecked, is a wrong *)
(* variant of the definition below it, and no part of Spec.                *)
(***************************************************************************)
EXTENDS Naturals, Sequences

CONSTANTS Calls,      \* invokeBackend calls of the SSH helper
          Sockets,    \* editor sockets upgraded through the router
          Opens,      \* open requests of remote `lvce` CLIs
          Watchers    \* waitForOpenRequest calls of the extension

Transports == {"original", "updated"}

VARIABLES
    aborted,    \* signal.aborted of the connection setup
    link,       \* RemoteConnection: none, connecting, ready or closed
    active,     \* ConnectionSession.active
    closed,     \* ConnectionSession.closed
    switching,  \* ConnectionSession.switching is a promise
    drain,      \* the calls Promise.allSettled(this.pending) waits for
    updater,    \* where the background update of createConnection is
    rollback,   \* connectionClosed waits for the original's backend
    selected,   \* the router's selected backend
    call,       \* the promise of each invokeBackend call
    route,      \* the transport a call was issued on
    socket,     \* the backend each editor socket is pinned to
    watching,   \* transports whose watch loop runs
    arrived,    \* RemoteConnection.openRequests
    requests,   \* ConnectionSession.requests
    waiters,    \* ConnectionSession.waiters
    watcher,    \* the promise of each waitForOpenRequest call
    sent,       \* history: open requests each transport received
    handed      \* history: open requests given to the extension

transportVars == <<aborted, link, closed>>
switchVars == <<active, switching, drain, updater, rollback, selected>>
callVars == <<call, route>>
openVars == <<watching, arrived, requests, waiters, watcher, sent, handed>>
vars == <<transportVars, switchVars, callVars, socket, openVars>>

NoTransport == "none"
CallState == {"idle", "frozen", "pending", "answered", "failed"}
UpdaterState == {"installing", "spawning", "probing", "draining", "fetched",
                 "updated", "failed"}

TypeOK ==
    /\ aborted \in BOOLEAN
    /\ link \in [Transports -> {"none", "connecting", "ready", "closed"}]
    /\ active \in Transports
    /\ closed \in SUBSET Transports
    /\ switching \in BOOLEAN
    /\ drain \in SUBSET Calls
    /\ updater \in UpdaterState
    /\ rollback \in BOOLEAN
    /\ selected \in Transports
    /\ call \in [Calls -> CallState]
    /\ route \in [Calls -> Transports \cup {NoTransport}]
    /\ socket \in [Sockets -> Transports \cup {"idle", "closed"}]
    /\ watching \in SUBSET Transports
    /\ arrived \in [Transports -> Seq(Opens)]
    /\ requests \in Seq(Opens)
    /\ waiters \in Seq(Watchers)
    /\ watcher \in [Watchers -> {"idle", "waiting", "served", "rejected"}]
    /\ sent \in [Transports -> Seq(Opens)]
    /\ handed \in Seq(Opens)

Pending == {c \in Calls : call[c] = "pending"}

\* createConnection builds the session once the original transport is ready
\* and the router listens, then starts the update.
Init ==
    /\ aborted = FALSE
    /\ link = [t \in Transports |-> IF t = "original" THEN "ready" ELSE "none"]
    /\ active = "original"
    /\ closed = {}
    /\ switching = FALSE
    /\ drain = {}
    /\ updater = "installing"
    /\ rollback = FALSE
    /\ selected = "original"
    /\ call = [c \in Calls |-> "idle"]
    /\ route = [c \in Calls |-> NoTransport]
    /\ socket = [s \in Sockets |-> "idle"]
    /\ watching = {"original"}
    /\ arrived = [t \in Transports |-> <<>>]
    /\ requests = <<>>
    /\ waiters = <<>>
    /\ watcher = [w \in Watchers |-> "idle"]
    /\ sent = [t \in Transports |-> <<>>]
    /\ handed = <<>>

----------------------------------------------------------------------------
(* Transports that close, and the session that ends with its last one.     *)

Live(t) == link[t] \in {"connecting", "ready"}

\* RemoteConnection.close of the live transports in T: the RPCs they carry
\* reject, the sockets forwarded over them break, and onClose reports those
\* that were ready to the session, which adds them to `closed`.
Close(T) ==
    /\ link' = [t \in Transports |->
                   IF t \in T /\ Live(t) THEN "closed" ELSE link[t]]
    /\ closed' = closed \cup {t \in T : link[t] = "ready"}
    /\ call' = [c \in Calls |-> IF call[c] = "pending" /\ route[c] \in T
                                THEN "failed" ELSE call[c]]
    /\ socket' = [s \in Sockets |-> IF socket[s] \in T
                                    THEN "closed" ELSE socket[s]]
    /\ UNCHANGED route

RejectWaiters_keepsRequests ==
    /\ watcher' = [w \in Watchers |-> IF watcher[w] = "waiting"
                                      THEN "rejected" ELSE watcher[w]]
    /\ waiters' = <<>>
    /\ UNCHANGED requests

\* Every caller that waits is rejected and every queued request dropped.
RejectWaiters ==
    /\ watcher' = [w \in Watchers |-> IF watcher[w] = "waiting"
                                      THEN "rejected" ELSE watcher[w]]
    /\ waiters' = <<>>
    /\ requests' = <<>>

\* The abort of the setup's signal, by disposeWorkspace, by a cancelled setup
\* or by onClose: each RemoteConnection closes, the router destroys its
\* sockets and the session rejects its waiters.
Abort ==
    /\ ~aborted
    /\ aborted' = TRUE
    /\ Close(Transports)
    /\ RejectWaiters
    /\ UNCHANGED <<switchVars, watching, arrived, sent, handed>>

\* connectionClosed falls back to the original transport while it is open.
RollsBack(t) == t # "original" /\ "original" \notin closed

\* A transport closes on its own: the ssh child exits, a line of its output
\* is invalid, a call on it times out, or it never became ready in time.
CloseTransport(t) ==
    /\ Live(t)
    /\ \/ /\ active # t
          /\ Close({t})
          /\ UNCHANGED <<aborted, switchVars, openVars>>
       \/ /\ active = t
          /\ RollsBack(t)
          /\ Close({t})
          /\ active' = "original"
          /\ rollback' = TRUE
          /\ UNCHANGED <<aborted, switching, drain, updater, selected, openVars>>
       \/ /\ active = t
          /\ ~RollsBack(t)
          /\ Abort

RollbackSettles_noRoute ==
    /\ rollback
    /\ rollback' = FALSE
    /\ UNCHANGED <<transportVars, active, switching, drain, updater, selected,
                   callVars, socket, openVars>>

RollbackSettles_clearsRoute ==
    /\ rollback
    /\ rollback' = FALSE
    /\ selected' = IF ~aborted /\ active = "original" /\ link["original"] = "ready"
                   THEN "original" ELSE NoTransport
    /\ UNCHANGED <<transportVars, active, switching, drain, updater, callVars,
                   socket, openVars>>

\* The original's backend is known again: the router returns to it.
RollbackSettles ==
    /\ rollback
    /\ rollback' = FALSE
    /\ selected' = IF ~aborted /\ active = "original" /\ link["original"] = "ready"
                   THEN "original" ELSE selected
    /\ UNCHANGED <<transportVars, active, switching, drain, updater, callVars,
                   socket, openVars>>

----------------------------------------------------------------------------
(* Calls of the helper, and the editor's own sockets.                      *)

Issue_unchecked(c) ==
    /\ call' = [call EXCEPT ![c] = "pending"]
    /\ route' = [route EXCEPT ![c] = active]

\* After the await of `switching`: an aborted session and a closed transport
\* reject the call, a ready one carries it.
Issue(c) ==
    \/ /\ ~aborted
       /\ link[active] = "ready"
       /\ call' = [call EXCEPT ![c] = "pending"]
       /\ route' = [route EXCEPT ![c] = active]
    \/ /\ aborted \/ link[active] # "ready"
       /\ call' = [call EXCEPT ![c] = "failed"]
       /\ UNCHANGED route

\* invokeBackend: a call made during a switch waits for its end.
Invoke(c) ==
    /\ call[c] = "idle"
    /\ \/ /\ switching
          /\ call' = [call EXCEPT ![c] = "frozen"]
          /\ UNCHANGED route
       \/ /\ ~switching
          /\ Issue(c)
    /\ UNCHANGED <<transportVars, switchVars, socket, openVars>>

\* The promise of `switching` resolved.
Thaw(c) ==
    /\ call[c] = "frozen"
    /\ ~switching
    /\ Issue(c)
    /\ UNCHANGED <<transportVars, switchVars, socket, openVars>>

\* The backend answers, with a result or with an application error.
Answer(c) ==
    /\ call[c] = "pending"
    /\ call' = [call EXCEPT ![c] = "answered"]
    /\ UNCHANGED <<transportVars, switchVars, route, socket, openVars>>

\* A call fails below the application, or times out after two minutes:
\* invokeBackend then closes the transport that carries it.
CallBreaks(c) ==
    /\ call[c] = "pending"
    /\ \E t \in Transports : route[c] = t /\ CloseTransport(t)

\* The router upgrades an editor socket to the backend selected now.
Upgrade(s) ==
    /\ socket[s] = "idle"
    /\ socket' = [socket EXCEPT ![s] =
                     IF ~aborted /\ link[selected] = "ready"
                     THEN selected ELSE "closed"]
    /\ UNCHANGED <<transportVars, switchVars, callVars, openVars>>

----------------------------------------------------------------------------
(* The background update of createConnection.                              *)

Step(from, to) == updater = from /\ updater' = to

\* installServer succeeded and the updated transport is spawned.
InstallEnds ==
    /\ ~aborted
    /\ Step("installing", "spawning")
    /\ link' = [link EXCEPT !["updated"] = "connecting"]
    /\ UNCHANGED <<aborted, closed, active, switching, drain, rollback, selected,
                   callVars, socket, openVars>>

\* handleReady: the updated server's backend is forwarded.
Ready ==
    /\ link["updated"] = "connecting"
    /\ Step("spawning", "probing")
    /\ link' = [link EXCEPT !["updated"] = "ready"]
    /\ UNCHANGED <<aborted, closed, active, switching, drain, rollback, selected,
                   callVars, socket, openVars>>

\* The stat of "file:///" answered: switchTo freezes new calls and takes the
\* pending ones as those to drain.
ProbeAnswers ==
    /\ link["updated"] = "ready"
    /\ Step("probing", "draining")
    /\ switching' = TRUE
    /\ drain' = Pending
    /\ UNCHANGED <<transportVars, active, rollback, selected, callVars, socket,
                   openVars>>

Drained_skipped == TRUE

\* Promise.allSettled of the calls that were pending when switchTo began.
Drained == \A c \in drain : call[c] # "pending"

BackendFetched ==
    /\ Drained
    /\ link["updated"] = "ready"
    /\ Step("draining", "fetched")
    /\ UNCHANGED <<transportVars, active, switching, drain, rollback, selected,
                   callVars, socket, openVars>>

SwitchRefused == aborted \/ "updated" \in closed

SwitchCommits_unwatched ==
    /\ ~SwitchRefused
    /\ Step("fetched", "updated")
    /\ selected' = "updated"
    /\ active' = "updated"
    /\ switching' = FALSE
    /\ call' = [c \in Calls |-> IF call[c] = "pending" /\ route[c] = active
                                THEN "failed" ELSE call[c]]
    /\ UNCHANGED <<transportVars, drain, rollback, route, socket, openVars>>

\* The rest of switchTo runs without an await: the router, the active
\* transport, the RPCs of the previous one (disposed: a call still pending on
\* them would be rejected), the watch loop, and the end of the freeze.
SwitchCommits ==
    /\ ~SwitchRefused
    /\ Step("fetched", "updated")
    /\ selected' = "updated"
    /\ active' = "updated"
    /\ switching' = FALSE
    /\ call' = [c \in Calls |-> IF call[c] = "pending" /\ route[c] = active
                                THEN "failed" ELSE call[c]]
    /\ watching' = watching \cup {"updated"}
    /\ UNCHANGED <<transportVars, drain, rollback, route, socket, arrived,
                   requests, waiters, watcher, sent, handed>>

SwitchThrows ==
    \/ updater = "draining" /\ Drained /\ link["updated"] # "ready"
    \/ updater = "fetched" /\ SwitchRefused

SwitchFails_staysFrozen ==
    /\ SwitchThrows
    /\ updater' = "failed"
    /\ Close({"updated"})
    /\ UNCHANGED <<aborted, active, switching, drain, rollback, selected, openVars>>

\* switchTo throws: the freeze ends and the update's own signal aborts, which
\* closes the updated transport if it is still open.
SwitchFails ==
    /\ SwitchThrows
    /\ updater' = "failed"
    /\ switching' = FALSE
    /\ Close({"updated"})
    /\ UNCHANGED <<aborted, active, drain, rollback, selected, openVars>>

UpdateThrows ==
    \/ updater = "installing"
    \/ updater = "spawning" /\ link["updated"] = "closed"
    \/ updater = "probing"

\* The install, the spawn or the probe throws; same catch.
UpdateFails ==
    /\ UpdateThrows
    /\ updater' = "failed"
    /\ Close({"updated"})
    /\ UNCHANGED <<aborted, active, switching, drain, rollback, selected, openVars>>

----------------------------------------------------------------------------
(* Open requests of the remote CLI, from a transport to the extension.     *)

Received == UNION {{sent[t][i] : i \in DOMAIN sent[t]} : t \in Transports}

\* handleLine accepts an open request of a ready transport.
OpenArrives(o, t) ==
    /\ link[t] = "ready"
    /\ o \notin Received
    /\ arrived' = [arrived EXCEPT ![t] = Append(@, o)]
    /\ sent' = [sent EXCEPT ![t] = Append(@, o)]
    /\ UNCHANGED <<transportVars, switchVars, callVars, socket, watching,
                   requests, waiters, watcher, handed>>

\* The first waiter gets the request, or it queues.
Deliver(o) ==
    \/ /\ waiters # <<>>
       /\ waiters' = Tail(waiters)
       /\ watcher' = [watcher EXCEPT ![Head(waiters)] = "served"]
       /\ handed' = Append(handed, o)
       /\ UNCHANGED requests
    \/ /\ waiters = <<>>
       /\ requests' = Append(requests, o)
       /\ UNCHANGED <<waiters, watcher, handed>>

\* One round of the watch loop of a transport.  The loop looks at `closed`
\* only between two rounds: the request it holds when its transport closes is
\* passed on, and is the last; those queued behind it are lost.
Watch(t) ==
    /\ ~aborted
    /\ t \in watching
    /\ arrived[t] # <<>>
    /\ arrived' = [arrived EXCEPT ![t] = Tail(@)]
    /\ watching' = watching \ (closed \cap {t})
    /\ Deliver(Head(arrived[t]))
    /\ UNCHANGED <<transportVars, switchVars, callVars, socket, sent>>

WaitForOpenRequest_newestFirst(w) ==
    /\ watcher[w] = "idle"
    /\ ~aborted
    /\ requests # <<>>
    /\ watcher' = [watcher EXCEPT ![w] = "served"]
    /\ requests' = SubSeq(requests, 1, Len(requests) - 1)
    /\ handed' = Append(handed, requests[Len(requests)])
    /\ UNCHANGED <<waiters, transportVars, switchVars, callVars, socket,
                   watching, arrived, sent>>

\* ConnectionSession.waitForOpenRequest.
WaitForOpenRequest(w) ==
    /\ watcher[w] = "idle"
    /\ \/ /\ aborted
          /\ watcher' = [watcher EXCEPT ![w] = "rejected"]
          /\ UNCHANGED <<requests, waiters, handed>>
       \/ /\ ~aborted
          /\ requests # <<>>
          /\ watcher' = [watcher EXCEPT ![w] = "served"]
          /\ requests' = Tail(requests)
          /\ handed' = Append(handed, Head(requests))
          /\ UNCHANGED waiters
       \/ /\ ~aborted
          /\ requests = <<>>
          /\ watcher' = [watcher EXCEPT ![w] = "waiting"]
          /\ waiters' = Append(waiters, w)
          /\ UNCHANGED <<requests, handed>>
    /\ UNCHANGED <<transportVars, switchVars, callVars, socket, watching,
                   arrived, sent>>

----------------------------------------------------------------------------
Next ==
    \/ Abort
    \/ \E t \in Transports : CloseTransport(t) \/ Watch(t)
    \/ RollbackSettles
    \/ \E c \in Calls : Invoke(c) \/ Thaw(c) \/ Answer(c) \/ CallBreaks(c)
    \/ \E s \in Sockets : Upgrade(s)
    \/ InstallEnds
    \/ Ready
    \/ ProbeAnswers
    \/ BackendFetched
    \/ SwitchCommits
    \/ SwitchFails
    \/ UpdateFails
    \/ \E o \in Opens, t \in Transports : OpenArrives(o, t)
    \/ \E w \in Watchers : WaitForOpenRequest(w)

\* Promise reactions run, and every call ends: the backend answers, or the
\* two-minute timeout of WorkspaceBackendRpc breaks it.  Nothing is assumed
\* of the install, the spawn, the probe or the user.
Fairness ==
    /\ WF_vars(RollbackSettles)
    /\ WF_vars(BackendFetched)
    /\ WF_vars(SwitchCommits)
    /\ WF_vars(SwitchFails)
    /\ \A c \in Calls : WF_vars(Thaw(c)) /\ WF_vars(Answer(c) \/ CallBreaks(c))
    /\ \A t \in Transports : WF_vars(Watch(t))

Spec == Init /\ [][Next]_vars
FairSpec == Spec /\ Fairness

----------------------------------------------------------------------------
(* Properties.                                                             *)

\* A session that is not aborted always has an open active transport: the
\* loss of the updated transport falls back to the original, and the loss of
\* the last usable one ends the session in the same step (connectionClosed).
ActiveUsable == ~aborted => link[active] = "ready"

\* Helper calls and new editor sockets reach the same backend, except while
\* a rollback waits for the original's backend (switchTo, connectionClosed).
RouteFollowsActive == ~aborted /\ ~rollback => selected = active

\* While a switch is under way no call runs that it does not wait for: the
\* freeze admits none after the drain took its snapshot (invokeBackend).
FreezeCoversPending == switching => Pending \subseteq drain

\* The active transport, the router and the calls that run agree, whichever of
\* the transports is lost while an update, a switch or a rollback is under way
\* (switchTo, connectionClosed, invokeBackend).
ActiveServes == ActiveUsable /\ RouteFollowsActive /\ FreezeCoversPending

\* What an open transport of an open session received is in its queue, queued
\* in the session, or was handed to the extension, once and in the order it
\* came (watch, waitForOpenRequest).  Of what a closed transport received the
\* session has a first part, once and in order: the requests the watch loop
\* had not passed on are lost, all of them if the loop never began.
Delivered == handed \o requests
Onward(t) == Delivered \o arrived[t]
InOrder(s, d) ==
    \A i, j \in DOMAIN s, p, q \in DOMAIN d :
        d[p] = s[i] /\ d[q] = s[j] => (i < j <=> p < q)
OnceInOrder(s, d) ==
    /\ \A i \in DOMAIN s : \E p \in DOMAIN d : d[p] = s[i]
    /\ InOrder(s, d)
FirstPartInOrder(s, d) ==
    /\ \A i, j \in DOMAIN s, q \in DOMAIN d :
          i <= j /\ d[q] = s[j] => \E p \in 1 .. q : d[p] = s[i]
    /\ InOrder(s, d)
OpenRequestsKept ==
    ~aborted => \A t \in Transports :
                    IF link[t] = "closed"
                    THEN FirstPartInOrder(sent[t], Delivered)
                    ELSE /\ OnceInOrder(sent[t], Onward(t))
                         /\ \A i \in DOMAIN arrived[t] :
                               \E j \in DOMAIN sent[t] : arrived[t][i] = sent[t][j]

\* No caller waits beside a queued request, and none waits on an aborted
\* session (watch, waitForOpenRequest, rejectWaiters).
NoForgottenWaiter ==
    /\ requests = <<>> \/ waiters = <<>>
    /\ aborted => waiters = <<>> /\ requests = <<>>
    /\ \A w \in Watchers :
          watcher[w] = "waiting" <=> \E i \in DOMAIN waiters : waiters[i] = w

\* No open request is lost but by the close of its transport, none is doubled
\* or overtaken, and no caller waits beside a queued one or on an ended session.
RequestsServed == OpenRequestsKept /\ NoForgottenWaiter

\* A running call and an open socket end abnormally only in the step that
\* loses the transport they use: neither a switch, a failed update nor a
\* rollback cuts them off.
Intact ==
    /\ \A c \in Calls : call[c] = "pending" /\ call'[c] = "failed"
                        => /\ link[route[c]] # "closed"
                           /\ link'[route[c]] = "closed"
    /\ \A s \in Sockets : socket[s] \in Transports /\ socket'[s] # socket[s]
                          => /\ link[socket[s]] # "closed"
                             /\ link'[socket[s]] = "closed"
NothingCut == [][Intact]_vars

\* Every call ends, those a switch froze included.
CallsEnd ==
    \A c \in Calls : call[c] \in {"frozen", "pending"}
                     ~> call[c] \in {"answered", "failed"}

\* New sockets do not stay routed to a transport the session left.
RouteRecovers == ~aborted /\ selected # active ~> aborted \/ selected = active

\* A request that is queued at a transport the session watches, or comes to
\* watch by a switch, reaches the session unless that transport closes.
RequestsPassedOn ==
    \A o \in Opens, t \in Transports :
        t \in watching \cup {active} /\ (\E i \in DOMAIN arrived[t] : arrived[t][i] = o)
            ~> \/ aborted \/ t \in closed
               \/ \E p \in DOMAIN Delivered : Delivered[p] = o

\* What a switch or the loss of a transport suspends goes on.
SessionSettles == CallsEnd /\ RouteRecovers /\ RequestsPassedOn

----------------------------------------------------------------------------
(* The session implements the contract of a connection.                    *)
ContractState ==
    [c \in Calls |-> CASE call[c] = "frozen"  -> "waiting"
                       [] call[c] = "pending" -> "running"
                       [] OTHER -> call[c]]

Contract == INSTANCE SessionContract WITH
    Carriers  <- Transports,
    NoCarrier <- NoTransport,
    state     <- ContractState,
    carrier   <- route,
    lost      <- {t \in Transports : link[t] = "closed"},
    open      <- ~aborted

ImplementsContract == Contract!Spec
=============================================================================
