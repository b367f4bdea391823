--------------------------- MODULE WebConnection ---------------------------
(***************************************************************************)
(* The session of the browser editor with a web gateway: how connects, the *)
(* restoration of a saved session, the opening of a page, a container      *)
(* switch, sign-out, disconnect and expiry take it from one another, and   *)
(* what the browser's secret storage holds in the end.                     *)
(*                                                                         *)
(* One event loop: a step is what runs between two awaits.  fresh holds    *)
(* the tasks whose captured state.generation is still the current one.     *)
(* Left out: the prompts, the checks of URLs and replies, and the restore  *)
(* that precedes reopenInContainer, reopenOnHost and a socket, which is    *)
(* the Restore of a status command before them.                            *)
(*                                                                         *)
(* An operator with a suffix in lower case, as Opened_saves, is a wrong    *)
(* variant of the definition below it, and no part of WebSpec.             *)
(***************************************************************************)
EXTENDS Optional, Naturals, Sequences, SequencesExt

CONSTANTS Tokens,     \* of the sessions of gateways
          Accounts,   \* those given for an account grant
          Attempts,   \* calls of connectWithPairingUrl
          Sockets     \* WebSockets of processes

ASSUME AccountsAssumption == Accounts \subseteq Tokens

VARIABLES
    options,    \* state.options: the connection in use
    fresh,      \* tasks that captured the current state.generation
    newest,     \* who drew the current state.pairingAttempt
    connect,    \* how far each connectWithPairingUrl has come
    given,      \* its options
    previous,   \* the options it replaced
    saved,      \* the session in secret storage
    queue,      \* the storage operations in order
    restoring,  \* state.restoration is pending
    waiting,    \* callers that await it
    prepare,    \* how far prepareWorkspace has come
    switch,     \* how far the container switch has come
    back,       \* the options it came from
    socket,     \* WebSockets
    ticketOf,   \* the options each got its ticket for
    used,       \* history: the sessions gateways have given
    forgotten,  \* history: sessions this browser gave up for good
    overrode    \* history: a container switch came between, see Confirmed

attempts == <<newest, connect, given, previous>>
storage == <<saved, queue, restoring, waiting>>
switching == <<prepare, switch, back>>
history == <<used, forgotten, overrode>>
webVars == <<options, fresh, attempts, storage, switching, socket, ticketOf, history>>

\* Options are one object each: two of a session differ by where they come from.
Options == [session : Tokens, boxed : BOOLEAN, from : {"paired", "restored", "switched"}]
\* prepareWorkspace is called by the editor that opens a page, and by the switch.
Callers == {"page", "switch"}
Tasks == Callers \cup {"restoration", "container"}

ASSUME AbsentAssumption == None \notin Options \cup Attempts \cup Tasks
ASSUME NamesAssumption ==
    /\ Attempts \cap Sockets = {}
    /\ (Attempts \cup Sockets) \cap (Tasks \cup {"signout"}) = {}

Ops == [op : {"save"}, what : Options, by : Callers \cup {None}] \cup [op : {"clear", "load"}]

Loads == {i \in DOMAIN queue : queue[i].op = "load"}

ConnectionTypes ==
    /\ options \in Options \cup {None}
    /\ fresh \subseteq Attempts \cup Sockets \cup Tasks
    /\ socket \in [Sockets -> {"none", "ticketing", "open"}]
    /\ ticketOf \in [Sockets -> Options \cup {None}]

AttemptTypes ==
    /\ newest \in Attempts \cup Callers \cup {"signout", None}
    /\ connect \in [Attempts -> {"idle", "pairing", "ticketing", "opening"}]
    /\ given \in [Attempts -> Options \cup {None}]
    /\ previous \in [Attempts -> Options \cup {None}]

\* A restoration is the one load among the storage operations.
StorageTypes ==
    /\ saved \in Options \cup {None}
    /\ queue \in Seq(Ops)
    /\ restoring \in BOOLEAN
    /\ waiting \subseteq Callers \cup {"disconnect", "signout"}
    /\ restoring <=> Loads # {}
    /\ \A i, j \in Loads : i = j

SwitchTypes ==
    /\ prepare \in [Callers -> {"idle", "checking", "authorizing", "saving", "linking"}]
    /\ switch \in {"idle", "starting", "confirming", "saving", "preparing", "moving", "returning"}
    /\ back \in Options \cup {None}

HistoryTypes == used \subseteq Tokens /\ forgotten \subseteq used /\ overrode \in BOOLEAN

WebTypes == ConnectionTypes /\ AttemptTypes /\ StorageTypes /\ SwitchTypes /\ HistoryTypes

WebInit ==
    /\ options = None /\ fresh = {}
    /\ newest = None
    /\ connect = [a \in Attempts |-> "idle"]
    /\ given = [a \in Attempts |-> None] /\ previous = given
    /\ saved = None /\ queue = <<>>
    /\ restoring = FALSE /\ waiting = {}
    /\ prepare = [p \in Callers |-> "idle"]
    /\ switch = "idle" /\ back = None
    /\ socket = [k \in Sockets |-> "none"] /\ ticketOf = [k \in Sockets |-> None]
    /\ used = {} /\ forgotten = {} /\ overrode = FALSE

----------------------------------------------------------------------------
(* The connection in use.                                                  *)

CloseSockets ==
    /\ socket' = [k \in Sockets |-> IF socket[k] = "open" THEN "none" ELSE socket[k]]
    /\ ticketOf' = [k \in Sockets |-> IF socket[k] = "open" THEN None ELSE ticketOf[k]]

\* set and dispose: a new generation, which task captures at once; the sockets close.
Use(o, task) ==
    /\ options' = o
    /\ fresh' = {task} \ {None}
    /\ CloseSockets

Keep == UNCHANGED <<options, fresh, socket, ticketOf>>

\* What a task captured, and the attempt it drew, count until it has used them.
Ends(task) == fresh' = fresh \ {task} /\ UNCHANGED <<options, socket, ticketOf>>
DoneBy(task) == newest' = IF newest = task THEN None ELSE newest

\* save: what is stored is a copy.
Save(o, task) ==
    queue' = Append(queue, [op |-> "save", what |-> [o EXCEPT !.from = "restored"], by |-> task])

Current == IF options = None THEN {} ELSE {options.session}

\* invalidate: the delete is queued before the connection is disposed.
Invalidate ==
    /\ queue' = Append(queue, [op |-> "clear"])
    /\ Use(None, None)
    /\ forgotten' = forgotten \cup Current

JoinRestoration_anew(c) ==
    /\ options = None
    /\ waiting' = waiting \cup {c}
    /\ restoring' = TRUE
    /\ queue' = Append(queue, [op |-> "load"])
    /\ fresh' = fresh \cup {"restoration"}
    /\ UNCHANGED <<options, saved, socket, ticketOf>>

\* restore: one restoration at a time, which those that come later join.
JoinRestoration(c) ==
    /\ options = None
    /\ waiting' = waiting \cup {c}
    /\ restoring' = TRUE
    /\ IF restoring
       THEN UNCHANGED <<queue, fresh>>
       ELSE queue' = Append(queue, [op |-> "load"]) /\ fresh' = fresh \cup {"restoration"}
    /\ UNCHANGED <<options, saved, socket, ticketOf>>

\* A caller goes on when the restoration is over, whatever it brought.
Proceeds(c) ==
    /\ c \in waiting
    /\ ~restoring
    /\ waiting' = waiting \ {c}

----------------------------------------------------------------------------
(* Secret storage: serialize runs the operations one after the other.      *)

Running(op) == queue # <<>> /\ Head(queue).op = op /\ queue' = Tail(queue)

\* storeSecret; the switch goes on when its own save ends, and so does prepareWorkspace.
Stored ==
    /\ Running("save")
    /\ saved' = Head(queue).what
    /\ LET task == Head(queue).by IN
       /\ prepare' = [p \in Callers |-> IF prepare[p] = "saving" /\ task = p
                                        THEN IF p = "page" THEN "idle" ELSE "linking"
                                        ELSE prepare[p]]
       /\ switch' = IF task # "switch" \/ prepare["switch"] = "saving" THEN switch
                    ELSE IF switch = "saving" THEN "preparing"
                    ELSE IF switch = "returning" THEN "idle" ELSE switch
    /\ Keep
    /\ UNCHANGED <<attempts, restoring, waiting, back, history>>

\* A failed save ends the caller that awaits it; connectWithPairingUrl only warns.
SaveFails ==
    /\ Running("save")
    /\ LET task == Head(queue).by IN
       /\ prepare' = [p \in Callers |-> IF prepare[p] = "saving" /\ task = p
                                        THEN "idle" ELSE prepare[p]]
       /\ switch' = IF task # "switch" \/ prepare["switch"] = "saving" THEN switch
                    ELSE IF switch = "saving" THEN "moving"
                    ELSE IF switch = "returning" THEN "idle" ELSE switch
    /\ Keep
    /\ UNCHANGED <<attempts, saved, restoring, waiting, back, history>>

\* deleteSecret.
Cleared ==
    /\ Running("clear")
    /\ saved' = None
    /\ Keep
    /\ UNCHANGED <<attempts, restoring, waiting, switching, history>>

\* A delete that fails leaves a session that the gateway has revoked or refuses.
ClearFails ==
    /\ Running("clear")
    /\ forgotten' = forgotten \ (IF saved = None THEN {} ELSE {saved.session})
    /\ Keep
    /\ UNCHANGED <<attempts, saved, restoring, waiting, switching, used, overrode>>

\* load, and with its result restoreSession: a session that has expired or is
\* another account's is deleted, and none is set over a newer generation.
Loaded(valid) ==
    /\ Running("load")
    /\ restoring' = FALSE
    /\ saved' = IF valid THEN saved ELSE None
    /\ IF saved # None /\ valid /\ "restoration" \in fresh /\ options = None
       THEN Use(saved, None)
       ELSE Ends("restoration")
    /\ UNCHANGED <<attempts, waiting, switching, history>>

\* Storage cannot be read: of the callers only disconnect goes on.
LoadFails ==
    /\ Running("load")
    /\ restoring' = FALSE
    /\ waiting' = waiting \cap {"disconnect"}
    /\ Ends("restoration")
    /\ UNCHANGED <<attempts, saved, switching, history>>

----------------------------------------------------------------------------
(* connectWithPairingUrl.                                                  *)

Connect(a) ==
    /\ connect[a] = "idle"
    /\ connect' = [connect EXCEPT ![a] = "pairing"]
    /\ newest' = a
    /\ fresh' = fresh \cup {a}
    /\ UNCHANGED <<options, socket, ticketOf, given, previous, storage, switching, history>>

\* A gateway answers with a session it never gave before.
NewSession(s) ==
    /\ s \notin used
    /\ used' = used \cup {s}
    /\ UNCHANGED <<forgotten, overrode>>

\* The answer counts for the newest attempt, and if nothing else was set.
Paired(a, s) ==
    /\ connect[a] = "pairing"
    /\ newest = a
    /\ a \in fresh
    /\ NewSession(s)
    /\ connect' = [connect EXCEPT ![a] = "ticketing"]
    /\ given' = [given EXCEPT ![a] = [session |-> s, boxed |-> FALSE, from |-> "paired"]]
    /\ previous' = [previous EXCEPT ![a] = options]
    /\ Use(given'[a], a)
    /\ DoneBy(a)
    /\ UNCHANGED <<storage, switching>>

\* Pairing fails, or its answer comes too late.
PairFails(a) ==
    /\ connect[a] = "pairing"
    /\ connect' = [connect EXCEPT ![a] = "idle"]
    /\ Ends(a)
    /\ DoneBy(a)
    /\ UNCHANGED <<given, previous, storage, switching, history>>

\* createWebSocketUrl: the ticket counts if nothing was set since it was asked for.
CliTicket(a) ==
    /\ connect[a] = "ticketing"
    /\ a \in fresh
    /\ connect' = [connect EXCEPT ![a] = "opening"]
    /\ Ends(a)
    /\ UNCHANGED <<newest, given, previous, storage, switching, history>>

\* The call returns, and its locals go.
Returns(a) ==
    /\ connect' = [connect EXCEPT ![a] = "idle"]
    /\ given' = [given EXCEPT ![a] = None]
    /\ previous' = [previous EXCEPT ![a] = None]

Opened_saves(a) ==
    /\ connect[a] = "opening"
    /\ Returns(a)
    /\ Save(given[a], None)
    /\ Ends(a)
    /\ UNCHANGED <<newest, saved, restoring, waiting, switching, history>>

\* The editor has opened the workspace: the session is saved if it is in use.
Opened(a) ==
    /\ connect[a] = "opening"
    /\ Returns(a)
    /\ IF options = given[a] THEN Save(options, None) ELSE UNCHANGED queue
    /\ Ends(a)
    /\ UNCHANGED <<newest, saved, restoring, waiting, switching, history>>

OpenFails_unchecked(a) ==
    /\ connect[a] \in {"ticketing", "opening"}
    /\ Returns(a)
    /\ Use(previous[a], None)
    /\ UNCHANGED <<newest, storage, switching, history>>

\* The ticket or the editor fails, or the user cancels: what this attempt set,
\* and nothing else, makes way for what it replaced.
OpenFails(a) ==
    /\ connect[a] \in {"ticketing", "opening"}
    /\ Returns(a)
    /\ IF options = given[a] THEN Use(previous[a], None) ELSE Ends(a)
    /\ UNCHANGED <<newest, storage, switching, history>>

----------------------------------------------------------------------------
(* prepareWorkspace, of a page that opens or of the switch.                *)

\* A call that finds no connection restores the saved one first.
Enters(p) ==
    IF options = None
    THEN JoinRestoration(p) /\ UNCHANGED prepare
    ELSE /\ prepare' = [prepare EXCEPT ![p] = "checking"]
         /\ Keep
         /\ UNCHANGED storage

\* A bound: one prepareWorkspace at a time.
NonePrepares == waiting \cap Callers = {} /\ \A p \in Callers : prepare[p] = "idle"

OpenPage ==
    /\ NonePrepares
    /\ Enters("page")
    /\ UNCHANGED <<attempts, switch, back, history>>

PrepareSwitch ==
    /\ switch = "preparing"
    /\ NonePrepares
    /\ switch' = "moving"
    /\ Enters("switch")
    /\ UNCHANGED <<attempts, back, history>>

Restored(p) ==
    /\ Proceeds(p)
    /\ prepare' = [prepare EXCEPT ![p] = "checking"]
    /\ Keep
    /\ UNCHANGED <<attempts, saved, queue, restoring, switch, back, history>>

\* validateAccountSession; what its 401 takes away is Refused.  Without a
\* connection the account is asked for one.
Checked(p) ==
    /\ prepare[p] = "checking"
    /\ IF options = None
       THEN /\ prepare' = [prepare EXCEPT ![p] = "authorizing"]
            /\ newest' = p
            /\ fresh' = fresh \cup {p}
            /\ UNCHANGED <<options, socket, ticketOf>>
       ELSE /\ prepare' = [prepare EXCEPT ![p] = IF p = "page" THEN "idle" ELSE "linking"]
            /\ UNCHANGED newest
            /\ Keep
    /\ UNCHANGED <<connect, given, previous, storage, switch, back, history>>

\* The answer of the account's grant counts as that of a pairing does.
Authorized(p, s) ==
    /\ prepare[p] = "authorizing"
    /\ newest = p
    /\ p \in fresh
    /\ s \in Accounts
    /\ NewSession(s)
    /\ prepare' = [prepare EXCEPT ![p] = "saving"]
    /\ Use([session |-> s, boxed |-> FALSE, from |-> "paired"], None)
    /\ Save(options', p)
    /\ DoneBy(p)
    /\ UNCHANGED <<connect, given, previous, saved, restoring, waiting, switch, back>>

\* The page gives up; a connect it then prompts for is a Connect.
PageFails ==
    /\ prepare["page"] \in {"checking", "authorizing"}
    /\ prepare' = [prepare EXCEPT !["page"] = "idle"]
    /\ Ends("page")
    /\ DoneBy("page")
    /\ UNCHANGED <<connect, given, previous, storage, switch, back, history>>

----------------------------------------------------------------------------
(* reopenInContainer and reopenOnHost, one at a time by containerState.    *)

\* openContainer asks the gateway to start the container of the workspace.
ReopenInContainer ==
    /\ switch = "idle"
    /\ options # None
    /\ ~options.boxed
    /\ switch' = "starting"
    /\ back' = options
    /\ fresh' = fresh \cup {"container"}
    /\ UNCHANGED <<options, socket, ticketOf, attempts, storage, prepare, history>>

\* The container runs, and nothing was set since it was asked for: the editor
\* is asked which workspace it shows now.
ContainerStarts ==
    /\ switch = "starting"
    /\ "container" \in fresh
    /\ switch' = "confirming"
    /\ Ends("container")
    /\ UNCHANGED <<attempts, storage, prepare, back, history>>

\* The gateway fails, something was set, or the editor shows another workspace.
ContainerFails ==
    /\ switch \in {"starting", "confirming"}
    /\ switch' = "idle"
    /\ back' = None
    /\ Ends("container")
    /\ UNCHANGED <<attempts, storage, prepare, history>>

\* switchContainerWorkspace, up to its first await.
SwitchTo(boxed) ==
    /\ switch' = "saving"
    /\ Use([back' EXCEPT !.boxed = boxed, !.from = "switched"], "container")
    /\ Save(options', "switch")
    /\ UNCHANGED <<attempts, saved, restoring, waiting, prepare>>

\* The editor still shows the workspace: its session goes on in the container.
\* What was set or disposed while the editor was asked is not looked at.
Confirmed ==
    /\ switch = "confirming"
    /\ UNCHANGED back
    /\ SwitchTo(TRUE)
    /\ overrode' = (overrode \/ options # back)
    /\ UNCHANGED <<used, forgotten>>

ReopenOnHost ==
    /\ switch = "idle"
    /\ options # None
    /\ options.boxed
    /\ back' = options
    /\ SwitchTo(FALSE)
    /\ UNCHANGED history

\* The editor has opened the workspace that was prepared for it.
Switched ==
    /\ switch = "moving"
    /\ prepare["switch"] = "linking"
    /\ switch' = "idle"
    /\ prepare' = [prepare EXCEPT !["switch"] = "idle"]
    /\ back' = None
    /\ Ends("container")
    /\ UNCHANGED <<attempts, storage, history>>

\* Its save, prepareWorkspace or the editor fails: unless something was set
\* since, the options it came from are used and saved again.
SwitchFails ==
    /\ switch = "moving"
    /\ "switch" \notin waiting
    /\ prepare["switch"] # "saving"
    /\ prepare' = [prepare EXCEPT !["switch"] = "idle"]
    /\ IF "container" \in fresh
       THEN /\ switch' = "returning"
            /\ Use(back, None)
            /\ Save(back, "switch")
       ELSE /\ switch' = "idle"
            /\ Ends("switch")
            /\ UNCHANGED queue
    /\ back' = None
    /\ DoneBy("switch")
    /\ UNCHANGED <<connect, given, previous, saved, restoring, waiting, history>>

----------------------------------------------------------------------------
(* Leaving.                                                                *)

\* remote-server.disconnect: revoke, which needs a connection to revoke.
Disconnect ==
    /\ "disconnect" \notin waiting
    /\ IF options = None
       THEN JoinRestoration("disconnect") /\ UNCHANGED forgotten
       ELSE Invalidate /\ UNCHANGED <<saved, restoring, waiting>>
    /\ UNCHANGED <<attempts, switching, used, overrode>>

Disconnects ==
    /\ Proceeds("disconnect")
    /\ Invalidate
    /\ UNCHANGED <<attempts, saved, restoring, switching, used, overrode>>

\* disconnectAccount, with the connection it finds: an account's is revoked.
SignsOut ==
    /\ IF Current \cap Accounts # {}
       THEN Invalidate
       ELSE /\ IF options = None THEN Use(None, None) ELSE Keep
            /\ UNCHANGED <<queue, forgotten>>
    /\ UNCHANGED <<saved, restoring>>

\* accountWillChange: pending pairings are cancelled first.
SignOut ==
    /\ "signout" \notin waiting
    /\ newest' = "signout"
    /\ IF options = None
       THEN JoinRestoration("signout") /\ UNCHANGED forgotten
       ELSE SignsOut /\ UNCHANGED waiting
    /\ UNCHANGED <<connect, given, previous, switching, used, overrode>>

SignOutGoesOn ==
    /\ Proceeds("signout")
    /\ SignsOut
    /\ UNCHANGED <<attempts, switching, used, overrode>>

\* The expiry timer of the options in use, or a 401 to a request made with them.
Refused ==
    /\ options # None
    /\ Invalidate
    /\ UNCHANGED <<attempts, saved, restoring, waiting, switching, used, overrode>>

\* releaseWorkspace: the same options, in a new generation.
ReleaseWorkspace ==
    /\ options # None
    /\ Use(options, None)
    /\ UNCHANGED <<attempts, storage, switching, history>>

\* remote-server.status and other reads restore the saved session.
Restore ==
    /\ options = None
    /\ ~restoring
    /\ restoring' = TRUE
    /\ queue' = Append(queue, [op |-> "load"])
    /\ fresh' = fresh \cup {"restoration"}
    /\ UNCHANGED <<options, socket, ticketOf, attempts, saved, waiting, switching, history>>

\* The page is reloaded: only the secret storage stays, and a delete that has
\* not run is lost with the disconnect it belongs to.
Reload ==
    /\ options' = None /\ fresh' = {}
    /\ newest' = None
    /\ connect' = [a \in Attempts |-> "idle"]
    /\ given' = [a \in Attempts |-> None] /\ previous' = given'
    /\ queue' = <<>> /\ restoring' = FALSE /\ waiting' = {}
    /\ prepare' = [p \in Callers |-> "idle"]
    /\ switch' = "idle" /\ back' = None
    /\ socket' = [k \in Sockets |-> "none"] /\ ticketOf' = [k \in Sockets |-> None]
    /\ forgotten' = IF saved # None /\ \E i \in DOMAIN queue : queue[i].op = "clear"
                    THEN forgotten \ {saved.session} ELSE forgotten
    /\ UNCHANGED <<saved, used, overrode>>

----------------------------------------------------------------------------
(* WebSockets of processes: createRpc, and connect of the transport.       *)

Ticket(k) ==
    /\ socket[k] = "none"
    /\ options # None
    /\ socket' = [socket EXCEPT ![k] = "ticketing"]
    /\ ticketOf' = [ticketOf EXCEPT ![k] = options]
    /\ fresh' = fresh \cup {k}
    /\ UNCHANGED <<options, attempts, storage, switching, history>>

SocketOpens_unchecked(k) ==
    /\ socket[k] = "ticketing"
    /\ socket' = [socket EXCEPT ![k] = "open"]
    /\ UNCHANGED <<options, fresh, ticketOf, attempts, storage, switching, history>>

\* The ticket arrives: the socket is made if nothing was set meanwhile, and
\* tracked in connections before anything else can run.
SocketOpens(k) ==
    /\ socket[k] = "ticketing"
    /\ k \in fresh
    /\ socket' = [socket EXCEPT ![k] = "open"]
    /\ fresh' = fresh \ {k}
    /\ UNCHANGED <<options, ticketOf, attempts, storage, switching, history>>

SocketEnds(k) ==
    /\ socket[k] # "none"
    /\ socket' = [socket EXCEPT ![k] = "none"]
    /\ ticketOf' = [ticketOf EXCEPT ![k] = None]
    /\ fresh' = fresh \ {k}
    /\ UNCHANGED <<options, attempts, storage, switching, history>>

\* What follows an await of the restoration runs before anything else does.
Waiters ==
    \/ \E p \in Callers : Restored(p)
    \/ Disconnects
    \/ SignOutGoesOn

Others ==
    \/ Stored \/ SaveFails \/ Cleared \/ ClearFails \/ LoadFails
    \/ \E valid \in BOOLEAN : Loaded(valid)
    \/ \E a \in Attempts :
          \/ Connect(a) \/ PairFails(a) \/ CliTicket(a) \/ Opened(a) \/ OpenFails(a)
          \/ \E s \in Tokens : Paired(a, s)
    \/ OpenPage \/ PrepareSwitch \/ PageFails
    \/ \E p \in Callers :
          \/ Checked(p)
          \/ \E s \in Tokens : Authorized(p, s)
    \/ ReopenInContainer \/ ContainerStarts \/ ContainerFails \/ Confirmed
    \/ ReopenOnHost \/ Switched \/ SwitchFails
    \/ Disconnect \/ SignOut
    \/ Refused \/ ReleaseWorkspace \/ Restore \/ Reload
    \/ \E k \in Sockets : Ticket(k) \/ SocketOpens(k) \/ SocketEnds(k)

WebNext ==
    \/ Waiters
    \/ (restoring \/ waiting = {}) /\ Others

WebSpec == WebInit /\ [][WebNext]_webVars

----------------------------------------------------------------------------
(* Properties.                                                             *)

\* A socket carries the session, and reaches the container, of the connection
\* in use: none outlives set or dispose, or is made with a ticket from before.
SocketsCurrent == \A k \in Sockets : socket[k] = "open" => ticketOf[k] = options

\* What secret storage holds once its operations have run.
FinallySaved ==
    LET last == SelectLastInSubSeq(queue, 1, Len(queue), LAMBDA o : o.op # "load") IN
    IF last = 0 THEN saved
    ELSE IF queue[last].op = "save" THEN queue[last].what ELSE None

Forgotten == \A s \in forgotten :
    /\ s \notin Current
    /\ FinallySaved # None => FinallySaved.session # s

\* A session that was disconnected, has expired or was refused is neither used
\* nor saved again, by whatever was under way: pairings, opens, restorations,
\* switches; unless a switch has overridden what was set while it confirmed.
ForgottenGone == overrode \/ Forgotten

\* The sockets and the session that a browser has are those of the connection
\* in use, and of one it has not given up (set, invalidate, save, clear).
HeldCurrent == SocketsCurrent /\ ForgottenGone

\* The connection in use is lost only to the newest connect, to the failure of
\* the attempt that set it, by being given up for good, or with the page: never
\* to the late end of a pairing, open, restoration or switch of before; unless
\* a switch has overridden what was set while it confirmed.
NewerKept ==
    [][\/ options = None
       \/ Current' = Current
       \/ options.session \in forgotten'
       \/ newest \in Attempts /\ connect[newest] = "pairing" /\ connect'[newest] = "ticketing"
       \/ \E a \in Attempts : options = given[a] /\ connect'[a] = "idle"
       \/ Reload
       \/ overrode']_webVars

\* The README: "Remote Server: Disconnect revokes the session and removes its
\* saved credential. A gateway restart, revocation or session expiration
\* requires a fresh pairing URL."  See Confirmed.
ForgottenForGood == Forgotten
=============================================================================
