---------------------------- MODULE RemoteDaemon ----------------------------
(***************************************************************************)
(* How the SSH connectors of one remote host find or start its server      *)
(* daemon.  A connector is one `remoteSshServer connect` process: it takes *)
(* a lock directory, looks for a state file whose server answers, and      *)
(* otherwise spawns a daemon and waits for it.  A daemon starts a backend, *)
(* binds the management socket, publishes its state file, and removes all  *)
(* of them when it ends.                                                   *)
(*                                                                         *)
(* Connectors and daemons are processes that share three names in the file *)
(* system: the lock, the state file and the socket path.  A step is one    *)
(* system call, with what runs up to the next await.  A connector runs     *)
(* once and spawns at most one daemon, which carries its name here.  The   *)
(* lock counts as older than 30 seconds only when its holder died: a live  *)
(* one is done by then (waitForServer gives up after 10).                  *)
(*                                                                         *)
(* An operator with a suffix in lower case, as GiveUp_neverWaits, is a     *)
(* wrong variant of the definition below it, and no part of Spec.          *)
(***************************************************************************)
EXTENDS FiniteSets

CONSTANTS Connectors,  \* connector processes, and the daemons they spawn
          Mortal,      \* bound: the connectors that may be killed
          Fragile,     \* bound: the daemons that may be killed
          None

Daemons == Connectors

\* A state, a socket path and a lock may name nobody.
ASSUME NoneAssumption == None \notin Connectors

VARIABLES
    lock,       \* the connector that made lockPath, or None
    stateFile,  \* the daemon statePath names, or None
    sockFile,   \* the daemon bound to the inode at socketPath, or None
    pc,         \* where each connector is
    aborted,    \* its controller: stdin ended or a signal arrived
    seen,       \* the state it read, then the state ensureServer returns
    phase,      \* where each daemon is
    ipc,        \* daemons whose IPC channel to their connector is open
    cancel,     \* a cancel-startup message or a disconnect, on its way
    server,     \* daemons that created their management server
    owned,      \* daemons that stopped listening to their connector
    backend     \* daemons whose workspace backend runs

files == <<lock, stateFile, sockFile>>
connector == <<pc, aborted, seen>>
daemon == <<phase, ipc, cancel, server, owned, backend>>
vars == <<files, connector, daemon>>

Waiting == {"acquiring", "breaking"}
Critical == {"checking", "probing", "clearing", "spawning", "polling",
             "connecting", "cancelling", "settling", "leaving"}
ConnectorState == {"idle", "returned", "connected", "failed", "ended", "crashed"}
                  \cup Waiting \cup Critical
Unpublished == {"spawned", "starting", "ready", "listening"}
Cleaning == {"cleaning", "removing", "unlinking"}
DaemonState == {"none", "published", "serving", "exited", "killed"}
               \cup Unpublished \cup Cleaning

TypeOK ==
    /\ lock \in Connectors \cup {None}
    /\ stateFile \in Daemons \cup {None}
    /\ sockFile \in Daemons \cup {None}
    /\ pc \in [Connectors -> ConnectorState]
    /\ aborted \in SUBSET Connectors
    /\ seen \in [Connectors -> Daemons \cup {None}]
    /\ phase \in [Daemons -> DaemonState]
    /\ ipc \in SUBSET Daemons
    /\ cancel \in [Daemons -> {"none", "sent", "seen"}]
    /\ server \in SUBSET Daemons
    /\ owned \in SUBSET Daemons
    /\ backend \in SUBSET Daemons

Init ==
    /\ lock = None
    /\ stateFile = None
    /\ sockFile = None
    /\ pc = [c \in Connectors |-> "idle"]
    /\ aborted = {}
    /\ seen = [c \in Connectors |-> None]
    /\ phase = [d \in Daemons |-> "none"]
    /\ ipc = {}
    /\ cancel = [d \in Daemons |-> "none"]
    /\ server = {}
    /\ owned = {}
    /\ backend = {}

Goto(c, to) == pc' = [pc EXCEPT ![c] = to]
Becomes(d, to) == phase' = [phase EXCEPT ![d] = to]

\* A connect to socketPath succeeds when a listening daemon is bound there.
Accepting == /\ sockFile # None
             /\ phase[sockFile] \in {"listening", "published", "serving"}

Cancel_again(d) ==
    cancel' = [cancel EXCEPT ![d] = IF @ = "none" THEN "sent" ELSE "resent"]

\* Node delivers a cancellation later; one that is on its way stays so.
Cancel(d) == cancel' = [cancel EXCEPT ![d] = IF @ = "none" THEN "sent" ELSE @]

\* A channel that closes loses what was on its way.
CloseChannel(d) ==
    /\ ipc' = ipc \ {d}
    /\ cancel' = [cancel EXCEPT ![d] = IF @ = "sent" THEN "none" ELSE @]

----------------------------------------------------------------------------
(* The connector: acquireLock.                                             *)

Start(c) ==
    /\ pc[c] = "idle"
    /\ Goto(c, "acquiring")
    /\ UNCHANGED <<files, aborted, seen, daemon>>

\* mkdir of the lock succeeds for one connector only.
TakeLock(c) ==
    /\ pc[c] = "acquiring"
    /\ c \notin aborted
    /\ lock = None
    /\ lock' = c
    /\ Goto(c, "checking")
    /\ UNCHANGED <<stateFile, sockFile, aborted, seen, daemon>>

\* stat shows a lock older than 30 seconds...
SeeStaleLock(c) ==
    /\ pc[c] = "acquiring"
    /\ c \notin aborted
    /\ lock # None
    /\ pc[lock] = "crashed"
    /\ Goto(c, "breaking")
    /\ UNCHANGED <<files, aborted, seen, daemon>>

\* ...and rm removes whatever is there by then.
BreakLock(c) ==
    /\ pc[c] = "breaking"
    /\ lock' = None
    /\ Goto(c, "acquiring")
    /\ UNCHANGED <<stateFile, sockFile, aborted, seen, daemon>>

LockRefused(c) ==
    /\ pc[c] = "acquiring"
    /\ c \in aborted
    /\ Goto(c, "failed")
    /\ UNCHANGED <<files, aborted, seen, daemon>>

----------------------------------------------------------------------------
(* The connector: ensureServer, under the lock.                            *)

ReadState(c) ==
    /\ pc[c] = "checking"
    /\ \/ /\ c \in aborted
          /\ Goto(c, "leaving")
          /\ UNCHANGED seen
       \/ /\ c \notin aborted
          /\ stateFile # None
          /\ seen' = [seen EXCEPT ![c] = stateFile]
          /\ Goto(c, "probing")
       \/ /\ c \notin aborted
          /\ stateFile = None
          /\ Goto(c, "spawning")
          /\ UNCHANGED seen
    /\ UNCHANGED <<files, aborted, daemon>>

\* The server of the state answers, and its state is returned, or not.
Probe(c) ==
    /\ pc[c] = "probing"
    /\ \/ /\ Accepting
          /\ Goto(c, "leaving")
          /\ UNCHANGED seen
       \/ /\ ~Accepting
          /\ Goto(c, "clearing")
          /\ seen' = [seen EXCEPT ![c] = None]
    /\ UNCHANGED <<files, aborted, daemon>>

\* The state file of a server that does not answer is removed.
Clear(c) ==
    /\ pc[c] = "clearing"
    /\ stateFile' = None
    /\ Goto(c, "spawning")
    /\ UNCHANGED <<lock, sockFile, aborted, seen, daemon>>

Spawn(c) ==
    /\ pc[c] = "spawning"
    /\ c \notin aborted
    /\ Becomes(c, "spawned")
    /\ ipc' = ipc \cup {c}
    /\ Goto(c, "polling")
    /\ UNCHANGED <<files, aborted, seen, cancel, server, owned, backend>>

SpawnRefused(c) ==
    /\ pc[c] = "spawning"
    /\ c \in aborted
    /\ Goto(c, "leaving")
    /\ UNCHANGED <<files, aborted, seen, daemon>>

\* A round of waitForServer: read the state, then connect to its server.
PollState(c) ==
    /\ pc[c] = "polling"
    /\ c \notin aborted
    /\ stateFile # None
    /\ seen' = [seen EXCEPT ![c] = stateFile]
    /\ Goto(c, "connecting")
    /\ UNCHANGED <<files, aborted, daemon>>

PollServer(c) ==
    /\ pc[c] \in {"connecting", "cancelling"}
    /\ \/ /\ Accepting
          /\ Goto(c, "leaving")
          /\ UNCHANGED seen
       \/ /\ ~Accepting
          /\ Goto(c, IF pc[c] = "cancelling" THEN "settling" ELSE "polling")
          /\ seen' = [seen EXCEPT ![c] = None]
    /\ UNCHANGED <<files, aborted, daemon>>

\* cancelStartup: the daemon is told while its channel is open, and `told`
\* is where the connector goes then.
CancelStartup(c, told, otherwise) ==
    \/ /\ c \in ipc
       /\ Cancel(c)
       /\ Goto(c, told)
    \/ /\ c \notin ipc
       /\ Goto(c, otherwise)
       /\ UNCHANGED cancel

GiveUp_neverWaits(c) ==
    /\ pc[c] = "polling"
    /\ CancelStartup(c, "leaving", "leaving")
    /\ UNCHANGED <<files, aborted, seen, phase, ipc, server, owned, backend>>

\* waitForServer throws, on the abort or at its deadline, which may pass in
\* any round.  A daemon that was told is waited for.
GiveUp(c) ==
    /\ pc[c] = "polling"
    /\ CancelStartup(c, "settling", "leaving")
    /\ UNCHANGED <<files, aborted, seen, phase, ipc, server, owned, backend>>

Settle_exitOnly(c) ==
    /\ pc[c] = "settling"
    /\ phase[c] \in {"exited", "killed"}
    /\ Goto(c, "leaving")
    /\ UNCHANGED <<files, aborted, seen, daemon>>

\* startupSettled: the daemon exited, or sent startup-ready.
Settle(c) ==
    /\ pc[c] = "settling"
    /\ phase[c] \in {"exited", "killed"} \/ c \in owned
    /\ Goto(c, "leaving")
    /\ UNCHANGED <<files, aborted, seen, daemon>>

\* The release of acquireLock removes the lock, whoever made it.
Release(c) ==
    /\ pc[c] = "leaving"
    /\ lock' = None
    /\ Goto(c, IF seen[c] = None THEN "failed" ELSE "returned")
    /\ UNCHANGED <<stateFile, sockFile, aborted, seen, daemon>>

----------------------------------------------------------------------------
(* The connector: connectOrStart, and how it ends.                         *)

\* The token of the state must be the one of the daemon behind the socket.
Authenticate(c) ==
    /\ pc[c] = "returned"
    /\ \/ /\ c \notin aborted
          /\ Accepting
          /\ sockFile = seen[c]
          /\ Goto(c, "connected")
          /\ UNCHANGED seen
       \/ /\ c \in aborted \/ ~Accepting \/ sockFile # seen[c]
          /\ Goto(c, "failed")
          /\ seen' = [seen EXCEPT ![c] = None]
    /\ UNCHANGED <<files, aborted, daemon>>

\* stdin ends or a signal arrives.  While waitForServer runs the listener
\* cancels the startup at once, and waitForServer throws unless a connect is
\* under way, whose success it returns; a connected one closes its socket.
Abort(c) ==
    /\ pc[c] \in Waiting \cup Critical \cup {"returned", "connected"}
    /\ c \notin aborted
    /\ aborted' = aborted \cup {c}
    /\ \/ /\ pc[c] = "polling"
          /\ CancelStartup(c, "settling", "leaving")
       \/ /\ pc[c] = "connecting"
          /\ CancelStartup(c, "cancelling", "connecting")
       \/ /\ pc[c] = "connected"
          /\ Goto(c, "ended")
          /\ UNCHANGED cancel
       \/ /\ pc[c] \notin {"polling", "connecting", "connected"}
          /\ UNCHANGED <<pc, cancel>>
    /\ UNCHANGED <<files, seen, phase, ipc, server, owned, backend>>

\* The process is killed, at any point.
Crash(c) ==
    /\ c \in Mortal
    /\ pc[c] \in Waiting \cup Critical \cup {"returned", "connected"}
    /\ Goto(c, "crashed")
    /\ seen' = [seen EXCEPT ![c] = None]
    /\ UNCHANGED <<files, aborted, daemon>>

\* A process that ended closes its channel, which the daemon sees as a
\* disconnect.
HangUp(c) ==
    /\ pc[c] \in {"failed", "ended", "crashed"}
    /\ c \in ipc
    /\ ipc' = ipc \ {c}
    /\ Cancel(c)
    /\ UNCHANGED <<files, connector, phase, server, owned, backend>>

----------------------------------------------------------------------------
(* The daemon: runDaemon.                                                  *)

\* The finally of runDaemon up to its first await: the backend stops, the
\* channel closes, the clients are disconnected and the server closes.  Node
\* unlinks the path of a server that closes.
Cleanup(d) ==
    /\ Becomes(d, "cleaning")
    /\ backend' = backend \ {d}
    /\ CloseChannel(d)
    /\ pc' = [c \in Connectors |-> IF pc[c] = "connected" /\ seen[c] = d
                                   THEN "ended" ELSE pc[c]]
    /\ sockFile' = IF phase[d] \in {"listening", "published", "serving"}
                   THEN None ELSE sockFile

Boot(d) ==
    /\ phase[d] = "spawned"
    /\ cancel[d] # "seen"
    /\ sockFile' = None
    /\ backend' = backend \cup {d}
    /\ Becomes(d, "starting")
    /\ UNCHANGED <<lock, stateFile, connector, ipc, cancel, server, owned>>

\* The backend accepts connections; the CLI socket follows.
BackendReady(d) ==
    /\ phase[d] = "starting"
    /\ cancel[d] # "seen"
    /\ Becomes(d, "ready")
    /\ UNCHANGED <<files, connector, ipc, cancel, server, owned, backend>>

\* bind fails when something is at the path.
Listen(d) ==
    /\ phase[d] = "ready"
    /\ server' = server \cup {d}
    /\ \/ /\ sockFile = None
          /\ sockFile' = d
          /\ Becomes(d, "listening")
          /\ UNCHANGED <<pc, ipc, cancel, backend>>
       \/ /\ sockFile # None
          /\ Cleanup(d)
    /\ UNCHANGED <<lock, stateFile, aborted, seen, owned>>

\* The rename of the temporary state file.
Publish(d) ==
    /\ phase[d] = "listening"
    /\ cancel[d] # "seen"
    /\ stateFile' = d
    /\ Becomes(d, "published")
    /\ UNCHANGED <<lock, sockFile, connector, ipc, cancel, server, owned, backend>>

\* The handlers of the channel go, startup-ready is sent, the channel closes.
Own(d) ==
    /\ phase[d] = "published"
    /\ cancel[d] # "seen"
    /\ Becomes(d, "serving")
    /\ owned' = owned \cup {d}
    /\ CloseChannel(d)
    /\ UNCHANGED <<files, connector, server, backend>>

\* A startup is cancelled, or a step of it fails.
StartupFails(d) ==
    /\ \/ phase[d] \in Unpublished
       \/ phase[d] = "published" /\ cancel[d] = "seen"
    /\ Cleanup(d)
    /\ UNCHANGED <<lock, stateFile, aborted, seen, server, owned>>

\* The event loop of a starting daemon sees the message or the disconnect.
SeeCancel(d) ==
    /\ phase[d] \in Unpublished \cup {"published"}
    /\ cancel[d] = "sent"
    /\ cancel' = [cancel EXCEPT ![d] = "seen"]
    /\ UNCHANGED <<files, connector, phase, ipc, server, owned, backend>>

\* Three hours without a client, SIGTERM, or the exit of the backend.
Shutdown(d) ==
    /\ phase[d] = "serving"
    /\ Cleanup(d)
    /\ UNCHANGED <<lock, stateFile, aborted, seen, server, owned>>

ReadOwnState_skipped(d) ==
    /\ phase[d] = "cleaning"
    /\ Becomes(d, "unlinking")
    /\ UNCHANGED <<files, connector, ipc, cancel, server, owned, backend>>

\* Does the state file name this daemon?
ReadOwnState(d) ==
    /\ phase[d] = "cleaning"
    /\ Becomes(d, IF stateFile = d THEN "removing" ELSE "unlinking")
    /\ UNCHANGED <<files, connector, ipc, cancel, server, owned, backend>>

\* It did; by now it may name another.
RemoveState(d) ==
    /\ phase[d] = "removing"
    /\ stateFile' = None
    /\ Becomes(d, "unlinking")
    /\ UNCHANGED <<lock, sockFile, connector, ipc, cancel, server, owned, backend>>

\* The path goes, whoever is bound there, and the process exits.
RemoveSocket(d) ==
    /\ phase[d] = "unlinking"
    /\ sockFile' = IF d \in server THEN None ELSE sockFile
    /\ Becomes(d, "exited")
    /\ UNCHANGED <<lock, stateFile, connector, ipc, cancel, server, owned, backend>>

\* SIGKILL: the files stay, and so does the detached backend.
Kill(d) ==
    /\ d \in Fragile
    /\ phase[d] \notin {"none", "exited", "killed"}
    /\ Becomes(d, "killed")
    /\ CloseChannel(d)
    /\ pc' = [c \in Connectors |-> IF pc[c] = "connected" /\ seen[c] = d
                                   THEN "ended" ELSE pc[c]]
    /\ UNCHANGED <<files, aborted, seen, server, owned, backend>>

----------------------------------------------------------------------------
Locking(c) ==
    Start(c) \/ TakeLock(c) \/ SeeStaleLock(c) \/ BreakLock(c) \/ LockRefused(c)

Ensuring(c) ==
    \/ ReadState(c) \/ Probe(c) \/ Clear(c) \/ Spawn(c) \/ SpawnRefused(c)
    \/ PollState(c) \/ PollServer(c) \/ GiveUp(c) \/ Settle(c) \/ Release(c)

Serving(d) ==
    \/ Boot(d) \/ BackendReady(d) \/ Listen(d) \/ Publish(d) \/ Own(d)
    \/ StartupFails(d) \/ ReadOwnState(d) \/ RemoveState(d) \/ RemoveSocket(d)

Next ==
    \/ \E c \in Connectors : \/ Locking(c) \/ Ensuring(c) \/ Authenticate(c)
                             \/ Abort(c) \/ Crash(c) \/ HangUp(c)
    \/ \E d \in Daemons : Serving(d) \/ SeeCancel(d) \/ Shutdown(d) \/ Kill(d)

\* Processes that live keep running, messages arrive, a free lock is tried
\* again, and the deadline of waitForServer is checked in every round.
\* Nothing is assumed of the user, the signals or the backend.
Fairness ==
    /\ \A c \in Connectors :
          /\ WF_vars(Locking(c) /\ pc[c] # "idle")
          /\ WF_vars(Ensuring(c))
          /\ SF_vars(GiveUp(c))
          /\ WF_vars(Authenticate(c))
          /\ WF_vars(HangUp(c))
    /\ \A d \in Daemons : WF_vars(Serving(d)) /\ WF_vars(SeeCancel(d))

Spec == Init /\ [][Next]_vars
FairSpec == Spec /\ Fairness

----------------------------------------------------------------------------
(* Properties.  A connector that dies leaves its lock to be broken, and    *)
(* two that break it at once can both enter (SeeStaleLock, BreakLock): the *)
(* claims about the lock are made for the behaviours in which none died.   *)

NoneCrashed == \A c \in Connectors : pc[c] # "crashed"

\* One connector at a time is under the lock (acquireLock).
LockExclusive ==
    \A c \in Connectors : pc[c] \in Critical => lock = c

\* A daemon that is starting up has a connector that waits for it under the
\* lock: cancelling a startup, failing it or missing its deadline never lets
\* a second startup begin beside it (ensureServer).
StartupLocked == \A d \in Daemons : phase[d] \in Unpublished => lock = d

\* The state ensureServer is about to return is the one of the daemon behind
\* the socket path, whose token it carries: the state of a dead daemon is
\* gone before another daemon binds the path (ensureServer, runDaemon).
TokenMatches ==
    \A c \in Connectors :
        pc[c] = "leaving" /\ seen[c] # None /\ Accepting => sockFile = seen[c]

\* Unless a connector died, connectors find and start daemons as if one at a
\* time (ensureServer, acquireLock).
LockProtects == NoneCrashed => LockExclusive /\ StartupLocked /\ TokenMatches

\* A daemon that exits, whether cancelled at any point of its startup, failed
\* or shut down, leaves no backend, no socket and no state that names it.
ExitClean ==
    \A d \in Daemons : phase[d] = "exited" =>
        d \notin backend /\ stateFile # d /\ sockFile # d

\* Every connector ends its business with the lock, whatever the others do:
\* it is connected, it failed or it died.
ConnectorsEnd ==
    \A c \in Connectors : pc[c] \in Waiting \cup Critical \cup {"returned"}
                          ~> pc[c] \in {"connected", "failed", "ended", "crashed"}

\* A startup that saw its cancellation ends, and takes its backend with it.
CancelledStops ==
    \A d \in Daemons : cancel[d] = "seen"
                       ~> phase[d] \in {"exited", "killed"}

\* Nothing that has begun under the lock goes on for good.
StartupsEnd == ConnectorsEnd /\ CancelledStops
=============================================================================
