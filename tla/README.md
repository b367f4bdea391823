# Formal models of remote-ssh

TLA+ models of the remote-ssh extension: its SSH helper, the server it installs
on a remote host, and the web gateway of that server. TLC checks the models on
small instances; TLAPS proves the theorems listed below for every instance.

## Inventory

| Part | Source | State it keeps | Operations | What makes it correct |
|---|---|---|---|---|
| SSH transport | `node/src/parts/SshTransport` | one `RemoteConnection` per ssh child: stage, readiness, backend RPCs, open requests, forwarded ports; a map of connection setups per host | setup, cancel, close, invoke, forward and stop ports, dispose | one setup per host and generation; a close is reported once; a forward has an owner as long as it is open |
| Connection session | `node/src/parts/ConnectionSession` | active transport, calls, waiters and queued open requests, the switch in progress | invoke, switch, roll back, wait for open requests | no call is lost or replayed by a switch; the original survives a failed update |
| Backend router | `node/src/parts/BackendRouter` | the selected backend, open sockets | upgrade, setBackend, abort | new sockets reach the active backend |
| Workspace RPC | `node/src/parts/WorkspaceBackendRpc` | one WebSocket, callbacks by id, two timers | open, invoke, close | every call settles, with its own answer or with the connection |
| ssh processes | `node/src/parts/SshProcessRegistry` | live ssh and scp children | register, dispose | no child survives the helper |
| Installer | `node/src/parts/ServerInstaller` | on the remote: two lock directories, versioned directories | install, clean up, transfer | one installer writes; no version in use is removed |
| Remote file system | `node/src/parts/SshFileSystem`, `SshWorkspace` | none | file operations | rename does not overwrite |
| Pure helpers | `ServerCompatibility`, `ServerManifest`, `RemoteSshUri`, `SshConfigHosts`, `ConnectionError` | none | parse, compare, format | reference definitions |
| Server daemon | `server/src/remoteSshServer.ts` | lock, state and socket files; daemon and backend processes | connect, start, cancel, publish, shut down, clean up | one startup at a time; nothing left behind |
| Remote CLI | `server/src/parts/RemoteCli`, `extension/src/parts/RemoteCli` | CLI socket, clients | open request to the last client | a request reaches one window or is refused |
| Web gateway | `server/src/RemoteWebGateway.ts`, `RemoteWebControl.ts` | pairings, sessions, tickets, WebSockets, previews | pair, ticket, upgrade, check account, revoke, close | a revoked session keeps nothing |
| HTTP preview | `server/src/RemoteHttpPreview.ts` | grants by address, the requests under way through each | create, serve, expire, revoke, close | a preview and its requests die with its session |
| Cloudflare tunnel | `server/src/CloudflareTunnel.ts`, `CloudflaredBinary.ts` | a lock with its owner, the saved enrollment, the token file, the control socket, cloudflared | enable, disable, download | one gateway per port; the only credential of an enrollment is kept; what ends leaves nothing |
| Containers | `server/src/RemoteContainer.ts` | docker containers | open a dev container | one container per workspace |
| Editor extension | `extension/src/parts` | one helper process, cancellable connects, open-request loops, bridges of ports | connect, watch, bridge, dispose, deactivate | a cancelled setup does not open; a disposed connection is not reused |
| Web extension | `web-extension/src/parts`, `shared/src` | sessions, WebSockets per backend, account grants | connect, reconnect, benchmark | a stale generation is not used |
| Build and tests | `build`, `e2e`, `e2e-helpers`, `scripts` | | | not modelled: tooling |

(The paths are below `src/packages/`.)

How they interact: the extension talks to one helper process (node); the helper
keeps a connection per host, each an ssh child running `remoteSshServer connect`
on the remote; that process finds or starts the daemon, which owns the workspace
backend and passes open requests of the remote CLI back over the connector's
stdout. The web gateway is another entrance to the same backend.

Hard behaviours, by kind: steps of two processes on shared files (daemon,
installer, tunnel); state read before an await and used after it (session
switch, port forwards, gateway, web client); close and failure events that
arrive after their object was replaced (hosts, session); partial failure of a
startup with cleanup (daemon, hosts, containers); polling and timeouts that race
the answer (waitForServer, account check, connect). `PROJECT.json` lists each at
its line.

## Plan

Order: what carries every remote workspace first, then its entrances.

| Step | Module | State |
|---|---|---|
| 1 | `ConnectionSession`, refines `SessionContract`; proofs in `ConnectionSessionProofs` | done |
| 2 | `RemoteDaemon`; proofs in `RemoteDaemonProofs` | done |
| 3 | `GatewayAccess`, refines `GatewaySessions`; proofs in `GatewayAccessProofs` | done |
| 4 | `GatewayWorkspace`, built on `GatewaySessions`, with the HTTP previews; proofs in `GatewayWorkspaceProofs` | done |
| 5 | `PortForwards`; `RemoteConnection`, which composes the ports with the calls of the workspace backend and refines `BackendContract`; proofs of both in `RemoteConnectionProofs` | done |
| 6 | `HostConnections`, `HostConnectionsProofs` | done |
| 7 | `ServerInstaller`: the install script with its locks, archives, promotion and cleanup; proofs in `ServerInstallerProofs` | done |
| 8 | `WebConnection`: the browser's connection, its generations, connects, restorations and secret storage; proofs in `GatewayWorkspaceProofs` | done |
| 9 | `WorkspaceSetup`: the connects of an editor window, their progress and cancellation; proofs in `WorkspaceSetupProofs` | done |
| 10 | `CloudflareTunnel`: enrollment, gateway process and disabling over the files of a port; proofs in `GatewayAccessProofs` | done |
| 11 | `ExtensionHost`: the helper process, the bridges of `ProcessConnection`, the watch loops of `RemoteCli`; proofs in `WorkspaceSetupProofs` | done |
| 12 | version compatibility and the choice of an installed server, against a reference definition | planned |

Composition: `GatewayAccess` and `GatewayWorkspace` meet in `GatewaySessions`.
`HostConnections` ends where a connection is open; `RemoteConnection` is what
such a connection serves, and `ConnectionSession` puts two of them behind one
host: what it assumes of a call is `BackendContract`. `RemoteDaemon` is the
process at the other end. `WorkspaceSetup` is the caller of `HostConnections`:
its `told` are the cancellations there. `ExtensionHost` is the rest of that
extension: its `Wait` takes a place in the `waiters` of `ConnectionSession`.
`CloudflareTunnel` runs the gateway of `GatewayAccess`, whose account check asks
the backend about the same enrollment.

## How the modules are written

A step is what runs between two awaits of one event loop, or one system call of
one of several processes. Each module says in its header which, and what it
leaves out. A definition whose name has a suffix in lower case, as
`Issue_unchecked`, is a wrong variant of the definition below it; it is no part
of the specification and shows that a property would notice. `MC*.tla` modules
name the specification TLC checks, `MC*.cfg` its constants. Constants are model
values without symmetry sets, most runs check liveness, for which symmetry is
not sound; the exception is `web`, which checks safety only.

Proofs are in modules of their own, one for what stands at one end of an
interface: the browser with the gateway's workspaces, the tunnel with the
gateway it leads to, the extension host with the setups of its windows. For that
reason `WebConnection`, `CloudflareTunnel` and `ExtensionHost` name their
specification, variables and types after themselves (`WebSpec`, `webVars`,
`WebTypes`), and `Optional` has the one constant, `None`, that such modules
share. The two components of a proof module share nothing else, no lemma either.
Each proof has the same shape: an inductive invariant that TLC has checked on
the component's run, lemmas by part of it or by action, and the theorems that
follow from it by temporal logic.

## ConnectionSession and SessionContract

One host whose session began on an older compatible server. `link` is what the
session sees of its two `RemoteConnection`s; `active`, `closed`, `switching`,
`requests` and `waiters` are the fields of `ConnectionSession`; `selected` is
the router's backend; `updater` is the position of the background task in
`createConnection`. `call`/`route` are `invokeBackend` promises and the
transport they were issued on; `socket` the backend an editor socket is pinned
to.

Actions follow the code: `Invoke`, `Thaw`, `Answer`, `CallBreaks` (invokeBackend
and its RPC); `Upgrade` (router); `InstallEnds`, `Ready`, `ProbeAnswers`,
`BackendFetched`, `SwitchCommits`, `SwitchFails`, `UpdateFails` (the update and
`switchTo`, one action per await); `CloseTransport`, `RollbackSettles`, `Abort`
(`connectionClosed` and the signal); `OpenArrives`, `Watch`,
`WaitForOpenRequest` (open requests).

Run `session`: 2 calls, 1 socket, 2 open requests, 2 waiting callers. Two calls
are one inside the drain and one that comes during it; two requests and two
callers are what an order needs. It shows that an unaborted session has a usable
active transport, that the router follows it except in a rollback (and then
recovers), that the freeze is complete, that no call or socket is cut off but by
the loss of its own transport, that the open requests of a transport which is
not closed are all kept, once and in order, that every call ends, and that the
session implements `SessionContract`: a call begins on one carrier and never
begins again, fails only with its carrier, and a closed connection begins
nothing.

A transport that closes, after a failed update or the retirement of the old one,
takes with it the open requests that its watch loop had not passed on, although
the session goes on; if the loop had not begun, all of them. Nobody is told: to
the command line such a request was accepted. `OpenRequestsKept` says so: of a
closed transport the session has a first part of what came, once and in order.
That a loop which runs on an open transport passes on everything is checked
under fairness, as a part of `SessionSettles` (`RequestsPassedOn`).

Fairness: promise reactions run, those of the watch loops too; a running call is
answered or its two-minute timeout breaks it. Nothing is assumed of
installation, spawn, probe or user.

Proved (`ConnectionSessionProofs`): `TypeOK`, `ActiveServes`, `NothingCut`,
`ImplementsContract`. The invariant adds what these lack: the position of the
updater fixes the state of its link and, before the commit, that the session is
the original's alone; closed transports are those whose close was reported;
calls and sockets use ready transports; the calls of a drain only become
settled. Without the last, a call could be thought to be pending again after the
drain ended. The refinement proof maps each action to a step or a stutter of the
contract.

`RequestsServed` has an invariant of its own (`OpenInv`): a request is received
once, what a transport still holds is its own, the session makes none up, and no
caller waits twice. The argument is about what is `Delivered`, the requests
handed over and then those queued: as nothing is queued while a caller waits, a
delivery always goes to its end (`DeliverDelivers`), and a caller moves the
border only (`TakenFromFront`). A request of the other transport that comes
between those of this one keeps their order because it is not among them
(`InsertKeepsOrder`). When a transport closes, what was delivered before is the
first part of what it sent (`FirstPartOfWhole`), and stays so because nothing of
it is delivered afterwards. `OnceInOrder` says by positions that the requests of a
transport occur once each and in their order, rather than by filtering the
sequence: a filter is recursive and could not be reasoned about. Liveness is
checked only.

## RemoteDaemon

Connectors (`remoteSshServer connect-or-start`) and daemons that share a lock
directory, a state file and a socket path. `pc` is a connector's position in
`connectOrStart`/`ensureServer`/`waitForServer`, `phase` a daemon's in
`runDaemon`; `cancel` is the cancel-startup message or disconnect under way,
`ipc` the channels, `server`, `owned`, `backend` what a daemon has.

Run `daemon`: 2 connectors, each of which may spawn a daemon, so an old and a
new daemon exist; connector c1 and daemon c2 may be killed. With two, every pair
of steps on the shared names interleaves; a third connector would only repeat
the role of the second. It shows that the lock excludes and covers every
startup, that the state a connector returns belongs to the server behind the
socket path (its token works), that a daemon leaves nothing of its own, that
connectors end and that cancelled startups stop. The claims about the lock hold
for behaviours in which no connector was killed: two that break a stale lock at
once can both enter, and the model has those steps.

Fairness: live processes run, messages arrive, the deadline of `waitForServer`
is looked at in each round (strong: the rounds disable it in between). Nothing
is assumed of signals, users or the backend.

Proved (`RemoteDaemonProofs`), for any number of connectors and daemons: types,
`LockProtects` and `ExitClean`. The invariant adds how a startup is alone: while
a daemon has not published, its connector polls or waits for it to settle over a
channel that is open, no state file exists, and nobody else is bound to the path
it listens at; so a state that is read names the daemon of the path, and keeps
doing so under the lock. That no connector died is a premise of this part only:
a daemon that exits is clean whoever dies. The number of connectors is free, so
is who may be killed (`Mortal`, `Fragile`). Assumption: `None` is no connector.

Two things the model has and no property denies. A daemon that ends removes the
socket path whoever is bound there, and its startup may have failed with the
lock already released: its successor then serves without being reachable,
although src/README.md says it remains available for reconnects. And readiness
is published before ownership moves: a connector that aborts in between tears
down a daemon that another one was given.

## GatewayAccess, GatewayWorkspace and GatewaySessions

`GatewayAccess` is how a browser gets a session and loses it: pairing links,
account grants with their nonces (`used`, cap `MaxUsed` for 128 in the code),
the room for sessions (`MaxSessions` for 16), expiry, the account check with its
late answers, revoke-web and close. `GatewayWorkspace` is what a session holds:
single-use tickets (`MaxTickets` for 64), socket pairs, one dev container and a
terminal per pair, previews of HTTP servers and the requests under way through
them, and what revocation and close do to them. The previews of a session are
one, in `granted`, and so are its requests, in `served`: a revocation takes them
together. `GatewaySessions`
is their common abstraction: sessions come, and go for good, alone, together or
with close. `GatewayAccess` is proved to implement it, `GatewayWorkspace` takes
its actions as its session steps.

Run `access`: 3 browsers, 3 credentials, room for 2 sessions and 2 remembered
nonces: every cap is reached, and there is a credential beyond each. It shows
that a credential gives one session however grants are refused, retried and
forgotten, that a denied gateway has none, that a session which is created
leaves the others as they are, and that a removed tunnel loses its sessions. The
last is as strong as the code allows: a failed check ends no session, and the
next answer does, whenever it comes. src/README.md promises more in two places
(see Findings). Fairness: the timer fires, a check ends within its timeout, and
the backend answers again and again.

Run `workspace`: 2 sessions and 2 tickets with a cap of 1: one session is
revoked while the other goes on, and a ticket is refused. It shows that a
revoked session keeps nothing, no preview either, even when its container starts
late, that no request is served through a grant that is gone, that other
sessions keep their sockets, that terminals and containers end and that close
returns. Fairness: containers start or fail within their deadline, removals and
terminal commands end, and terminated sockets report their close.

Proved (`GatewayAccessProofs`): types, one session per credential, no session
under denial, and the refinement of `GatewaySessions`. The invariant adds why a
credential cannot return: the grant of a session is remembered or expired, its
link is not the current one; and that a denial blocks new sessions as long as it
lasts. Assumption: `None` is not a credential.

Proved (`GatewayWorkspaceProofs`): types, `RevokedKeepsNothing`,
`OnlyRevokedTerminated`, and that sessions come and go here as `GatewaySessions`
says, which the other half implements: what each half may assume of sessions is
what the other does. The invariant adds that a terminal came through a pair,
whose ticket is then used up. Assumption: `None` is not a session.

## PortForwards

`forwardPort` and `stopForwardPort` for one remote port of one connection: the
map entry (`local`, `owners`, `forwarding`, `stopping`), the calls that wait for
it, and the ports ssh listens on. Callers resume together when the control
command they wait for ends, as the promise reactions do. The run is `connection`
(below), whose steps include these. It shows that a workspace that asked for the
port or has it keeps it until it stops it, and that no listener is forgotten
that could not be cancelled. Both are proved in `RemoteConnectionProofs`; the
invariant adds that a stop that runs means an open forward, that an open forward
listens, that nothing listens while a forward is being set up, and where waiting
callers stand.

## RemoteConnection and BackendContract

A ready `RemoteConnection`: `PortForwards` and the calls of the workspace
backend, which meet in `close`. `rpc` is the map `backendRpcs` by process type,
`socket` and `nextId` are a `WorkspaceBackendRpc`, `call`, `on` and `id` the
promise of `invokeBackend`, its RPC and its request; `answers` are the responses
under way or being read, in any order, also after their socket has closed;
`given` records whose answer a call was given.

Actions: `Invoke` (the RPC of the type or a new one), `SocketOpens`, `Send`,
`BackendAnswers`, `HandleAnswer`, `TimesOut` (the two minutes of a request),
`SocketEnds` (close, error, ten seconds without a handshake, or an answer that
is none), `DisposeBackendRpcs`, `CloseConnection` (ssh exits, the signal aborts,
or a call was rejected: `Break`), and the steps of the ports.

Run `connection`: 3 workspaces (one that stops, one that joins, one that waits),
2 local ports (a cancelled and a fresh one), 2 calls, 2 types, 2 RPCs: two calls
share an RPC, or use two, or one uses the RPC that replaces the other's. A type
has one RPC at a time, and an RPC that carries a call does not end without the
connection, so that a third would come after an idle end of the second. The run
shows that a running call rides on an RPC that is in the map and has not ended,
that a call is given the answer to its own request, and that the connection
implements `BackendContract`: a call is answered, or fails in the step in which
the connection closes, none begins afterwards, and each comes to its end. The
last is what `ConnectionSession` takes for granted in `Answer` and `CallBreaks`.
Fairness: timers fire, and a handshake or an opened socket lets a call be sent.
Nothing is assumed of the backend: its silence ends a call by the timeout.

Proved (`RemoteConnectionProofs`): `CallsSound`, for any number of calls, types
and RPCs; that the ports behave as `PortForwards` says (`PortsCompose`), so that
`PortsKept` holds of the whole connection; and that the calls implement the
safety part of `BackendContract`. The invariant adds that a running call has its
RPC, that the ids an RPC gave out are behind its counter and differ, and that an
answer names the RPC and the id of its call: ids begin again with each RPC, so
that an id alone does not say whose answer it is. Assumptions:
`RpcAssumption` and those of `PortForwards`.

## HostConnections

The `connections` map of the helper for one host: setups (`stage`, `round`,
`aborted`, `ops`), their ssh children, the calls that wait, cancellation,
`disposeWorkspace` and the disposal of the helper. A setup has two rounds: the
second begins after an installation. Listeners of an abort are part of the step
that aborts, as they are in the code. `Fresh` chooses the next unused setup:
setups are interchangeable.

Run `hosts`: 2 connects with an operation, 1 call without, 2 setups. Two setups
are the old one whose events come late and the new one they must spare; two
operations are one that cancels and one that stays. It shows that the map holds
the only setup that was not aborted, that no ssh child but its own runs untold,
that disposal tells every child, that a cancellation spares the other connects,
and that calls end. Fairness: a control path is removed, ssh answers within the
handshake timeout, a router listens or fails, an installation ends, a child that
was told to end does (SIGKILL follows). When stdin fails without EPIPE, before
the connection is ready or after, only the master of its control path is told to
stop and the setup loses a child that may go on (`Loses`): such a stray child is
not assumed to end.

Proved (`HostConnectionsProofs`): `TypeOK`, `HostOwned`, `CancelSpares`. The
invariant adds that an abort has reached every connection, that an operation
belongs to one setup and came with its call, and that an uncancelled operation
is associated with the setup it waits for; the last is what `CancelSpares` needs
and a setup's `ops` alone do not say. Assumptions: the constants are disjoint
(`NoneAssumption`, `ResultsAssumption`, `CallsAssumption`). Liveness is checked
only. The transport of a background update is in `ConnectionSession`, not here.

## WebConnection

The session of the browser editor. `options` is `state.options` of
`RemoteServerConnection`; the generation counter is the set `fresh` of tasks
whose captured generation is the current one, which `set` and `dispose` (`Use`)
empty, and `newest` is who drew the last `pairingAttempt`. `connect`, `given`
and `previous` are the position and the locals of `connectWithPairingUrl`,
`prepare` those of `prepareWorkspace` for the page and for the switch, `switch`
and `back` those of `reopenInContainer`, `reopenOnHost` and
`switchContainerWorkspace`. `queue` and `saved` are the serialized operations on
secret storage, `restoring` and `waiting` the shared restoration. Options that
compare by identity in the code carry where they come from (`from`).

Actions: one per await of each call (`Connect`, `Paired`, `CliTicket`, `Opened`,
`OpenFails`; `OpenPage`, `Restored`, `Checked`, `Authorized`;
`ReopenInContainer`, `ContainerStarts`, `Confirmed`, `PrepareSwitch`,
`Switched`, `SwitchFails`), one per storage operation and its failure,
`Disconnect`, `SignOut`, `Refused` (the expiry timer or a 401),
`ReleaseWorkspace`, `Reload` of the page, and sockets.

Run `web`: two connects, one of two sessions for an account, one socket. Two
connects are an older and a newer one; a third is again older than some newer
one. `Bounds` of the MC module keeps two calls and two storage operations under
way, or fewer beside a socket: a property here is about one call that ends late
and one that came after it. One `prepareWorkspace` runs at a time. The run shows
that an open socket belongs to the connection in use, that a session which was
disconnected or refused is neither used nor saved again, and that the late end
of a call takes no newer connection away. The last two hold until a container
switch has overridden what was set while it confirmed (`overrode`): that is the
finding of `web_forgotten`, and `Bounds` stops there. A delete that storage
refuses, or that a reload cuts off, leaves its session saved; the properties
then do not count it as given up. There is no fairness: every property here is
about safety.

Proved (`GatewayWorkspaceProofs`), for any number of tokens, connects and
sockets, and without the bounds of the run: `WebTypes`, `HeldCurrent` and
`NewerKept`. The invariant `WebInv` has three parts beside the types. Options
that are in use, saved, waiting to be saved or kept to come back were given by a
gateway (`OptionsKnown`, `AttemptsKnown`, `StoredKnown`). What is still fresh
saw the connection in use (`AwaitFresh`, `SocketsFresh`, `SwitchFresh`): this is
what a comparison of generations after an await is good for. And up to the
finding below (`overrode`), a session that was given up is not in use, and
wherever storage has it or is about to save it, a delete is queued behind
(`GivenUpSwept`); for a restoration that still counts the same holds of the
place of its load in the queue. A connect that fails puts back what it replaced,
which may itself have been set by a connect that fails later; `UndoKept` says
there is a set of connects that may be undone, closed under this, whose previous
sessions are not given up. `NewerKept` is about one step, and needs `WebInv`.
Assumptions: the tokens of accounts are tokens (`AccountsAssumption`), `None` is
neither options nor the name of a connect or task (`AbsentAssumption`), and the
names of connects, sockets and tasks differ (`NamesAssumption`): in the code
each is a variable or object of its own.

## ServerInstaller

The versioned installations of one remote host. `version` and `attempt` are a
call of `installServer` and its loop, `pc` the next command of its script,
`part` what the script is at, the other script variables are the shell's.
`lock`, `cleanupLock`, `installed`, `aged` and `archive` are the directories of
the host; a lock is who made it (a history) and the pid in it, `writing` whose
`cat` still has the file of an archive. A pid is a call and its attempt, so no
pid is used twice: a dead owner's pid is never somebody else's.

Actions: the commands of the script in their order (`CleanupMkdir` to
`CleanupPid`; `LockMkdir`, `Release`, `Look`, `Break`, `Wait`, `WritePid`;
`Download`, `Verify`, `Extract`, `Prepare`, `Remove`, `Move` for the runtime and
for the server; `Drop`; `Sweep` to `SweepEnds`; the trap, `ExitLock` and
`ExitCleanup`), the helper's `Start`, `Transfer` and `StartServer`, and `Killed`
and `Interrupted`. What others cannot see goes with the command before it. A
recursive removal, a download and the two tests of line 186 are one step each.

Run `installer`: 2 calls, 2 versions with one runtime, one of them old and maybe
on the host, 2 attempts, 1 kill. Two calls of one version share a lock, two of
different versions the runtime, the cleanup lock and the cleanup; the second
attempt is the one after a transfer and also the last. The thresholds of the
waits (10 and 300 turns) are 0 and 1: that they are reached at all is what
matters, and `BareTries <= LockTries` keeps their order. `NewFirst` says which
of the two calls is of a new version, for they are alike. It shows that one
script at a time installs a version, that a promoted server is only taken by a
cleanup, which takes old ones nobody installs, and that every call ends, whoever
was killed holding which lock. Fairness: shells, helpers and transfers go on or
fail.

The script leaves two windows in which a lock is taken from a script that lives,
and `LocksProtect` claims nothing of a lock once that has happened to it. First,
the look at a lock and its `rm -rf` are two commands (169, and 191 to 206): of
two scripts that wait for the lock of a third, which died, the slower removes the
new lock of the faster. Second, a lock without a pid is removed after ten turns
(166, 202), also when its maker is only slow between its `mkdir` and its pid;
that needs no kill. `Robs` says when a removal does this; `robbed` has the
versions whose install lock was robbed, `cleanupRobbed` is the same for the
cleanup lock. What was robbed of one version does not weaken what is claimed of
another. After a robbery two scripts do install the same version at once: the
model has that, and no property denies it.

Proved (`ServerInstallerProofs`), for any number of calls, versions, attempts and
turns: types and `LocksProtect`. The invariant says, lock by lock and until it is
robbed, that a script between its `mkdir` of the install lock and its trap has
that lock, with no pid or its own in it; that the same holds of the cleanup lock;
that a server which is built or removed for building is not there; and that the
version a cleanup is about to remove is old and unlocked. The last is why the
cleanup lock is held around the `mkdir` of an install lock and around the
cleanup: no install lock appears between the cleanup's look and its removal.
Assumption: `None` is neither a pid nor a lock.

What the model reaches and no property denies: versions share a Node runtime but
not an install lock. Of two first installations one may remove the runtime that
the other has promoted (line 268), and the version that was reported as
installed then does not start (`startFailed`), without any fault or kill. And an
old server may be removed between the test that found it there (line 186) and
its start, which `ServersKept` does not cover: the script that found it holds no
lock then.

## WorkspaceSetup

The connects of one editor window: the command, the restoration at activation
and the preparation of a workspace. `pc` is the position in `connect` or
`restore` and, while it connects, in `connectWithProgress`; `poll` that of
`pollProgress`; `op` the call of the helper; `active` and `result` its locals.
`operation` and `shown` are `workspaceProgressState`, `bar` is the progress the
editor shows, `backend` and `watched` what `WorkspaceConnection.set` and
`RemoteCli.watch` were given.

Actions: `Started`, `Connected`, `ConnectFails`, `Cancelled` (the race),
`LastLook`, the poll (`PollSees`, `PollGoesOn`, `PollCancelled`,
`PollAnswered`), the `catch` and `finally` of each call (`Prepared`, `Failed`,
`GivesUp`, `Caught`, `Reported`), `openWorkspace` with its two looks,
`CancelProgress` of the user and `Deactivate`. An answer of the editor and its
use are one step: the user may cancel before it or after it. A look that the
editor does not answer sees nothing, as in the code (`isProgressCancelled`
catches); such setups are `blind`, and the first property is not claimed for
them.

Run `setup`: two setups, of which one is the command (`OneCommand`) and the
other restores or prepares. Two are what sharing a progress needs. It shows that
a setup which is cancelled before its last look neither opens nor reports an
error, whether the cancellation meets the poll, the last look, or an error it
caused itself; that no progress of a setup that is over stays on the screen, and
messages go to the one that is shown; and that every setup ends once the helper
has answered or the user has cancelled, even if the helper never answers.
Fairness: promises resume, the helper answers a poll, and looks do not fail for
ever (strong, for the poll that has to see a cancellation). `setUri` may end the
extension, so nothing is assumed of it.

Proved (`WorkspaceSetupProofs`), for any number of setups: types and
`UserHeeded`. The invariant adds that only a progress with a number can be
cancelled, that whoever gives up has told the helper, that whoever is past the
race and does not give up has the helper's answer, and that a message with a
number is that of the operation the provider is in. Assumption: `None` is no
setup.

A setup that is cancelled between its two looks leaves its backend and watch
loop behind; the model has that and no property denies it.

## ExtensionHost

What the editor extension keeps open besides setups. `helper` is the promise of
`Rpc.ts`; `watching` and `loop` are `watcherTokens` and the loops of
`RemoteCli.ts`, with `waiters` and `queue`, the helper's queues for the host
(`ConnectionSession`), `given` and `request` for what becomes of an open
request; `generation`, `bridge`, `born`, `end` are `ProcessConnection.ts`, and
`backendOf` is who gave `WorkspaceConnection` the backend it holds: a bridge,
with its generation, or a setup.

Actions: the start of the helper and its failure; `SetupAsks`, `SetupAnswered`
and `SetupOpens`, what a setup of `WorkspaceSetup` does here, which sets the
backend and starts the loop in one step (`Watch`); `Wait`, `WaitFails`,
`Received`, `Opened`, `OpenFails`, `Retry` of a loop; `RequestArrives` and
`SessionEnds` of the host; `Connect`, `BackendKnown`, `BackendUnknown`,
`SocketOpens`, `BridgeEnds` of a bridge; `DisposeWorkspace`,
`DeactivateExtension`, `RpcDisposed`, `Activate`. All workspaces are folders of
one host: loops of different hosts share nothing but the helper.

Run `extension`: 2 workspaces, 2 loops, 2 requests, 1 bridge and one
deactivation (`MaxGenerations`), after which the extension may be activated
again. Two loops are one that was stopped and the one that took its place, or
those of the two folders; bridges do not meet, so one is enough. The run shows
that the loop registered for a workspace runs for it, that a request waits in
the queue or is held by one loop, that no bridge outlives the activation it was
made in, nor does the backend a bridge gave the window, however late the helper
answers; that a workspace that stays watched is asked for again after every
failure, that a port is bridged or closed, and that deactivate returns.
Fairness: the helper starts or fails to, its calls end, timers fire and the
editor's commands return.

Proved (`WorkspaceSetupProofs`), for any number of loops, workspaces, requests
and bridges and any cap on the activations: `ChannelsOwned`, with the types, the
helper's queues among them. The invariant adds that a loop has a request exactly
while it looks at it or has it opened (`GivenHeld`); without that, a request
could be given to a loop that already has one. Assumptions: `None` is no loop,
workspace, request or backend (`AbsentAssumption`), and `MaxGenerations` is a
number.

Three things the model has and no property denies. A setup that comes to its end
after `deactivate` sets its backend and starts its loop all the same, for
`openWorkspace` looks at no generation (`Connect.ts:305`): the backend, and the
loop, are then of an activation that is over. A loop that was stopped stays
in the helper's queue if the next workspace is a folder of the same host, since
the connection is kept: it swallows the next open request, which the command
line was told is accepted (`Received`). And a helper that did not start is never
started again (`GetRpc`).

## CloudflareTunnel

The processes of one gateway port. `pc`, `uses`, `recovered`, `child` and `stop`
are a process that enables: its position in `enable`, `runRemoteWebServer` and
`main`, the enrollment it uses, its cloudflared, and the steps of `stop`, which
runs once, called by the failure of `enable`, the end of `main` or a
`cloudflare-stop`. `task`, `found` and `gone` are a call of `disable`, by a
process of its own or by a gateway that ends. `lock`, `saved`, `tmp`, `token`
and `socket` are the files, with who made them; `enrollment` is what the account
backend knows. `stop` and `disable` take one step per file.

Run `tunnel`: two gateways and a disabling process; with the gateways' own
disabling there are up to three such calls. Two enrollments are the first and
the one that replaces it, and one crash of any process (`MaxCrashes`). It shows
that one gateway at a time holds the port, that the lock and the token it needs
are its own, that one which ended normally, by failure or by request has left
neither cloudflared nor files, that an enrollment the user was asked to approve
keeps its only credential until its tunnel is known to be removed, that an
`enable` ends or comes to serve, that a gateway ends which is told to stop, loses
its cloudflared or leaves, and that a `disable` ends. Two histories mark where
the code does not guard itself, and the properties stop there: `broken`, when
`disable` removes a lock or a token that is no longer the dead owner's, and
`mistaken`, when it removes an enrollment that was saved while its requests ran.
After a crash the control socket's path stays, and so does the lock if nothing
was saved yet: every later gateway of the port is then refused (`ListenFails`,
`Lock`), which ends it and is not denied by any property: that the next gateway
comes to serve is not claimed. Fairness: processes go on, a poll ends at its
deadline, requests within their timeout, and cloudflared ends when it is killed.

Proved (`GatewayAccessProofs`), for any number of gateways, disabling processes,
enrollments and crashes: `TunnelTypes` and `FilesOwned`. The invariant
`TunnelInv` says first what holds whatever is broken: where a gateway stands
bounds what it can have left (`Positions`), an owner that was found dead stays
dead (`OwnersKnown`), and the enrollment a `disable` read is gone before its
file is removed (`ReadGone`). Until `broken`, a gateway that claims the port
made the lock (`LockClaimed`), and its token and temporary file are written and
removed under that claim only (`FilesClaimed`): that is why there is one gateway
and why it leaves nothing of its own. Until `mistaken` as well, a gateway
enrolls only when everything the user was shown before is gone (`Replaceable`),
so that its rename replaces no credential that is still needed. Assumptions:
`None` is no gateway, enrollment or lock, no gateway is also one of the
processes that only disable, and `MaxCrashes` is a number.

## Findings

- `web_forgotten`: `reopenInContainer` does not look at the generation after it
  awaited the editor's workspace; a disconnect in between is undone, in memory
  and in secret storage. A connect in between is overridden in the same way.

Two sentences of src/README.md are not true of the code. Run `access` checks what
the code gives in their place, which its tests want as well:

- lines 190-191, "redeeming a new link revokes the previous browser session". The
  pairing of `RemoteWebGateway.ts:375-394` adds a session and leaves the others,
  up to sixteen; the test "pairing another browser preserves the first browser
  session" (`RemoteWebGateway.test.ts:447`) asks for that. `ImplementsSessions`
  holds: `Login` of `GatewaySessions` changes one session only.
- lines 322-325, sessions close within 45 seconds of a removal, and "Backend
  outages also close account sessions on the next failed check". The `catch` of
  `checkAccount` (`RemoteWebGateway.ts:244`) keeps the sessions and refuses new
  ones, as the test "temporary account-check failures preserve existing sessions
  and block new authorizations" (`RemoteWebGateway.test.ts:574`) asks. An outage
  keeps sessions for as long as it lasts, also those of a tunnel that was removed
  meanwhile; `RemovalCloses` holds because it assumes answers again and again.

## What is not proved, and not modelled

Every invariant and every action property of the passing runs is stated by a
theorem, and so is the refinement of each abstract specification, but for its
liveness. Liveness is out of the prover's reach and is model-checked only:
`SessionSettles`, `StartupsEnd`, `RemovalCloses`, `AllEnds`, `CallsEnd`,
`InstallsEnd`, `SetupsEnd`, `ChannelsEnd`, `TunnelEnds`, and of
`ImplementsCalls` that calls end. The bounds named above apply to these.

Not modelled, by component and with reasons: see `components` in `PROJECT.json`.
In short: the pure helpers are planned; the CLI socket of the daemon opens and
closes with it; file operations of the helper have no state of their own; build
and test tooling does not run in the product. Wording, progress messages and
output are left out everywhere.
