--------------------------- MODULE ExtensionHost ---------------------------
(***************************************************************************)
(* What the editor extension keeps open besides its setups                 *)
(* (WorkspaceSetup): the helper process it starts for the first call       *)
(* (Rpc.ts), a loop per workspace that waits for the open requests of the  *)
(* remote command line (RemoteCli.ts), and the bridges between ports of    *)
(* the editor and WebSockets of the backend (ProcessConnection.ts).        *)
(* disposeWorkspace ends those of a workspace, deactivate ends all.        *)
(*                                                                         *)
(* The workspaces are folders of one host, so that their loops wait in one *)
(* queue of the helper (ConnectionSession).  A step is what runs between   *)
(* two awaits of the extension; the promise reactions of an event belong   *)
(* to its step.  What is opened and what the bridges carry is left out.    *)
(*                                                                         *)
(* An operator with a suffix in lower case, as OpenFails_quits, is a wrong *)
(* variant of the definition below it, and no part of ExtensionSpec.       *)
(***************************************************************************)
EXTENDS Optional, Naturals, Sequences, SequencesExt

CONSTANTS Workspaces,
          Loops,        \* tokens of the loops that are started
          Requests,     \* open requests of the remote command line
          Bridges,      \* calls of ProcessConnection.connect
          MaxGenerations

\* A backend of WorkspaceConnection is set by a bridge, of the activation its
\* connect was made in, or by a setup, of whichever activation.
BySetup == [by |-> "setup"]
Backends == [by : {"bridge"}, of : 0 .. MaxGenerations] \cup {BySetup}

ASSUME AbsentAssumption == None \notin Loops \cup Workspaces \cup Requests \cup Backends
ASSUME GenerationsAssumption == MaxGenerations \in Nat

VARIABLES
    activated,  \* the extension is activated
    disposing,  \* deactivate waits for Rpc.dispose
    helper,     \* state.rpcPromise
    watching,   \* watcherTokens
    loop,       \* where run stands
    at,         \* the workspace of a loop
    waiters,    \* the loops whose call is queued in the helper
    queue,      \* the requests that are queued there
    given,      \* the request a loop was given
    request,    \* what became of a request
    generation, \* state.generation of ProcessConnection
    bridge,     \* where connect and its bridge stand
    born,       \* currentGeneration of a connect
    end,        \* the workspace a bridge belongs to
    answered,   \* the helper has answered a setup
    backendOf   \* the backend WorkspaceConnection holds

loopVars == <<watching, loop, at, waiters, queue, given, request>>
bridgeVars == <<generation, bridge, born, end, answered, backendOf>>
extensionVars == <<activated, disposing, helper, loopVars, bridgeVars>>

\* The loops that wait are those in the queue.
QueueTypes ==
    /\ waiters \in Seq(Loops) /\ IsInjective(waiters)
    /\ ToSet(waiters) = {l \in Loops : loop[l] = "waiting"}
    /\ queue \in Seq(Requests) /\ IsInjective(queue)

ExtensionTypes ==
    /\ activated \in BOOLEAN
    /\ disposing \in BOOLEAN
    /\ helper \in {"none", "starting", "ready", "failed"}
    /\ watching \in [Workspaces -> Loops \cup {None}]
    /\ loop \in [Loops -> {"none", "calling", "waiting", "given", "opening", "delay", "ended"}]
    /\ at \in [Loops -> Workspaces \cup {None}]
    /\ QueueTypes
    /\ given \in [Loops -> Requests \cup {None}]
    /\ request \in [Requests -> {"unsent", "sent", "opened", "failed", "dropped", "lost"}]
    /\ generation \in 0 .. MaxGenerations
    /\ bridge \in [Bridges -> {"idle", "asking", "opening", "open", "closed"}]
    /\ born \in [Bridges -> 0 .. MaxGenerations]
    /\ end \in [Bridges -> Workspaces \cup {None}]
    /\ answered \in BOOLEAN
    /\ backendOf \in Backends \cup {None}

ExtensionInit ==
    /\ activated = TRUE
    /\ disposing = FALSE
    /\ helper = "none"
    /\ watching = [w \in Workspaces |-> None]
    /\ loop = [l \in Loops |-> "none"]
    /\ at = [l \in Loops |-> None]
    /\ waiters = <<>>
    /\ queue = <<>>
    /\ given = [l \in Loops |-> None]
    /\ request = [q \in Requests |-> "unsent"]
    /\ generation = 0
    /\ bridge = [b \in Bridges |-> "idle"]
    /\ born = [b \in Bridges |-> 0]
    /\ end = [b \in Bridges |-> None]
    /\ answered = FALSE
    /\ backendOf = None

----------------------------------------------------------------------------
(* The helper process.                                                     *)

\* getRpc: the first call starts it, and the others share its promise, also
\* one that was rejected.
GetRpc == helper' = IF helper = "none" THEN "starting" ELSE helper

HelperReady ==
    /\ helper = "starting"
    /\ helper' = "ready"
    /\ UNCHANGED <<activated, disposing, loopVars, bridgeVars>>

HelperFails ==
    /\ helper = "starting"
    /\ helper' = "failed"
    /\ UNCHANGED <<activated, disposing, loopVars, bridgeVars>>

----------------------------------------------------------------------------
(* The loops.                                                              *)

Current(l) == at[l] # None /\ watching[at[l]] = l

\* The catch of run: a loop whose token is current tries again after a second.
Thrown(L) == [l \in Loops |-> IF l \in L THEN IF Current(l) THEN "delay" ELSE "ended"
                                         ELSE loop[l]]

\* A setup asks the helper for its host (connectToHost), also one that was
\* begun before deactivate and comes to it after.
SetupAsks ==
    /\ GetRpc
    /\ UNCHANGED <<activated, disposing, loopVars, bridgeVars>>

\* The helper has answered a setup, which may go on at any later time.
SetupAnswered ==
    /\ helper = "ready"
    /\ answered' = TRUE
    /\ UNCHANGED <<activated, disposing, helper, loopVars, generation, bridge, born, end, backendOf>>

\* watch of RemoteCli: a workspace that is watched stays so.
Watch(w) ==
    \/ /\ watching[w] # None
       /\ UNCHANGED <<helper, watching, at, loop>>
    \/ /\ watching[w] = None
       /\ \E l \in Loops :
             /\ loop[l] = "none"
             /\ watching' = [watching EXCEPT ![w] = l]
             /\ at' = [at EXCEPT ![l] = w]
             /\ loop' = [loop EXCEPT ![l] = "calling"]
       /\ GetRpc

\* openWorkspace, after its look at the cancellation: the window takes the
\* backend of the setup and the workspace is watched.  No generation is looked
\* at, so a setup that comes to it after deactivate sets and watches too.
SetupOpens(w) ==
    /\ answered
    /\ backendOf' = BySetup
    /\ Watch(w)
    /\ UNCHANGED <<activated, disposing, waiters, queue, given, request,
                   generation, bridge, born, end, answered>>

\* waitForOpenRequest of the helper, when it is connected to the host: a
\* request that is queued, or a place in the queue of waiters.
Wait(l) ==
    /\ loop[l] = "calling"
    /\ helper = "ready"
    /\ \/ /\ queue # <<>>
          /\ queue' = Tail(queue)
          /\ given' = [given EXCEPT ![l] = Head(queue)]
          /\ loop' = [loop EXCEPT ![l] = "given"]
          /\ UNCHANGED waiters
       \/ /\ queue = <<>>
          /\ waiters' = Append(waiters, l)
          /\ loop' = [loop EXCEPT ![l] = "waiting"]
          /\ UNCHANGED <<queue, given>>
    /\ UNCHANGED <<activated, disposing, helper, watching, at, request, bridgeVars>>

\* The helper did not start, or does not connect to the host.
WaitFails(l) ==
    /\ loop[l] = "calling"
    /\ helper \in {"ready", "failed"}
    /\ loop' = Thrown({l})
    /\ UNCHANGED <<activated, disposing, helper, watching, at, waiters, queue, given, request, bridgeVars>>

\* The first that waits is given it.
RequestArrives(q) ==
    /\ helper = "ready"
    /\ request[q] = "unsent"
    /\ request' = [request EXCEPT ![q] = "sent"]
    /\ \/ /\ waiters = <<>>
          /\ queue' = Append(queue, q)
          /\ UNCHANGED <<loop, waiters, given>>
       \/ /\ waiters # <<>>
          /\ waiters' = Tail(waiters)
          /\ given' = [given EXCEPT ![Head(waiters)] = q]
          /\ loop' = [loop EXCEPT ![Head(waiters)] = "given"]
          /\ UNCHANGED queue
    /\ UNCHANGED <<activated, disposing, helper, watching, at, bridgeVars>>

Ends(l, what) ==
    /\ request' = [request EXCEPT ![given[l]] = what]
    /\ given' = [given EXCEPT ![l] = None]

\* The answer of the helper: a loop that was stopped drops it and returns.
Received(l) ==
    /\ loop[l] = "given"
    /\ \/ Current(l) /\ loop' = [loop EXCEPT ![l] = "opening"] /\ UNCHANGED <<request, given>>
       \/ ~Current(l) /\ loop' = [loop EXCEPT ![l] = "ended"] /\ Ends(l, "dropped")
    /\ UNCHANGED <<activated, disposing, helper, watching, at, waiters, queue, bridgeVars>>

\* The editor has opened it, and the loop waits for the next one.
Opened(l) ==
    /\ loop[l] = "opening"
    /\ Ends(l, "opened")
    /\ \/ Current(l) /\ loop' = [loop EXCEPT ![l] = "calling"] /\ GetRpc
       \/ ~Current(l) /\ loop' = [loop EXCEPT ![l] = "ended"] /\ UNCHANGED helper
    /\ UNCHANGED <<activated, disposing, watching, at, waiters, queue, bridgeVars>>

OpenFails_quits(l) ==
    /\ loop[l] = "opening"
    /\ Ends(l, "failed")
    /\ loop' = [loop EXCEPT ![l] = "ended"]
    /\ UNCHANGED <<activated, disposing, helper, watching, at, waiters, queue, bridgeVars>>

\* It was no open request, or the editor does not open it.
OpenFails(l) ==
    /\ loop[l] = "opening"
    /\ Ends(l, "failed")
    /\ loop' = Thrown({l})
    /\ UNCHANGED <<activated, disposing, helper, watching, at, waiters, queue, bridgeVars>>

\* waitBeforeRetry.
Retry(l) ==
    /\ loop[l] = "delay"
    /\ \/ Current(l) /\ loop' = [loop EXCEPT ![l] = "calling"] /\ GetRpc
       \/ ~Current(l) /\ loop' = [loop EXCEPT ![l] = "ended"] /\ UNCHANGED helper
    /\ UNCHANGED <<activated, disposing, watching, at, waiters, queue, given, request, bridgeVars>>

\* The connection to the host ends: by itself, or because the editor left the
\* host (not when it goes on with another folder of it).
SessionEnds ==
    /\ helper = "ready"
    /\ waiters # <<>> \/ queue # <<>>
    /\ loop' = Thrown(ToSet(waiters))
    /\ request' = [q \in Requests |-> IF q \in ToSet(queue) THEN "lost" ELSE request[q]]
    /\ waiters' = <<>>
    /\ queue' = <<>>
    /\ UNCHANGED <<activated, disposing, helper, watching, at, given, bridgeVars>>

----------------------------------------------------------------------------
(* The bridges.                                                            *)

\* connect, for a port the editor hands over; it asks the helper first.
Connect(b, w) ==
    /\ activated
    /\ bridge[b] = "idle"
    /\ bridge' = [bridge EXCEPT ![b] = "asking"]
    /\ born' = [born EXCEPT ![b] = generation]
    /\ end' = [end EXCEPT ![b] = w]
    /\ GetRpc
    /\ UNCHANGED <<activated, disposing, loopVars, generation, answered, backendOf>>

\* The helper did not start or not connect: the port is closed.
BackendUnknown(b) ==
    /\ bridge[b] = "asking"
    /\ helper \in {"ready", "failed"}
    /\ bridge' = [bridge EXCEPT ![b] = "closed"]
    /\ UNCHANGED <<activated, disposing, helper, loopVars, generation, born, end, answered, backendOf>>

BackendKnown_unchecked(b) ==
    /\ bridge[b] = "asking"
    /\ helper = "ready"
    /\ bridge' = [bridge EXCEPT ![b] = "opening"]
    /\ backendOf' = [by |-> "bridge", of |-> born[b]]
    /\ UNCHANGED <<activated, disposing, helper, loopVars, generation, born, end, answered>>

\* A connect that the extension was deactivated under closes its port; else the
\* window takes the backend and the bridge opens its WebSocket.
BackendKnown(b) ==
    /\ bridge[b] = "asking"
    /\ helper = "ready"
    /\ \/ /\ born[b] = generation
          /\ bridge' = [bridge EXCEPT ![b] = "opening"]
          /\ backendOf' = [by |-> "bridge", of |-> generation]
       \/ /\ born[b] # generation
          /\ bridge' = [bridge EXCEPT ![b] = "closed"]
          /\ UNCHANGED backendOf
    /\ UNCHANGED <<activated, disposing, helper, loopVars, generation, born, end, answered>>

SocketOpens(b) ==
    /\ bridge[b] = "opening"
    /\ bridge' = [bridge EXCEPT ![b] = "open"]
    /\ UNCHANGED <<activated, disposing, helper, loopVars, generation, born, end, answered, backendOf>>

Standing == {b \in Bridges : bridge[b] \in {"opening", "open"}}

\* close of each of B: both ends are closed.
Close(B) == bridge' = [b \in Bridges |-> IF b \in B \cap Standing THEN "closed" ELSE bridge[b]]

\* Either end closes or fails, a message cannot be passed on, or the WebSocket
\* has not opened in 30 seconds.
BridgeEnds(b) ==
    /\ b \in Standing
    /\ Close({b})
    /\ UNCHANGED <<activated, disposing, helper, loopVars, generation, born, end, answered, backendOf>>

----------------------------------------------------------------------------
(* disposeWorkspace and deactivate.                                        *)

\* Main.disposeWorkspace: the window leaves the workspace.  A connect to it
\* that still waits for the helper is not among its bridges.
DisposeWorkspace(w) ==
    /\ activated
    /\ Close({b \in Bridges : end[b] = w})
    /\ watching' = [watching EXCEPT ![w] = None]
    /\ GetRpc
    /\ UNCHANGED <<activated, disposing, loop, at, waiters, queue, given, request, generation,
                   born, end, answered, backendOf>>

\* deactivate, from the end of the progress to the await of the helper's promise.
DeactivateExtension ==
    /\ activated
    /\ generation < MaxGenerations
    /\ activated' = FALSE
    /\ generation' = generation + 1
    /\ Close(Bridges)
    /\ watching' = [w \in Workspaces |-> None]
    /\ backendOf' = None
    /\ disposing' = (helper # "none")
    /\ UNCHANGED <<helper, loop, at, waiters, queue, given, request, born, end, answered>>

\* Rpc.dispose: the next call starts another helper; those on this one are
\* rejected, and its connections close.  A helper that did not start rejects
\* the disposal too, and is kept.
RpcDisposed ==
    /\ disposing
    /\ helper \in {"ready", "failed"}
    /\ disposing' = FALSE
    /\ \/ /\ helper = "ready"
          /\ helper' = "none"
          /\ loop' = Thrown({l \in Loops : loop[l] \in {"calling", "waiting"}})
          /\ request' = [q \in Requests |-> IF q \in ToSet(queue) THEN "lost" ELSE request[q]]
          /\ waiters' = <<>>
          /\ queue' = <<>>
          /\ bridge' = [b \in Bridges |-> IF bridge[b] = "asking" THEN "closed" ELSE bridge[b]]
       \/ /\ helper = "failed"
          /\ UNCHANGED <<helper, loop, request, waiters, queue, bridge>>
    /\ UNCHANGED <<activated, watching, at, given, generation, born, end, answered, backendOf>>

\* The editor activates the extension again.
Activate ==
    /\ ~activated /\ ~disposing
    /\ activated' = TRUE
    /\ UNCHANGED <<disposing, helper, loopVars, bridgeVars>>

----------------------------------------------------------------------------
ExtensionNext ==
    \/ HelperReady \/ HelperFails
    \/ SetupAsks \/ SetupAnswered
    \/ \E w \in Workspaces : SetupOpens(w) \/ DisposeWorkspace(w)
    \/ \E l \in Loops :
          \/ Wait(l) \/ WaitFails(l) \/ Received(l)
          \/ Opened(l) \/ OpenFails(l) \/ Retry(l)
    \/ \E q \in Requests : RequestArrives(q)
    \/ \E b \in Bridges :
          \/ \E w \in Workspaces : Connect(b, w)
          \/ BackendUnknown(b) \/ BackendKnown(b) \/ SocketOpens(b) \/ BridgeEnds(b)
    \/ SessionEnds \/ DeactivateExtension \/ RpcDisposed \/ Activate

\* The helper starts or fails to; its connects end (HostConnections); answers
\* and timers come, and the editor's commands return.  Nothing is assumed of
\* the host or the user.
Fairness ==
    /\ WF_extensionVars(HelperReady \/ HelperFails)
    /\ WF_extensionVars(RpcDisposed)
    /\ \A l \in Loops : /\ WF_extensionVars(Wait(l) \/ WaitFails(l))
                        /\ WF_extensionVars(Received(l))
                        /\ WF_extensionVars(Opened(l) \/ OpenFails(l))
                        /\ WF_extensionVars(Retry(l))
    /\ \A b \in Bridges : /\ WF_extensionVars(BackendKnown(b) \/ BackendUnknown(b))
                          /\ WF_extensionVars(bridge[b] = "opening"
                                     /\ (SocketOpens(b) \/ BridgeEnds(b)))

ExtensionSpec == ExtensionInit /\ [][ExtensionNext]_extensionVars
FairSpec == ExtensionSpec /\ Fairness

----------------------------------------------------------------------------
(* Properties.                                                             *)

\* The loop that is registered for a workspace is one that runs for it, so
\* that a workspace that seems to be watched is.
LoopsRun ==
    \A w \in Workspaces : watching[w] # None =>
        at[watching[w]] = w /\ loop[watching[w]] \notin {"none", "ended"}

\* A request is in one place: it waits in the queue, or one loop has it; and it
\* waits only while no loop does.
RequestsHeld ==
    /\ \A q \in Requests :
          request[q] = "sent" <=> q \in ToSet(queue) \/ \E l \in Loops : given[l] = q
    /\ \A l, m \in Loops : given[l] = given[m] /\ given[l] # None => l = m
    /\ \A l \in Loops : given[l] # None => given[l] \notin ToSet(queue)
    /\ waiters = <<>> \/ queue = <<>>

\* No bridge outlives the activation it was made in, nor does the backend that
\* a bridge gave the window (connect, dispose).  A setup that comes to
\* openWorkspace late may leave the backend of an earlier activation there.
BridgesCurrent ==
    /\ \A b \in Standing : born[b] = generation
    /\ backendOf # None /\ backendOf.by = "bridge" => backendOf.of = generation

\* What the extension keeps has an owner that can end it, whatever is stopped
\* while it waits (RemoteCli, ProcessConnection, deactivate).
ChannelsOwned == ExtensionTypes /\ LoopsRun /\ RequestsHeld /\ BridgesCurrent

\* A workspace that stays watched is asked for again and again, after requests
\* that fail, a helper that is gone and a host that was lost.
AsksAgain ==
    \A w \in Workspaces :
        []<>(watching[w] = None \/ loop[watching[w]] \in {"calling", "waiting"})

\* A port is bridged or closed, and deactivate returns.
ConnectsEnd ==
    /\ \A b \in Bridges : bridge[b] \in {"asking", "opening"} ~> bridge[b] \in {"open", "closed"}
    /\ disposing ~> ~disposing

\* Nothing of the extension gets stuck (run, connect, Rpc.dispose).
ChannelsEnd == AsksAgain /\ ConnectsEnd
=============================================================================
