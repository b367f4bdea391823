-------------------------- MODULE HostConnections --------------------------
(***************************************************************************)
(* The ssh connections of the helper to one host.  The first call that     *)
(* needs the host sets a connection up, which may need an installation     *)
(* halfway; the others join it; operations cancel it, its workspace or the *)
(* helper is disposed, ssh fails or ends, and the next call begins again.  *)
(* The connections to different hosts are independent.                     *)
(*                                                                         *)
(* A setup has at most two ssh children: one for the server that is        *)
(* installed already, one for the server it installs.  An abort runs its   *)
(* listeners at once: they are part of the step.  What an open connection  *)
(* does is ConnectionSession and PortForwards.                             *)
(*                                                                         *)
(* An operator with a suffix in lower case, as Remove_any, is a            *)
(* wrong variant of the definition below it, and no part of Spec.          *)
(***************************************************************************)
CONSTANTS Ops,          \* calls with an operation id: connects with progress
          Plain,        \* calls without one
          Setups,
          None

Results == {"idle", "answered", "rejected"}

ASSUME NoneAssumption == None \notin Setups
ASSUME ResultsAssumption == Setups \cap Results = {}
ASSUME CallsAssumption == Ops \cap Plain = {}

Calls == Ops \cup Plain
Rounds == {"first", "second"}

VARIABLES
    current,    \* the setup in the connections map, or None
    stage,      \* how far a setup or its connection is
    round,      \* the ssh child it is at
    child,      \* the ssh children
    aborted,    \* the setups whose controller was aborted
    ops,        \* setup.operationIds
    call,       \* the setup a call waits for, or what came of it
    cancelled,  \* history: the operations whose cancellation was in time
    disposer,   \* the setup disposeWorkspace waits for
    gone        \* RemoteSsh.dispose was called

setups == <<stage, round, child, aborted>>
vars == <<setups, current, ops, call, cancelled, disposer, gone>>

\* preparing: the old control path is removed and a local port sought.
\* routing: ready, but of another version: a router is made for the session.
Stages == {"unused", "preparing", "connecting", "routing", "installing",
           "open", "closed", "failed"}

\* stray: lost by its connection, and not told to end.
Children == {"none", "alive", "stray", "told", "dead"}

Begun == {s \in Setups : stage[s] # "unused"}

\* Types; a setup is known to others only when it has begun, and an operation
\* that was cancelled is not associated with it any more.
TypeOK ==
    /\ current \in Begun \cup {None}
    /\ stage \in [Setups -> Stages]
    /\ round \in [Setups -> Rounds]
    /\ child \in [Setups -> [Rounds -> Children]]
    /\ aborted \in SUBSET Begun
    /\ ops \in [Setups -> SUBSET Ops]
    /\ call \in [Calls -> Results \cup Begun]
    /\ cancelled \in SUBSET Ops
    /\ disposer \in Begun \cup {None}
    /\ gone \in BOOLEAN
    /\ \A s \in Setups : ops[s] \cap cancelled = {}

Init ==
    /\ current = None
    /\ stage = [s \in Setups |-> "unused"]
    /\ round = [s \in Setups |-> "first"]
    /\ child = [s \in Setups |-> [r \in Rounds |-> "none"]]
    /\ aborted = {}
    /\ ops = [s \in Setups |-> {}]
    /\ call = [c \in Calls |-> "idle"]
    /\ cancelled = {}
    /\ disposer = None
    /\ gone = FALSE

----------------------------------------------------------------------------
(* What happens to a setup.                                                *)

Moves(s, from, to) == stage[s] \in from /\ stage' = [stage EXCEPT ![s] = to]

\* The child s is at is told to end, if it is running.
Kill(s) == child' = [child EXCEPT ![s][round[s]] = IF @ = "alive" THEN "told" ELSE @]

Settle(s, answer) ==
    call' = [c \in Calls |-> IF call[c] = s THEN answer ELSE call[c]]

Remove_any(s) == current' = None

Remove(s) == current' = IF current = s THEN None ELSE current

\* The promise of the setup is rejected.
Reject(s) ==
    /\ aborted' = aborted \cup {s}
    /\ Remove(s)
    /\ Settle(s, "rejected")

AfterAbort(st) == IF st = "connecting" THEN "failed" ELSE IF st = "open" THEN "closed" ELSE st

\* The controller of the setup is aborted.  A connection hears it at once, and
\* one that is not ready yet fails the setup; everything else hears it at its
\* next step.
Abort(s) ==
    /\ aborted' = aborted \cup {s}
    /\ stage' = [stage EXCEPT ![s] = AfterAbort(@)]
    /\ IF stage[s] = "connecting" THEN Settle(s, "rejected") ELSE UNCHANGED call

----------------------------------------------------------------------------
(* The calls of the helper.                                                *)

\* Calls without an operation come again.
Idle(c) ==
    \/ call[c] = "idle"
    \/ c \in Plain /\ call[c] \in {"answered", "rejected"}

Fresh == CHOOSE s \in Setups \ Begun : TRUE

\* getConnection without a setup.
Begin(c) ==
    /\ Idle(c)
    /\ current = None
    /\ Begun # Setups
    /\ current' = Fresh
    /\ stage' = [stage EXCEPT ![Fresh] = "preparing"]
    /\ ops' = [ops EXCEPT ![Fresh] = {c} \cap Ops]
    /\ call' = [call EXCEPT ![c] = Fresh]
    /\ UNCHANGED <<round, child, aborted, cancelled, disposer, gone>>

\* getConnection with one: an operation is associated with it.
Join(c) ==
    /\ Idle(c)
    /\ current # None
    /\ ops' = [ops EXCEPT ![current] = @ \cup ({c} \cap Ops)]
    /\ call' = [call EXCEPT ![c] = IF stage[current] = "open" THEN "answered" ELSE current]
    /\ UNCHANGED <<setups, current, cancelled, disposer, gone>>

CancelInTime_keepsId(c) ==
    /\ current # None
    /\ stage[current] # "open"
    /\ c \in ops[current]
    /\ cancelled' = cancelled \cup {c}
    /\ UNCHANGED <<round, ops, disposer, gone>>

\* cancelConnectionSetup for an operation of a setup that is not settled.
CancelInTime(c) ==
    /\ current # None
    /\ stage[current] # "open"
    /\ c \in ops[current]
    /\ cancelled' = cancelled \cup {c}
    /\ ops' = [ops EXCEPT ![current] = @ \ {c}]
    /\ UNCHANGED <<round, disposer, gone>>

\* Other operations want the setup.
CancelShared(c) ==
    /\ CancelInTime(c)
    /\ ops[current] # {c}
    /\ UNCHANGED <<stage, child, aborted, current, call>>

CancelLast_ignoresOthers(c) ==
    /\ CancelInTime(c)
    /\ Abort(current)
    /\ Kill(current)
    /\ current' = IF stage[current] \in {"connecting", "routing"} THEN None ELSE current

\* The last one: the setup is aborted.  It leaves the map when it fails, or
\* when its connection closes.
CancelLast(c) ==
    /\ CancelInTime(c)
    /\ ops[current] = {c}
    /\ Abort(current)
    /\ Kill(current)
    /\ current' = IF stage[current] \in {"connecting", "routing"} THEN None ELSE current

\* disposeWorkspace: the map forgets the setup first.
Dispose ==
    /\ disposer = None
    /\ current # None
    /\ disposer' = current
    /\ current' = None
    /\ Abort(current)
    /\ Kill(current)
    /\ UNCHANGED <<round, ops, cancelled, gone>>

\* It returns when the setup has failed, or was open and its child has ended.
DisposeReturns ==
    /\ disposer # None
    /\ \/ stage[disposer] = "failed"
       \/ stage[disposer] = "closed" /\ child[disposer][round[disposer]] = "dead"
    /\ disposer' = None
    /\ UNCHANGED <<setups, current, ops, call, cancelled, gone>>

\* RemoteSsh.dispose: every setup is aborted, and every child that was
\* registered is told to end.
DisposeHelper ==
    /\ ~gone
    /\ gone' = TRUE
    /\ current' = None
    /\ child' = [s \in Setups |-> [r \in Rounds |->
                   IF child[s][r] \in {"alive", "stray"} THEN "told" ELSE child[s][r]]]
    /\ \/ current = None /\ UNCHANGED <<stage, aborted, call>>
       \/ current # None /\ Abort(current)
    /\ UNCHANGED <<round, ops, cancelled, disposer>>

----------------------------------------------------------------------------
(* createConnection and its ssh children.                                  *)

\* ssh is started, and told to end at once when the helper is gone.
Spawn(s) ==
    /\ s \notin aborted
    /\ Moves(s, {"preparing"}, "connecting")
    /\ child' = [child EXCEPT ![s][round[s]] = IF gone THEN "told" ELSE "alive"]
    /\ UNCHANGED <<round, aborted, current, ops, call, cancelled, disposer, gone>>

\* Nothing looks at the abort before ssh is started: the new connection ends it.
SpawnAborted(s) ==
    /\ s \in aborted
    /\ Moves(s, {"preparing"}, "failed")
    /\ child' = [child EXCEPT ![s][round[s]] = "told"]
    /\ Reject(s)
    /\ UNCHANGED <<round, ops, cancelled, disposer, gone>>

\* The handshake and the forwarding are done, and the version is the helper's.
Opens(s) ==
    /\ Moves(s, {"connecting"}, "open")
    /\ Settle(s, "answered")
    /\ UNCHANGED <<round, child, aborted, current, ops, cancelled, disposer, gone>>

\* A compatible server, of another version.
OpensOld(s) ==
    /\ round[s] = "first"
    /\ Moves(s, {"connecting"}, "routing")
    /\ UNCHANGED <<round, child, aborted, current, ops, call, cancelled, disposer, gone>>

\* The router listens: the session is the connection of the setup.
Routed(s) ==
    /\ s \notin aborted
    /\ Moves(s, {"routing"}, "open")
    /\ Settle(s, "answered")
    /\ UNCHANGED <<round, child, aborted, current, ops, cancelled, disposer, gone>>

RouteFails_unaborted(s) ==
    /\ s \notin aborted
    /\ Moves(s, {"routing"}, "failed")
    /\ Kill(s)
    /\ Reject(s)
    /\ UNCHANGED <<round, ops, cancelled, disposer, gone>>

\* No router, or the connection was lost or aborted meanwhile.
RouteFails(s) ==
    /\ Moves(s, {"routing"}, "failed")
    /\ Kill(s)
    /\ Reject(s)
    /\ UNCHANGED <<round, ops, cancelled, disposer, gone>>

\* What becomes of a child with the connection to it: it has ended or is told
\* to, or its stdin failed, but not with EPIPE, and it is left to itself.
Loses(s) ==
    \/ Kill(s)
    \/ child' = [child EXCEPT ![s][round[s]] = IF @ = "alive" THEN "stray" ELSE @]

\* ssh ends, its stdin fails, the handshake fails or takes 30 s, the forwarding
\* fails, or what precedes ssh does.
Fails(s) ==
    /\ Moves(s, {"preparing", "connecting"}, "failed")
    /\ Loses(s)
    /\ Reject(s)
    /\ UNCHANGED <<round, ops, cancelled, disposer, gone>>

\* No usable server, or an installed one that is lost before it is ready: the
\* ssh of the first round is over, and one is installed.
InstallRequired(s) ==
    /\ round[s] = "first"
    /\ Moves(s, {"connecting"}, "installing")
    /\ Loses(s)
    /\ UNCHANGED <<round, aborted, current, ops, call, cancelled, disposer, gone>>

\* A second round begins with the server that was installed.
Installed(s) ==
    /\ s \notin aborted
    /\ Moves(s, {"installing"}, "preparing")
    /\ round' = [round EXCEPT ![s] = "second"]
    /\ UNCHANGED <<child, aborted, current, ops, call, cancelled, disposer, gone>>

InstallFails(s) ==
    /\ Moves(s, {"installing"}, "failed")
    /\ Reject(s)
    /\ UNCHANGED <<round, child, ops, cancelled, disposer, gone>>

\* What a ready connection does when it closes: onClose.
Closes(s) ==
    /\ aborted' = aborted \cup {s}
    /\ Remove(s)
    /\ UNCHANGED <<round, call, ops, cancelled, disposer, gone>>

\* ssh ends or is killed for what it answers, or its stdin fails.
Lost(s) ==
    /\ s \notin aborted
    /\ \/ Moves(s, {"open"}, "closed")
       \/ Moves(s, {"routing"}, "routing")
    /\ Loses(s)
    /\ Closes(s)

\* A child ends that has no connection any more.
Ends(s, state) ==
    /\ \E r \in Rounds :
          /\ r = round[s] => stage[s] \notin {"connecting", "open"}
          /\ child[s][r] = state
          /\ child' = [child EXCEPT ![s][r] = "dead"]
    /\ UNCHANGED <<stage, round, aborted, current, ops, call, cancelled, disposer, gone>>

ToldEnds(s) == Ends(s, "told")
StrayEnds(s) == Ends(s, "stray")

Next ==
    \/ \E c \in Calls : Begin(c) \/ Join(c)
    \/ \E c \in Ops : CancelShared(c) \/ CancelLast(c)
    \/ Dispose \/ DisposeReturns \/ DisposeHelper
    \/ \E s \in Setups :
          \/ Spawn(s) \/ SpawnAborted(s) \/ Opens(s) \/ OpensOld(s) \/ Routed(s)
          \/ RouteFails(s) \/ Fails(s) \/ InstallRequired(s) \/ Installed(s)
          \/ InstallFails(s) \/ Lost(s) \/ ToldEnds(s) \/ StrayEnds(s)

Spec == Init /\ [][Next]_vars

\* A control path is removed, ssh answers or the handshake is over in 30 s, a
\* router listens, an installation ends, a child that is told to end does
\* (disposeWorkspace follows with SIGKILL), and the helper goes on when it has.
\* Nothing says that a child nobody told to end ever does.
Fairness ==
    /\ \A s \in Setups :
          /\ WF_vars(Spawn(s) \/ SpawnAborted(s))
          /\ WF_vars(Opens(s) \/ OpensOld(s) \/ Fails(s) \/ InstallRequired(s))
          /\ WF_vars(Routed(s) \/ RouteFails(s))
          /\ WF_vars(Installed(s) \/ InstallFails(s))
          /\ WF_vars(ToldEnds(s))
    /\ WF_vars(DisposeReturns)

FairSpec == Spec /\ Fairness

----------------------------------------------------------------------------
(* Properties.                                                             *)

\* A setup that was not aborted is the one in the map, so that it can still be
\* joined, cancelled and disposed.
Unaborted == \A s \in Begun : s \notin aborted => current = s

\* No ssh child outlives the interest in it: one that was not told to end, and
\* has a connection, is that of the step its setup is at, the setup is in the
\* map and not aborted, and the helper is not gone (getConnection, the abort
\* listener of RemoteConnection, SshProcessRegistry).
NoOrphan ==
    /\ Unaborted
    /\ \A s \in Setups, r \in Rounds :
          child[s][r] = "alive" =>
             /\ s \notin aborted
             /\ r = round[s]
             /\ stage[s] \in {"connecting", "routing", "open"}
             /\ ~gone

\* Once the helper is disposed no child runs that was not told to end, one
\* whose connection lost it included (SshProcessRegistry.dispose).
GoneToldAll ==
    gone => \A s \in Setups, r \in Rounds : child[s][r] \notin {"alive", "stray"}

\* A connection that has closed is not in the map: no later call is given it,
\* and none joins a setup that has failed (onClose, getConnection).
JoinsLive == current # None => stage[current] \notin {"unused", "closed", "failed"}

\* Whoever asks for the host next is served by one setup, and everything else
\* has been told to end.
HostOwned == NoOrphan /\ GoneToldAll /\ JoinsLive

\* The cancellation of a connect aborts no setup another connect with an
\* operation of its own waits for (cancelConnectionSetup).
CancelSpares ==
    [][cancelled' # cancelled =>
         \A c \in Ops \ cancelled' : call[c] \in Setups \ aborted =>
            call'[c] = call[c] /\ call[c] \notin aborted']_vars

\* Every call for a connection is answered or rejected, and disposeWorkspace
\* returns, whatever is cancelled, disposed or lost meanwhile.
CallsEnd ==
    /\ \A c \in Calls : call[c] \in Setups ~> call[c] \notin Setups
    /\ disposer # None ~> disposer = None
=============================================================================
