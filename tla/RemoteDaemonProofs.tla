------------------------- MODULE RemoteDaemonProofs -------------------------
(***************************************************************************)
(* Proofs about RemoteDaemon, for any number of connectors and daemons:    *)
(* connectors find and start daemons as if one at a time, unless one of    *)
(* them died, and a daemon that exits leaves nothing of its own.           *)
(***************************************************************************)
EXTENDS RemoteDaemon, TLAPS

\* A socket path names a daemon that was bound there.
PathsBound == sockFile # None => phase[sockFile] \in {"listening", "published", "serving", "killed"}

\* What a daemon that ends has removed already.
Removed ==
    \A d \in Daemons : /\ phase[d] \in Cleaning \cup {"exited"} => d \notin backend
                       /\ phase[d] \in {"unlinking", "exited"} => stateFile # d

\* A connector has a daemon only once it has spawned it, and one that took
\* over has published its state.
SpawnedOnce ==
    \A c \in Connectors :
        /\ pc[c] \in {"idle", "acquiring", "breaking", "checking", "probing", "clearing", "spawning"}
           => phase[c] = "none"
        /\ c \in owned => phase[c] \notin Unpublished \cup {"none"}

\* Where a connector stands with a state it has read.
StateInHand ==
    \A c \in Connectors : seen[c] # None =>
        pc[c] \in {"probing", "connecting", "cancelling", "leaving", "returned", "connected", "ended"}

\* The lock covers everything from the look at the state file to the end of
\* the startup; nobody finds it stale.
Exclusive == \A c \in Connectors : pc[c] # "breaking" /\ (pc[c] \in Critical => lock = c)

\* While a daemon starts, its connector waits, and no state is published; when
\* it listens, nobody else is bound to the path.
StartupAlone ==
    \A d \in Daemons :
        /\ pc[d] = "spawning" => stateFile = None
        /\ phase[d] \in Unpublished => /\ pc[d] \in {"polling", "settling"}
                                       /\ d \in ipc
                                       /\ stateFile = None
        /\ phase[d] = "listening" => sockFile \in {None, d}

\* The state file, and a state that was read under the lock, name no daemon
\* but the one that is bound to the path.
SameDaemon ==
    /\ stateFile # None /\ sockFile # None => sockFile = stateFile
    /\ \A c \in Connectors :
          pc[c] \in Critical /\ seen[c] # None /\ sockFile # None => sockFile = seen[c]

LockInv == NoneCrashed => Exclusive /\ StartupAlone /\ SameDaemon

DaemonInv == PathsBound /\ Removed /\ SpawnedOnce /\ StateInHand

IInv == TypeOK /\ DaemonInv /\ LockInv

USE DEF Daemons, Goto, Becomes, Cancel, CloseChannel, files, connector, daemon

----------------------------------------------------------------------------

\* A host starts without lock, state and socket.
LEMMA InitIInv == Init => IInv
<1> SUFFICES ASSUME Init PROVE IInv
    OBVIOUS
<1>1. TypeOK
    BY DEF Init, TypeOK, ConnectorState, DaemonState
<1>2. DaemonInv
    BY DEF Init, DaemonInv, PathsBound, Removed, SpawnedOnce, StateInHand, Unpublished, Cleaning
<1>3. LockInv
    BY DEF Init, LockInv, Exclusive, StartupAlone, SameDaemon, Critical, Unpublished
<1> QED
    BY <1>1, <1>2, <1>3 DEF IInv

\* A connector takes the lock.
LEMMA LockingKeeps ==
    ASSUME NEW c \in Connectors, IInv,
           Start(c) \/ TakeLock(c) \/ SeeStaleLock(c) \/ BreakLock(c) \/ LockRefused(c)
    PROVE  IInv'
<1> USE NoneAssumption DEF IInv, TypeOK, DaemonInv, PathsBound, Removed, SpawnedOnce, StateInHand,
       LockInv, NoneCrashed, Exclusive, StartupAlone, SameDaemon, ConnectorState, DaemonState,
       Waiting, Critical, Unpublished, Cleaning
<1>1. CASE Start(c)
    BY <1>1 DEF Start
<1>2. CASE TakeLock(c)
    BY <1>2 DEF TakeLock
<1>3. CASE SeeStaleLock(c)
    BY <1>3 DEF SeeStaleLock
<1>4. CASE BreakLock(c)
    BY <1>4 DEF BreakLock
<1>5. CASE LockRefused(c)
    BY <1>5 DEF LockRefused
<1> QED
    BY <1>1, <1>2, <1>3, <1>4, <1>5

\* A connector looks for a server under the lock.
LEMMA LookingKeeps ==
    ASSUME NEW c \in Connectors, IInv,
           ReadState(c) \/ Probe(c) \/ Clear(c) \/ Spawn(c) \/ SpawnRefused(c)
    PROVE  IInv'
<1> USE NoneAssumption DEF IInv, TypeOK, DaemonInv, PathsBound, Removed, SpawnedOnce, StateInHand,
       LockInv, NoneCrashed, Exclusive, StartupAlone, SameDaemon, ConnectorState, DaemonState,
       Waiting, Critical, Unpublished, Cleaning
<1>1. CASE ReadState(c)
    BY <1>1 DEF ReadState
<1>2. CASE Probe(c)
    BY <1>2 DEF Probe
<1>3. CASE Clear(c)
    BY <1>3 DEF Clear
<1>4. CASE Spawn(c)
    BY <1>4 DEF Spawn
<1>5. CASE SpawnRefused(c)
    BY <1>5 DEF SpawnRefused
<1> QED
    BY <1>1, <1>2, <1>3, <1>4, <1>5

\* A connector waits for its daemon and leaves.
LEMMA WaitingKeeps ==
    ASSUME NEW c \in Connectors, IInv,
           PollState(c) \/ PollServer(c) \/ GiveUp(c) \/ Settle(c) \/ Release(c)
    PROVE  IInv'
<1> USE NoneAssumption DEF IInv, TypeOK, DaemonInv, PathsBound, Removed, SpawnedOnce, StateInHand,
       LockInv, NoneCrashed, Exclusive, StartupAlone, SameDaemon, ConnectorState, DaemonState,
       Waiting, Critical, Unpublished, Cleaning
<1>1. CASE PollState(c)
    BY <1>1 DEF PollState
<1>2. CASE PollServer(c)
    BY <1>2 DEF PollServer
<1>3. CASE GiveUp(c)
    BY <1>3 DEF GiveUp, CancelStartup
<1>4. CASE Settle(c)
    BY <1>4 DEF Settle
<1>5. CASE Release(c)
    BY <1>5 DEF Release
<1> QED
    BY <1>1, <1>2, <1>3, <1>4, <1>5

\* A connector connects, is aborted, dies, or hangs up.
LEMMA LeavingKeeps ==
    ASSUME NEW c \in Connectors, IInv,
           Authenticate(c) \/ Abort(c) \/ Crash(c) \/ HangUp(c)
    PROVE  IInv'
<1> USE NoneAssumption DEF IInv, TypeOK, DaemonInv, PathsBound, Removed, SpawnedOnce, StateInHand,
       LockInv, NoneCrashed, Exclusive, StartupAlone, SameDaemon, ConnectorState, DaemonState,
       Waiting, Critical, Unpublished, Cleaning
<1>1. CASE Authenticate(c)
    BY <1>1 DEF Authenticate
<1>2. CASE Abort(c)
    BY <1>2 DEF Abort, CancelStartup
<1>3. CASE Crash(c)
    BY <1>3 DEF Crash
<1>4. CASE HangUp(c)
    BY <1>4 DEF HangUp
<1> QED
    BY <1>1, <1>2, <1>3, <1>4

\* A daemon starts up.
LEMMA StartingKeeps ==
    ASSUME NEW d \in Connectors, IInv,
           Boot(d) \/ BackendReady(d) \/ Listen(d) \/ Publish(d) \/ Own(d) \/ SeeCancel(d)
    PROVE  IInv'
<1> USE NoneAssumption DEF IInv, TypeOK, DaemonInv, PathsBound, Removed, SpawnedOnce, StateInHand,
       LockInv, NoneCrashed, Exclusive, StartupAlone, SameDaemon, ConnectorState, DaemonState,
       Waiting, Critical, Unpublished, Cleaning
<1>1. CASE Boot(d)
    BY <1>1 DEF Boot
<1>2. CASE BackendReady(d)
    BY <1>2 DEF BackendReady
<1>3. CASE Listen(d)
    BY <1>3 DEF Listen, Cleanup
<1>4. CASE Publish(d)
    BY <1>4 DEF Publish
<1>5. CASE Own(d)
    BY <1>5 DEF Own
<1>6. CASE SeeCancel(d)
    BY <1>6 DEF SeeCancel
<1> QED
    BY <1>1, <1>2, <1>3, <1>4, <1>5, <1>6

\* A daemon ends.
LEMMA EndingKeeps ==
    ASSUME NEW d \in Connectors, IInv,
           StartupFails(d) \/ Shutdown(d) \/ ReadOwnState(d) \/ RemoveState(d) \/ RemoveSocket(d) \/ Kill(d)
    PROVE  IInv'
<1> USE NoneAssumption DEF IInv, TypeOK, DaemonInv, PathsBound, Removed, SpawnedOnce, StateInHand,
       LockInv, NoneCrashed, Exclusive, StartupAlone, SameDaemon, ConnectorState, DaemonState,
       Waiting, Critical, Unpublished, Cleaning
<1>1. CASE StartupFails(d)
    BY <1>1 DEF StartupFails, Cleanup
<1>2. CASE Shutdown(d)
    BY <1>2 DEF Shutdown, Cleanup
<1>3. CASE ReadOwnState(d)
    BY <1>3 DEF ReadOwnState
<1>4. CASE RemoveState(d)
    BY <1>4 DEF RemoveState
<1>5. CASE RemoveSocket(d)
    BY <1>5 DEF RemoveSocket
<1>6. CASE Kill(d)
    BY <1>6 DEF Kill
<1> QED
    BY <1>1, <1>2, <1>3, <1>4, <1>5, <1>6

\* Every step keeps the invariant.
THEOREM NextIInv == IInv /\ [Next]_vars => IInv'
<1> SUFFICES ASSUME IInv, [Next]_vars PROVE IInv'
    OBVIOUS
<1>1. CASE UNCHANGED vars
    BY <1>1 DEF vars, IInv, TypeOK, DaemonInv, PathsBound, Removed, SpawnedOnce, StateInHand, LockInv,
       NoneCrashed, Exclusive, StartupAlone, SameDaemon
<1>2. ASSUME NEW c \in Connectors, Locking(c) \/ Ensuring(c) PROVE IInv'
    BY <1>2, LockingKeeps, LookingKeeps, WaitingKeeps DEF Locking, Ensuring
<1>3. ASSUME NEW d \in Daemons, Serving(d) PROVE IInv'
    BY <1>3, StartingKeeps, EndingKeeps DEF Serving
<1> QED
    BY <1>1, <1>2, <1>3, LeavingKeeps, StartingKeeps, EndingKeeps DEF Next

\* In every behaviour the invariant holds.
THEOREM IInvHolds == Spec => []IInv
BY InitIInv, NextIInv, PTL DEF Spec

\* The variables keep their types.
THEOREM TypeCorrect == Spec => []TypeOK
<1>1. IInv => TypeOK
    BY DEF IInv
<1> QED
    BY <1>1, IInvHolds, PTL

\* As long as no connector died, one at a time is under the lock, a daemon
\* starts only under it, and the state that ensureServer returns belongs to
\* the daemon behind the socket path, for any number of connectors and however
\* their daemons start, fail, are cancelled or killed.
THEOREM LockIsSound == Spec => []LockProtects
<1>1. IInv => LockProtects
    BY DEF IInv, LockInv, LockProtects, Exclusive, StartupAlone, SameDaemon, LockExclusive,
       StartupLocked, TokenMatches, Accepting, Critical
<1> QED
    BY <1>1, IInvHolds, PTL

\* A daemon that exits leaves no backend, no socket and no state that names it,
\* also when connectors died or another daemon was killed (runDaemon).
THEOREM ExitIsClean == Spec => []ExitClean
<1>1. IInv => ExitClean
    BY NoneAssumption DEF IInv, DaemonInv, PathsBound, Removed, ExitClean
<1> QED
    BY <1>1, IInvHolds, PTL
=============================================================================
