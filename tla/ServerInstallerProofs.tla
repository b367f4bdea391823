------------------------ MODULE ServerInstallerProofs ------------------------
(***************************************************************************)
(* Proofs about ServerInstaller, for any number of calls, versions and     *)
(* turns of the waits: a lock that has not been robbed keeps two scripts   *)
(* from one version.                                                       *)
(***************************************************************************)
EXTENDS ServerInstaller, TLAPS

\* Where a script stands, what it is at, and what it holds.
Stations ==
    \A i \in Installers :
        /\ pc[i] \in Locking => part[i] = "lock"
        /\ pc[i] \in Acquiring => part[i] \in {"lock", "sweep"}
        /\ pc[i] \in Building => part[i] \in Kinds
        /\ pc[i] \in {"cleanupPid", "lock", "locked", "busy", "exitCleanup"} \cup Sweeping
           => holds[i]
        /\ pc[i] \in Calling => ~holds[i]
        /\ pc[i] = "idle" => attempt[i] < Attempts
        /\ pc[i] = "sweepRemove" => target[i] \in Versions

\* The scripts that have made the install lock of their version.
Installing(i) ==
    \/ pc[i] \in {"locked", "pid", "exitLock"} \cup Building \cup Sweeping
    \/ pc[i] \in Acquiring /\ part[i] = "sweep"

\* Such a lock is theirs as long as they run and it is not robbed.
LockOwned ==
    \A i \in Installers : Installing(i) /\ version[i] \notin robbed =>
        LET l == lock[version[i]] IN l # None /\ l.by = Me(i) /\ l.pid \in {None, Me(i)}

\* And so is a cleanup lock.
CleanupOwned ==
    \A i \in Installers : pc[i] \in Running /\ holds[i] /\ ~cleanupRobbed =>
        cleanupLock # None /\ cleanupLock.by = Me(i) /\ cleanupLock.pid \in {None, Me(i)}

\* A script builds a server that is not there, and nobody else promotes it.
ServerAbsent ==
    \A i \in Installers :
        /\ pc[i] \in {"verify", "extract", "prepare", "remove"}
        /\ part[i] = "server"
        /\ version[i] \notin robbed
        => ServerPlace(version[i]) \notin installed

\* A version that is about to be removed is old and stays unlocked.
TargetUnlocked ==
    \A i \in Installers :
        pc[i] = "sweepRemove" /\ ~cleanupRobbed /\ target[i] \notin robbed =>
            target[i] \in aged /\ lock[target[i]] = None

LockInv == LockOwned /\ CleanupOwned /\ ServerAbsent /\ TargetUnlocked

IInv == TypeOK /\ Stations /\ LockInv

----------------------------------------------------------------------------
(* The places of a script and the names of its variables are expanded      *)
(* everywhere.                                                             *)

USE DEF At, Goto, Exit, script, disk, history, Kinds,
        Running, Calling, Acquiring, Locking, Building, Sweeping, Exiting, Over

\* A script that goes somewhere keeps the types of pc.
LEMMA Went ==
    ASSUME TypeOK, NEW i \in Installers, pc[i] \in Running, attempt' = attempt,
           \E p \in Running \cup Over : pc' = [pc EXCEPT ![i] = p]
    PROVE  /\ pc' \in [Installers -> Running \cup Calling \cup Over]
           /\ \A j \in Installers : pc'[j] \in Running => attempt'[j] > 0
<1>1. PICK p \in Running \cup Over : pc' = [pc EXCEPT ![i] = p]
    OBVIOUS
<1>2. pc' \in [Installers -> Running \cup Calling \cup Over]
    BY <1>1 DEF TypeOK
<1>3. \A j \in Installers : pc'[j] \in Running => attempt'[j] > 0
    BY <1>1 DEF TypeOK
<1> QED
    BY <1>2, <1>3

\* The pid of a script that runs, and the locks it makes.
LEMMA Own ==
    ASSUME TypeOK, NEW i \in Installers, pc[i] \in Running
    PROVE  /\ Me(i) \in Shells
           /\ Alive(Me(i))
           /\ Me(i)[1] = i
           /\ [by |-> Me(i), pid |-> None] \in Locks \ {None}
<1>1. Me(i) \in Shells
    BY CountAssumption DEF TypeOK, Me, Shells
<1>2. [by |-> Me(i), pid |-> None] \in Locks
    BY <1>1 DEF Locks
<1>3. [by |-> Me(i), pid |-> None] # None
    BY <1>1, NoneAssumption
<1> QED
    BY <1>1, <1>2, <1>3 DEF Alive, Me

\* A lock is given its pid.
LEMMA Signed ==
    ASSUME NEW l \in Locks, l # None, NEW p \in Shells
    PROVE  /\ [l EXCEPT !.pid = p] \in Locks \ {None}
           /\ [l EXCEPT !.pid = p].by = l.by
           /\ [l EXCEPT !.pid = p].pid = p
BY NoneAssumption DEF Locks

\* A script that makes the cleanup lock owns it: nobody else does.
LEMMA CleanupMkdirKeeps ==
    ASSUME NEW i \in Installers, IInv, CleanupMkdir(i) PROVE IInv'
<1>1. pc[i] \in Running /\ TypeOK
    BY DEF CleanupMkdir, IInv
<1>2. Me(i)' = Me(i) /\ \A j \in Installers : Me(j)' = Me(j)
    BY DEF CleanupMkdir, Me
<1>3. TypeOK'
  <2>1. cleanupLock' \in Locks
      BY <1>1, Own DEF CleanupMkdir, TypeOK
  <2>2. cleanupTries' \in [Installers -> 0..(BareTries + 1)]
      BY <1>1, CountAssumption DEF CleanupMkdir, TypeOK
  <2>3. /\ pc' \in [Installers -> Running \cup Calling \cup Over]
        /\ \A j \in Installers : pc'[j] \in Running => attempt'[j] > 0
    <3>1. \E p \in Running \cup Over : pc' = [pc EXCEPT ![i] = p]
        BY DEF CleanupMkdir
    <3>2. attempt' = attempt
        BY DEF CleanupMkdir
    <3> QED
        BY <1>1, <3>1, <3>2, Went
  <2>4. holds' \in [Installers -> BOOLEAN]
      BY <1>1 DEF CleanupMkdir, TypeOK
  <2> QED
      BY <1>1, <2>1, <2>2, <2>3, <2>4 DEF CleanupMkdir, TypeOK
<1>4. Stations'
    BY CountAssumption DEF CleanupMkdir, IInv, TypeOK, Stations, Missing, Ended
<1>5. LockInv'
  <2>0. CASE cleanupLock # None
      BY <2>0, <1>2 DEF CleanupMkdir, IInv, TypeOK, Stations, LockInv, LockOwned, CleanupOwned,
                        ServerAbsent, TargetUnlocked, Installing, Missing, Ended
  <2>1. CASE cleanupLock = None
    <3>1. /\ cleanupLock' # None /\ cleanupLock'.by = Me(i) /\ cleanupLock'.pid = None
          /\ holds' = [holds EXCEPT ![i] = TRUE] /\ pc' = [pc EXCEPT ![i] = "cleanupPid"]
          /\ UNCHANGED <<version, part, target, lock, installed, aged, history>>
        BY <1>1, <2>1, Own DEF CleanupMkdir
    <3>2. pc[i] \in Acquiring
        BY DEF CleanupMkdir
    <3>3. LockOwned'
        BY <3>1, <3>2, <1>2 DEF IInv, TypeOK, LockInv, LockOwned, Installing
    <3>4. CleanupOwned'
        BY <3>1, <3>2, <1>2, <2>1 DEF IInv, TypeOK, LockInv, CleanupOwned
    <3>5. ServerAbsent' /\ TargetUnlocked'
        BY <3>1 DEF IInv, TypeOK, LockInv, ServerAbsent, TargetUnlocked, ServerPlace
    <3> QED
      BY <3>1, <3>3, <3>4, <3>5 DEF LockInv
  <2> QED
    BY <2>0, <2>1
<1> QED
    BY <1>3, <1>4, <1>5 DEF IInv

\* The cleanup lock that is removed is the one looked at, and its script is gone.
LEMMA CleanupBreakKeeps ==
    ASSUME NEW i \in Installers, IInv, CleanupBreak(i) PROVE LockInv'
<1>1. pc[i] = "cleanupSeen" /\ TypeOK
    BY DEF CleanupBreak, IInv
<1>2. /\ pc' = [pc EXCEPT ![i] = "cleanup"]
      /\ UNCHANGED <<version, part, holds, target, lock, installed, aged, robbed>>
      /\ \A j \in Installers : Me(j)' = Me(j)
      /\ cleanupRobbed => cleanupRobbed'
    BY DEF CleanupBreak, Me
<1>3. ASSUME NEW j \in Installers, pc[j] \in Running, holds[j], ~cleanupRobbed'
      PROVE  FALSE
  <2>1. /\ cleanupLock # None /\ cleanupLock.by = Me(j)
        /\ cleanupLock.pid \in {None, Me(j)}
      BY <1>2, <1>3 DEF IInv, LockInv, CleanupOwned
  <2>2. Me(j) \in Shells /\ Alive(Me(j)) /\ Me(j) # None
      BY <1>1, <1>3, Own, NoneAssumption
  <2>3. ~Robs(i, cleanupLock)
      BY <1>3 DEF CleanupBreak
  <2>4. cleanupLock.pid = seen[i] /\ cleanupLock.pid # None
      BY <2>1, <2>2, <2>3 DEF Robs
  <2> QED
      BY <2>1, <2>2, <2>4 DEF CleanupBreak, CleanupAbandoned
<1>4. \A j \in Installers : pc'[j] \in Running => pc[j] \in Running
    BY <1>1, <1>2 DEF TypeOK
<1>5. CleanupOwned'
    BY <1>2, <1>3, <1>4 DEF CleanupOwned
<1>6. \A j \in Installers : pc'[j] # pc[j] => pc'[j] = "cleanup" /\ pc[j] = "cleanupSeen"
    BY <1>1, <1>2 DEF TypeOK
<1>7. LockOwned'
    BY <1>2, <1>6 DEF IInv, LockInv, LockOwned, Installing
<1>8. ServerAbsent' /\ TargetUnlocked'
    BY <1>2, <1>6 DEF IInv, LockInv, ServerAbsent, TargetUnlocked, ServerPlace
<1> QED
    BY <1>5, <1>7, <1>8 DEF LockInv

\* The pid goes into the script's own cleanup lock.
LEMMA CleanupPidKeeps ==
    ASSUME NEW i \in Installers, IInv, CleanupPid(i) PROVE IInv'
<1>1. pc[i] \in Acquiring /\ pc[i] \in Running /\ holds[i] /\ TypeOK
    BY DEF CleanupPid, IInv, Stations
<1>2. \A j \in Installers : Me(j)' = Me(j)
    BY DEF CleanupPid, Me
<1>3. TypeOK'
  <2>1. cleanupLock' \in Locks
    <3>1. Me(i) \in Shells /\ cleanupLock \in Locks
        BY <1>1, Own DEF TypeOK
    <3>2. cleanupLock # None => [cleanupLock EXCEPT !.pid = Me(i)] \in Locks
        BY <3>1, Signed
    <3> QED
        BY <3>1, <3>2 DEF CleanupPid
  <2>2. /\ pc' \in [Installers -> Running \cup Calling \cup Over]
        /\ \A j \in Installers : pc'[j] \in Running => attempt'[j] > 0
    <3>1. \E p \in Running \cup Over : pc' = [pc EXCEPT ![i] = p]
        BY DEF CleanupPid
    <3>2. attempt' = attempt
        BY DEF CleanupPid
    <3> QED
        BY <1>1, <3>1, <3>2, Went
  <2>3. outcome' \in [Installers -> {"none", "ok", "retry", "error"}]
      BY <1>1 DEF CleanupPid, TypeOK
  <2> QED
      BY <1>1, <2>1, <2>2, <2>3 DEF CleanupPid, TypeOK
<1>4. Stations'
    BY DEF CleanupPid, IInv, TypeOK, Stations
<1>5. LockInv'
  <2>1. ~cleanupRobbed => cleanupLock # None /\ cleanupLock.by = Me(i)
      BY <1>1 DEF IInv, LockInv, CleanupOwned
  <2>2. cleanupLock # None => cleanupLock' # None /\ cleanupLock'.by = cleanupLock.by
                              /\ cleanupLock'.pid = Me(i)
    <3>1. Me(i) \in Shells /\ cleanupLock \in Locks
        BY <1>1, Own DEF TypeOK
    <3>2. cleanupLock # None => cleanupLock' = [cleanupLock EXCEPT !.pid = Me(i)]
        BY DEF CleanupPid
    <3>3. cleanupLock # None => /\ [cleanupLock EXCEPT !.pid = Me(i)] # None
                                /\ [cleanupLock EXCEPT !.pid = Me(i)].by = cleanupLock.by
                                /\ [cleanupLock EXCEPT !.pid = Me(i)].pid = Me(i)
        BY <3>1, Signed
    <3> QED
        BY <3>2, <3>3
  <2>3. /\ \A j \in Installers : j # i => pc'[j] = pc[j]
        /\ part[i] \in {"lock", "sweep"}
        /\ pc'[i] = IF cleanupLock = None THEN IF part[i] = "lock" THEN "failed" ELSE "exitLock"
                    ELSE IF part[i] = "sweep" THEN "sweep" ELSE "lock"
      BY <1>1 DEF CleanupPid, IInv, TypeOK, Stations
  <2>4. CleanupOwned'
    <3> SUFFICES ASSUME NEW j \in Installers, pc'[j] \in Running, holds[j], ~cleanupRobbed
                 PROVE  /\ cleanupLock' # None /\ cleanupLock'.by = Me(j)
                        /\ cleanupLock'.pid \in {None, Me(j)}
        BY <1>2 DEF CleanupPid, CleanupOwned
    <3>1. pc[j] \in Running
        BY <1>1, <2>3
    <3>2. cleanupLock # None /\ cleanupLock.by = Me(j)
        BY <3>1 DEF IInv, LockInv, CleanupOwned
    <3>3. Me(j) = Me(i)
        BY <2>1, <3>2
    <3> QED
        BY <2>2, <3>2, <3>3
  <2>5. LockOwned'
      BY <1>1, <1>2, <2>3 DEF CleanupPid, IInv, TypeOK, LockInv, LockOwned, Installing
  <2>6. ServerAbsent' /\ TargetUnlocked'
      BY <2>3 DEF CleanupPid, IInv, TypeOK, LockInv, ServerAbsent, TargetUnlocked, ServerPlace
  <2> QED
      BY <2>4, <2>5, <2>6 DEF LockInv
<1> QED
    BY <1>3, <1>4, <1>5 DEF IInv

\* The install lock of a version is made by one script, and while a target is
\* removed by nobody: the cleanup lock is held in both.
LEMMA LockMkdirKeeps ==
    ASSUME NEW i \in Installers, IInv, LockMkdir(i) PROVE IInv'
<1>1. pc[i] \in Running /\ TypeOK /\ Stations
    BY DEF LockMkdir, IInv
<1>2. /\ Me(i) \in Shells /\ Alive(Me(i))
      /\ [by |-> Me(i), pid |-> None] \in Locks \ {None}
    BY <1>1, Own
<1>3. TypeOK'
  <2>1. lock' \in [Versions -> Locks]
      BY <1>1, <1>2 DEF LockMkdir, TypeOK
  <2>2. /\ pc' \in [Installers -> Running \cup Calling \cup Over]
        /\ \A j \in Installers : pc'[j] \in Running => attempt'[j] > 0
    <3>1. \E p \in Running \cup Over : pc' = [pc EXCEPT ![i] = p]
        BY DEF LockMkdir
    <3>2. attempt' = attempt
        BY DEF LockMkdir
    <3> QED
        BY <1>1, <3>1, <3>2, Went
  <2> QED
      BY <1>1, <2>1, <2>2 DEF LockMkdir, TypeOK
<1>4. Stations'
    BY CountAssumption DEF LockMkdir, IInv, TypeOK, Stations, Missing, Ended
<1>5. LockInv'
    BY <1>2, Own DEF LockMkdir, IInv, TypeOK, Stations, LockInv, LockOwned, CleanupOwned,
                     ServerAbsent, TargetUnlocked, Installing, Me, Missing, Ended
<1> QED
    BY <1>3, <1>4, <1>5 DEF IInv

\* The lock that is removed is the one looked at, and its script is gone.
LEMMA BreakKeeps ==
    ASSUME NEW i \in Installers, IInv, Break(i) PROVE IInv'
<1>1. pc[i] = "seen" /\ part[i] = "lock" /\ TypeOK /\ version[i] \in Versions
    BY DEF Break, IInv, TypeOK, Stations
<1>2. \A j \in Installers : Me(j)' = Me(j)
    BY DEF Break, Me
<1>3. TypeOK'
  <2>1. robbed' \subseteq Versions
      BY <1>1 DEF Break, TypeOK
  <2>2. lock' \in [Versions -> Locks]
      BY <1>1 DEF Break, TypeOK, Locks
  <2> QED
      BY <1>1, <2>1, <2>2 DEF Break, TypeOK
<1>4. Stations'
    BY <1>1 DEF Break, IInv, TypeOK, Stations
<1>5. LockInv'
  <2>1. robbed \subseteq robbed'
      BY DEF Break
  <2>2. ASSUME NEW j \in Installers, Installing(j), version[j] = version[i],
               version[i] \notin robbed'
        PROVE  FALSE
    <3>1. pc[j] \in Running
        BY <2>2 DEF Installing
    <3>2. /\ lock[version[i]] # None /\ lock[version[i]].by = Me(j)
          /\ lock[version[i]].pid \in {None, Me(j)}
        BY <2>1, <2>2 DEF IInv, LockInv, LockOwned
    <3>3. Me(j) \in Shells /\ Alive(Me(j)) /\ Me(j) # None
        BY <1>1, <3>1, Own, NoneAssumption
    <3>4. ~Robs(i, lock[version[i]])
        BY <1>1, <2>2 DEF Break
    <3>5. lock[version[i]].pid = seen[i] /\ lock[version[i]].pid # None
        BY <3>2, <3>3, <3>4 DEF Robs
    <3> QED
        BY <3>2, <3>3, <3>5 DEF Break, Abandoned
  <2>3. LockOwned'
      BY <1>1, <1>2, <2>1, <2>2 DEF Break, IInv, TypeOK, LockInv, LockOwned, Installing
  <2>4. CleanupOwned'
      BY <1>1, <1>2 DEF Break, IInv, TypeOK, LockInv, CleanupOwned
  <2>5. ServerAbsent' /\ TargetUnlocked'
      BY <1>1, <2>1 DEF Break, IInv, TypeOK, Stations, LockInv, ServerAbsent, TargetUnlocked,
                        ServerPlace
  <2> QED
      BY <2>3, <2>4, <2>5 DEF LockInv
<1> QED
    BY <1>3, <1>4, <1>5 DEF IInv

\* The pid goes into the script's own install lock.
LEMMA WritePidKeeps ==
    ASSUME NEW i \in Installers, IInv, WritePid(i) PROVE IInv'
<1>1. pc[i] \in Running /\ Installing(i) /\ part[i] = "lock" /\ TypeOK /\ version[i] \in Versions
    BY DEF WritePid, IInv, TypeOK, Stations, Installing
<1>2. \A j \in Installers : Me(j)' = Me(j)
    BY DEF WritePid, Me
<1>3. TypeOK'
  <2>1. lock' \in [Versions -> Locks]
    <3>1. Me(i) \in Shells /\ lock[version[i]] \in Locks
        BY <1>1, Own DEF TypeOK
    <3>2. lock[version[i]] # None => [lock[version[i]] EXCEPT !.pid = Me(i)] \in Locks
        BY <3>1, Signed
    <3>3. CASE lock[version[i]] # None
      <4>1. lock' = [lock EXCEPT ![version[i]] = [lock[version[i]] EXCEPT !.pid = Me(i)]]
          BY <3>3 DEF WritePid
      <4> QED
          BY <1>1, <3>2, <3>3, <4>1 DEF TypeOK
    <3>4. CASE lock' = lock
        BY <1>1, <3>4 DEF TypeOK
    <3> QED
        BY <3>3, <3>4 DEF WritePid
  <2>2. part' \in [Installers -> Kinds \cup {"lock", "sweep"}]
      BY <1>1 DEF WritePid, TypeOK
  <2>4. lockTries' \in [Installers -> 0..(LockTries + 1)]
      BY <1>1, CountAssumption DEF WritePid, TypeOK
  <2>3. /\ pc' \in [Installers -> Running \cup Calling \cup Over]
        /\ \A j \in Installers : pc'[j] \in Running => attempt'[j] > 0
    <3>1. \E p \in Running \cup Over : pc' = [pc EXCEPT ![i] = p]
        BY DEF WritePid
    <3>2. attempt' = attempt
        BY DEF WritePid
    <3> QED
        BY <1>1, <3>1, <3>2, Went
  <2> QED
      BY <1>1, <2>1, <2>2, <2>3, <2>4 DEF WritePid, TypeOK
<1>4. Stations'
    BY <1>1 DEF WritePid, IInv, TypeOK, Stations
<1>5. LockInv'
  <2>1. version[i] \notin robbed => lock[version[i]] # None /\ lock[version[i]].by = Me(i)
      BY <1>1 DEF IInv, LockInv, LockOwned
  <2>2. /\ lock[version[i]] # None =>
            /\ lock'[version[i]] # None
            /\ lock'[version[i]].by = lock[version[i]].by /\ lock'[version[i]].pid = Me(i)
        /\ \A v \in Versions : v # version[i] \/ lock[v] = None => lock'[v] = lock[v]
    <3>1. Me(i) \in Shells /\ lock[version[i]] \in Locks
        BY <1>1, Own DEF TypeOK
    <3>2. CASE lock[version[i]] # None
      <4>1. lock' = [lock EXCEPT ![version[i]] = [lock[version[i]] EXCEPT !.pid = Me(i)]]
          BY <3>2 DEF WritePid
      <4>2. lock'[version[i]] = [lock[version[i]] EXCEPT !.pid = Me(i)]
          BY <1>1, <4>1 DEF TypeOK
      <4>3. \A v \in Versions : v # version[i] => lock'[v] = lock[v]
          BY <4>1 DEF TypeOK
      <4> QED
          BY <3>1, <3>2, <4>2, <4>3, Signed
    <3>3. CASE lock[version[i]] = None
        BY <3>3 DEF WritePid
    <3> QED
        BY <3>2, <3>3
  <2>3. /\ \A j \in Installers : j # i => pc'[j] = pc[j] /\ part'[j] = part[j]
        /\ \/ lock[version[i]] # None /\ pc'[i] = "part" /\ part'[i] = "node"
           \/ lock[version[i]] = None /\ pc'[i] = "failed" /\ part'[i] = "lock"
      BY <1>1 DEF WritePid, TypeOK
  <2>4. version[i] \notin robbed =>
            \A j \in Installers : Installing(j) /\ version[j] = version[i] => j = i
      BY <1>1, <2>1 DEF IInv, LockInv, LockOwned, Me
  <2>5. LockOwned'
      BY <1>1, <1>2, <2>1, <2>2, <2>3, <2>4
         DEF WritePid, IInv, TypeOK, LockInv, LockOwned, Installing
  <2>6. CleanupOwned'
    <3>1. \A j \in Installers : pc'[j] \in Running => pc[j] \in Running
        BY <1>1, <2>3
    <3>2. UNCHANGED <<holds, cleanupLock, cleanupRobbed>>
        BY DEF WritePid
    <3> QED
        BY <1>2, <3>1, <3>2 DEF IInv, LockInv, CleanupOwned
  <2>7. UNCHANGED <<version, target, installed, aged, history>>
      BY DEF WritePid
  <2>8. ServerAbsent'
      BY <2>3, <2>7 DEF IInv, LockInv, ServerAbsent, ServerPlace
  <2>9. TargetUnlocked'
    <3> SUFFICES ASSUME NEW j \in Installers, pc'[j] = "sweepRemove", ~cleanupRobbed,
                        target[j] \notin robbed
                 PROVE  target[j] \in aged /\ lock'[target[j]] = None
        BY <2>7 DEF TargetUnlocked
    <3>1. pc[j] = "sweepRemove"
        BY <2>3
    <3>2. target[j] \in aged /\ lock[target[j]] = None /\ aged \subseteq Versions
        BY <3>1 DEF IInv, TypeOK, LockInv, TargetUnlocked
    <3> QED
        BY <2>2, <3>2
  <2> QED
      BY <2>5, <2>6, <2>8, <2>9 DEF LockInv
<1> QED
    BY <1>3, <1>4, <1>5 DEF IInv

----------------------------------------------------------------------------
(* Every step.                                                             *)

\* What any call does.
Action(i) == Step(i) \/ StartServer(i) \/ Killed(i) \/ Interrupted(i)

\* The variables keep their types.
LEMMA TypesKept ==
    ASSUME NEW i \in Installers, IInv, Action(i) PROVE TypeOK'
<1>1. CASE Start(i)
    BY <1>1, CountAssumption DEF Start, IInv, TypeOK, Stations
<1>2. CASE CleanupMkdir(i)
    BY <1>2, CleanupMkdirKeeps DEF IInv
<1>3. CASE CleanupRead(i)
    BY <1>3, CountAssumption DEF CleanupRead, PidIn, IInv, TypeOK, Locks
<1>4. CASE CleanupBreak(i)
    BY <1>4 DEF CleanupBreak, IInv, TypeOK, Locks
<1>5. CASE CleanupWait(i)
    BY <1>5, CountAssumption DEF CleanupWait, IInv, TypeOK
<1>6. CASE CleanupPid(i)
    BY <1>6, CleanupPidKeeps DEF IInv
<1>7. CASE LockMkdir(i)
    BY <1>7, LockMkdirKeeps DEF IInv
<1>8. CASE Release(i)
    BY <1>8 DEF Release, IInv, TypeOK, Locks
<1>9. CASE LookInstalled(i)
    BY <1>9 DEF LookInstalled, IInv, TypeOK
<1>10. CASE Look(i)
    BY <1>10, CountAssumption DEF Look, PidIn, IInv, TypeOK, Locks
<1>11. CASE Break(i)
    BY <1>11, BreakKeeps DEF IInv
<1>12. CASE Wait(i)
    BY <1>12 DEF Wait, IInv, TypeOK
<1>13. CASE WritePid(i)
    BY <1>13, WritePidKeeps DEF IInv
<1>14. CASE Present(i)
    BY <1>14 DEF Present, IInv, TypeOK
<1>15. CASE ArchiveThere(i)
    BY <1>15 DEF ArchiveThere, Missing, IInv, TypeOK
<1>16. CASE Download(i)
    BY <1>16 DEF Download, Missing, IInv, TypeOK
<1>17. CASE DownloadFails(i)
    BY <1>17 DEF DownloadFails, Missing, IInv, TypeOK
<1>18. CASE Verify(i)
    BY <1>18 DEF Verify, IInv, TypeOK
<1>19. CASE VerifyFails(i)
    BY <1>19 DEF VerifyFails, Unlink, IInv, TypeOK
<1>20. CASE Extract(i)
    BY <1>20 DEF Extract, IInv, TypeOK
<1>21. CASE ExtractFails(i)
    BY <1>21 DEF ExtractFails, IInv, TypeOK
<1>22. CASE Prepare(i)
    BY <1>22 DEF Prepare, IInv, TypeOK
<1>23. CASE PrepareFails(i)
    BY <1>23 DEF PrepareFails, IInv, TypeOK
<1>24. CASE Remove(i)
    BY <1>24 DEF Remove, IInv, TypeOK
<1>25. CASE Move(i)
  <2>1. Place(i) \in Places
      BY RuntimeAssumption DEF IInv, TypeOK, Place, Places, NodePlace, ServerPlace
  <2>2. part' \in [Installers -> Kinds \cup {"lock", "sweep"}]
      BY <1>25 DEF Move, IInv, TypeOK
  <2> QED
      BY <1>25, <2>1, <2>2 DEF Move, IInv, TypeOK
<1>26. CASE Drop(i)
    BY <1>26 DEF Drop, Unlink, IInv, TypeOK
<1>27. CASE Sweep(i)
  <2>1. {v \in Versions \ {version[i]} : ServerPlace(v) \in installed} \in SUBSET Versions
      OBVIOUS
  <2>2. unswept' \in [Installers -> SUBSET Versions]
      BY <1>27, <2>1 DEF Sweep, IInv, TypeOK
  <2>3. /\ pc' \in [Installers -> Running \cup Calling \cup Over]
        /\ \A j \in Installers : pc'[j] \in Running => attempt'[j] > 0
    <3>1. pc[i] \in Running /\ attempt' = attempt
        BY <1>27 DEF Sweep
    <3>2. \E p \in Running \cup Over : pc' = [pc EXCEPT ![i] = p]
        BY <1>27 DEF Sweep
    <3> QED
        BY <3>1, <3>2, Went DEF IInv
  <2> QED
      BY <1>27, <2>2, <2>3 DEF Sweep, IInv, TypeOK
<1>28. CASE SweepLook(i)
    BY <1>28 DEF SweepLook, IInv, TypeOK
<1>29. CASE SweepRemove(i)
    BY <1>29 DEF SweepRemove, IInv, TypeOK
<1>30. CASE SweepEnds(i)
    BY <1>30 DEF SweepEnds, IInv, TypeOK
<1>31. CASE ExitLock(i)
    BY <1>31 DEF ExitLock, Ended, IInv, TypeOK, Locks
<1>32. CASE ExitCleanup(i)
    BY <1>32 DEF ExitCleanup, Ended, IInv, TypeOK, Locks
<1>33. CASE Transfer(i)
    BY <1>33 DEF Transfer, IInv, TypeOK
<1>34. CASE Transferred(i)
    BY <1>34 DEF Transferred, IInv, TypeOK
<1>35. CASE TransferFails(i)
    BY <1>35 DEF TransferFails, IInv, TypeOK
<1>36. CASE StartServer(i)
    BY <1>36 DEF StartServer, IInv, TypeOK
<1>37. CASE Killed(i)
    BY <1>37, CountAssumption DEF Killed, IInv, TypeOK
<1>38. CASE Interrupted(i)
    BY <1>38, CountAssumption DEF Interrupted, IInv, TypeOK
<1> QED
    BY <1>1, <1>2, <1>3, <1>4, <1>5, <1>6, <1>7, <1>8, <1>9, <1>10, <1>11, <1>12, <1>13, <1>14,
       <1>15, <1>16, <1>17, <1>18, <1>19, <1>20, <1>21, <1>22, <1>23, <1>24, <1>25, <1>26,
       <1>27, <1>28, <1>29, <1>30, <1>31, <1>32, <1>33, <1>34, <1>35, <1>36, <1>37, <1>38 DEF
       Action, Step

\* A script holds what its place in the program says.
LEMMA StationsKept ==
    ASSUME NEW i \in Installers, IInv, Action(i) PROVE Stations'
<1>1. CASE Start(i)
    BY <1>1, CountAssumption DEF Start, IInv, TypeOK, Stations
<1>2. CASE CleanupMkdir(i)
    BY <1>2, CleanupMkdirKeeps DEF IInv
<1>3. CASE CleanupRead(i)
    BY <1>3 DEF CleanupRead, IInv, TypeOK, Stations
<1>4. CASE CleanupBreak(i)
    BY <1>4 DEF CleanupBreak, IInv, TypeOK, Stations
<1>5. CASE CleanupWait(i)
    BY <1>5 DEF CleanupWait, IInv, TypeOK, Stations
<1>6. CASE CleanupPid(i)
    BY <1>6, CleanupPidKeeps DEF IInv
<1>7. CASE LockMkdir(i)
    BY <1>7, LockMkdirKeeps DEF IInv
<1>8. CASE Release(i)
    BY <1>8 DEF Release, IInv, TypeOK, Stations
<1>9. CASE LookInstalled(i)
    BY <1>9 DEF LookInstalled, IInv, TypeOK, Stations
<1>10. CASE Look(i)
    BY <1>10 DEF Look, IInv, TypeOK, Stations
<1>11. CASE Break(i)
    BY <1>11, BreakKeeps DEF IInv
<1>12. CASE Wait(i)
    BY <1>12 DEF Wait, IInv, TypeOK, Stations
<1>13. CASE WritePid(i)
    BY <1>13, WritePidKeeps DEF IInv
<1>14. CASE Present(i)
  <2>1. pc[i] \in Building /\ part[i] \in Kinds
      BY <1>14 DEF Present, IInv, Stations
  <2>2. CASE part[i] = "node"
      BY <1>14, <2>1, <2>2 DEF Present, IInv, TypeOK, Stations
  <2>3. CASE part[i] = "server"
      BY <1>14, <2>1, <2>3 DEF Present, IInv, TypeOK, Stations
  <2> QED
      BY <2>1, <2>2, <2>3
<1>15. CASE ArchiveThere(i)
    BY <1>15 DEF ArchiveThere, Missing, IInv, TypeOK, Stations
<1>16. CASE Download(i)
    BY <1>16 DEF Download, Missing, IInv, TypeOK, Stations
<1>17. CASE DownloadFails(i)
    BY <1>17 DEF DownloadFails, Missing, IInv, TypeOK, Stations
<1>18. CASE Verify(i)
    BY <1>18 DEF Verify, IInv, TypeOK, Stations
<1>19. CASE VerifyFails(i)
    BY <1>19 DEF VerifyFails, IInv, TypeOK, Stations
<1>20. CASE Extract(i)
    BY <1>20 DEF Extract, IInv, TypeOK, Stations
<1>21. CASE ExtractFails(i)
    BY <1>21 DEF ExtractFails, IInv, TypeOK, Stations
<1>22. CASE Prepare(i)
    BY <1>22 DEF Prepare, IInv, TypeOK, Stations
<1>23. CASE PrepareFails(i)
    BY <1>23 DEF PrepareFails, IInv, TypeOK, Stations
<1>24. CASE Remove(i)
    BY <1>24 DEF Remove, IInv, TypeOK, Stations
<1>25. CASE Move(i)
    BY <1>25 DEF Move, IInv, TypeOK, Stations
<1>26. CASE Drop(i)
    BY <1>26 DEF Drop, IInv, TypeOK, Stations
<1>27. CASE Sweep(i)
    BY <1>27 DEF Sweep, IInv, TypeOK, Stations
<1>28. CASE SweepLook(i)
    BY <1>28 DEF SweepLook, IInv, TypeOK, Stations
<1>29. CASE SweepRemove(i)
    BY <1>29 DEF SweepRemove, IInv, TypeOK, Stations
<1>30. CASE SweepEnds(i)
    BY <1>30 DEF SweepEnds, IInv, TypeOK, Stations
<1>31. CASE ExitLock(i)
    BY <1>31 DEF ExitLock, Ended, IInv, TypeOK, Stations
<1>32. CASE ExitCleanup(i)
    BY <1>32 DEF ExitCleanup, Ended, IInv, TypeOK, Stations
<1>33. CASE Transfer(i)
    BY <1>33 DEF Transfer, IInv, TypeOK, Stations
<1>34. CASE Transferred(i)
    BY <1>34, CountAssumption DEF Transferred, IInv, TypeOK, Stations
<1>35. CASE TransferFails(i)
    BY <1>35 DEF TransferFails, IInv, TypeOK, Stations
<1>36. CASE StartServer(i)
    BY <1>36 DEF StartServer, IInv, TypeOK, Stations
<1>37. CASE Killed(i)
    BY <1>37 DEF Killed, IInv, TypeOK, Stations
<1>38. CASE Interrupted(i)
    BY <1>38 DEF Interrupted, IInv, TypeOK, Stations
<1> QED
    BY <1>1, <1>2, <1>3, <1>4, <1>5, <1>6, <1>7, <1>8, <1>9, <1>10, <1>11, <1>12, <1>13, <1>14,
       <1>15, <1>16, <1>17, <1>18, <1>19, <1>20, <1>21, <1>22, <1>23, <1>24, <1>25, <1>26,
       <1>27, <1>28, <1>29, <1>30, <1>31, <1>32, <1>33, <1>34, <1>35, <1>36, <1>37, <1>38 DEF
       Action, Step

\* What is locked stays locked until its script, or the next one after its death,
\* removes the lock.
LEMMA LocksKept ==
    ASSUME NEW i \in Installers, IInv, Action(i) PROVE LockInv'
<1>1. CASE Start(i)
    BY <1>1 DEF Start, IInv, TypeOK, Stations, LockInv, LockOwned, CleanupOwned, ServerAbsent,
                TargetUnlocked, Installing, Me
<1>2. CASE CleanupMkdir(i)
    BY <1>2, CleanupMkdirKeeps DEF IInv
<1>3. CASE CleanupRead(i)
    BY <1>3 DEF CleanupRead, IInv, TypeOK, Stations, LockInv, LockOwned, CleanupOwned,
                ServerAbsent, TargetUnlocked, Installing, Me
<1>4. CASE CleanupBreak(i)
    BY <1>4, CleanupBreakKeeps
<1>5. CASE CleanupWait(i)
    BY <1>5 DEF CleanupWait, CleanupAbandoned, IInv, TypeOK, Stations, LockInv, LockOwned,
                CleanupOwned, ServerAbsent, TargetUnlocked, Installing, Me
<1>6. CASE CleanupPid(i)
    BY <1>6, CleanupPidKeeps DEF IInv
<1>7. CASE LockMkdir(i)
    BY <1>7, LockMkdirKeeps DEF IInv
<1>8. CASE Release(i)
    BY <1>8, NoneAssumption DEF Release, IInv, TypeOK, Stations, LockInv, LockOwned,
                                CleanupOwned, ServerAbsent, TargetUnlocked, Installing, Me
<1>9. CASE LookInstalled(i)
    BY <1>9 DEF LookInstalled, IInv, TypeOK, Stations, LockInv, LockOwned, CleanupOwned,
                ServerAbsent, TargetUnlocked, Installing, Me
<1>10. CASE Look(i)
    BY <1>10 DEF Look, IInv, TypeOK, Stations, LockInv, LockOwned, CleanupOwned, ServerAbsent,
                 TargetUnlocked, Installing, Me
<1>11. CASE Break(i)
    BY <1>11, BreakKeeps DEF IInv
<1>12. CASE Wait(i)
    BY <1>12 DEF Wait, Abandoned, IInv, TypeOK, Stations, LockInv, LockOwned, CleanupOwned,
                 ServerAbsent, TargetUnlocked, Installing, Me
<1>13. CASE WritePid(i)
    BY <1>13, WritePidKeeps DEF IInv
<1>14. CASE Present(i)
    BY <1>14 DEF Present, Place, IInv, TypeOK, Stations, LockInv, LockOwned, CleanupOwned,
                 ServerAbsent, TargetUnlocked, Installing, Me
<1>15. CASE ArchiveThere(i)
  <2>1. part[i] = "server" => Place(i) = ServerPlace(version[i])
      BY DEF Place
  <2> QED
      BY <1>15, <2>1 DEF ArchiveThere, Missing, IInv, TypeOK, Stations, LockInv, LockOwned,
                         CleanupOwned,
                     ServerAbsent, TargetUnlocked, Installing, Me
<1>16. CASE Download(i)
  <2>1. part[i] = "server" => Place(i) = ServerPlace(version[i])
      BY DEF Place
  <2> QED
      BY <1>16, <2>1 DEF Download, Missing, IInv, TypeOK, Stations, LockInv, LockOwned,
                         CleanupOwned,
                     ServerAbsent, TargetUnlocked, Installing, Me
<1>17. CASE DownloadFails(i)
    BY <1>17 DEF DownloadFails, Missing, IInv, TypeOK, Stations, LockInv, LockOwned,
                 CleanupOwned, ServerAbsent, TargetUnlocked, Installing, Me
<1>18. CASE Verify(i)
    BY <1>18 DEF Verify, IInv, TypeOK, Stations, LockInv, LockOwned, CleanupOwned,
                 ServerAbsent, TargetUnlocked, Installing, Me
<1>19. CASE VerifyFails(i)
    BY <1>19 DEF VerifyFails, IInv, TypeOK, Stations, LockInv, LockOwned, CleanupOwned,
                 ServerAbsent, TargetUnlocked, Installing, Me
<1>20. CASE Extract(i)
    BY <1>20 DEF Extract, IInv, TypeOK, Stations, LockInv, LockOwned, CleanupOwned,
                 ServerAbsent, TargetUnlocked, Installing, Me
<1>21. CASE ExtractFails(i)
    BY <1>21 DEF ExtractFails, IInv, TypeOK, Stations, LockInv, LockOwned, CleanupOwned,
                 ServerAbsent, TargetUnlocked, Installing, Me
<1>22. CASE Prepare(i)
    BY <1>22 DEF Prepare, IInv, TypeOK, Stations, LockInv, LockOwned, CleanupOwned,
                 ServerAbsent, TargetUnlocked, Installing, Me
<1>23. CASE PrepareFails(i)
    BY <1>23 DEF PrepareFails, IInv, TypeOK, Stations, LockInv, LockOwned, CleanupOwned,
                 ServerAbsent, TargetUnlocked, Installing, Me
<1>24. CASE Remove(i)
    BY <1>24 DEF Remove, Place, ServerPlace, NodePlace, IInv, TypeOK, Stations, LockInv,
                 LockOwned, CleanupOwned, ServerAbsent, TargetUnlocked, Installing, Me
<1>25. CASE Move(i)
    BY <1>25 DEF Move, Place, ServerPlace, NodePlace, IInv, TypeOK, Stations, LockInv,
                 LockOwned, CleanupOwned, ServerAbsent, TargetUnlocked, Installing, Me
<1>26. CASE Drop(i)
    BY <1>26 DEF Drop, IInv, TypeOK, Stations, LockInv, LockOwned, CleanupOwned, ServerAbsent,
                 TargetUnlocked, Installing, Me
<1>27. CASE Sweep(i)
    BY <1>27 DEF Sweep, IInv, TypeOK, Stations, LockInv, LockOwned, CleanupOwned, ServerAbsent,
                 TargetUnlocked, Installing, Me
<1>28. CASE SweepLook(i)
    BY <1>28, NoneAssumption DEF SweepLook, Removable, IInv, TypeOK, Stations, LockInv,
                                 LockOwned, CleanupOwned, ServerAbsent, TargetUnlocked,
                                 Installing, Me
<1>29. CASE SweepRemove(i)
    BY <1>29 DEF SweepRemove, ServerPlace, IInv, TypeOK, Stations, LockInv, LockOwned,
                 CleanupOwned, ServerAbsent, TargetUnlocked, Installing, Me
<1>30. CASE SweepEnds(i)
    BY <1>30 DEF SweepEnds, IInv, TypeOK, Stations, LockInv, LockOwned, CleanupOwned,
                 ServerAbsent, TargetUnlocked, Installing, Me
<1>31. CASE ExitLock(i)
    BY <1>31, NoneAssumption DEF ExitLock, Ended, IInv, TypeOK, Stations, LockInv, LockOwned,
                                 CleanupOwned, ServerAbsent, TargetUnlocked, Installing, Me
<1>32. CASE ExitCleanup(i)
    BY <1>32, NoneAssumption DEF ExitCleanup, Ended, IInv, TypeOK, Stations, LockInv,
                                 LockOwned, CleanupOwned, ServerAbsent, TargetUnlocked,
                                 Installing, Me
<1>33. CASE Transfer(i)
    BY <1>33 DEF Transfer, IInv, TypeOK, Stations, LockInv, LockOwned, CleanupOwned,
                 ServerAbsent, TargetUnlocked, Installing, Me
<1>34. CASE Transferred(i)
    BY <1>34 DEF Transferred, IInv, TypeOK, Stations, LockInv, LockOwned, CleanupOwned,
                 ServerAbsent, TargetUnlocked, Installing, Me
<1>35. CASE TransferFails(i)
    BY <1>35 DEF TransferFails, IInv, TypeOK, Stations, LockInv, LockOwned, CleanupOwned,
                 ServerAbsent, TargetUnlocked, Installing, Me
<1>36. CASE StartServer(i)
    BY <1>36 DEF StartServer, IInv, TypeOK, Stations, LockInv, LockOwned, CleanupOwned,
                 ServerAbsent, TargetUnlocked, Installing, Me
<1>37. CASE Killed(i)
    BY <1>37 DEF Killed, IInv, TypeOK, Stations, LockInv, LockOwned, CleanupOwned,
                 ServerAbsent, TargetUnlocked, Installing, Me
<1>38. CASE Interrupted(i)
    BY <1>38 DEF Interrupted, IInv, TypeOK, Stations, LockInv, LockOwned, CleanupOwned,
                 ServerAbsent, TargetUnlocked, Installing, Me
<1> QED
    BY <1>1, <1>2, <1>3, <1>4, <1>5, <1>6, <1>7, <1>8, <1>9, <1>10, <1>11, <1>12, <1>13, <1>14,
       <1>15, <1>16, <1>17, <1>18, <1>19, <1>20, <1>21, <1>22, <1>23, <1>24, <1>25, <1>26,
       <1>27, <1>28, <1>29, <1>30, <1>31, <1>32, <1>33, <1>34, <1>35, <1>36, <1>37, <1>38 DEF
       Action, Step

\* Nobody runs at first.
THEOREM InitIInv == Init => IInv
<1> SUFFICES ASSUME Init PROVE IInv
    OBVIOUS
<1>1. TypeOK
  <2>1. aged \in SUBSET Versions
      BY OldAssumption DEF Init
  <2>2. installed \in SUBSET Places
    <3>1. \A v \in aged : <<"server", v>> \in Places /\ <<"node", RuntimeOf[v]>> \in Places
        BY <2>1, RuntimeAssumption DEF Places
    <3> QED
        BY <3>1 DEF Init
  <2>3. archive \in [Versions \X Kinds -> {"none", "partial", "good"}]
      BY DEF Init
  <2>4. lock \in [Versions -> Locks] /\ cleanupLock \in Locks
      BY DEF Init, Locks
  <2>5. /\ attempt \in [Installers -> 0..Attempts]
        /\ lockTries \in [Installers -> 0..(LockTries + 1)]
        /\ cleanupTries \in [Installers -> 0..(BareTries + 1)]
        /\ kills \in 0..MaxKills
      BY CountAssumption DEF Init
  <2>6. \A i \in Installers : pc[i] = "idle"
      BY DEF Init
  <2> QED
      BY <2>1, <2>2, <2>3, <2>4, <2>5, <2>6 DEF Init, TypeOK
<1>2. Stations
  <2>1. \A i \in Installers : pc[i] = "idle" /\ ~holds[i] /\ attempt[i] = 0
      BY DEF Init
  <2>2. 0 < Attempts
      BY CountAssumption
  <2> QED
      BY <2>1, <2>2 DEF Stations
<1>3. LockInv
    BY DEF Init, LockInv, LockOwned, CleanupOwned, ServerAbsent, TargetUnlocked, Installing
<1> QED
    BY <1>1, <1>2, <1>3 DEF IInv

\* Every command of a script, and everything that happens to one, keeps the invariant.
THEOREM NextIInv == IInv /\ [Next]_vars => IInv'
<1> SUFFICES ASSUME IInv, [Next]_vars PROVE IInv'
    OBVIOUS
<1>1. ASSUME NEW i \in Installers, Action(i) PROVE IInv'
    BY <1>1, TypesKept, StationsKept, LocksKept DEF IInv
<1>2. CASE UNCHANGED vars
  <2>1. TypeOK' /\ Stations'
      BY <1>2 DEF vars, IInv, TypeOK, Stations
  <2>2. LockInv'
      BY <1>2 DEF vars, IInv, LockInv, LockOwned, CleanupOwned, ServerAbsent, TargetUnlocked,
                  Installing, Me
  <2> QED
      BY <2>1, <2>2 DEF IInv
<1> QED
    BY <1>1, <1>2 DEF Next, Action

\* In every behaviour the invariant holds.
THEOREM IInvHolds == Spec => []IInv
BY InitIInv, NextIInv, PTL DEF Spec

\* The variables keep their types, and a pid names a run of the script.
THEOREM TypeCorrect == Spec => []TypeOK
<1>1. IInv => TypeOK
    BY DEF IInv
<1> QED
    BY <1>1, IInvHolds, PTL

----------------------------------------------------------------------------
(* What the locks are for.                                                 *)

\* Two scripts that install a version would both have made its lock.
LEMMA OneInstaller == IInv => SingleInstaller
<1> SUFFICES ASSUME IInv, NEW i \in Installers, NEW j \in Installers,
                    version[i] = version[j], version[i] \notin robbed,
                    Installing(i), Installing(j)
             PROVE  i = j
    BY DEF SingleInstaller, Installing
<1>1. lock[version[i]].by = Me(i) /\ lock[version[j]].by = Me(j)
    BY DEF IInv, LockInv, LockOwned
<1> QED
    BY <1>1 DEF Me

\* A server is taken away in two places only.
LEMMA Takers ==
    ASSUME NEW i \in Installers, Action(i), NEW p \in installed, p \notin installed'
    PROVE  Remove(i) \/ SweepRemove(i)
<1>1. installed \subseteq installed' \/ Remove(i) \/ SweepRemove(i)
    BY DEF Action, Step, Start, CleanupMkdir, CleanupRead, CleanupBreak, CleanupWait, CleanupPid,
           LockMkdir, Release, LookInstalled, Look, Break, Wait, WritePid, Present, ArchiveThere,
           Download, DownloadFails, Verify, VerifyFails, Extract, ExtractFails, Prepare,
           PrepareFails, Move, Drop, Sweep, SweepLook, SweepEnds, ExitLock, ExitCleanup,
           Transfer, Transferred, TransferFails, StartServer, Killed, Interrupted
<1> QED
    BY <1>1

\* Kept of a version in a step.
Kept(v) ==
    ServerPlace(v) \in installed \ installed' /\ v \notin robbed /\ ~cleanupRobbed =>
        /\ v \in aged
        /\ \A i \in Installers : version[i] = v => pc[i] \notin Building \cup Sweeping

\* The script that builds a server removes none, since there is none; a cleanup
\* removes an old one that is not locked, and so nobody installs it.
LEMMA StepKeeps ==
    ASSUME IInv, [Next]_vars, NEW v \in Versions PROVE Kept(v)
<1> SUFFICES ASSUME ServerPlace(v) \in installed, ServerPlace(v) \notin installed',
                    v \notin robbed, ~cleanupRobbed
             PROVE  /\ v \in aged
                    /\ \A j \in Installers : version[j] = v => pc[j] \notin Building \cup Sweeping
    BY DEF Kept
<1>1. PICK i \in Installers : Action(i)
    BY DEF Next, Action, vars
<1>2. CASE Remove(i)
  <2>1. ServerPlace(v) = Place(i) /\ pc[i] = "remove" /\ part[i] \in Kinds
      BY <1>2 DEF Remove, IInv, Stations
  <2>2. part[i] = "server" /\ version[i] = v
      BY <2>1 DEF Place, NodePlace, ServerPlace
  <2> QED
      BY <2>1, <2>2 DEF IInv, LockInv, ServerAbsent
<1>3. CASE SweepRemove(i)
  <2>1. target[i] = v /\ pc[i] = "sweepRemove"
      BY <1>3 DEF SweepRemove, ServerPlace
  <2>2. v \in aged /\ lock[v] = None
      BY <2>1 DEF IInv, LockInv, TargetUnlocked
  <2>3. \A j \in Installers : version[j] = v => ~Installing(j)
      BY <2>2 DEF IInv, LockInv, LockOwned
  <2> QED
      BY <2>2, <2>3 DEF Installing
<1> QED
    BY <1>1, <1>2, <1>3, Takers

\* As long as its install lock is not robbed, one script at a time installs a
\* version; as long as the cleanup lock is not robbed either, no server is
\* taken away while one does, or unless it is old: the locks of the script, its
\* waits and its traps, whoever is killed when.
THEOREM LocksDoProtect == Spec => LocksProtect
<1>1. IInv /\ [Next]_vars =>
        [\A v \in Versions :
            ServerPlace(v) \in installed \ installed' /\ v \notin robbed /\ ~cleanupRobbed =>
                /\ v \in aged
                /\ \A i \in Installers : version[i] = v => pc[i] \notin Building \cup Sweeping]_vars
    BY StepKeeps DEF Kept
<1> QED
    BY <1>1, IInvHolds, OneInstaller, PTL DEF Spec, LocksProtect, ServersKept

=============================================================================
