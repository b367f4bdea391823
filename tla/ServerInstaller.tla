--------------------------- MODULE ServerInstaller ---------------------------
(***************************************************************************)
(* The installation of versioned servers on one remote host.  A helper     *)
(* that misses its version there (installServer) runs a shell script on    *)
(* the host, up to three times: when the script can not download an        *)
(* archive it asks for it and exits, and the helper transfers the archive  *)
(* and runs the script again.  The helpers of different windows, users'    *)
(* machines and versions do this at the same time, and meet only in the    *)
(* directories of the host: a lock for each version, a lock for the        *)
(* removal of old versions, incoming archives, and the promoted servers    *)
(* and Node runtimes.  Versions may share a runtime.                       *)
(*                                                                         *)
(* A step is one command of the script that reads or changes what another  *)
(* script can change; what it does in its own temporary directory goes     *)
(* with the command before.  A recursive removal, a download by the script *)
(* and the two tests at line 186 are single steps.  A counter or pid goes  *)
(* back to its first value where the script reads it no more.              *)
(*                                                                         *)
(* An operator with a suffix in lower case, as Transferred_oneMore, is a   *)
(* wrong variant of the definition below it, and no part of Spec.          *)
(***************************************************************************)
EXTENDS Naturals

CONSTANTS Installers,   \* calls of installServer
          Versions,     \* manifest.serverVersion
          Runtimes,     \* manifest.nodeVersion
          RuntimeOf,    \* the runtime of a version
          OldVersions,  \* versions whose newest file is 14 days old, if they are there
          Attempts,     \* runs of the script by one call: 3
          BareTries,    \* turns before a lock without a pid is removed: 10
          LockTries,    \* turns before the wait for the install lock ends: 300
          MaxKills,     \* bound on kills and signals
          None

ASSUME RuntimeAssumption == RuntimeOf \in [Versions -> Runtimes]
ASSUME OldAssumption == OldVersions \subseteq Versions
ASSUME CountAssumption ==
    /\ Attempts \in Nat \ {0}
    /\ {BareTries, LockTries, MaxKills} \subseteq Nat
    /\ BareTries <= LockTries

Kinds == {"node", "server"}
Shells == Installers \X (1..Attempts)   \* the processes, known by their pids
Places == ({"node"} \X Runtimes) \cup ({"server"} \X Versions)
Locks == [by : Shells, pid : Shells \cup {None}] \cup {None}

ASSUME NoneAssumption == None \notin Shells \cup [by : Shells, pid : Shells \cup {None}]

VARIABLES
    version,      \* the version each call installs
    attempt,      \* how often it has run the script
    pc,           \* the next command of the script, or where the call stands
    part,         \* what the script is at: its lock, an archive, or the cleanup
    lockTries,    \* LOCK_TRIES
    cleanupTries, \* CLEANUP_LOCK_TRIES
    seen,         \* the pid read from a lock
    holds,        \* CLEANUP_LOCK_HELD
    outcome,      \* the exit status: 0, 85 or another
    unswept,      \* the versions its cleanup has not looked at
    target,       \* the version its cleanup removes
    lock,         \* install-VERSION.lock: who made it, and the pid in it
    cleanupLock,  \* cleanup.lock
    installed,    \* the promoted runtimes and servers
    aged,         \* the servers none of whose files is newer than 14 days
    archive,      \* incoming/VERSION: each archive's contents
    writing,      \* the calls whose cat still writes the archive's file
    kills,        \* bounds Killed and Interrupted
    robbed,       \* history: the versions whose install lock was robbed
    cleanupRobbed \* history: the cleanup lock was

script == <<attempt, part, lockTries, cleanupTries, seen, holds, outcome, unswept, target>>
disk == <<lock, cleanupLock, installed, aged, archive, writing>>
history == <<robbed, cleanupRobbed>>
vars == <<version, pc, script, disk, kills, history>>

Acquiring == {"cleanup", "cleanupBusy", "cleanupSeen", "cleanupPid"}
Locking == {"lock", "locked", "busy", "look", "seen", "pid"}
Building == {"part", "verify", "extract", "prepare", "remove", "move", "drop"}
Sweeping == {"sweep", "sweeping", "sweepRemove"}
Exiting == {"exitLock", "exitCleanup"}
Running == Acquiring \cup Locking \cup Building \cup Sweeping \cup Exiting
Over == {"reported", "started", "startFailed", "failed"}
Calling == {"idle", "transfer", "transferring"}

TypeOK ==
    /\ version \in [Installers -> Versions]
    /\ attempt \in [Installers -> 0..Attempts]
    /\ pc \in [Installers -> Running \cup Calling \cup Over]
    /\ part \in [Installers -> Kinds \cup {"lock", "sweep"}]
    /\ lockTries \in [Installers -> 0..(LockTries + 1)]
    /\ cleanupTries \in [Installers -> 0..(BareTries + 1)]
    /\ seen \in [Installers -> Shells \cup {None}]
    /\ holds \in [Installers -> BOOLEAN]
    /\ outcome \in [Installers -> {"none", "ok", "retry", "error"}]
    /\ unswept \in [Installers -> SUBSET Versions]
    /\ target \in [Installers -> Versions \cup {None}]
    /\ lock \in [Versions -> Locks]
    /\ cleanupLock \in Locks
    /\ installed \in SUBSET Places
    /\ aged \in SUBSET Versions
    /\ archive \in [Versions \X Kinds -> {"none", "partial", "good"}]
    /\ writing \in SUBSET Installers
    /\ kills \in 0..MaxKills
    /\ robbed \in SUBSET Versions
    /\ cleanupRobbed \in BOOLEAN
    /\ \A i \in Installers : pc[i] \in Running => attempt[i] > 0

\* The host has some of the old versions, each with its runtime.
Init ==
    /\ version \in [Installers -> Versions]
    /\ attempt = [i \in Installers |-> 0]
    /\ pc = [i \in Installers |-> "idle"]
    /\ part = [i \in Installers |-> "lock"]
    /\ lockTries = [i \in Installers |-> 0]
    /\ cleanupTries = [i \in Installers |-> 0]
    /\ seen = [i \in Installers |-> None]
    /\ holds = [i \in Installers |-> FALSE]
    /\ outcome = [i \in Installers |-> "none"]
    /\ unswept = [i \in Installers |-> {}]
    /\ target = [i \in Installers |-> None]
    /\ lock = [v \in Versions |-> None]
    /\ cleanupLock = None
    /\ aged \in SUBSET OldVersions
    /\ installed = {<<"server", v>> : v \in aged} \cup {<<"node", RuntimeOf[v]>> : v \in aged}
    /\ archive = [a \in Versions \X Kinds |-> "none"]
    /\ writing = {}
    /\ kills = 0
    /\ robbed = {}
    /\ cleanupRobbed = FALSE

----------------------------------------------------------------------------
(* Processes and places.                                                   *)

Me(i) == <<i, attempt[i]>>

\* kill -0.
Alive(p) == attempt[p[1]] = p[2] /\ pc[p[1]] \in Running

\* cat of a lock's pid file: nothing if the lock is gone or has no pid yet.
PidIn(l) == IF l = None THEN None ELSE l.pid

NodePlace(v) == <<"node", RuntimeOf[v]>>
ServerPlace(v) == <<"server", v>>
Place(i) == IF part[i] = "node" THEN NodePlace(version[i]) ELSE ServerPlace(version[i])
Complete(v) == {NodePlace(v), ServerPlace(v)} \subseteq installed

At(i, s) == pc[i] = s
Goto(i, s) == pc' = [pc EXCEPT ![i] = s]

\* The script removes the lock l, which it takes for a dead or forgotten one,
\* and robs its maker of it: since the look another lock, or another pid, has
\* come there, or the lock has no pid yet because its maker is slow.
Robs(i, l) == l # None /\ (l.pid # seen[i] \/ (l.pid = None /\ Alive(l.by)))

\* The exit status, and the trap at line 219 once it is set.
Exit(i, status) ==
    /\ outcome' = [outcome EXCEPT ![i] = status]
    /\ Goto(i, IF part[i] = "lock" THEN "failed" ELSE "exitLock")

----------------------------------------------------------------------------
(* The locks.                                                              *)

Start(i) ==
    /\ At(i, "idle")
    /\ attempt' = [attempt EXCEPT ![i] = @ + 1]
    /\ part' = [part EXCEPT ![i] = "lock"]
    /\ lockTries' = [lockTries EXCEPT ![i] = 0]
    /\ cleanupTries' = [cleanupTries EXCEPT ![i] = 0]
    /\ seen' = [seen EXCEPT ![i] = None]
    /\ outcome' = [outcome EXCEPT ![i] = "none"]
    /\ Goto(i, "cleanup")
    /\ UNCHANGED <<version, holds, unswept, target, disk, kills, history>>

\* mkdir of the cleanup lock.
CleanupMkdir(i) ==
    /\ At(i, "cleanup")
    /\ \/ /\ cleanupLock = None
          /\ cleanupLock' = [by |-> Me(i), pid |-> None]
          /\ holds' = [holds EXCEPT ![i] = TRUE]
          /\ cleanupTries' = [cleanupTries EXCEPT ![i] = 0]
          /\ Goto(i, "cleanupPid")
       \/ /\ cleanupLock # None
          /\ Goto(i, "cleanupBusy")
          /\ UNCHANGED <<cleanupLock, holds, cleanupTries>>
    /\ UNCHANGED <<version, attempt, part, lockTries, seen, outcome, unswept, target,
                   lock, installed, aged, archive, writing, kills, history>>

CleanupRead(i) ==
    /\ At(i, "cleanupBusy")
    /\ seen' = [seen EXCEPT ![i] = PidIn(cleanupLock)]
    /\ Goto(i, "cleanupSeen")
    /\ UNCHANGED <<version, attempt, part, lockTries, cleanupTries, holds, outcome, unswept, target,
                   disk, kills, history>>

CleanupAbandoned_noKill(i) == seen[i] = None /\ cleanupTries[i] > BareTries

CleanupAbandoned(i) ==
    IF seen[i] = None THEN cleanupTries[i] > BareTries ELSE ~Alive(seen[i])

CleanupBreak(i) ==
    /\ At(i, "cleanupSeen")
    /\ CleanupAbandoned(i)
    /\ cleanupLock' = None
    /\ cleanupRobbed' = (cleanupRobbed \/ Robs(i, cleanupLock))
    /\ seen' = [seen EXCEPT ![i] = None]
    /\ Goto(i, "cleanup")
    /\ UNCHANGED <<version, attempt, part, lockTries, cleanupTries, holds, outcome, unswept, target,
                   lock, installed, aged, archive, writing, kills, robbed>>

CleanupWait(i) ==
    /\ At(i, "cleanupSeen")
    /\ ~CleanupAbandoned(i)
    /\ cleanupTries' = [cleanupTries EXCEPT ![i] = IF @ > BareTries THEN @ ELSE @ + 1]
    /\ seen' = [seen EXCEPT ![i] = None]
    /\ Goto(i, "cleanup")
    /\ UNCHANGED <<version, attempt, part, lockTries, holds, outcome, unswept, target,
                   disk, kills, history>>

\* The redirection fails, and the script with it, if the lock has been removed.
CleanupPid(i) ==
    /\ At(i, "cleanupPid")
    /\ \/ /\ cleanupLock # None
          /\ cleanupLock' = [cleanupLock EXCEPT !.pid = Me(i)]
          /\ Goto(i, IF part[i] = "sweep" THEN "sweep" ELSE "lock")
          /\ UNCHANGED outcome
       \/ /\ cleanupLock = None
          /\ Exit(i, "error")
          /\ UNCHANGED cleanupLock
    /\ UNCHANGED <<version, attempt, part, lockTries, cleanupTries, seen, holds, unswept, target,
                   lock, installed, aged, archive, writing, kills, history>>

LockMkdir_parents(i) ==
    /\ At(i, "lock")
    /\ lock' = [lock EXCEPT ![version[i]] = [by |-> Me(i), pid |-> None]]
    /\ Goto(i, "locked")
    /\ UNCHANGED <<version, script, cleanupLock, installed, aged, archive, writing, kills, history>>

\* mkdir of the install lock, under the cleanup lock.
LockMkdir(i) ==
    /\ At(i, "lock")
    /\ \/ /\ lock[version[i]] = None
          /\ lock' = [lock EXCEPT ![version[i]] = [by |-> Me(i), pid |-> None]]
          /\ Goto(i, "locked")
       \/ /\ lock[version[i]] # None
          /\ Goto(i, "busy")
          /\ UNCHANGED lock
    /\ UNCHANGED <<version, script, cleanupLock, installed, aged, archive, writing, kills, history>>

\* releaseCleanupLock: whoever's it is by now.
Release(i) ==
    /\ pc[i] \in {"locked", "busy"}
    /\ cleanupLock' = None
    /\ holds' = [holds EXCEPT ![i] = FALSE]
    /\ Goto(i, IF At(i, "locked") THEN "pid" ELSE "look")
    /\ UNCHANGED <<version, attempt, part, lockTries, cleanupTries, seen, outcome, unswept, target,
                   lock, installed, aged, archive, writing, kills, history>>

\* The version may be there although the lock is held.
LookInstalled(i) ==
    /\ At(i, "look")
    /\ Complete(version[i])
    /\ outcome' = [outcome EXCEPT ![i] = "ok"]
    /\ Goto(i, "reported")
    /\ UNCHANGED <<version, attempt, part, lockTries, cleanupTries, seen, holds, unswept, target,
                   disk, kills, history>>

Look(i) ==
    /\ At(i, "look")
    /\ ~Complete(version[i])
    /\ lockTries' = [lockTries EXCEPT ![i] = IF @ > LockTries THEN @ ELSE @ + 1]
    /\ seen' = [seen EXCEPT ![i] = PidIn(lock[version[i]])]
    /\ Goto(i, "seen")
    /\ UNCHANGED <<version, attempt, part, cleanupTries, holds, outcome, unswept, target,
                   disk, kills, history>>

Abandoned(i) ==
    IF seen[i] = None THEN lockTries[i] > BareTries ELSE ~Alive(seen[i])

\* continue, after the lock is removed.
Break(i) ==
    /\ At(i, "seen")
    /\ Abandoned(i)
    /\ lock' = [lock EXCEPT ![version[i]] = None]
    /\ robbed' = IF Robs(i, lock[version[i]]) THEN robbed \cup {version[i]} ELSE robbed
    /\ seen' = [seen EXCEPT ![i] = None]
    /\ Goto(i, "cleanup")
    /\ UNCHANGED <<version, attempt, part, lockTries, cleanupTries, holds, outcome, unswept, target,
                   cleanupLock, installed, aged, archive, writing, kills, cleanupRobbed>>

Wait(i) ==
    /\ At(i, "seen")
    /\ ~Abandoned(i)
    /\ \/ /\ lockTries[i] > LockTries
          /\ Exit(i, "error")
       \/ /\ lockTries[i] <= LockTries
          /\ Goto(i, "cleanup")
          /\ UNCHANGED outcome
    /\ seen' = [seen EXCEPT ![i] = None]
    /\ UNCHANGED <<version, attempt, part, lockTries, cleanupTries, holds, unswept, target,
                   disk, kills, history>>

WritePid(i) ==
    /\ At(i, "pid")
    /\ \/ /\ lock[version[i]] # None
          /\ lock' = [lock EXCEPT ![version[i]].pid = Me(i)]
          /\ part' = [part EXCEPT ![i] = "node"]
          /\ lockTries' = [lockTries EXCEPT ![i] = 0]
          /\ Goto(i, "part")
          /\ UNCHANGED outcome
       \/ /\ lock[version[i]] = None
          /\ Exit(i, "error")
          /\ UNCHANGED <<lock, part, lockTries>>
    /\ UNCHANGED <<version, attempt, cleanupTries, seen, holds, unswept, target,
                   cleanupLock, installed, aged, archive, writing, kills, history>>

----------------------------------------------------------------------------
(* The runtime and the server.                                             *)

Archive(i) == <<version[i], part[i]>>

\* rm -f of an archive: a cat that writes it goes on writing a file without a name.
Unlink(A) ==
    /\ archive' = [a \in DOMAIN archive |-> IF a \in A THEN "none" ELSE archive[a]]
    /\ writing' = {j \in writing : <<version[j], part[j]>> \notin A}

Present(i) ==
    /\ At(i, "part")
    /\ Place(i) \in installed
    /\ \/ part[i] = "node" /\ part' = [part EXCEPT ![i] = "server"] /\ UNCHANGED pc
       \/ part[i] = "server" /\ Goto(i, "drop") /\ UNCHANGED part
    /\ UNCHANGED <<version, attempt, lockTries, cleanupTries, seen, holds, outcome, unswept, target,
                   disk, kills, history>>

\* The place is not promoted.
Missing(i) == At(i, "part") /\ Place(i) \notin installed

\* An archive that is there is used; else it is downloaded.
ArchiveThere(i) ==
    /\ Missing(i)
    /\ archive[Archive(i)] # "none"
    /\ Goto(i, "verify")
    /\ UNCHANGED <<version, script, disk, kills, history>>

Download(i) ==
    /\ Missing(i)
    /\ archive[Archive(i)] = "none"
    /\ archive' = [archive EXCEPT ![Archive(i)] = "good"]
    /\ Goto(i, "verify")
    /\ UNCHANGED <<version, script, lock, cleanupLock, installed, aged, writing, kills, history>>

DownloadFails(i) ==
    /\ Missing(i)
    /\ archive[Archive(i)] = "none"
    /\ Exit(i, "retry")
    /\ UNCHANGED <<version, attempt, part, lockTries, cleanupTries, seen, holds, unswept, target,
                   disk, kills, history>>

Verify(i) ==
    /\ At(i, "verify")
    /\ archive[Archive(i)] = "good"
    /\ Goto(i, "extract")
    /\ UNCHANGED <<version, script, disk, kills, history>>

VerifyFails(i) ==
    /\ At(i, "verify")
    /\ archive[Archive(i)] # "good"
    /\ Unlink({Archive(i)})
    /\ Exit(i, "retry")
    /\ UNCHANGED <<version, attempt, part, lockTries, cleanupTries, seen, holds, unswept, target,
                   lock, cleanupLock, installed, aged, kills, history>>

\* tar fails on an archive that is not whole, and may on another.
Extract(i) ==
    /\ At(i, "extract")
    /\ archive[Archive(i)] = "good"
    /\ Goto(i, IF part[i] = "node" THEN "remove" ELSE "prepare")
    /\ UNCHANGED <<version, script, disk, kills, history>>

ExtractFails(i) ==
    /\ At(i, "extract")
    /\ Exit(i, "error")
    /\ UNCHANGED <<version, attempt, part, lockTries, cleanupTries, seen, holds, unswept, target,
                   disk, kills, history>>

\* npm and the checks of the server need the runtime.
Prepare(i) ==
    /\ At(i, "prepare")
    /\ NodePlace(version[i]) \in installed
    /\ Goto(i, "remove")
    /\ UNCHANGED <<version, script, disk, kills, history>>

PrepareFails(i) ==
    /\ At(i, "prepare")
    /\ Exit(i, "error")
    /\ UNCHANGED <<version, attempt, part, lockTries, cleanupTries, seen, holds, unswept, target,
                   disk, kills, history>>

Remove(i) ==
    /\ At(i, "remove")
    /\ installed' = installed \ {Place(i)}
    /\ Goto(i, "move")
    /\ UNCHANGED <<version, script, lock, cleanupLock, aged, archive, writing, kills, history>>

\* mv; into a directory that is there again, it leaves that as it is.
Move(i) ==
    /\ At(i, "move")
    /\ installed' = installed \cup {Place(i)}
    /\ aged' = IF part[i] = "server" THEN aged \ {version[i]} ELSE aged
    /\ part' = [part EXCEPT ![i] = "server"]
    /\ Goto(i, IF part[i] = "node" THEN "part" ELSE "drop")
    /\ UNCHANGED <<version, attempt, lockTries, cleanupTries, seen, holds, outcome, unswept, target,
                   lock, cleanupLock, archive, writing, kills, history>>

Drop(i) ==
    /\ At(i, "drop")
    /\ Unlink({version[i]} \X Kinds)
    /\ part' = [part EXCEPT ![i] = "sweep"]
    /\ Goto(i, "cleanup")
    /\ UNCHANGED <<version, attempt, lockTries, cleanupTries, seen, holds, outcome, unswept, target,
                   lock, cleanupLock, installed, aged, kills, history>>

----------------------------------------------------------------------------
(* The removal of old versions, and the exit.                              *)

\* The server of a version is being started, under run/server-VERSION.lock, or
\* runs, and is named by run/server-VERSION.json.
Active(v) == \E j \in Installers : version[j] = v /\ At(j, "started")

\* A cleanup that can not run must not fail the installation.
Sweep(i) ==
    /\ At(i, "sweep")
    /\ \/ /\ NodePlace(version[i]) \in installed
          /\ unswept' = [unswept EXCEPT ![i] = {v \in Versions \ {version[i]} : ServerPlace(v) \in installed}]
          /\ Goto(i, "sweeping")
          /\ UNCHANGED outcome
       \/ /\ NodePlace(version[i]) \notin installed
          /\ Exit(i, "ok")
          /\ UNCHANGED unswept
    /\ UNCHANGED <<version, attempt, part, lockTries, cleanupTries, seen, holds, target,
                   disk, kills, history>>

Removable_installing(v) ==
    /\ ServerPlace(v) \in installed
    /\ ~Active(v)
    /\ v \in aged

Removable(v) ==
    /\ ServerPlace(v) \in installed
    /\ lock[v] = None
    /\ ~Active(v)
    /\ v \in aged

\* The looks at one version, and then its removal.
SweepLook(i) ==
    /\ At(i, "sweeping")
    /\ \E v \in unswept[i] :
        /\ unswept' = [unswept EXCEPT ![i] = @ \ {v}]
        /\ \/ /\ Removable(v)
              /\ target' = [target EXCEPT ![i] = v]
              /\ Goto(i, "sweepRemove")
           \/ /\ ~Removable(v)
              /\ UNCHANGED <<target, pc>>
    /\ UNCHANGED <<version, attempt, part, lockTries, cleanupTries, seen, holds, outcome,
                   disk, kills, history>>

SweepRemove(i) ==
    /\ At(i, "sweepRemove")
    /\ installed' = installed \ {ServerPlace(target[i])}
    /\ target' = [target EXCEPT ![i] = None]
    /\ Goto(i, "sweeping")
    /\ UNCHANGED <<version, attempt, part, lockTries, cleanupTries, seen, holds, outcome, unswept,
                   lock, cleanupLock, aged, archive, writing, kills, history>>

SweepEnds(i) ==
    /\ At(i, "sweeping")
    /\ unswept[i] = {}
    /\ Exit(i, "ok")
    /\ UNCHANGED <<version, attempt, part, lockTries, cleanupTries, seen, holds, unswept, target,
                   disk, kills, history>>

\* Where the call stands when its script has ended.
Ended(i) ==
    CASE outcome[i] = "ok" -> "reported"
      [] outcome[i] = "retry" -> "transfer"
      [] OTHER -> "failed"

\* cleanup: rm -rf of the install lock, whoever's it is by now.
ExitLock(i) ==
    /\ At(i, "exitLock")
    /\ lock' = [lock EXCEPT ![version[i]] = None]
    /\ Goto(i, IF holds[i] THEN "exitCleanup" ELSE Ended(i))
    /\ UNCHANGED <<version, script, cleanupLock, installed, aged, archive, writing, kills, history>>

ExitCleanup(i) ==
    /\ At(i, "exitCleanup")
    /\ cleanupLock' = None
    /\ holds' = [holds EXCEPT ![i] = FALSE]
    /\ Goto(i, Ended(i))
    /\ UNCHANGED <<version, attempt, part, lockTries, cleanupTries, seen, outcome, unswept, target,
                   lock, installed, aged, archive, writing, kills, history>>

----------------------------------------------------------------------------
(* The helper: it transfers the archive the script asked for, and starts   *)
(* the server of an installed version.                                     *)

\* cat > truncates the file, or creates it.
Transfer(i) ==
    /\ At(i, "transfer")
    /\ archive' = [archive EXCEPT ![Archive(i)] = "partial"]
    /\ writing' = writing \cup {i}
    /\ Goto(i, "transferring")
    /\ UNCHANGED <<version, script, lock, cleanupLock, installed, aged, kills, history>>

Transferred_oneMore(i) ==
    /\ At(i, "transferring")
    /\ writing' = writing \ {i}
    /\ archive' = [archive EXCEPT ![Archive(i)] = "good"]
    /\ Goto(i, "idle")
    /\ UNCHANGED <<version, script, lock, cleanupLock, installed, aged, kills, history>>

\* After the third run there is no other.
Transferred(i) ==
    /\ At(i, "transferring")
    /\ writing' = writing \ {i}
    /\ IF i \notin writing THEN UNCHANGED archive
       ELSE \E content \in {"good"} \cup (IF \E j \in writing \ {i} : Archive(j) = Archive(i)
                                            THEN {"partial"} ELSE {}) :
                archive' = [archive EXCEPT ![Archive(i)] = content]
    /\ Goto(i, IF attempt[i] = Attempts THEN "failed" ELSE "idle")
    /\ UNCHANGED <<version, script, lock, cleanupLock, installed, aged, kills, history>>

\* The helper can not get the archive, gives up, or loses its connection.
TransferFails(i) ==
    /\ pc[i] \in {"transfer", "transferring"}
    /\ writing' = writing \ {i}
    /\ Goto(i, "failed")
    /\ UNCHANGED <<version, script, lock, cleanupLock, installed, aged, archive, kills, history>>

\* connect-or-start runs from the installed files.
StartServer(i) ==
    /\ At(i, "reported")
    /\ Goto(i, IF Complete(version[i]) THEN "started" ELSE "startFailed")
    /\ UNCHANGED <<version, script, disk, kills, history>>

----------------------------------------------------------------------------
(* The script is killed, with its host or by a broken pipe, or it gets a   *)
(* signal that it traps.                                                   *)

Killed(i) ==
    /\ pc[i] \in Running
    /\ kills < MaxKills
    /\ kills' = kills + 1
    /\ Goto(i, "failed")
    /\ UNCHANGED <<version, script, disk, history>>

Interrupted(i) ==
    /\ pc[i] \in Running \ Exiting
    /\ part[i] # "lock"
    /\ kills < MaxKills
    /\ kills' = kills + 1
    /\ Exit(i, "error")
    /\ UNCHANGED <<version, attempt, part, lockTries, cleanupTries, seen, holds, unswept, target,
                   disk, history>>

----------------------------------------------------------------------------

\* What the script and installServer do next.
Step(i) ==
    \/ Start(i)
    \/ CleanupMkdir(i) \/ CleanupRead(i) \/ CleanupBreak(i) \/ CleanupWait(i) \/ CleanupPid(i)
    \/ LockMkdir(i) \/ Release(i) \/ LookInstalled(i) \/ Look(i) \/ Break(i) \/ Wait(i) \/ WritePid(i)
    \/ Present(i) \/ ArchiveThere(i) \/ Download(i) \/ DownloadFails(i)
    \/ Verify(i) \/ VerifyFails(i) \/ Extract(i) \/ ExtractFails(i) \/ Prepare(i) \/ PrepareFails(i)
    \/ Remove(i) \/ Move(i) \/ Drop(i)
    \/ Sweep(i) \/ SweepLook(i) \/ SweepRemove(i) \/ SweepEnds(i) \/ ExitLock(i) \/ ExitCleanup(i)
    \/ Transfer(i) \/ Transferred(i) \/ TransferFails(i)

Next ==
    \E i \in Installers :
        \/ Step(i)
        \/ StartServer(i)
        \/ Killed(i) \/ Interrupted(i)

\* The shell and the helper go on with what they are at.
Spec == Init /\ [][Next]_vars /\ \A i \in Installers : WF_vars(Step(i))

----------------------------------------------------------------------------
(* Properties.                                                             *)

\* While its install lock has not been robbed, one script at a time installs a
\* version: from its pid in the lock (line 212) to the trap that removes it
\* (216).  A lock is robbed in two windows the script leaves: between the look
\* at a lock and its removal (169 and 191 to 206), and when its maker needs more
\* than ten turns of another script from mkdir to the pid (166, 202).
SingleInstaller ==
    \A i, j \in Installers :
        i # j /\ version[i] = version[j] /\ version[i] \notin robbed =>
            ~(pc[i] \in Building \cup Sweeping /\ pc[j] \in Building \cup Sweeping)

\* While neither its lock nor the cleanup lock has been robbed, a promoted
\* server is not taken away again but by a cleanup, which takes only an old one
\* that no running script installs (lines 329 to 374, and the cleanup lock
\* around the mkdir at 181).
ServersKept ==
    [][\A v \in Versions :
        ServerPlace(v) \in installed \ installed' /\ v \notin robbed /\ ~cleanupRobbed =>
            /\ v \in aged
            /\ \A i \in Installers : version[i] = v => pc[i] \notin Building \cup Sweeping]_vars

\* A lock that is not robbed protects a version from another script that
\* installs it, and from one that removes it, whatever happens to other locks.
LocksProtect == []SingleInstaller /\ ServersKept

\* Every call of installServer ends, whoever is killed with which lock.
InstallsEnd == <>(\A i \in Installers : pc[i] \in Over)
=============================================================================
