-------------------------- MODULE CloudflareTunnel --------------------------
(***************************************************************************)
(* The managed tunnel of one gateway port.  A process that enables it      *)
(* holds a lock directory, enrolls the machine at the account backend or   *)
(* reuses the saved enrollment, waits for its approval, starts cloudflared *)
(* with a token file, and then serves browsers and a control socket until  *)
(* it is stopped.  A process that disables it asks the gateway to stop,    *)
(* has the backend remove the tunnel and then removes what is saved, and   *)
(* what a dead gateway left.  The processes share the files of the port,   *)
(* and any of them may die.                                                *)
(*                                                                         *)
(* A step is a call of the file system, an answer of the backend with what *)
(* follows it, or a step of the gateway's main.  An abort, a deadline and  *)
(* an invalid answer are failures like any other (Fail).  The retries of a *)
(* disable request that is refused with 409 are one request.               *)
(*                                                                         *)
(* An operator with a suffix in lower case, as Lock_parents, is a wrong    *)
(* variant of the definition below it, and no part of TunnelSpec.          *)
(***************************************************************************)
EXTENDS Optional, Naturals

CONSTANTS Gateways,     \* processes that enable the tunnel and serve
          Disables,     \* processes that disable it
          Enrollments,  \* enrollments of the machine
          MaxCrashes    \* bound on crashes

ASSUME AbsentAssumption == None \notin Gateways \cup Enrollments \cup [by : Gateways, owner : BOOLEAN]
ASSUME ProcessesAssumption == Gateways \cap Disables = {}
ASSUME CrashesAssumption == MaxCrashes \in Nat

Processes == Gateways \cup Disables

VARIABLES
    pc,          \* a gateway: enable, runRemoteWebServer and main
    uses,        \* the enrollment it uses: state
    recovered,   \* it has replaced an enrollment that ended
    child,       \* its cloudflared
    stop,        \* the progress of stop, called once: finished
    task,        \* a process that disables: disable
    found,       \* the enrollment it has read
    gone,        \* the owner of the lock it has found dead
    enrollment,  \* at the backend; "ended" if it answers 410 and was not cleaned up
    lock,        \* STATE.lock: who made it, and whether it holds the owner file
    saved,       \* STATE: an enrollment
    tmp,         \* STATE.tmp: who wrote it
    token,       \* STATE.token: who wrote it
    socket,      \* web-PORT.sock: who bound it
    printed,     \* history: the enrollments whose approval was asked for
    crashes,     \* bounds Crash
    broken,      \* history: a lock was removed that is not the one looked at
    mistaken     \* history: an enrollment was removed that is not the one read

gateway == <<pc, uses, recovered, child, stop>>
disabler == <<task, found, gone>>
files == <<lock, saved, tmp, token, socket>>
history == <<printed, broken, mistaken>>
tunnelVars == <<gateway, disabler, enrollment, files, crashes, history>>

Enabling == {"read", "enroll", "write", "rename", "poll", "recover", "rmToken", "token", "spawn"}
Over == {"refused", "ended", "crashed"}

TunnelTypes ==
    /\ pc \in [Gateways -> Enabling \cup Over \cup {"idle", "owner", "starting", "running", "closing",
                             "stopping", "disabling", "failing", "rmTmp"}]
    /\ uses \in [Gateways -> Enrollments \cup {None}]
    /\ recovered \in SUBSET Gateways
    /\ child \in [Gateways -> {"none", "running", "exited"}]
    /\ stop \in [Gateways -> {"none", "child", "token", "lock", "finished"}]
    /\ task \in [Processes -> {"idle", "read", "request", "rmState", "owner", "rmToken", "rmLock",
                               "done", "failed", "crashed"}]
    /\ found \in [Processes -> Enrollments \cup {None}]
    /\ gone \in [Processes -> Gateways \cup {None}]
    /\ enrollment \in [Enrollments -> {"none", "pending", "ready", "ended", "gone"}]
    /\ lock \in [by : Gateways, owner : BOOLEAN] \cup {None}
    /\ saved \in Enrollments \cup {None}
    /\ {tmp, token, socket} \subseteq Gateways \cup {None}
    /\ printed \in SUBSET Enrollments
    /\ crashes \in 0..MaxCrashes
    /\ {broken, mistaken} \subseteq BOOLEAN
    /\ \A g \in Gateways :
        /\ pc[g] \in {"poll", "recover", "rmToken", "token", "spawn", "starting", "running"} =>
                uses[g] # None
        /\ pc[g] \in Enabling \cup {"idle", "owner", "starting"} => stop[g] = "none"

TunnelInit ==
    /\ pc = [g \in Gateways |-> "idle"]
    /\ uses = [g \in Gateways |-> None]
    /\ recovered = {}
    /\ child = [g \in Gateways |-> "none"]
    /\ stop = [g \in Gateways |-> "none"]
    /\ task = [p \in Processes |-> "idle"]
    /\ found = [p \in Processes |-> None]
    /\ gone = [p \in Processes |-> None]
    /\ enrollment = [e \in Enrollments |-> "none"]
    /\ lock = None
    /\ saved = None
    /\ tmp = None
    /\ token = None
    /\ socket = None
    /\ printed = {}
    /\ crashes = 0
    /\ broken = FALSE
    /\ mistaken = FALSE

----------------------------------------------------------------------------

At(g, s) == pc[g] = s
Goto(g, s) == pc' = [pc EXCEPT ![g] = s]
Advance(p, s) == task' = [task EXCEPT ![p] = s]

\* process.kill(owner, 0).
Alive(g) == ~(pc[g] \in Over \cup {"idle"} /\ stop[g] \in {"none", "finished"})

----------------------------------------------------------------------------
(* The enrollment (enable).                                                *)

Lock_parents(g) ==
    /\ At(g, "idle")
    /\ lock' = [by |-> g, owner |-> FALSE]
    /\ Goto(g, "owner")
    /\ UNCHANGED <<uses, recovered, child, stop, disabler, enrollment,
                   saved, tmp, token, socket, crashes, history>>

Lock(g) ==
    /\ At(g, "idle")
    /\ \/ /\ lock = None
          /\ lock' = [by |-> g, owner |-> FALSE]
          /\ Goto(g, "owner")
       \/ /\ lock # None
          /\ Goto(g, "refused")
          /\ UNCHANGED lock
    /\ UNCHANGED <<uses, recovered, child, stop, disabler, enrollment,
                   saved, tmp, token, socket, crashes, history>>

\* A failure here is taken for a lock that is held, and leaves the directory.
WriteOwner(g) ==
    /\ At(g, "owner")
    /\ \/ /\ lock # None /\ ~lock.owner
          /\ lock' = [lock EXCEPT !.owner = TRUE]
          /\ Goto(g, "read")
       \/ Goto(g, "refused") /\ UNCHANGED lock
    /\ UNCHANGED <<uses, recovered, child, stop, disabler, enrollment,
                   saved, tmp, token, socket, crashes, history>>

ReadSaved_blindly(g) ==
    /\ At(g, "read")
    /\ uses' = [uses EXCEPT ![g] = saved]
    /\ Goto(g, "poll")
    /\ UNCHANGED <<recovered, child, stop, disabler, enrollment, files, crashes, history>>

ReadSaved(g) ==
    /\ At(g, "read")
    /\ uses' = [uses EXCEPT ![g] = saved]
    /\ Goto(g, IF saved = None THEN "enroll" ELSE "poll")
    /\ UNCHANGED <<recovered, child, stop, disabler, enrollment, files, crashes, history>>

Fresh == {e \in Enrollments : enrollment[e] = "none"}

\* The backend knows the enrollment before the answer arrives.
Enroll(g) ==
    /\ At(g, "enroll")
    /\ Fresh # {}
    /\ LET e == CHOOSE e \in Fresh : TRUE IN
        /\ enrollment' = [enrollment EXCEPT ![e] = "pending"]
        /\ uses' = [uses EXCEPT ![g] = e]
    /\ Goto(g, "write")
    /\ UNCHANGED <<recovered, child, stop, disabler, files, crashes, history>>

\* The file must not exist.
WriteTmp(g) ==
    /\ At(g, "write")
    /\ tmp = None
    /\ tmp' = g
    /\ Goto(g, "rename")
    /\ UNCHANGED <<uses, recovered, child, stop, disabler, enrollment,
                   lock, saved, token, socket, crashes, history>>

\* Only then is the user asked for the approval.
Rename(g) ==
    /\ At(g, "rename")
    /\ tmp # None
    /\ saved' = uses[tmp]
    /\ tmp' = None
    /\ printed' = printed \cup {uses[g]}
    /\ Goto(g, "poll")
    /\ UNCHANGED <<uses, recovered, child, stop, disabler, enrollment,
                   lock, token, socket, crashes, broken, mistaken>>

\* The browser key is registered too, which only the backend remembers.
Ready(g) ==
    /\ At(g, "poll")
    /\ enrollment[uses[g]] = "ready"
    /\ Goto(g, "rmToken")
    /\ UNCHANGED <<uses, recovered, child, stop, disabler, enrollment, files, crashes, history>>

\* HTTP 410, once.
Ended(g) ==
    /\ At(g, "poll")
    /\ enrollment[uses[g]] \in {"ended", "gone"}
    /\ g \notin recovered
    /\ Goto(g, "recover")
    /\ UNCHANGED <<uses, recovered, child, stop, disabler, enrollment, files, crashes, history>>

Recover_unconfirmed(g) ==
    /\ At(g, "recover")
    /\ recovered' = recovered \cup {g}
    /\ Goto(g, "enroll")
    /\ UNCHANGED <<uses, child, stop, disabler, enrollment, files, crashes, history>>

\* disableSetup before the only credential is replaced.
Recover(g) ==
    /\ At(g, "recover")
    /\ enrollment' = [enrollment EXCEPT ![uses[g]] = "gone"]
    /\ recovered' = recovered \cup {g}
    /\ Goto(g, "enroll")
    /\ UNCHANGED <<uses, child, stop, disabler, files, crashes, history>>

RemoveToken(g) ==
    /\ At(g, "rmToken")
    /\ token' = None
    /\ Goto(g, "token")
    /\ UNCHANGED <<uses, recovered, child, stop, disabler, enrollment,
                   lock, saved, tmp, socket, crashes, history>>

WriteToken(g) ==
    /\ At(g, "token")
    /\ token = None
    /\ token' = g
    /\ Goto(g, "spawn")
    /\ UNCHANGED <<uses, recovered, child, stop, disabler, enrollment,
                   lock, saved, tmp, socket, crashes, history>>

Spawn(g) ==
    /\ At(g, "spawn")
    /\ child' = [child EXCEPT ![g] = "running"]
    /\ Goto(g, "starting")
    /\ UNCHANGED <<uses, recovered, stop, disabler, enrollment, files, crashes, history>>

\* It has no more use for the enrollment.
Forget(g) ==
    /\ uses' = [uses EXCEPT ![g] = None]
    /\ recovered' = recovered \ {g}

\* Any of these steps throws, and stop is called.
Fail(g) ==
    /\ pc[g] \in Enabling
    /\ Goto(g, "failing")
    /\ stop' = [stop EXCEPT ![g] = "child"]
    /\ Forget(g)
    /\ UNCHANGED <<child, disabler, enrollment, files, crashes, history>>

----------------------------------------------------------------------------
(* The gateway (runRemoteWebServer and main), and stop.                    *)

\* The control socket can not be bound while its path exists.
Listen(g) ==
    /\ At(g, "starting")
    /\ socket = None
    /\ socket' = g
    /\ Goto(g, "running")
    /\ UNCHANGED <<uses, recovered, child, stop, disabler, enrollment,
                   lock, saved, tmp, token, crashes, history>>

ListenFails(g) ==
    /\ At(g, "starting")
    /\ Goto(g, "closing")
    /\ Forget(g)
    /\ UNCHANGED <<child, stop, disabler, enrollment, files, crashes, history>>

\* A signal, the end of the daemon, or LeaveClosed.
Leave(g) ==
    /\ At(g, "running")
    /\ socket' = None
    /\ Goto(g, "closing")
    /\ Forget(g)
    /\ UNCHANGED <<child, stop, disabler, enrollment,
                   lock, saved, tmp, token, crashes, history>>

LeaveClosed_onceStopped(g) == child[g] = "exited" /\ stop[g] # "none" /\ Leave(g)

\* tunnel.closed: cloudflared has exited.
LeaveClosed(g) == child[g] = "exited" /\ Leave(g)

\* The tunnel is persistent, as the backend has told, or else disabled.
Finish(g) ==
    \/ Goto(g, "ended") /\ UNCHANGED task
    \/ Goto(g, "disabling") /\ Advance(g, "read")

\* tunnel.close: if cloudflare-stop has called it before, it returns at once.
CloseTunnel(g) ==
    /\ At(g, "closing")
    /\ \/ /\ stop[g] = "none"
          /\ stop' = [stop EXCEPT ![g] = "child"]
          /\ Goto(g, "stopping")
          /\ UNCHANGED task
       \/ stop[g] # "none" /\ Finish(g) /\ UNCHANGED stop
    /\ UNCHANGED <<uses, recovered, child, found, gone, enrollment, files, crashes, history>>

Stopped(g) ==
    /\ At(g, "stopping")
    /\ stop[g] = "finished"
    /\ Finish(g)
    /\ UNCHANGED <<uses, recovered, child, stop, found, gone, enrollment, files, crashes, history>>

Disabled(g) ==
    /\ At(g, "disabling")
    /\ task[g] \in {"done", "failed"}
    /\ Goto(g, "ended")
    /\ UNCHANGED <<uses, recovered, child, stop, disabler, enrollment, files, crashes, history>>

ChildExits(g) ==
    /\ child[g] = "running"
    /\ child' = [child EXCEPT ![g] = "exited"]
    /\ UNCHANGED <<pc, uses, recovered, stop, disabler, enrollment, files, crashes, history>>

\* SIGTERM, and SIGKILL after five seconds.
KillChild(g) == stop[g] = "child" /\ ChildExits(g)

StopChild_always(g) ==
    /\ stop[g] = "child"
    /\ child[g] = "exited"
    /\ stop' = [stop EXCEPT ![g] = "token"]
    /\ UNCHANGED <<pc, uses, recovered, child, disabler, enrollment, files, crashes, history>>

\* Only a cloudflared that was started is waited for.
StopChild(g) ==
    /\ stop[g] = "child"
    /\ child[g] # "running"
    /\ stop' = [stop EXCEPT ![g] = "token"]
    /\ UNCHANGED <<pc, uses, recovered, child, disabler, enrollment, files, crashes, history>>

StopToken(g) ==
    /\ stop[g] = "token"
    /\ token' = None
    /\ stop' = [stop EXCEPT ![g] = "lock"]
    /\ UNCHANGED <<pc, uses, recovered, child, disabler, enrollment,
                   lock, saved, tmp, socket, crashes, history>>

StopLock(g) ==
    /\ stop[g] = "lock"
    /\ lock' = None
    /\ stop' = [stop EXCEPT ![g] = "finished"]
    /\ UNCHANGED <<pc, uses, recovered, child, disabler, enrollment,
                   saved, tmp, token, socket, crashes, history>>

StopEnds(g) ==
    /\ At(g, "failing")
    /\ stop[g] = "finished"
    /\ Goto(g, "rmTmp")
    /\ UNCHANGED <<uses, recovered, child, stop, disabler, enrollment, files, crashes, history>>

RemoveTmp(g) ==
    /\ At(g, "rmTmp")
    /\ tmp' = None
    /\ Goto(g, "ended")
    /\ UNCHANGED <<uses, recovered, child, stop, disabler, enrollment,
                   lock, saved, token, socket, crashes, history>>

----------------------------------------------------------------------------
(* Disabling (main and disable).                                           *)

\* cloudflare-stop, if a gateway listens; then the saved enrollment is read.
Ask(d) ==
    /\ task[d] = "idle"
    /\ stop' = [g \in Gateways |-> IF At(g, "running") /\ stop[g] = "none" THEN "child" ELSE stop[g]]
    /\ Advance(d, "read")
    /\ UNCHANGED <<pc, uses, recovered, child, found, gone, enrollment, files,
                   crashes, history>>

Read(p) ==
    /\ task[p] = "read"
    /\ found' = [found EXCEPT ![p] = saved]
    /\ Advance(p, IF saved = None THEN "done" ELSE "request")
    /\ UNCHANGED <<gateway, gone, enrollment, files, crashes, history>>

Request(p) ==
    /\ task[p] = "request"
    /\ enrollment' = [enrollment EXCEPT ![found[p]] = "gone"]
    /\ Advance(p, "rmState")
    /\ UNCHANGED <<gateway, found, gone, files, crashes, history>>

RequestFails(p) ==
    /\ task[p] = "request"
    /\ Advance(p, "failed")
    /\ found' = [found EXCEPT ![p] = None]
    /\ UNCHANGED <<gateway, gone, enrollment, files, crashes, history>>

\* Whatever is saved by now.
RemoveSaved(p) ==
    /\ task[p] = "rmState"
    /\ saved' = None
    /\ mistaken' = (mistaken \/ saved \notin {found[p], None})
    /\ found' = [found EXCEPT ![p] = None]
    /\ Advance(p, "owner")
    /\ UNCHANGED <<gateway, gone, enrollment, lock, tmp, token, socket, crashes, printed, broken>>

ReadOwner(p) ==
    /\ task[p] = "owner"
    /\ IF lock # None /\ lock.owner /\ ~Alive(lock.by)
       THEN gone' = [gone EXCEPT ![p] = lock.by] /\ Advance(p, "rmToken")
       ELSE Advance(p, "done") /\ UNCHANGED gone
    /\ UNCHANGED <<gateway, found, enrollment, files, crashes, history>>

RemoveDeadToken(p) ==
    /\ task[p] = "rmToken"
    /\ token' = None
    /\ broken' = (broken \/ token \notin {gone[p], None})
    /\ Advance(p, "rmLock")
    /\ UNCHANGED <<gateway, found, gone, enrollment, lock, saved, tmp, socket, crashes, printed, mistaken>>

RemoveDeadLock(p) ==
    /\ task[p] = "rmLock"
    /\ lock' = None
    /\ broken' = (broken \/ (lock # None /\ lock.by # gone[p]))
    /\ gone' = [gone EXCEPT ![p] = None]
    /\ Advance(p, "done")
    /\ UNCHANGED <<gateway, found, enrollment, saved, tmp, token, socket, crashes, printed, mistaken>>

----------------------------------------------------------------------------
(* The user at the account page, and crashes.                              *)

Approve(e) ==
    /\ enrollment[e] = "pending"
    /\ e \in printed
    /\ enrollment' = [enrollment EXCEPT ![e] = "ready"]
    /\ UNCHANGED <<gateway, disabler, files, crashes, history>>

\* The approval expires, or the user removes the machine.
EndEnrollment(e) ==
    /\ enrollment[e] \in {"pending", "ready"}
    /\ enrollment' = [enrollment EXCEPT ![e] = "ended"]
    /\ UNCHANGED <<gateway, disabler, files, crashes, history>>

\* Its cloudflared lives on.
Crash(g) ==
    /\ Alive(g)
    /\ crashes < MaxCrashes
    /\ crashes' = crashes + 1
    /\ Goto(g, "crashed")
    /\ stop' = [stop EXCEPT ![g] = "none"]
    /\ task' = [task EXCEPT ![g] = "idle"]
    /\ UNCHANGED <<uses, recovered, child, found, gone, enrollment, files, history>>

CrashDisable(d) ==
    /\ task[d] \notin {"idle", "done", "failed", "crashed"}
    /\ crashes < MaxCrashes
    /\ crashes' = crashes + 1
    /\ Advance(d, "crashed")
    /\ UNCHANGED <<gateway, found, gone, enrollment, files, history>>

----------------------------------------------------------------------------

\* What a gateway does next.
Step(g) ==
    \/ WriteOwner(g) \/ ReadSaved(g) \/ Enroll(g) \/ WriteTmp(g) \/ Rename(g)
    \/ Ready(g) \/ Ended(g) \/ Recover(g) \/ RemoveToken(g) \/ WriteToken(g) \/ Spawn(g)
    \/ Fail(g) \/ Listen(g) \/ ListenFails(g) \/ LeaveClosed(g)
    \/ CloseTunnel(g) \/ Stopped(g) \/ Disabled(g) \/ StopEnds(g) \/ RemoveTmp(g)

Stop(g) == KillChild(g) \/ StopChild(g) \/ StopToken(g) \/ StopLock(g)

Disable(p) ==
    \/ Read(p) \/ Request(p) \/ RequestFails(p) \/ RemoveSaved(p)
    \/ ReadOwner(p) \/ RemoveDeadToken(p) \/ RemoveDeadLock(p)

TunnelNext ==
    \/ \E g \in Gateways : Step(g) \/ Stop(g) \/ Lock(g) \/ Leave(g) \/ ChildExits(g) \/ Crash(g)
    \/ \E p \in Processes : Disable(p)
    \/ \E d \in Disables : Ask(d) \/ CrashDisable(d)
    \/ \E e \in Enrollments : Approve(e) \/ EndEnrollment(e)

\* Processes go on, requests end within their timeout, and a poll within its
\* deadline.
TunnelSpec ==
    /\ TunnelInit /\ [][TunnelNext]_tunnelVars
    /\ \A g \in Gateways : WF_tunnelVars(Step(g)) /\ WF_tunnelVars(Stop(g))
    /\ \A p \in Processes : WF_tunnelVars(Disable(p))

----------------------------------------------------------------------------
(* Properties.                                                             *)

Holds(g) == Alive(g) /\ pc[g] \notin {"owner", "rmTmp"} /\ stop[g] # "finished"

\* While no lock has been removed but the one that was looked at, one gateway
\* at a time holds the port (line 146 of CloudflareTunnel.ts, and 106 to 109),
\* and the token file and the lock are its own.
OneGateway ==
    ~broken =>
        \A g, h \in Gateways : Holds(g) =>
            /\ Holds(h) => g = h
            /\ pc[g] \in {"spawn", "starting", "running"} /\ stop[g] = "none" => token = g /\ lock.by = g

\* The credential of an enrollment that was printed for approval stays saved
\* until the backend has confirmed that its tunnel is removed (README: "Keep
\* the saved private management credential until cleanup succeeds"), through
\* crashes, recoveries and refused requests, unless a disable removed another
\* enrollment than it had read.
CredentialKept ==
    ~broken /\ ~mistaken =>
        \A e \in printed : enrollment[e] # "gone" => saved = e

\* A gateway that ended, however it failed or was stopped, has left neither its
\* cloudflared nor its files, but for the saved enrollment.
ExitClean ==
    \A g \in Gateways : At(g, "ended") /\ stop[g] = "finished" =>
        /\ child[g] # "running"
        /\ ~broken => g \notin {tmp, token, socket} /\ (lock # None => lock.by # g)

\* The port belongs to at most one gateway at a time, and to none in the end.
PortOwned == OneGateway /\ ExitClean

\* What a gateway keeps on its host is its own, and what is needed to remove
\* its tunnel is not lost (enable, stop, disable).
FilesOwned == PortOwned /\ CredentialKept

\* A gateway serves until it is told to stop, its cloudflared has exited, for
\* whatever reason, or it leaves.
Serves(g) == At(g, "running") /\ stop[g] = "none" /\ child[g] # "exited"
Leaving(g) == ~Serves(g) /\ (At(g, "running") \/ At(g, "closing"))

\* An enable ends or comes to serve (enable), a gateway ends that is told to
\* stop, loses its cloudflared or leaves (LeaveClosed, stop, main), and a disable
\* ends.  That the next enable comes to serve is not claimed: what a dead
\* process left may refuse it.
TunnelEnds ==
    /\ \A g \in Gateways : At(g, "owner") \/ Leaving(g) ~> ~Alive(g) \/ Serves(g)
    /\ \A d \in Disables : task[d] = "read" ~> task[d] \in {"done", "failed", "crashed"}
=============================================================================
