--------------------------- MODULE WorkspaceSetup ---------------------------
(***************************************************************************)
(* The connects of one editor window (Connect.ts): the command, the        *)
(* restoration of a workspace when the extension is activated, and the     *)
(* preparation of one that the editor wants to open.  Each shows a         *)
(* progress that the user may cancel, asks the helper to connect, looks    *)
(* every 200 ms whether it was cancelled meanwhile, and then opens the     *)
(* workspace.  They share the data of the progress provider, the backend   *)
(* and the watch loops of the window.                                      *)
(*                                                                         *)
(* A step is what runs between two awaits.  An answer of the editor and    *)
(* what the extension does with it are one step: a cancellation between    *)
(* the two could as well come after both.  Logging, the delay of the poll  *)
(* and the refresh of the progress belong to the step before.  Whether the *)
(* helper aborts a connect that it is told to cancel is up to it (others   *)
(* may share it): see HostConnections.                                     *)
(*                                                                         *)
(* An operator with a suffix in lower case, as Caught_blindly, is a wrong  *)
(* variant of the definition below it, and no part of Spec.                *)
(***************************************************************************)
EXTENDS Optional

CONSTANT Setups     \* calls of connect, restore or prepare

ASSUME NoneAssumption == None \notin Setups

VARIABLES
    kind,        \* which of the three calls
    pc,          \* where it stands, or how it ended
    hasId,       \* it has a progressId
    bar,         \* its progress in the editor; "gone" when the editor was told to end it
    cancelled,   \* the user has cancelled it: before its last look, or too late
    blind,       \* a look failed that would have seen the cancellation
    active,      \* connectWithProgress: active
    poll,        \* pollProgress
    told,        \* the helper was told to cancel its connect
    op,          \* SshFileSystem.connect
    result,      \* what connectWithProgress returns or throws
    operation,   \* workspaceProgressState.operationId
    shown,       \* whose message workspaceProgressState.data has; None if it is idle
    backend,     \* whose backend the window uses
    watched,     \* whose workspaces have a watch loop
    deactivated  \* the extension was deactivated

window == <<operation, shown, backend, watched>>
attempt == <<hasId, bar, cancelled, blind, active, poll, told, op, result>>
vars == <<kind, pc, attempt, window, deactivated>>

Over == {"opened", "cancelled", "reported"}

TypeOK ==
    /\ kind \in [Setups -> {"connect", "restore", "prepare"}]
    /\ pc \in [Setups -> {"idle", "starting", "connecting", "lastLook", "lastCancel", "draining", "caught",
                          "scheduled", "look", "secondLook", "ending", "setting", "reporting"} \cup Over]
    /\ hasId \in [Setups -> BOOLEAN]
    /\ bar \in [Setups -> {"none", "shown", "gone"}]
    /\ cancelled \in [Setups -> {"no", "yes", "late"}]
    /\ blind \in SUBSET Setups
    /\ active \in [Setups -> BOOLEAN]
    /\ poll \in [Setups -> {"none", "looking", "cancelling", "asking", "rejected", "done"}]
    /\ told \in SUBSET Setups
    /\ op \in [Setups -> {"none", "running", "ok", "error"}]
    /\ result \in [Setups -> {"none", "value", "cancelled", "error"}]
    /\ {operation, shown, backend} \subseteq Setups \cup {None}
    /\ watched \in SUBSET Setups
    /\ deactivated \in BOOLEAN
    /\ \A a \in Setups :
        /\ active[a] => poll[a] \in {"looking", "asking"}
        /\ bar[a] # "none" <=> hasId[a]

Init ==
    /\ kind \in [Setups -> {"connect", "restore", "prepare"}]
    /\ pc = [a \in Setups |-> "idle"]
    /\ hasId = [a \in Setups |-> FALSE]
    /\ bar = [a \in Setups |-> "none"]
    /\ cancelled = [a \in Setups |-> "no"]
    /\ blind = {}
    /\ active = [a \in Setups |-> FALSE]
    /\ poll = [a \in Setups |-> "none"]
    /\ told = {}
    /\ op = [a \in Setups |-> "none"]
    /\ result = [a \in Setups |-> "none"]
    /\ operation = None
    /\ shown = None
    /\ backend = None
    /\ watched = {}
    /\ deactivated = FALSE

----------------------------------------------------------------------------

At(a, s) == pc[a] = s
Goto(a, s) == pc' = [pc EXCEPT ![a] = s]

\* Workspace.isProgressCancelled; a look that fails sees nothing.
Look(a, seen) ==
    \/ seen = (cancelled[a] # "no") /\ UNCHANGED blind
    \/ ~seen /\ blind' = IF cancelled[a] = "no" THEN blind ELSE blind \cup {a}

End_onlyShown(a) ==
    IF operation = a THEN
        /\ bar' = [bar EXCEPT ![a] = "gone"]
        /\ operation' = None
        /\ shown' = None
    ELSE UNCHANGED <<bar, operation, shown>>

\* endProgressOnce.
End(a) ==
    IF bar[a] = "shown" THEN
        /\ bar' = [bar EXCEPT ![a] = "gone"]
        /\ operation' = IF operation = a THEN None ELSE operation
        /\ shown' = IF operation = a THEN None ELSE shown
    ELSE UNCHANGED <<bar, operation, shown>>

\* updateWorkspaceProgress.
Update(a) == shown' = IF operation = a THEN a ELSE shown

----------------------------------------------------------------------------
(* The connect (connectWithProgress).                                      *)

Start(a) ==
    /\ At(a, "idle")
    /\ Goto(a, "starting")
    /\ UNCHANGED <<kind, attempt, window, deactivated>>

\* A target that is no host.
Refuse(a) ==
    /\ At(a, "idle")
    /\ kind[a] = "connect"
    /\ Goto(a, "reporting")
    /\ UNCHANGED <<kind, attempt, window, deactivated>>

\* The first look of the poll and the connect are under way together.
Started(a) ==
    /\ At(a, "starting")
    /\ hasId' = [hasId EXCEPT ![a] = TRUE]
    /\ bar' = [bar EXCEPT ![a] = "shown"]
    /\ operation' = a
    /\ shown' = a
    /\ active' = [active EXCEPT ![a] = TRUE]
    /\ poll' = [poll EXCEPT ![a] = "looking"]
    /\ op' = [op EXCEPT ![a] = "running"]
    /\ Goto(a, "connecting")
    /\ UNCHANGED <<kind, cancelled, blind, told, result, backend, watched, deactivated>>

\* The editor has no progress, or gives no number for it.
StartFails(a) ==
    /\ At(a, "starting")
    /\ \/ UNCHANGED <<operation, shown>>
       \/ operation' = None /\ shown' = a
    /\ op' = [op EXCEPT ![a] = "running"]
    /\ Goto(a, "connecting")
    /\ UNCHANGED <<kind, hasId, bar, cancelled, blind, active, poll, told, result, backend,
                   watched, deactivated>>

\* The helper's answer.
Settle(a) ==
    /\ op[a] = "running"
    /\ \E answer \in {"ok", "error"} : op' = [op EXCEPT ![a] = answer]
    /\ UNCHANGED <<kind, pc, hasId, bar, cancelled, blind, active, poll, told, result, window, deactivated>>

Connected(a) ==
    /\ At(a, "connecting")
    /\ op[a] = "ok"
    /\ IF hasId[a] THEN Goto(a, "lastLook") /\ UNCHANGED result
       ELSE Goto(a, "draining") /\ result' = [result EXCEPT ![a] = "value"]
    /\ UNCHANGED <<kind, hasId, bar, cancelled, blind, active, poll, told, op, window, deactivated>>

\* finally: the poll stops when it looks at active.
Leave(a, r) ==
    /\ result' = [result EXCEPT ![a] = r]
    /\ active' = [active EXCEPT ![a] = FALSE]
    /\ Goto(a, "draining")

ConnectFails(a) ==
    /\ At(a, "connecting")
    /\ op[a] = "error"
    /\ Leave(a, "error")
    /\ UNCHANGED <<kind, hasId, bar, cancelled, blind, poll, told, op, window, deactivated>>

\* The poll has rejected the other promise of the race.
Cancelled(a) ==
    /\ At(a, "connecting")
    /\ poll[a] = "rejected"
    /\ Leave(a, "cancelled")
    /\ UNCHANGED <<kind, hasId, bar, cancelled, blind, poll, told, op, window, deactivated>>

LastLook(a) ==
    /\ At(a, "lastLook")
    /\ \E seen \in BOOLEAN :
        /\ Look(a, seen)
        /\ IF seen THEN /\ told' = told \cup {a}
                        /\ Goto(a, "lastCancel")
                        /\ UNCHANGED <<active, result>>
           ELSE Leave(a, "value") /\ UNCHANGED told
    /\ UNCHANGED <<kind, hasId, bar, cancelled, poll, op, window, deactivated>>

LastCancel(a) ==
    /\ At(a, "lastCancel")
    /\ Leave(a, "cancelled")
    /\ UNCHANGED <<kind, hasId, bar, cancelled, blind, poll, told, op, window, deactivated>>

PollSees_staysActive(a) ==
    /\ poll[a] = "looking"
    /\ Look(a, TRUE)
    /\ told' = told \cup {a}
    /\ poll' = [poll EXCEPT ![a] = "cancelling"]
    /\ UNCHANGED <<kind, pc, hasId, bar, cancelled, active, op, result, window, deactivated>>

PollSees(a) ==
    /\ poll[a] = "looking"
    /\ Look(a, TRUE)
    /\ active' = [active EXCEPT ![a] = FALSE]
    /\ told' = told \cup {a}
    /\ poll' = [poll EXCEPT ![a] = "cancelling"]
    /\ UNCHANGED <<kind, pc, hasId, bar, cancelled, op, result, window, deactivated>>

PollGoesOn(a) ==
    /\ poll[a] = "looking"
    /\ Look(a, FALSE)
    /\ poll' = [poll EXCEPT ![a] = "asking"]
    /\ UNCHANGED <<kind, pc, hasId, bar, cancelled, active, told, op, result, window, deactivated>>

PollCancelled_silently(a) ==
    /\ poll[a] = "cancelling"
    /\ poll' = [poll EXCEPT ![a] = "done"]
    /\ UNCHANGED <<kind, pc, hasId, bar, cancelled, blind, active, told, op, result, window, deactivated>>

\* The helper has answered, or could not.
PollCancelled(a) ==
    /\ poll[a] = "cancelling"
    /\ poll' = [poll EXCEPT ![a] = "rejected"]
    /\ UNCHANGED <<kind, pc, hasId, bar, cancelled, blind, active, told, op, result, window, deactivated>>

\* SshFileSystem.getProgress has a new message, or none.
PollAnswered(a) ==
    /\ poll[a] = "asking"
    /\ Update(a) \/ UNCHANGED shown
    /\ poll' = [poll EXCEPT ![a] = IF active[a] THEN "looking" ELSE "done"]
    /\ UNCHANGED <<kind, pc, hasId, bar, cancelled, blind, active, told, op, result,
                   operation, backend, watched, deactivated>>

Polled(a) == poll[a] \in {"none", "rejected", "done"}

----------------------------------------------------------------------------
(* The end of a connect, and the opening of the workspace.                 *)

\* The helper's answer may be no backend.
Prepared(a) ==
    /\ At(a, "draining")
    /\ Polled(a)
    /\ result[a] = "value"
    /\ \/ /\ Update(a)
          /\ Goto(a, IF kind[a] = "connect" THEN "scheduled" ELSE "look")
       \/ Goto(a, "caught") /\ UNCHANGED shown
    /\ UNCHANGED <<kind, attempt, operation, backend, watched, deactivated>>

Failed(a) ==
    /\ At(a, "draining")
    /\ Polled(a)
    /\ result[a] = "error"
    /\ Goto(a, "caught")
    /\ UNCHANGED <<kind, attempt, window, deactivated>>

GivesUp(a) ==
    /\ At(a, "draining")
    /\ Polled(a)
    /\ result[a] = "cancelled"
    /\ End(a)
    /\ Goto(a, "cancelled")
    /\ UNCHANGED <<kind, hasId, cancelled, blind, active, poll, told, op, result, backend, watched,
                   deactivated>>

Caught_blindly(a) ==
    /\ At(a, "caught")
    /\ Goto(a, "reporting")
    /\ IF kind[a] = "connect" THEN End(a) ELSE UNCHANGED <<bar, operation, shown>>
    /\ UNCHANGED <<kind, hasId, cancelled, blind, active, poll, told, op, result, backend, watched,
                   deactivated>>

\* An error that the user's cancellation may have caused is not reported.  The
\* command ends its progress before it reports, the others after.
Caught(a) ==
    /\ At(a, "caught")
    /\ \E seen \in IF hasId[a] THEN BOOLEAN ELSE {FALSE} :
        /\ Look(a, seen)
        /\ Goto(a, IF seen THEN "cancelled" ELSE "reporting")
        /\ IF seen \/ kind[a] = "connect" THEN End(a) ELSE UNCHANGED <<bar, operation, shown>>
    /\ UNCHANGED <<kind, hasId, cancelled, active, poll, told, op, result, backend, watched, deactivated>>

\* A restoration that failed fails the activation, which resets the window.
Reported(a) ==
    /\ At(a, "reporting")
    /\ bar' = [bar EXCEPT ![a] = IF @ = "shown" THEN "gone" ELSE @]
    /\ IF kind[a] = "restore" THEN operation' = None /\ shown' = None /\ backend' = None
       ELSE /\ operation' = IF bar[a] = "shown" /\ operation = a THEN None ELSE operation
            /\ shown' = IF bar[a] = "shown" /\ operation = a THEN None ELSE shown
            /\ UNCHANGED backend
    /\ Goto(a, "reported")
    /\ UNCHANGED <<kind, hasId, cancelled, blind, active, poll, told, op, result, watched, deactivated>>

\* setTimeout.
Scheduled(a) ==
    /\ At(a, "scheduled")
    /\ Goto(a, "look")
    /\ UNCHANGED <<kind, attempt, window, deactivated>>

\* WorkspaceConnection.set takes only the address of a local tunnel.
OpenWorkspace(a) ==
    /\ At(a, "look")
    /\ \E seen \in IF hasId[a] THEN BOOLEAN ELSE {FALSE} :
        /\ Look(a, seen)
        /\ \/ seen /\ End(a) /\ Goto(a, "cancelled") /\ UNCHANGED <<backend, watched>>
           \/ /\ ~seen
              /\ backend' = a
              /\ watched' = watched \cup {a}
              /\ Goto(a, "secondLook")
              /\ UNCHANGED <<bar, operation, shown>>
           \/ /\ ~seen
              /\ Goto(a, IF kind[a] = "connect" THEN "reporting" ELSE "caught")
              /\ UNCHANGED <<bar, operation, shown, backend, watched>>
    /\ UNCHANGED <<kind, hasId, cancelled, active, poll, told, op, result, deactivated>>

SecondLook(a) ==
    /\ At(a, "secondLook")
    /\ \E seen \in IF hasId[a] THEN BOOLEAN ELSE {FALSE} :
        /\ Look(a, seen)
        /\ IF seen THEN End(a) /\ Goto(a, "cancelled")
           ELSE Goto(a, "ending") /\ UNCHANGED <<bar, operation, shown>>
    /\ UNCHANGED <<kind, hasId, cancelled, active, poll, told, op, result, backend, watched, deactivated>>

\* The progress ends before Workspace.setUri, which may end the extension.
Ended(a) ==
    /\ At(a, "ending")
    /\ End(a)
    /\ Goto(a, "setting")
    /\ UNCHANGED <<kind, hasId, cancelled, blind, active, poll, told, op, result, backend, watched,
                   deactivated>>

\* For a preparation, setUri only says that the workspace is prepared.
SetUri(a) ==
    /\ At(a, "setting")
    /\ Goto(a, "opened")
    /\ UNCHANGED <<kind, attempt, window, deactivated>>

SetUriFails(a) ==
    /\ At(a, "setting")
    /\ kind[a] # "prepare"
    /\ Goto(a, IF kind[a] = "connect" THEN "reporting" ELSE "caught")
    /\ UNCHANGED <<kind, attempt, window, deactivated>>

----------------------------------------------------------------------------
(* The user, and the end of the extension.                                 *)

CancelProgress(a) ==
    /\ bar[a] = "shown"
    /\ cancelled[a] = "no"
    /\ cancelled' = [cancelled EXCEPT ![a] = IF pc[a] \in {"ending", "reporting"} THEN "late" ELSE "yes"]
    /\ UNCHANGED <<kind, pc, hasId, bar, blind, active, poll, told, op, result, window, deactivated>>

Deactivate ==
    /\ ~deactivated
    /\ deactivated' = TRUE
    /\ operation' = None
    /\ shown' = None
    /\ backend' = None
    /\ watched' = {}
    /\ UNCHANGED <<kind, pc, attempt>>

----------------------------------------------------------------------------

\* What the extension does next, and the answers it gets but for the helper's
\* to the connect and the editor's to setUri.
Step(a) ==
    \/ Started(a) \/ StartFails(a)
    \/ Connected(a) \/ ConnectFails(a) \/ Cancelled(a) \/ LastLook(a) \/ LastCancel(a)
    \/ Prepared(a) \/ Failed(a) \/ GivesUp(a) \/ Caught(a) \/ Reported(a)
    \/ Scheduled(a) \/ OpenWorkspace(a) \/ SecondLook(a) \/ Ended(a)

Poll(a) == PollGoesOn(a) \/ PollCancelled(a) \/ PollAnswered(a)

Next ==
    \/ \E a \in Setups :
        \/ Step(a) \/ Poll(a) \/ PollSees(a)
        \/ Start(a) \/ Refuse(a) \/ Settle(a) \/ SetUri(a) \/ SetUriFails(a) \/ CancelProgress(a)
    \/ Deactivate

\* Promises resume, and looks at the editor do not fail for ever.
Spec ==
    /\ Init /\ [][Next]_vars
    /\ \A a \in Setups : WF_vars(Step(a)) /\ WF_vars(Poll(a)) /\ SF_vars(PollSees(a))

----------------------------------------------------------------------------
(* Properties.                                                             *)

\* A setup that the user cancels before its last look (line 307 of Connect.ts)
\* is neither opened nor reported as an error, whoever settles first, and when
\* it ends the helper was told to cancel a connect that still runs.
CancelHonoured ==
    \A a \in Setups \ blind : cancelled[a] = "yes" =>
        /\ pc[a] \notin {"ending", "setting", "opened", "reporting", "reported"}
        /\ pc[a] = "cancelled" /\ op[a] = "running" => a \in told

\* The progress of a setup that is over, or opens its workspace, has ended; with
\* two setups at once, the provider shows no progress that has ended, and takes
\* messages only of the one it shows (lines 104 to 159).
ProgressTrue ==
    /\ \A a \in Setups : pc[a] \in Over \cup {"setting"} => bar[a] # "shown"
    /\ shown # None /\ hasId[shown] => bar[shown] = "shown"
    /\ operation # None => operation = shown

\* What the user does to a setup, and is shown of it, is true of that setup
\* (connectWithProgress, openWorkspace, endWorkspaceProgress).
UserHeeded == CancelHonoured /\ ProgressTrue

\* A setup ends, or waits for the editor to open its workspace, once the helper
\* has answered or the user has cancelled, even if the helper never answers.
SetupsEnd ==
    \A a \in Setups :
        (op[a] \in {"ok", "error"} \/ cancelled[a] = "yes") ~> pc[a] \in Over \cup {"setting"}
=============================================================================
