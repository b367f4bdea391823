------------------------ MODULE WorkspaceSetupProofs ------------------------
(***************************************************************************)
(* Proofs about WorkspaceSetup, for any number of connects of a window     *)
(* that overlap in any way: a cancellation is honoured, and the progress   *)
(* that is shown is true.  And about ExtensionHost, for any number of      *)
(* loops, requests and bridges: every channel has one owner.               *)
(***************************************************************************)
EXTENDS WorkspaceSetup, ExtensionHost, TLAPS

\* The number of a progress comes when the editor shows it, and is what the
\* user cancels by.
Numbered ==
    \A a \in Setups : /\ pc[a] \in {"idle", "starting"} => ~hasId[a]
                      /\ cancelled[a] # "no" => hasId[a]

\* Who gives up for a cancellation has told the helper.
ToldFirst ==
    \A a \in Setups :
        poll[a] \in {"cancelling", "rejected"} \/ pc[a] = "lastCancel" \/ result[a] = "cancelled" => a \in told

\* Who is past the race, and does not give up, has the helper's answer.
Answered ==
    \A a \in Setups :
        \/ pc[a] \in {"lastLook", "lastCancel", "caught", "scheduled", "look", "secondLook", "ending", "setting"}
        \/ pc[a] = "draining" /\ result[a] # "cancelled"
        => op[a] # "running"

\* The message of a progress with a number is that of the operation.
ShownOperates == shown # None /\ hasId[shown] => operation = shown

IInv == TypeOK /\ UserHeeded /\ Numbered /\ ToldFirst /\ Answered /\ ShownOperates

USE DEF At, Goto, Leave, Update, Polled, window, attempt

----------------------------------------------------------------------------

\* A window starts without connects.
LEMMA InitIInv == Init => IInv
<1> SUFFICES ASSUME Init PROVE IInv
    OBVIOUS
<1>1. TypeOK
    BY DEF Init, TypeOK
<1>2. UserHeeded
    BY <1>1 DEF Init, UserHeeded, CancelHonoured, ProgressTrue, Over
<1>3. Numbered /\ ToldFirst /\ Answered /\ ShownOperates
    BY <1>1 DEF Init, Numbered, ToldFirst, Answered, ShownOperates
<1> QED
    BY <1>1, <1>2, <1>3 DEF IInv

\* A connect starts with a progress of its own, or without one.
LEMMA StartKeeps ==
    ASSUME NEW a \in Setups, IInv,
           Start(a) \/ Refuse(a) \/ Started(a) \/ StartFails(a)
    PROVE  IInv'
<1> USE NoneAssumption DEF IInv, TypeOK, UserHeeded, CancelHonoured, ProgressTrue, Numbered, ToldFirst,
       Answered, ShownOperates, Over, Look, End
<1>1. CASE Start(a)
    BY <1>1 DEF Start
<1>2. CASE Refuse(a)
    BY <1>2 DEF Refuse
<1>3. CASE Started(a)
    BY <1>3 DEF Started
<1>4. CASE StartFails(a)
    BY <1>4 DEF StartFails
<1> QED
    BY <1>1, <1>2, <1>3, <1>4

\* The race between the helper's answer and the user's cancellation.
LEMMA RaceKeeps ==
    ASSUME NEW a \in Setups, IInv,
           Settle(a) \/ Connected(a) \/ ConnectFails(a) \/ Cancelled(a) \/ LastCancel(a)
    PROVE  IInv'
<1> USE NoneAssumption DEF IInv, TypeOK, UserHeeded, CancelHonoured, ProgressTrue, Numbered, ToldFirst,
       Answered, ShownOperates, Over, Look, End
<1>1. CASE Settle(a)
    BY <1>1 DEF Settle
<1>2. CASE Connected(a)
    BY <1>2 DEF Connected
<1>3. CASE ConnectFails(a)
    BY <1>3 DEF ConnectFails
<1>4. CASE Cancelled(a)
    BY <1>4 DEF Cancelled
<1>5. CASE LastCancel(a)
    BY <1>5 DEF LastCancel
<1> QED
    BY <1>1, <1>2, <1>3, <1>4, <1>5

\* The poll, which tells the helper before it rejects.
LEMMA PollKeeps ==
    ASSUME NEW a \in Setups, IInv,
           PollSees(a) \/ PollGoesOn(a) \/ PollCancelled(a) \/ PollAnswered(a)
    PROVE  IInv'
<1> USE NoneAssumption DEF IInv, TypeOK, UserHeeded, CancelHonoured, ProgressTrue, Numbered, ToldFirst,
       Answered, ShownOperates, Over, Look, End
<1>1. CASE PollSees(a)
    BY <1>1 DEF PollSees
<1>2. CASE PollGoesOn(a)
    BY <1>2 DEF PollGoesOn
<1>3. CASE PollCancelled(a)
    BY <1>3 DEF PollCancelled
<1>4. CASE PollAnswered(a)
    BY <1>4 DEF PollAnswered
<1> QED
    BY <1>1, <1>2, <1>3, <1>4

\* The end of a connect.
LEMMA EndKeeps ==
    ASSUME NEW a \in Setups, IInv,
           Prepared(a) \/ Failed(a) \/ GivesUp(a) \/ Caught(a) \/ Reported(a)
    PROVE  IInv'
<1> USE NoneAssumption DEF IInv, TypeOK, UserHeeded, CancelHonoured, ProgressTrue, Numbered, ToldFirst,
       Answered, ShownOperates, Over, Look, End
<1>1. CASE Prepared(a)
    BY <1>1 DEF Prepared
<1>2. CASE Failed(a)
    BY <1>2 DEF Failed
<1>3. CASE GivesUp(a)
    BY <1>3 DEF GivesUp
<1>4. CASE Caught(a)
    BY <1>4 DEF Caught
<1>5. CASE Reported(a)
    BY <1>5 DEF Reported
<1> QED
    BY <1>1, <1>2, <1>3, <1>4, <1>5

\* The opening of the workspace, and its two looks.
LEMMA OpenKeeps ==
    ASSUME NEW a \in Setups, IInv,
           Scheduled(a) \/ OpenWorkspace(a) \/ SecondLook(a) \/ Ended(a) \/ SetUri(a) \/ SetUriFails(a)
    PROVE  IInv'
<1> USE NoneAssumption DEF IInv, TypeOK, UserHeeded, CancelHonoured, ProgressTrue, Numbered, ToldFirst,
       Answered, ShownOperates, Over, Look, End
<1>1. CASE Scheduled(a)
    BY <1>1 DEF Scheduled
<1>2. CASE OpenWorkspace(a)
    BY <1>2 DEF OpenWorkspace
<1>3. CASE SecondLook(a)
    BY <1>3 DEF SecondLook
<1>4. CASE Ended(a)
    BY <1>4 DEF Ended
<1>5. CASE SetUri(a)
    BY <1>5 DEF SetUri
<1>6. CASE SetUriFails(a)
    BY <1>6 DEF SetUriFails
<1> QED
    BY <1>1, <1>2, <1>3, <1>4, <1>5, <1>6

\* The last look sees a cancellation, and tells the helper, or there is none
\* that it could see.
LEMMA LastLookKeeps == ASSUME NEW a \in Setups, IInv, LastLook(a) PROVE IInv'
<1> USE NoneAssumption DEF IInv, TypeOK, UserHeeded, CancelHonoured, ProgressTrue, Numbered, ToldFirst,
       Answered, ShownOperates, Over
<1> PICK seen \in BOOLEAN :
        /\ Look(a, seen)
        /\ IF seen THEN /\ told' = told \cup {a}
                        /\ Goto(a, "lastCancel")
                        /\ UNCHANGED <<active, result>>
           ELSE Leave(a, "value") /\ UNCHANGED told
    BY DEF LastLook
<1>1. CASE seen
    BY <1>1 DEF Look, LastLook
<1>2. CASE ~seen
  <2>1. blind' \in {blind, blind \cup {a}} /\ (cancelled[a] # "no" => a \in blind')
      BY <1>2 DEF Look
  <2>2. /\ At(a, "lastLook")
        /\ Leave(a, "value")
        /\ UNCHANGED <<kind, hasId, bar, cancelled, poll, told, op, window, deactivated>>
      BY <1>2 DEF LastLook
  <2> QED
      BY <2>1, <2>2
<1> QED
    BY <1>1, <1>2

\* The user cancels a progress that is shown, and the extension may end.
LEMMA OthersKeep ==
    ASSUME IInv, (\E a \in Setups : CancelProgress(a)) \/ Deactivate PROVE IInv'
<1> USE NoneAssumption DEF IInv, TypeOK, UserHeeded, CancelHonoured, ProgressTrue, Numbered, ToldFirst,
       Answered, ShownOperates, Over
<1>1. ASSUME NEW a \in Setups, CancelProgress(a) PROVE IInv'
    BY <1>1 DEF CancelProgress
<1>2. CASE Deactivate
    BY <1>2 DEF Deactivate
<1> QED
    BY <1>1, <1>2

\* Every step keeps the invariant.
THEOREM NextIInv == IInv /\ [Next]_vars => IInv'
<1> SUFFICES ASSUME IInv, [Next]_vars PROVE IInv'
    OBVIOUS
<1>1. CASE UNCHANGED vars
    BY <1>1 DEF vars, IInv, TypeOK, UserHeeded, CancelHonoured, ProgressTrue, Numbered, ToldFirst,
       Answered, ShownOperates
<1>2. ASSUME NEW a \in Setups, Step(a) PROVE IInv'
    BY <1>2, StartKeeps, RaceKeeps, LastLookKeeps, EndKeeps, OpenKeeps DEF Step
<1>3. ASSUME NEW a \in Setups, Poll(a) \/ PollSees(a) PROVE IInv'
    BY <1>3, PollKeeps DEF Poll
<1> QED
    BY <1>1, <1>2, <1>3, StartKeeps, RaceKeeps, OpenKeeps, OthersKeep DEF Next

\* In every behaviour the invariant holds.
THEOREM IInvHolds == Spec => []IInv
BY InitIInv, NextIInv, PTL DEF Spec

\* The variables keep their types; a connect that is active has its poll, and
\* one that has a number has its progress in the editor.
THEOREM TypeCorrect == Spec => []TypeOK
<1>1. IInv => TypeOK
    BY DEF IInv
<1> QED
    BY <1>1, IInvHolds, PTL

\* However many connects of a window overlap: one that is cancelled before its
\* last look neither opens nor is reported as an error, and the progress shown
\* is one that goes on (connectWithProgress, openWorkspace,
\* endWorkspaceProgress).
THEOREM UserIsHeeded == Spec => []UserHeeded
<1>1. IInv => UserHeeded
    BY DEF IInv
<1> QED
    BY <1>1, IInvHolds, PTL

----------------------------------------------------------------------------
(* ExtensionHost.  A request of a terminal goes from the helper through    *)
(* one loop of one generation, and a bridge leads from one workspace to    *)
(* one page.                                                               *)

\* A loop holds a request while it looks at it or has it opened.
GivenHeld == \A l \in Loops : given[l] # None <=> loop[l] \in {"given", "opening"}

ExtensionInv == ChannelsOwned /\ GivenHeld

\* What a queue holds when an element is put at its end or taken from its front.
LEMMA EmptyQueue == IsInjective(<<>>) /\ ToSet(<<>>) = {}
BY DEF IsInjective, ToSet

\* A queue with one more at its end.
LEMMA AppendQueue ==
    ASSUME NEW S, NEW s \in Seq(S), IsInjective(s), NEW e \in S, e \notin ToSet(s)
    PROVE  /\ Append(s, e) \in Seq(S) /\ IsInjective(Append(s, e))
           /\ ToSet(Append(s, e)) = ToSet(s) \cup {e}
<1>1. /\ Append(s, e) \in Seq(S) /\ DOMAIN Append(s, e) = 1 .. Len(s) + 1
      /\ \A i \in 1 .. Len(s) : Append(s, e)[i] = s[i]
      /\ Append(s, e)[Len(s) + 1] = e
      /\ Len(s) \in Nat /\ DOMAIN s = 1 .. Len(s)
    OBVIOUS
<1>2. \A i \in 1 .. Len(s) : s[i] # e
    BY <1>1 DEF ToSet
<1> QED
    BY <1>1, <1>2 DEF IsInjective, ToSet

\* And one without its first.
LEMMA TailQueue ==
    ASSUME NEW S, NEW s \in Seq(S), IsInjective(s), s # <<>>
    PROVE  /\ Tail(s) \in Seq(S) /\ IsInjective(Tail(s))
           /\ Head(s) \in ToSet(s) /\ Head(s) \in S
           /\ ToSet(Tail(s)) = ToSet(s) \ {Head(s)}
<1>1. /\ Tail(s) \in Seq(S) /\ Len(s) \in Nat /\ Len(s) > 0
      /\ DOMAIN s = 1 .. Len(s) /\ DOMAIN Tail(s) = 1 .. Len(s) - 1
      /\ \A i \in 1 .. Len(s) - 1 : Tail(s)[i] = s[i + 1]
      /\ Head(s) = s[1] /\ s[1] \in S
    OBVIOUS
<1>2. \A i \in 1 .. Len(s) : i = 1 \/ i - 1 \in 1 .. Len(s) - 1
    BY <1>1
<1>3. IsInjective(Tail(s)) /\ Head(s) \in ToSet(s)
    BY <1>1 DEF IsInjective, ToSet
<1>4. ASSUME NEW x \in ToSet(Tail(s)) PROVE x \in ToSet(s) /\ x # Head(s)
    BY <1>1 DEF IsInjective, ToSet
<1>5. ASSUME NEW x \in ToSet(s), x # Head(s) PROVE x \in ToSet(Tail(s))
  <2>1. PICK i \in 1 .. Len(s) : x = s[i]
      BY <1>1, <1>5 DEF ToSet
  <2>2. i - 1 \in 1 .. Len(s) - 1 /\ s[(i - 1) + 1] = s[i]
      BY <1>1, <1>2, <1>5, <2>1
  <2> QED
      BY <1>1, <2>1, <2>2 DEF ToSet
<1> QED
    BY <1>1, <1>3, <1>4, <1>5

\* Who waits stays in the queue when others go on.
LEMMA WaitersStay ==
    ASSUME QueueTypes, UNCHANGED <<waiters, queue>>,
           \A l \in Loops : loop'[l] = "waiting" <=> loop[l] = "waiting"
    PROVE  QueueTypes'
BY DEF QueueTypes

\* The extension starts with nothing open.
THEOREM InitExtensionInv == ExtensionInit => ExtensionInv
<1> SUFFICES ASSUME ExtensionInit PROVE ExtensionInv
    OBVIOUS
<1> USE AbsentAssumption, GenerationsAssumption DEF ExtensionInit
<1>1. ExtensionTypes
  <2>1. /\ watching \in [Workspaces -> {None}] /\ loop \in [Loops -> {"none"}]
        /\ at \in [Loops -> {None}] /\ given \in [Loops -> {None}]
        /\ request \in [Requests -> {"unsent"}] /\ bridge \in [Bridges -> {"idle"}]
        /\ born \in [Bridges -> {0}] /\ end \in [Bridges -> {None}]
      OBVIOUS
  <2>2. QueueTypes
    <3>1. {l \in Loops : loop[l] = "waiting"} = {}
        OBVIOUS
    <3> QED
        BY <3>1, EmptyQueue DEF QueueTypes
  <2>3. generation \in 0 .. MaxGenerations /\ 0 \in 0 .. MaxGenerations
      OBVIOUS
  <2> QED
      BY <2>1, <2>2, <2>3 DEF ExtensionTypes
<1>2. LoopsRun /\ RequestsHeld /\ GivenHeld
    BY EmptyQueue DEF LoopsRun, RequestsHeld, GivenHeld
<1>3. BridgesCurrent
    BY DEF BridgesCurrent, Standing
<1> QED
    BY <1>1, <1>2, <1>3 DEF ExtensionInv, ChannelsOwned

\* The two queues of the helper stay without repetition, and true to the loops.
LEMMA QueuesKept ==
    ASSUME ExtensionTypes, RequestsHeld, [ExtensionNext]_extensionVars
    PROVE  QueueTypes'
<1> USE DEF loopVars, bridgeVars
<1>0. /\ loop \in [Loops -> {"none", "calling", "waiting", "given", "opening", "delay", "ended"}]
      /\ waiters \in Seq(Loops) /\ IsInjective(waiters)
      /\ ToSet(waiters) = {l \in Loops : loop[l] = "waiting"}
      /\ queue \in Seq(Requests) /\ IsInjective(queue)
      /\ QueueTypes
    BY DEF ExtensionTypes, QueueTypes
<1>1. CASE UNCHANGED <<waiters, queue>> /\ \A l \in Loops : loop'[l] = "waiting" <=> loop[l] = "waiting"
    BY <1>0, <1>1, WaitersStay
<1>2. ASSUME NEW l \in Loops, Wait(l) PROVE QueueTypes'
  <2>1. CASE queue # <<>>
    <3>1. /\ queue' = Tail(queue) /\ waiters' = waiters
          /\ loop' = [loop EXCEPT ![l] = "given"] /\ loop[l] = "calling"
        BY <1>2, <2>1 DEF Wait
    <3>2. queue' \in Seq(Requests) /\ IsInjective(queue')
        BY <1>0, <2>1, <3>1, TailQueue
    <3>3. ToSet(waiters') = {m \in Loops : loop'[m] = "waiting"}
        BY <1>0, <3>1
    <3> QED
        BY <1>0, <3>1, <3>2, <3>3 DEF QueueTypes
  <2>2. CASE queue = <<>>
    <3>1. /\ queue' = queue /\ waiters' = Append(waiters, l)
          /\ loop' = [loop EXCEPT ![l] = "waiting"] /\ loop[l] = "calling"
        BY <1>2, <2>2 DEF Wait
    <3>2. l \notin ToSet(waiters)
        BY <1>0, <3>1
    <3>3. /\ waiters' \in Seq(Loops) /\ IsInjective(waiters')
          /\ ToSet(waiters') = ToSet(waiters) \cup {l}
        BY <1>0, <3>1, <3>2, AppendQueue
    <3>4. ToSet(waiters') = {m \in Loops : loop'[m] = "waiting"}
        BY <1>0, <3>1, <3>3
    <3> QED
        BY <1>0, <3>1, <3>3, <3>4 DEF QueueTypes
  <2> QED
      BY <2>1, <2>2
<1>3. ASSUME NEW q \in Requests, RequestArrives(q) PROVE QueueTypes'
  <2>1. CASE waiters = <<>>
    <3>1. q \notin ToSet(queue)
        BY <1>3 DEF RequestArrives, RequestsHeld
    <3>2. queue' = Append(queue, q) /\ UNCHANGED <<loop, waiters>>
        BY <1>3, <2>1 DEF RequestArrives
    <3>3. queue' \in Seq(Requests) /\ IsInjective(queue')
        BY <1>0, <3>1, <3>2, AppendQueue
    <3> QED
        BY <1>0, <3>2, <3>3 DEF QueueTypes
  <2>2. CASE waiters # <<>>
    <3>1. /\ queue' = queue /\ waiters' = Tail(waiters)
          /\ loop' = [loop EXCEPT ![Head(waiters)] = "given"]
        BY <1>3, <2>2 DEF RequestArrives
    <3>2. /\ waiters' \in Seq(Loops) /\ IsInjective(waiters') /\ Head(waiters) \in Loops
          /\ ToSet(waiters') = ToSet(waiters) \ {Head(waiters)}
        BY <1>0, <2>2, <3>1, TailQueue
    <3>3. ToSet(waiters') = {m \in Loops : loop'[m] = "waiting"}
        BY <1>0, <3>1, <3>2
    <3> QED
        BY <1>0, <3>1, <3>2, <3>3 DEF QueueTypes
  <2> QED
      BY <2>1, <2>2
<1>4. ASSUME waiters' = <<>>, queue' = <<>>, \A l \in Loops : loop'[l] # "waiting"
      PROVE  QueueTypes'
    BY <1>4, EmptyQueue DEF QueueTypes
<1>5. CASE SessionEnds
  <2>1. \A l \in Loops : loop'[l] # "waiting"
      BY <1>0, <1>5 DEF SessionEnds, Thrown
  <2> QED
      BY <1>4, <1>5, <2>1 DEF SessionEnds
<1>6. CASE RpcDisposed
  <2>1. CASE helper = "ready"
    <3>1. \A l \in Loops : loop'[l] # "waiting"
        BY <1>0, <1>6, <2>1 DEF RpcDisposed, Thrown
    <3> QED
        BY <1>4, <1>6, <2>1, <3>1 DEF RpcDisposed
  <2>2. CASE helper = "failed"
      BY <1>1, <1>6, <2>2 DEF RpcDisposed
  <2> QED
      BY <1>6, <2>1, <2>2 DEF RpcDisposed
<1>7. ASSUME NEW w \in Workspaces, SetupOpens(w) PROVE QueueTypes'
    BY <1>0, <1>1, <1>7 DEF SetupOpens, Watch
<1>8. ASSUME NEW l \in Loops,
             WaitFails(l) \/ Received(l) \/ Opened(l) \/ OpenFails(l) \/ Retry(l)
      PROVE  QueueTypes'
    BY <1>0, <1>1, <1>8 DEF WaitFails, Received, Opened, OpenFails, Retry, Thrown
<1>9. CASE UNCHANGED loopVars
    BY <1>1, <1>9
<1>10. ASSUME NEW b \in Bridges,
              \/ BackendUnknown(b) \/ BackendKnown(b) \/ SocketOpens(b) \/ BridgeEnds(b)
              \/ \E w \in Workspaces : Connect(b, w)
       PROVE  UNCHANGED loopVars
    BY <1>10 DEF Connect, BackendUnknown, BackendKnown, SocketOpens, BridgeEnds
<1>11. ASSUME \/ HelperReady \/ HelperFails \/ Activate \/ DeactivateExtension
              \/ SetupAsks \/ SetupAnswered
              \/ UNCHANGED extensionVars \/ \E w \in Workspaces : DisposeWorkspace(w)
       PROVE  QueueTypes'
    BY <1>1, <1>11
    DEF HelperReady, HelperFails, Activate, DeactivateExtension, SetupAsks, SetupAnswered,
        DisposeWorkspace, extensionVars
<1> QED
    BY <1>2, <1>3, <1>5, <1>6, <1>7, <1>8, <1>9, <1>10, <1>11 DEF ExtensionNext

\* A step keeps the types of what is no queue.
LEMMA PlainTypesKept ==
    ASSUME ExtensionTypes, QueueTypes', [ExtensionNext]_extensionVars
    PROVE  ExtensionTypes'
<1> USE AbsentAssumption, GenerationsAssumption
    DEF Current, GetRpc, Thrown, loopVars, bridgeVars, ExtensionTypes, Ends, Close
<1>1. CASE HelperReady
    BY <1>1 DEF HelperReady
<1>2. CASE HelperFails
    BY <1>2 DEF HelperFails
<1>3. ASSUME NEW w \in Workspaces, SetupOpens(w) PROVE ExtensionTypes'
  <2>1. /\ watching' \in [Workspaces -> Loops \cup {None}]
        /\ at' \in [Loops -> Workspaces \cup {None}]
      BY <1>3 DEF SetupOpens, Watch
  <2>2. loop' \in [Loops -> {"none", "calling", "waiting", "given", "opening", "delay", "ended"}]
      BY <1>3 DEF SetupOpens, Watch
  <2>3. helper' \in {"none", "starting", "ready", "failed"}
      BY <1>3 DEF SetupOpens, Watch
  <2>4. backendOf' \in Backends \cup {None}
      BY <1>3 DEF SetupOpens, Backends
  <2> QED
      BY <1>3, <2>1, <2>2, <2>3, <2>4 DEF SetupOpens
<1>4. ASSUME NEW w \in Workspaces, DisposeWorkspace(w) PROVE ExtensionTypes'
    BY <1>4 DEF DisposeWorkspace
<1>5. ASSUME NEW l \in Loops, Wait(l) PROVE ExtensionTypes'
  <2>1. queue # <<>> => Head(queue) \in Requests
      BY DEF QueueTypes
  <2>2. given' \in [Loops -> Requests \cup {None}]
      BY <1>5, <2>1 DEF Wait
  <2>3. loop' \in [Loops -> {"none", "calling", "waiting", "given", "opening", "delay", "ended"}]
      BY <1>5 DEF Wait
  <2> QED
      BY <1>5, <2>2, <2>3 DEF Wait
<1>6. ASSUME NEW l \in Loops, WaitFails(l) PROVE ExtensionTypes'
    BY <1>6 DEF WaitFails
<1>7. ASSUME NEW l \in Loops, Received(l) PROVE ExtensionTypes'
    BY <1>7 DEF Received
<1>8. ASSUME NEW l \in Loops, Opened(l) PROVE ExtensionTypes'
    BY <1>8 DEF Opened
<1>9. ASSUME NEW l \in Loops, OpenFails(l) PROVE ExtensionTypes'
    BY <1>9 DEF OpenFails
<1>10. ASSUME NEW l \in Loops, Retry(l) PROVE ExtensionTypes'
    BY <1>10 DEF Retry
<1>11. ASSUME NEW q \in Requests, RequestArrives(q) PROVE ExtensionTypes'
  <2>1. waiters = <<>> \/ Head(waiters) \in Loops
      BY DEF QueueTypes
  <2>2. given' \in [Loops -> Requests \cup {None}]
      BY <1>11, <2>1 DEF RequestArrives
  <2>3. loop' \in [Loops -> {"none", "calling", "waiting", "given", "opening", "delay", "ended"}]
      BY <1>11, <2>1 DEF RequestArrives
  <2> QED
      BY <1>11, <2>2, <2>3 DEF RequestArrives
<1>12. ASSUME NEW b \in Bridges, NEW w \in Workspaces, Connect(b, w) PROVE ExtensionTypes'
    BY <1>12 DEF Connect
<1>13. ASSUME NEW b \in Bridges, BackendUnknown(b) PROVE ExtensionTypes'
    BY <1>13 DEF BackendUnknown
<1>14. ASSUME NEW b \in Bridges, BackendKnown(b) PROVE ExtensionTypes'
  <2>1. [by |-> "bridge", of |-> generation] \in Backends
      BY DEF Backends
  <2> QED
      BY <1>14, <2>1 DEF BackendKnown
<1>15. ASSUME NEW b \in Bridges, SocketOpens(b) PROVE ExtensionTypes'
    BY <1>15 DEF SocketOpens
<1>16. ASSUME NEW b \in Bridges, BridgeEnds(b) PROVE ExtensionTypes'
    BY <1>16 DEF BridgeEnds
<1>17. CASE SessionEnds
    BY <1>17 DEF SessionEnds
<1>18. CASE DeactivateExtension
  <2>1. disposing' \in BOOLEAN
      BY <1>18, Zenon DEF DeactivateExtension
  <2>2. generation' \in 0 .. MaxGenerations
      BY <1>18 DEF DeactivateExtension
  <2>3. bridge' \in [Bridges -> {"idle", "asking", "opening", "open", "closed"}]
      BY <1>18 DEF DeactivateExtension
  <2>4. /\ activated' = FALSE /\ backendOf' = None /\ watching' = [w \in Workspaces |-> None]
        /\ UNCHANGED <<helper, loop, at, waiters, queue, given, request, born, end, answered>>
      BY <1>18 DEF DeactivateExtension
  <2> QED
      BY <2>1, <2>2, <2>3, <2>4 DEF QueueTypes
<1>19. CASE RpcDisposed
  <2>1. loop' \in [Loops -> {"none", "calling", "waiting", "given", "opening", "delay", "ended"}]
    <3>1. \/ loop' = Thrown({l \in Loops : loop[l] \in {"calling", "waiting"}})
          \/ loop' = loop
        BY <1>19, Zenon DEF RpcDisposed
    <3> QED
        BY <3>1
  <2>2. request' \in [Requests -> {"unsent", "sent", "opened", "failed", "dropped", "lost"}]
      BY <1>19 DEF RpcDisposed
  <2>3. bridge' \in [Bridges -> {"idle", "asking", "opening", "open", "closed"}]
      BY <1>19 DEF RpcDisposed
  <2> QED
      BY <1>19, <2>1, <2>2, <2>3 DEF RpcDisposed
<1>20. CASE Activate \/ SetupAsks \/ SetupAnswered
    BY <1>20 DEF Activate, SetupAsks, SetupAnswered
<1>21. CASE UNCHANGED extensionVars
    BY <1>21 DEF extensionVars
<1> QED
    BY <1>1, <1>2, <1>3, <1>4, <1>5, <1>6, <1>7, <1>8, <1>9, <1>10, <1>11,
       <1>12, <1>13, <1>14, <1>15, <1>16, <1>17, <1>18, <1>19, <1>20, <1>21
    DEF ExtensionNext

\* The loop a workspace has registered runs for it (run, watch).
LEMMA LoopsKept ==
    ASSUME ExtensionTypes, LoopsRun, [ExtensionNext]_extensionVars
    PROVE  LoopsRun'
<1> USE AbsentAssumption DEF ExtensionTypes, LoopsRun, Current, Thrown, loopVars, bridgeVars
<1>1. CASE \/ HelperReady \/ HelperFails \/ Activate \/ DeactivateExtension
           \/ SetupAsks \/ SetupAnswered
    BY <1>1 DEF HelperReady, HelperFails, Activate, DeactivateExtension, SetupAsks, SetupAnswered
<1>2. CASE SessionEnds
    BY <1>2 DEF SessionEnds
<1>3. CASE RpcDisposed
  <2>1. /\ UNCHANGED <<watching, at>>
        /\ \/ UNCHANGED loop
           \/ loop' = Thrown({l \in Loops : loop[l] \in {"calling", "waiting"}})
      BY <1>3 DEF RpcDisposed
  <2>2. ASSUME NEW w \in Workspaces, watching'[w] # None
        PROVE  at'[watching'[w]] = w /\ loop'[watching'[w]] \notin {"none", "ended"}
      BY <2>1, <2>2
  <2> QED
      BY <2>2
<1>4. ASSUME NEW w \in Workspaces, SetupOpens(w) PROVE LoopsRun'
    BY <1>4 DEF SetupOpens, Watch
<1>5. ASSUME NEW w \in Workspaces, DisposeWorkspace(w) PROVE LoopsRun'
    BY <1>5 DEF DisposeWorkspace
<1>6. ASSUME NEW l \in Loops,
             Wait(l) \/ WaitFails(l) \/ Received(l) \/ Opened(l) \/ OpenFails(l) \/ Retry(l)
      PROVE  LoopsRun'
    BY <1>6 DEF Wait, WaitFails, Received, Opened, OpenFails, Retry
<1>7. ASSUME NEW q \in Requests, RequestArrives(q) PROVE LoopsRun'
    BY <1>7 DEF RequestArrives, QueueTypes
<1>8. ASSUME NEW b \in Bridges,
             \/ BackendUnknown(b) \/ BackendKnown(b) \/ SocketOpens(b) \/ BridgeEnds(b)
             \/ \E w \in Workspaces : Connect(b, w)
      PROVE  LoopsRun'
    BY <1>8 DEF Connect, BackendUnknown, BackendKnown, SocketOpens, BridgeEnds
<1>9. CASE UNCHANGED extensionVars
    BY <1>9 DEF extensionVars
<1> QED
    BY <1>1, <1>2, <1>3, <1>4, <1>5, <1>6, <1>7, <1>8, <1>9 DEF ExtensionNext

\* A request that was sent and has no outcome is queued or held by one loop.
LEMMA RequestsKept ==
    ASSUME ExtensionTypes, RequestsHeld, GivenHeld, [ExtensionNext]_extensionVars
    PROVE  (RequestsHeld /\ GivenHeld)'
<1>0. /\ given \in [Loops -> Requests \cup {None}]
      /\ request \in [Requests -> {"unsent", "sent", "opened", "failed", "dropped", "lost"}]
      /\ loop \in [Loops -> {"none", "calling", "waiting", "given", "opening", "delay", "ended"}]
      /\ waiters \in Seq(Loops) /\ IsInjective(waiters)
      /\ ToSet(waiters) = {l \in Loops : loop[l] = "waiting"}
      /\ queue \in Seq(Requests) /\ IsInjective(queue)
    BY DEF ExtensionTypes, QueueTypes
<1> USE AbsentAssumption, <1>0 DEF GetRpc, Thrown, loopVars, bridgeVars, Ends, RequestsHeld, GivenHeld
<1>1. CASE HelperReady
    BY <1>1 DEF HelperReady
<1>2. CASE HelperFails
    BY <1>2 DEF HelperFails
<1>3. ASSUME NEW w \in Workspaces, SetupOpens(w) PROVE (RequestsHeld /\ GivenHeld)'
    BY <1>3 DEF SetupOpens, Watch
<1>4. ASSUME NEW w \in Workspaces, DisposeWorkspace(w) PROVE (RequestsHeld /\ GivenHeld)'
    BY <1>4 DEF DisposeWorkspace
<1>5. ASSUME NEW l \in Loops, Wait(l) PROVE (RequestsHeld /\ GivenHeld)'
  <2>1. CASE queue # <<>>
    <3>1. /\ Head(queue) \in Requests /\ Head(queue) \in ToSet(queue)
          /\ ToSet(Tail(queue)) = ToSet(queue) \ {Head(queue)}
        BY <2>1, TailQueue
    <3>2. /\ given[l] = None
          /\ given' = [given EXCEPT ![l] = Head(queue)]
          /\ loop' = [loop EXCEPT ![l] = "given"]
          /\ queue' = Tail(queue)
          /\ waiters' = <<>> /\ request' = request
        BY <1>5, <2>1 DEF Wait
    <3> QED
        BY <3>1, <3>2
  <2>2. CASE queue = <<>>
      BY <1>5, <2>2 DEF Wait
  <2> QED
      BY <2>1, <2>2
<1>6. ASSUME NEW l \in Loops, WaitFails(l) PROVE (RequestsHeld /\ GivenHeld)'
    BY <1>6 DEF WaitFails
<1>7. ASSUME NEW l \in Loops, Received(l) PROVE (RequestsHeld /\ GivenHeld)'
  <2>1. CASE Current(l)
      BY <1>7, <2>1 DEF Received
  <2>2. CASE ~Current(l)
      BY <1>7, <2>2 DEF Received
  <2> QED
      BY <2>1, <2>2
<1>8. ASSUME NEW l \in Loops, Opened(l) PROVE (RequestsHeld /\ GivenHeld)'
    BY <1>8 DEF Opened
<1>9. ASSUME NEW l \in Loops, OpenFails(l) PROVE (RequestsHeld /\ GivenHeld)'
    BY <1>9 DEF OpenFails
<1>10. ASSUME NEW l \in Loops, Retry(l) PROVE (RequestsHeld /\ GivenHeld)'
  <2>1. UNCHANGED <<queue, waiters, given, request>>
      BY <1>10 DEF Retry
  <2>2. \A m \in Loops : loop'[m] \in {"given", "opening"} <=> loop[m] \in {"given", "opening"}
      BY <1>10 DEF Retry
  <2> QED
      BY <2>1, <2>2
<1>11. ASSUME NEW q \in Requests, RequestArrives(q) PROVE (RequestsHeld /\ GivenHeld)'
  <2>1. CASE waiters = <<>>
    <3>1. q \notin ToSet(queue)
        BY <1>11 DEF RequestArrives
    <3>2. ToSet(Append(queue, q)) = ToSet(queue) \cup {q}
        BY <3>1, AppendQueue
    <3>3. /\ request[q] = "unsent" /\ request' = [request EXCEPT ![q] = "sent"]
          /\ UNCHANGED <<loop, waiters, given>> /\ queue' = Append(queue, q)
        BY <1>11, <2>1 DEF RequestArrives
    <3> QED
        BY <2>1, <3>1, <3>2, <3>3
  <2>2. CASE waiters # <<>>
    <3>1. Head(waiters) \in Loops /\ loop[Head(waiters)] = "waiting"
        BY <2>2, TailQueue
    <3>2. queue = <<>>
        BY <2>2
    <3>3. /\ request[q] = "unsent" /\ request' = [request EXCEPT ![q] = "sent"]
          /\ given' = [given EXCEPT ![Head(waiters)] = q]
          /\ loop' = [loop EXCEPT ![Head(waiters)] = "given"] /\ queue' = <<>>
        BY <1>11, <2>2, <3>2 DEF RequestArrives
    <3>4. given[Head(waiters)] = None
        BY <3>1
    <3>5. \A l \in Loops : given[l] # q
        BY <3>3
    <3> QED
        BY <3>1, <3>2, <3>3, <3>4, <3>5, EmptyQueue
  <2> QED
      BY <2>1, <2>2
<1>12. ASSUME NEW b \in Bridges, NEW w \in Workspaces, Connect(b, w) PROVE (RequestsHeld /\ GivenHeld)'
    BY <1>12 DEF Connect
<1>13. ASSUME NEW b \in Bridges, BackendUnknown(b) PROVE (RequestsHeld /\ GivenHeld)'
    BY <1>13 DEF BackendUnknown
<1>14. ASSUME NEW b \in Bridges, BackendKnown(b) PROVE (RequestsHeld /\ GivenHeld)'
    BY <1>14 DEF BackendKnown
<1>15. ASSUME NEW b \in Bridges, SocketOpens(b) PROVE (RequestsHeld /\ GivenHeld)'
    BY <1>15 DEF SocketOpens
<1>16. ASSUME NEW b \in Bridges, BridgeEnds(b) PROVE (RequestsHeld /\ GivenHeld)'
    BY <1>16 DEF BridgeEnds
<1>17. CASE SessionEnds
  <2>1. \A m \in Loops : loop'[m] \in {"given", "opening"} <=> loop[m] \in {"given", "opening"}
      BY <1>17 DEF SessionEnds
  <2>2. \A q \in Requests : request'[q] = "sent" <=> request[q] = "sent" /\ q \notin ToSet(queue)
      BY <1>17 DEF SessionEnds
  <2> QED
      BY <1>17, <2>1, <2>2, EmptyQueue DEF SessionEnds
<1>18. CASE DeactivateExtension
    BY <1>18 DEF DeactivateExtension
<1>19. CASE RpcDisposed
  <2>1. \A m \in Loops : loop'[m] \in {"given", "opening"} <=> loop[m] \in {"given", "opening"}
      BY <1>19 DEF RpcDisposed
  <2>2. CASE helper = "ready"
    <3>1. \A q \in Requests : request'[q] = "sent" <=> request[q] = "sent" /\ q \notin ToSet(queue)
        BY <1>19, <2>2 DEF RpcDisposed
    <3>2. queue' = <<>> /\ waiters' = <<>> /\ given' = given
        BY <1>19, <2>2 DEF RpcDisposed
    <3> QED
        BY <2>1, <3>1, <3>2, EmptyQueue
  <2>3. CASE helper = "failed"
      BY <1>19, <2>1, <2>3 DEF RpcDisposed
  <2> QED
      BY <1>19, <2>2, <2>3 DEF RpcDisposed
<1>20. CASE Activate \/ SetupAsks \/ SetupAnswered
    BY <1>20 DEF Activate, SetupAsks, SetupAnswered
<1>21. CASE UNCHANGED extensionVars
    BY <1>21 DEF extensionVars
<1> QED
    BY <1>1, <1>2, <1>3, <1>4, <1>5, <1>6, <1>7, <1>8, <1>9, <1>10, <1>11,
       <1>12, <1>13, <1>14, <1>15, <1>16, <1>17, <1>18, <1>19, <1>20, <1>21
    DEF ExtensionNext

\* A bridge, and a backend that a bridge set, are of the activation that goes on
\* (connect, deactivate).
LEMMA BridgesKept ==
    ASSUME ExtensionTypes, BridgesCurrent, [ExtensionNext]_extensionVars
    PROVE  BridgesCurrent'
<1> USE AbsentAssumption, GenerationsAssumption
    DEF GetRpc, loopVars, bridgeVars, ExtensionTypes, Close, Standing, BridgesCurrent
<1>1. CASE HelperReady \/ HelperFails \/ SessionEnds \/ Activate \/ SetupAsks \/ SetupAnswered
    BY <1>1 DEF HelperReady, HelperFails, SessionEnds, Activate, SetupAsks, SetupAnswered
<1>2. ASSUME NEW w \in Workspaces, SetupOpens(w) \/ DisposeWorkspace(w) PROVE BridgesCurrent'
    BY <1>2 DEF SetupOpens, DisposeWorkspace, BySetup
<1>3. ASSUME NEW l \in Loops,
             Wait(l) \/ WaitFails(l) \/ Received(l) \/ Opened(l) \/ OpenFails(l) \/ Retry(l)
      PROVE  BridgesCurrent'
    BY <1>3 DEF Wait, WaitFails, Received, Opened, OpenFails, Retry, Ends
<1>4. ASSUME NEW q \in Requests, RequestArrives(q) PROVE BridgesCurrent'
    BY <1>4 DEF RequestArrives
<1>5. ASSUME NEW b \in Bridges, NEW w \in Workspaces, Connect(b, w) PROVE BridgesCurrent'
    BY <1>5 DEF Connect
<1>6. ASSUME NEW b \in Bridges,
             BackendUnknown(b) \/ BackendKnown(b) \/ SocketOpens(b) \/ BridgeEnds(b)
      PROVE  BridgesCurrent'
    BY <1>6 DEF BackendUnknown, BackendKnown, SocketOpens, BridgeEnds
<1>7. CASE UNCHANGED extensionVars
    BY <1>7 DEF extensionVars
<1>8. CASE DeactivateExtension
  <2>1. Standing' = {} /\ backendOf' = None
      BY <1>8 DEF DeactivateExtension
  <2> QED
      BY <2>1
<1>9. CASE RpcDisposed
  <2>1. /\ Standing' \subseteq Standing
        /\ UNCHANGED <<born, generation, backendOf>>
      BY <1>9 DEF RpcDisposed
  <2> QED
      BY <2>1
<1> QED
    BY <1>1, <1>2, <1>3, <1>4, <1>5, <1>6, <1>7, <1>8, <1>9 DEF ExtensionNext

\* Every step of the helper, the editor and the loops keeps it.
THEOREM NextExtensionInv == ExtensionInv /\ [ExtensionNext]_extensionVars => ExtensionInv'
BY QueuesKept, PlainTypesKept, LoopsKept, RequestsKept, BridgesKept DEF ExtensionInv, ChannelsOwned

\* So it holds of every state of the extension.
THEOREM ExtensionInvHolds == ExtensionSpec => []ExtensionInv
BY InitExtensionInv, NextExtensionInv, PTL DEF ExtensionSpec

\* Any number of loops, requests and bridges: what the extension keeps open has
\* an owner that can end it, whatever is stopped while it waits.
THEOREM ExtensionChannelsOwned == ExtensionSpec => []ChannelsOwned
BY ExtensionInvHolds, PTL DEF ExtensionInv
=============================================================================
