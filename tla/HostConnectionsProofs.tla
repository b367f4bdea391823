----------------------- MODULE HostConnectionsProofs -----------------------
(***************************************************************************)
(* Proofs about HostConnections, for any number of calls and setups: the   *)
(* map holds the one setup that was not aborted, and every ssh child that  *)
(* is not its own was told to end.                                         *)
(***************************************************************************)
EXTENDS HostConnections, TLAPS

\* An abort has reached a connection that is being set up or is open.
Heard == \A s \in Setups : stage[s] \in {"connecting", "open"} => s \notin aborted

\* An operation is associated with a setup, or cancelled, when its call came,
\* and with one setup only.
OpsCalled ==
    \A c \in Ops :
       c \in cancelled \/ (\E s \in Setups : c \in ops[s]) => call[c] # "idle"
OpsApart == \A s, t \in Setups : s # t => ops[s] \cap ops[t] = {}

\* An operation that waits for a setup is associated with it until it is
\* cancelled.
Associated == \A c \in Ops \ cancelled : call[c] \in Setups => c \in ops[call[c]]

\* The conjuncts about operations, which most steps leave alone.
OpsInv == OpsCalled /\ OpsApart /\ Associated

IInv == TypeOK /\ HostOwned /\ Heard /\ OpsInv

----------------------------------------------------------------------------
\* A setup that has begun stays so.
LEMMA BegunStays ==
    ASSUME TypeOK, NEW s \in Setups, NEW from, NEW to,
           "unused" \notin from, to # "unused", Moves(s, from, to), to \in Stages
    PROVE  Begun' = Begun /\ s \in Begun /\ stage' \in [Setups -> Stages]
BY DEF Begun, Moves, TypeOK

\* A setup that begins was not used before.
LEMMA FreshIsNew ==
    ASSUME Begun # Setups
    PROVE  Fresh \in Setups /\ stage[Fresh] = "unused"
<1>1. \E s \in Setups \ Begun : TRUE
    BY DEF Begun
<1>2. Fresh \in Setups \ Begun
    BY <1>1 DEF Fresh
<1> QED
    BY <1>2 DEF Begun, AfterAbort

\* The abort of a setup fails it or closes it, when it has a connection.
LEMMA AbortOf ==
    ASSUME TypeOK, NEW s \in Setups, s \in Begun, Abort(s)
    PROVE  /\ Begun' = Begun
           /\ stage' \in [Setups -> Stages]
           /\ \A t \in Setups : t # s => stage'[t] = stage[t]
           /\ stage'[s] \notin {"connecting", "open"}
           /\ stage'[s] = "routing" => stage[s] = "routing"
           /\ stage'[s] \in {"failed", "closed"} =>
                 stage[s] \in {"connecting", "open", "failed", "closed"}
           /\ aborted' = aborted \cup {s}
           /\ call' \in [Calls -> Results \cup Begun]
           /\ \A c \in Calls : call'[c] \in {call[c], "answered", "rejected"}
<1>2. /\ stage' \in [Setups -> Stages]
      /\ \A t \in Setups : t # s => stage'[t] = stage[t]
      /\ stage'[s] = AfterAbort(stage[s])
    BY DEF TypeOK, Stages, Abort, AfterAbort
<1>3. Begun' = Begun
    BY <1>2 DEF Begun, AfterAbort
<1>4. call' \in [Calls -> Results \cup Begun]
  <2>1. CASE stage[s] = "connecting"
      BY <2>1 DEF Abort, Settle, TypeOK, Results
  <2>2. CASE stage[s] # "connecting"
      BY <2>2 DEF Abort, TypeOK
  <2> QED
      BY <2>1, <2>2
<1>5. \A c \in Calls : call'[c] \in {call[c], "answered", "rejected"}
    BY DEF Abort, Settle, TypeOK
<1> QED
    BY <1>2, <1>3, <1>4, <1>5 DEF Abort, AfterAbort

\* What is done to the child of a setup's round is done to no other.
LEMMA ChildOf ==
    ASSUME TypeOK, NEW s \in Setups, NEW st \in Children,
           child' = [child EXCEPT ![s][round[s]] = st]
    PROVE  /\ child' \in [Setups -> [Rounds -> Children]]
           /\ child'[s][round[s]] = st
           /\ \A t \in Setups, r \in Rounds :
                 t # s \/ r # round[s] => child'[t][r] = child[t][r]
<1>1. child[s] \in [Rounds -> Children] /\ round[s] \in Rounds
    BY DEF TypeOK
<1>2. child' = [child EXCEPT ![s] = [child[s] EXCEPT ![round[s]] = st]]
    OBVIOUS
<1> DEFINE row == [child[s] EXCEPT ![round[s]] = st]
<1>3. /\ row \in [Rounds -> Children]
      /\ row[round[s]] = st
      /\ \A r \in Rounds : r # round[s] => row[r] = child[s][r]
    BY <1>1
<1>4. /\ child' \in [Setups -> [Rounds -> Children]]
      /\ child'[s] = row
      /\ \A t \in Setups : t # s => child'[t] = child[t]
    BY <1>2, <1>3 DEF TypeOK
<1> QED
    BY <1>3, <1>4

\* After Kill no child of a setup is alive, if only that of its round was.
LEMMA KillOf ==
    ASSUME TypeOK, NoOrphan, NEW s \in Setups, Kill(s)
    PROVE  /\ child' \in [Setups -> [Rounds -> Children]]
           /\ \A r \in Rounds : child'[s][r] # "alive"
           /\ \A r \in Rounds : child'[s][r] = "stray" => child[s][r] = "stray"
           /\ \A t \in Setups \ {s} : child'[t] = child[t]
<1> DEFINE old == child[s][round[s]]
           st == IF old = "alive" THEN "told" ELSE old
<1>1. old \in Children /\ st \in Children
    BY DEF TypeOK, Children
<1>2. child' = [child EXCEPT ![s][round[s]] = st]
    BY DEF Kill
<1>3. \A t \in Setups \ {s} : child'[t] = child[t]
    BY <1>2 DEF TypeOK
<1> HIDE DEF st, old
<1>4. /\ child' \in [Setups -> [Rounds -> Children]]
      /\ child'[s][round[s]] = st
      /\ \A t \in Setups, r \in Rounds :
            t # s \/ r # round[s] => child'[t][r] = child[t][r]
    BY <1>1, <1>2, ChildOf
<1>5. st # "alive" /\ (st = "stray" => old = "stray")
    BY DEF st
<1>6. ASSUME NEW r \in Rounds
      PROVE  child'[s][r] # "alive" /\ (child'[s][r] = "stray" => child[s][r] = "stray")
  <2>1. CASE r = round[s]
      BY <1>4, <1>5, <2>1 DEF old
  <2>2. CASE r # round[s]
      BY <1>4, <2>2 DEF NoOrphan
  <2> QED
      BY <2>1, <2>2
<1> QED
    BY <1>3, <1>4, <1>6

\* The steps that touch no operation, and make no call idle, keep OpsInv.
LEMMA OpsInvKept ==
    ASSUME OpsInv, UNCHANGED <<ops, cancelled>>,
           \A c \in Calls : call'[c] \in {call[c], "answered", "rejected"}
    PROVE  OpsInv'
BY ResultsAssumption DEF OpsInv, OpsCalled, OpsApart, Associated, Calls, Results

\* The answer to the calls that wait for a setup.
LEMMA SettleOf ==
    ASSUME TypeOK, NEW s \in Setups, NEW a \in {"answered", "rejected"}, Settle(s, a)
    PROVE  /\ call' \in [Calls -> Results \cup Begun]
           /\ \A c \in Calls : call'[c] \in {call[c], "answered", "rejected"}
BY DEF TypeOK, Settle, Results

----------------------------------------------------------------------------
\* A helper begins without a connection.
THEOREM InitIInv == Init => IInv
<1> SUFFICES ASSUME Init PROVE IInv
    OBVIOUS
<1>1. /\ stage \in [Setups -> Stages]
      /\ child \in [Setups -> [Rounds -> Children]]
      /\ \A s \in Setups : stage[s] = "unused"
      /\ \A s \in Setups, r \in Rounds : child[s][r] = "none"
    BY DEF Init, Stages, Children
<1>2. TypeOK
    BY <1>1 DEF Init, TypeOK, Rounds, Results
<1>3. HostOwned
    BY <1>1 DEF Init, HostOwned, NoOrphan, Unaborted, GoneToldAll, JoinsLive, Begun
<1>4. Heard /\ OpsInv
    BY <1>1, ResultsAssumption
       DEF Init, Heard, OpsInv, OpsCalled, OpsApart, Associated, Calls, Results
<1> QED
    BY <1>2, <1>3, <1>4 DEF IInv

\* A step of the setup s, which leaves the others alone.
StepOf(s) ==
    /\ s \in Begun
    /\ stage' \in [Setups -> Stages] /\ stage'[s] # "unused"
    /\ round' \in [Setups -> Rounds]
    /\ child' \in [Setups -> [Rounds -> Children]]
    /\ \A t \in Setups \ {s} :
          stage'[t] = stage[t] /\ child'[t] = child[t] /\ round'[t] = round[t]
    /\ aborted' = aborted \/ aborted' = aborted \cup {s}
    /\ call' \in [Calls -> Results \cup Begun]
    /\ \A c \in Calls : call'[c] \in {call[c], "answered", "rejected"}
    /\ UNCHANGED <<ops, cancelled, disposer, gone>>

\* What is left to show of s itself: its children, whether an abort was heard,
\* and whether it is still, or no longer, in the map.
KeptBy(s) ==
    /\ \A r \in Rounds :
          /\ child'[s][r] = "alive" =>
                /\ s \notin aborted' /\ r = round'[s] /\ ~gone
                /\ stage'[s] \in {"connecting", "routing", "open"}
          /\ gone => child'[s][r] # "stray"
    /\ stage'[s] \in {"connecting", "open"} => s \notin aborted'
    /\ \/ current' = current /\ stage'[s] \notin {"closed", "failed"}
       \/ s \in aborted' /\ Remove(s)

\* A step of one setup keeps what concerns the others.
LEMMA Frame ==
    ASSUME IInv, NEW s \in Setups, StepOf(s), KeptBy(s)
    PROVE  IInv'
<1> USE DEF StepOf, KeptBy
<1>1. Begun' = Begun
    BY DEF Begun
<1>2. current' \in Begun \cup {None} /\ aborted' \in SUBSET Begun
    BY DEF IInv, TypeOK, Remove
<1>3. TypeOK'
    BY <1>1, <1>2 DEF IInv, TypeOK
<1>4. OpsInv'
    BY OpsInvKept DEF IInv
<1>5. Heard'
    BY DEF IInv, Heard
<1>6. Unaborted'
    BY <1>1 DEF IInv, HostOwned, NoOrphan, Unaborted, Remove
<1>7. NoOrphan'
  <2> SUFFICES ASSUME NEW t \in Setups, NEW r \in Rounds, child'[t][r] = "alive"
               PROVE  /\ t \notin aborted'
                      /\ r = round'[t]
                      /\ stage'[t] \in {"connecting", "routing", "open"}
                      /\ ~gone'
      BY <1>6 DEF NoOrphan
  <2>1. CASE t = s
      BY <2>1
  <2>2. CASE t # s
      BY <2>2 DEF IInv, HostOwned, NoOrphan
  <2> QED
      BY <2>1, <2>2
<1>8. GoneToldAll'
  <2> SUFFICES ASSUME gone, NEW t \in Setups, NEW r \in Rounds
               PROVE  child'[t][r] \notin {"alive", "stray"}
      BY DEF GoneToldAll
  <2>1. CASE t = s
      BY <2>1
  <2>2. CASE t # s
      BY <2>2 DEF IInv, HostOwned, GoneToldAll
  <2> QED
      BY <2>1, <2>2
<1>9. JoinsLive'
  <2>1. CASE current' = current /\ stage'[s] \notin {"closed", "failed"}
      BY <2>1, NoneAssumption DEF IInv, HostOwned, JoinsLive, TypeOK, Begun
  <2>2. CASE s \in aborted' /\ Remove(s)
      BY <2>2, NoneAssumption DEF IInv, HostOwned, JoinsLive, TypeOK, Begun, Remove
  <2> QED
      BY <2>1, <2>2
<1> QED
    BY <1>3, <1>4, <1>5, <1>7, <1>8, <1>9 DEF IInv, HostOwned

\* The facts about a setup that its steps rest on.
LEMMA Known ==
    ASSUME IInv, NEW s \in Setups
    PROVE  /\ round \in [Setups -> Rounds] /\ round[s] \in Rounds
           /\ child \in [Setups -> [Rounds -> Children]]
           /\ stage \in [Setups -> Stages]
           /\ call \in [Calls -> Results \cup Begun]
           /\ stage[s] \in {"connecting", "open"} => s \notin aborted
           /\ stage[s] # "unused" => s \in Begun
           /\ TypeOK /\ NoOrphan
           /\ \A r \in Rounds :
                 /\ child[s][r] = "alive" =>
                      /\ s \notin aborted /\ r = round[s] /\ ~gone
                      /\ stage[s] \in {"connecting", "routing", "open"}
                 /\ gone => child[s][r] # "stray"
BY DEF IInv, TypeOK, Heard, HostOwned, NoOrphan, GoneToldAll, Begun

\* A setup that moves from one stage to another.
LEMMA MovesOf ==
    ASSUME TypeOK, NEW s \in Setups, NEW from, NEW to \in Stages, Moves(s, from, to)
    PROVE  /\ stage' \in [Setups -> Stages]
           /\ stage[s] \in from
           /\ stage'[s] = to
           /\ \A t \in Setups \ {s} : stage'[t] = stage[t]
BY DEF Moves, TypeOK

\* ssh is started.
LEMMA SpawnKeeps == ASSUME IInv, NEW s \in Setups, Spawn(s) PROVE IInv'
<1> DEFINE st == IF gone THEN "told" ELSE "alive"
<1>0. st \in Children /\ (gone => st # "alive") /\ st # "stray"
    BY DEF Children
<1>1. /\ child' = [child EXCEPT ![s][round[s]] = st]
      /\ s \notin aborted
      /\ Moves(s, {"preparing"}, "connecting")
      /\ UNCHANGED <<round, aborted, current, ops, call, cancelled, disposer, gone>>
    BY DEF Spawn
<1> HIDE DEF st
<1>2. /\ child' \in [Setups -> [Rounds -> Children]]
      /\ child'[s][round[s]] = st
      /\ \A t \in Setups, r \in Rounds :
            t # s \/ r # round[s] => child'[t][r] = child[t][r]
    BY <1>0, <1>1, ChildOf DEF IInv
<1>3. \A t \in Setups \ {s} : child'[t] = child[t]
    BY <1>1, Known
<1>4. /\ stage' \in [Setups -> Stages]
      /\ stage[s] = "preparing" /\ stage'[s] = "connecting"
      /\ \A t \in Setups \ {s} : stage'[t] = stage[t]
    BY <1>1, MovesOf DEF IInv, Stages
<1>5. StepOf(s)
    BY <1>1, <1>2, <1>3, <1>4, Known DEF StepOf
<1>6. KeptBy(s)
    BY <1>0, <1>1, <1>2, <1>4, Known DEF KeptBy
<1> QED
    BY <1>5, <1>6, Frame
\* A setup fails, however its child was told, if it does not run any more.
LEMMA RejectKeeps ==
    ASSUME IInv, NEW s \in Setups, NEW from, "unused" \notin from,
           Moves(s, from, "failed"), Reject(s),
           child' \in [Setups -> [Rounds -> Children]],
           \A r \in Rounds : child'[s][r] # "alive" /\ (gone => child'[s][r] # "stray"),
           \A t \in Setups \ {s} : child'[t] = child[t],
           UNCHANGED <<round, ops, cancelled, disposer, gone>>
    PROVE  IInv'
<1>1. /\ call' \in [Calls -> Results \cup Begun]
      /\ \A c \in Calls : call'[c] \in {call[c], "answered", "rejected"}
    BY SettleOf DEF Reject, IInv
<1>2. /\ stage' \in [Setups -> Stages]
      /\ stage[s] # "unused" /\ stage'[s] = "failed"
      /\ \A t \in Setups \ {s} : stage'[t] = stage[t]
    BY MovesOf DEF IInv, Stages
<1>3. StepOf(s)
    BY <1>1, <1>2, Known DEF StepOf, Reject
<1>4. KeptBy(s)
    BY <1>2 DEF KeptBy, Reject
<1> QED
    BY <1>3, <1>4, Frame

\* Nor is one alive that was lost, and one is stray only until the helper is gone.
LEMMA LosesOf ==
    ASSUME IInv, NEW s \in Setups, Loses(s)
    PROVE  /\ child' \in [Setups -> [Rounds -> Children]]
           /\ \A r \in Rounds : child'[s][r] # "alive" /\ (gone => child'[s][r] # "stray")
           /\ \A t \in Setups \ {s} : child'[t] = child[t]
<1>1. CASE Kill(s)
    BY <1>1, Known, KillOf
<1>2. CASE child' = [child EXCEPT ![s][round[s]] = IF @ = "alive" THEN "stray" ELSE @]
  <2> DEFINE old == child[s][round[s]]
             st == IF old = "alive" THEN "stray" ELSE old
  <2>1. old \in Children /\ st \in Children /\ st # "alive"
      BY Known DEF Children
  <2>2. gone => st # "stray"
      BY Known
  <2>3. child' = [child EXCEPT ![s][round[s]] = st]
      BY <1>2
  <2>4. \A t \in Setups \ {s} : child'[t] = child[t]
      BY <2>3, Known
  <2> HIDE DEF st, old
  <2>5. /\ child' \in [Setups -> [Rounds -> Children]]
        /\ child'[s][round[s]] = st
        /\ \A t \in Setups, r \in Rounds :
              t # s \/ r # round[s] => child'[t][r] = child[t][r]
      BY <2>1, <2>3, ChildOf DEF IInv
  <2>6. ASSUME NEW r \in Rounds
        PROVE  child'[s][r] # "alive" /\ (gone => child'[s][r] # "stray")
    <3>1. CASE r = round[s]
        BY <2>1, <2>2, <2>5, <3>1
    <3>2. CASE r # round[s]
        BY <2>5, <3>2, Known
    <3> QED
        BY <3>1, <3>2
  <2> QED
      BY <2>4, <2>5, <2>6
<1> QED
    BY <1>1, <1>2 DEF Loses

\* The steps in which the promise of a setup is rejected.
LEMMA FailuresKeep ==
    ASSUME IInv, NEW s \in Setups,
           SpawnAborted(s) \/ RouteFails(s) \/ Fails(s) \/ InstallFails(s)
    PROVE  IInv'
<1>1. CASE SpawnAborted(s)
  <2>1. /\ child' \in [Setups -> [Rounds -> Children]]
        /\ child'[s][round[s]] = "told"
        /\ \A t \in Setups, r \in Rounds :
              t # s \/ r # round[s] => child'[t][r] = child[t][r]
      BY <1>1, ChildOf DEF SpawnAborted, Children, IInv
  <2>2. \A t \in Setups \ {s} : child'[t] = child[t]
      BY <1>1, Known DEF SpawnAborted
  <2>3. \A r \in Rounds : child'[s][r] # "alive" /\ (gone => child'[s][r] # "stray")
      BY <1>1, <2>1, Known DEF SpawnAborted
  <2> QED
      BY <1>1, <2>1, <2>2, <2>3, RejectKeeps DEF SpawnAborted
<1>2. CASE RouteFails(s) \/ Fails(s)
  <2>1. /\ child' \in [Setups -> [Rounds -> Children]]
        /\ \A r \in Rounds : child'[s][r] # "alive" /\ (gone => child'[s][r] # "stray")
        /\ \A t \in Setups \ {s} : child'[t] = child[t]
    <3>1. CASE RouteFails(s)
      <4>1. Kill(s)
          BY <3>1 DEF RouteFails
      <4> QED
          BY <4>1, Known, KillOf
    <3>2. CASE Fails(s)
      <4>1. Loses(s)
          BY <3>2 DEF Fails
      <4> QED
          BY <4>1, LosesOf
    <3> QED
        BY <1>2, <3>1, <3>2
  <2> QED
      BY <1>2, <2>1, RejectKeeps DEF RouteFails, Fails
<1>3. CASE InstallFails(s)
  <2>1. \A r \in Rounds : child[s][r] # "alive" /\ (gone => child[s][r] # "stray")
      BY <1>3, Known DEF InstallFails, Moves
  <2> QED
      BY <1>3, <2>1, Known, RejectKeeps DEF InstallFails
<1> QED
    BY <1>1, <1>2, <1>3

\* The steps in which a setup goes on.
LEMMA ProgressKeeps ==
    ASSUME IInv, NEW s \in Setups,
           Opens(s) \/ OpensOld(s) \/ Routed(s) \/ InstallRequired(s) \/ Installed(s)
    PROVE  IInv'
<1>1. CASE Opens(s) \/ Routed(s)
  <2>1. /\ call' \in [Calls -> Results \cup Begun]
        /\ \A c \in Calls : call'[c] \in {call[c], "answered", "rejected"}
      BY <1>1, SettleOf DEF Opens, Routed, IInv
  <2>2. /\ stage' \in [Setups -> Stages]
        /\ stage[s] \in {"connecting", "routing"} /\ stage'[s] = "open"
        /\ s \notin aborted
        /\ \A t \in Setups \ {s} : stage'[t] = stage[t]
      BY <1>1, MovesOf, Known DEF Opens, Routed, Stages
  <2>3. StepOf(s)
      BY <1>1, <2>1, <2>2, Known DEF StepOf, Opens, Routed
  <2>4. KeptBy(s)
      BY <1>1, <2>2, Known DEF KeptBy, Opens, Routed
  <2> QED
      BY <2>3, <2>4, Frame
<1>2. CASE OpensOld(s)
  <2>1. /\ stage' \in [Setups -> Stages]
        /\ stage[s] = "connecting" /\ stage'[s] = "routing"
        /\ \A t \in Setups \ {s} : stage'[t] = stage[t]
      BY <1>2, MovesOf, Known DEF OpensOld, Stages
  <2>2. StepOf(s)
      BY <1>2, <2>1, Known DEF StepOf, OpensOld
  <2>3. KeptBy(s)
      BY <1>2, <2>1, Known DEF KeptBy, OpensOld
  <2> QED
      BY <2>2, <2>3, Frame
<1>3. CASE InstallRequired(s)
  <2>1. /\ child' \in [Setups -> [Rounds -> Children]]
        /\ \A r \in Rounds : child'[s][r] # "alive" /\ (gone => child'[s][r] # "stray")
        /\ \A t \in Setups \ {s} : child'[t] = child[t]
      BY <1>3, Known, LosesOf DEF InstallRequired
  <2>2. /\ stage' \in [Setups -> Stages]
        /\ stage[s] = "connecting" /\ stage'[s] = "installing"
        /\ \A t \in Setups \ {s} : stage'[t] = stage[t]
      BY <1>3, MovesOf, Known DEF InstallRequired, Stages
  <2>3. StepOf(s)
      BY <1>3, <2>1, <2>2, Known DEF StepOf, InstallRequired
  <2>4. KeptBy(s)
      BY <1>3, <2>1, <2>2 DEF KeptBy, InstallRequired
  <2> QED
      BY <2>3, <2>4, Frame
<1>4. CASE Installed(s)
  <2>1. /\ stage' \in [Setups -> Stages]
        /\ stage[s] = "installing" /\ stage'[s] = "preparing"
        /\ \A t \in Setups \ {s} : stage'[t] = stage[t]
      BY <1>4, MovesOf, Known DEF Installed, Stages
  <2>2. \A r \in Rounds : child[s][r] # "alive" /\ (gone => child[s][r] # "stray")
      BY <2>1, Known
  <2>3. /\ round' \in [Setups -> Rounds]
        /\ \A t \in Setups \ {s} : round'[t] = round[t]
      BY <1>4, Known DEF Installed, Rounds
  <2>4. StepOf(s)
      BY <1>4, <2>1, <2>3, Known DEF StepOf, Installed
  <2>5. KeptBy(s)
      BY <1>4, <2>1, <2>2 DEF KeptBy, Installed
  <2> QED
      BY <2>4, <2>5, Frame
<1> QED
    BY <1>1, <1>2, <1>3, <1>4

\* The steps in which a connection is lost.
LEMMA LossKeeps ==
    ASSUME IInv, NEW s \in Setups, Lost(s)
    PROVE  IInv'
<1>1. /\ stage' \in [Setups -> Stages]
      /\ stage[s] \in {"open", "routing"} /\ stage'[s] \in {"closed", "routing"}
      /\ \A t \in Setups \ {s} : stage'[t] = stage[t]
    BY MovesOf, Known DEF Lost, Stages
<1>2. /\ s \in aborted' /\ aborted' = aborted \cup {s}
      /\ Remove(s)
      /\ UNCHANGED <<round, call, ops, cancelled, disposer, gone>>
    BY DEF Lost, Closes
<1>3. /\ child' \in [Setups -> [Rounds -> Children]]
      /\ \A r \in Rounds : child'[s][r] # "alive" /\ (gone => child'[s][r] # "stray")
      /\ \A t \in Setups \ {s} : child'[t] = child[t]
    BY LosesOf DEF Lost
<1>4. StepOf(s)
    BY <1>1, <1>2, <1>3, Known DEF StepOf
<1>5. KeptBy(s)
    BY <1>1, <1>2, <1>3 DEF KeptBy
<1> QED
    BY <1>4, <1>5, Frame

\* A child ends.
LEMMA EndsKeep ==
    ASSUME IInv, NEW s \in Setups, NEW state \in {"told", "stray"}, Ends(s, state)
    PROVE  IInv'
<1>1. PICK r \in Rounds : /\ child[s][r] = state
                          /\ child' = [child EXCEPT ![s][r] = "dead"]
    BY DEF Ends
<1> DEFINE row == [child[s] EXCEPT ![r] = "dead"]
<1>2. child' = [child EXCEPT ![s] = row]
    BY <1>1
<1>3. /\ row \in [Rounds -> Children]
      /\ \A q \in Rounds : row[q] \in {"dead", child[s][q]}
    BY Known DEF Children
<1> HIDE DEF row
<1>4. /\ child' \in [Setups -> [Rounds -> Children]]
      /\ child'[s] = row
      /\ \A t \in Setups \ {s} : child'[t] = child[t]
    BY <1>2, <1>3, Known
<1>5. \A t \in Setups, q \in Rounds : child'[t][q] \in {"dead", child[t][q]}
    BY <1>3, <1>4
<1>6. UNCHANGED <<stage, round, aborted, current, ops, call, cancelled, disposer, gone>>
    BY DEF Ends
<1>7. TypeOK' /\ OpsInv'
    BY <1>4, <1>6 DEF IInv, TypeOK, OpsInv, OpsCalled, OpsApart, Associated, Begun
<1>8. HostOwned' /\ Heard'
    BY <1>5, <1>6 DEF IInv, HostOwned, NoOrphan, Unaborted, GoneToldAll, JoinsLive, Heard, Begun
<1> QED
    BY <1>7, <1>8 DEF IInv
----------------------------------------------------------------------------
\* An idle call has no operation that is associated or cancelled.
LEMMA IdleUnknown ==
    ASSUME IInv, NEW c \in Ops, Idle(c), c \notin Plain
    PROVE  c \notin cancelled /\ \A s \in Setups : c \notin ops[s]
BY DEF IInv, OpsInv, OpsCalled, Idle

\* A setup begins.
LEMMA BeginKeeps == ASSUME IInv, NEW c \in Calls, Begin(c) PROVE IInv'
<1>1. /\ Fresh \in Setups /\ stage[Fresh] = "unused" /\ Fresh \notin Begun
      /\ Fresh \notin aborted
    BY FreshIsNew DEF Begin, Begun, IInv, TypeOK
<1> DEFINE f == Fresh
<1>2. /\ current = None /\ current' = f
      /\ stage' = [stage EXCEPT ![f] = "preparing"]
      /\ ops' = [ops EXCEPT ![f] = {c} \cap Ops]
      /\ call' = [call EXCEPT ![c] = f]
      /\ UNCHANGED <<round, child, aborted, cancelled, disposer, gone>>
    BY DEF Begin
<1> HIDE DEF f
<1>3. f \in Setups /\ stage[f] = "unused" /\ f \notin Begun /\ f \notin aborted
    BY <1>1 DEF f
<1>4. /\ stage' \in [Setups -> Stages]
      /\ stage'[f] = "preparing"
      /\ \A t \in Setups \ {f} : stage'[t] = stage[t]
    BY <1>2, <1>3 DEF IInv, TypeOK, Stages
<1>5. Begun' = Begun \cup {f}
    BY <1>3, <1>4 DEF Begun
<1>6. /\ ops' \in [Setups -> SUBSET Ops]
      /\ ops'[f] = {c} \cap Ops
      /\ \A t \in Setups \ {f} : ops'[t] = ops[t]
    BY <1>2, <1>3 DEF IInv, TypeOK
<1>7. /\ call' \in [Calls -> Results \cup Begun']
      /\ call'[c] = f /\ f # "idle"
      /\ \A d \in Calls \ {c} : call'[d] = call[d]
    BY <1>2, <1>3, <1>5, ResultsAssumption DEF IInv, TypeOK, Results
<1>8. c \in Ops => c \notin cancelled /\ \A s \in Setups : c \notin ops[s]
    BY IdleUnknown, CallsAssumption DEF Begin
<1>9. TypeOK'
    BY <1>2, <1>4, <1>5, <1>6, <1>7, <1>8 DEF IInv, TypeOK
<1>10. OpsInv'
  <2>1. OpsCalled' /\ OpsApart'
      BY <1>2, <1>6, <1>7, <1>8 DEF IInv, OpsInv, OpsCalled, OpsApart, Calls
  <2>2. \A d \in Calls : call[d] # f
      BY <1>3, ResultsAssumption DEF IInv, TypeOK
  <2>3. Associated'
      BY <1>2, <1>6, <1>7, <2>2 DEF IInv, OpsInv, Associated, Calls
  <2> QED
      BY <2>1, <2>3 DEF OpsInv
<1>11. Heard' /\ GoneToldAll'
    BY <1>2, <1>4 DEF IInv, Heard, HostOwned, GoneToldAll
<1>12. Unaborted'
    BY <1>2, <1>3, <1>5, NoneAssumption DEF IInv, HostOwned, NoOrphan, Unaborted, Begun
<1>13. NoOrphan'
    BY <1>2, <1>3, <1>4, <1>12 DEF IInv, HostOwned, NoOrphan
<1>14. JoinsLive'
    BY <1>2, <1>4 DEF JoinsLive
<1> QED
    BY <1>9, <1>10, <1>11, <1>13, <1>14 DEF IInv, HostOwned

\* A call joins the setup in the map.
LEMMA JoinKeeps == ASSUME IInv, NEW c \in Calls, Join(c) PROVE IInv'
<1>1. /\ current \in Begun /\ current \in Setups
      /\ ops' = [ops EXCEPT ![current] = @ \cup ({c} \cap Ops)]
      /\ call' = [call EXCEPT ![c] = IF stage[current] = "open" THEN "answered" ELSE current]
      /\ UNCHANGED <<setups, current, cancelled, disposer, gone>>
    BY DEF Join, IInv, TypeOK, Begun
<1>2. /\ ops' \in [Setups -> SUBSET Ops]
      /\ ops'[current] = ops[current] \cup ({c} \cap Ops)
      /\ \A t \in Setups \ {current} : ops'[t] = ops[t]
    BY <1>1 DEF IInv, TypeOK
<1>3. /\ call' \in [Calls -> Results \cup Begun]
      /\ call'[c] # "idle"
      /\ \A d \in Calls \ {c} : call'[d] = call[d]
    BY <1>1, ResultsAssumption DEF IInv, TypeOK, Results
<1>4. c \in Ops => c \notin cancelled /\ \A s \in Setups : c \notin ops[s]
    BY IdleUnknown, CallsAssumption DEF Join
<1>5. Begun' = Begun
    BY <1>1 DEF Begun, setups
<1>6. TypeOK'
    BY <1>1, <1>2, <1>3, <1>4, <1>5 DEF IInv, TypeOK, setups
<1>7. OpsCalled' /\ OpsApart'
    BY <1>1, <1>2, <1>3, <1>4 DEF IInv, OpsInv, OpsCalled, OpsApart, Calls
<1>9. Associated'
  <2>1. call'[c] \in {"answered", current} /\ "answered" \notin Setups
      BY <1>1, ResultsAssumption DEF IInv, TypeOK, Results
  <2> QED
      BY <1>1, <1>2, <1>3, <2>1 DEF IInv, OpsInv, Associated, Calls
<1>8. HostOwned' /\ Heard'
    BY <1>1, <1>5
       DEF IInv, HostOwned, NoOrphan, Unaborted, GoneToldAll, JoinsLive, Heard, setups
<1> QED
    BY <1>6, <1>7, <1>8, <1>9 DEF IInv, OpsInv
\* An operation is cancelled, whatever becomes of its setup.
LEMMA CancelOps ==
    ASSUME IInv, NEW c \in Ops, CancelInTime(c),
           \A d \in Calls : call'[d] \in {call[d], "answered", "rejected"}
    PROVE  /\ current \in Setups /\ current \in Begun
           /\ cancelled' \in SUBSET Ops
           /\ ops' \in [Setups -> SUBSET Ops]
           /\ \A s \in Setups : ops'[s] \cap cancelled' = {}
           /\ OpsInv'
<1>1. /\ current \in Begun /\ current \in Setups /\ c \in ops[current]
      /\ cancelled' = cancelled \cup {c}
      /\ ops' = [ops EXCEPT ![current] = @ \ {c}]
    BY DEF CancelInTime, IInv, TypeOK, Begun
<1>2. /\ ops' \in [Setups -> SUBSET Ops]
      /\ ops'[current] = ops[current] \ {c}
      /\ \A t \in Setups \ {current} : ops'[t] = ops[t]
    BY <1>1 DEF IInv, TypeOK
<1>3. \A s \in Setups : c \notin ops'[s]
    BY <1>1, <1>2 DEF IInv, OpsInv, OpsApart
<1>4. \A s \in Setups : ops'[s] \subseteq ops[s]
    BY <1>2
<1>5. \A s \in Setups : ops'[s] \cap cancelled' = {}
    BY <1>1, <1>3, <1>4 DEF IInv, TypeOK
<1>6. OpsApart'
    BY <1>4 DEF IInv, OpsInv, OpsApart
<1>7. OpsCalled'
    BY <1>1, <1>4 DEF IInv, OpsInv, OpsCalled, Calls
<1>8. Associated'
    BY <1>1, <1>2, ResultsAssumption DEF IInv, OpsInv, Associated, Calls, Results
<1> QED
    BY <1>1, <1>2, <1>5, <1>6, <1>7, <1>8 DEF IInv, TypeOK, OpsInv

\* A setup that is aborted, and whose child was told to end, owes nothing more.
LEMMA AbortKeeps ==
    ASSUME IInv, NEW s \in Setups, s \in Begun, Abort(s),
           child' \in [Setups -> [Rounds -> Children]],
           \A t \in Setups, r \in Rounds :
              /\ child'[t][r] = "alive" => t # s /\ child[t][r] = "alive" /\ ~gone'
              /\ gone' => child'[t][r] \notin {"alive", "stray"},
           current = s,
           \/ current' = None
           \/ current' = s /\ stage[s] \notin {"connecting", "open"},
           UNCHANGED round,
           disposer' \in Begun \cup {None}, gone' \in BOOLEAN,
           ops' \in [Setups -> SUBSET Ops], cancelled' \in SUBSET Ops,
           \A t \in Setups : ops'[t] \cap cancelled' = {},
           OpsInv'
    PROVE  IInv'
<1>1. /\ Begun' = Begun
      /\ stage' \in [Setups -> Stages]
      /\ \A t \in Setups : t # s => stage'[t] = stage[t]
      /\ stage'[s] \notin {"connecting", "open"}
      /\ stage'[s] \in {"failed", "closed"} =>
            stage[s] \in {"connecting", "open", "failed", "closed"}
      /\ aborted' = aborted \cup {s}
      /\ call' \in [Calls -> Results \cup Begun]
    BY AbortOf DEF IInv
<1>2. TypeOK'
    BY <1>1 DEF IInv, TypeOK
<1>3. Heard'
    BY <1>1 DEF IInv, Heard
<1>4. Unaborted'
    BY <1>1 DEF IInv, HostOwned, NoOrphan, Unaborted
<1>5. NoOrphan'
    BY <1>1, <1>4 DEF IInv, HostOwned, NoOrphan
<1>6. GoneToldAll'
    BY DEF GoneToldAll
<1>7. JoinsLive'
  <2>1. stage[s] \notin {"unused", "failed", "closed"}
      BY NoneAssumption DEF IInv, HostOwned, JoinsLive
  <2>2. stage'[s] # "unused"
      BY <1>1 DEF Begun
  <2> QED
      BY <1>1, <2>1, <2>2 DEF JoinsLive
<1> QED
    BY <1>2, <1>3, <1>5, <1>6, <1>7 DEF IInv, HostOwned

\* The cancellation of one of several operations.
LEMMA CancelSharedKeeps == ASSUME IInv, NEW c \in Ops, CancelShared(c) PROVE IInv'
<1>1. /\ CancelInTime(c)
      /\ UNCHANGED <<stage, child, aborted, current, call, round, disposer, gone>>
    BY DEF CancelShared, CancelInTime
<1>2. /\ cancelled' \in SUBSET Ops
      /\ ops' \in [Setups -> SUBSET Ops]
      /\ \A s \in Setups : ops'[s] \cap cancelled' = {}
      /\ OpsInv'
    BY <1>1, CancelOps
<1>3. TypeOK'
    BY <1>1, <1>2 DEF IInv, TypeOK, Begun
<1>4. HostOwned' /\ Heard'
    BY <1>1 DEF IInv, HostOwned, NoOrphan, Unaborted, GoneToldAll, JoinsLive, Heard, Begun
<1> QED
    BY <1>2, <1>3, <1>4 DEF IInv

\* The cancellation of the last one.
LEMMA CancelLastKeeps == ASSUME IInv, NEW c \in Ops, CancelLast(c) PROVE IInv'
<1>1. /\ CancelInTime(c) /\ Abort(current) /\ Kill(current)
      /\ current' = IF stage[current] \in {"connecting", "routing"} THEN None ELSE current
      /\ stage[current] # "open"
      /\ UNCHANGED <<round, disposer, gone>>
    BY DEF CancelLast, CancelInTime
<1>2. current \in Setups /\ current \in Begun
    BY <1>1 DEF CancelInTime, IInv, TypeOK, Begun
<1>3. \A d \in Calls : call'[d] \in {call[d], "answered", "rejected"}
    BY <1>1, <1>2, AbortOf DEF IInv
<1>4. /\ cancelled' \in SUBSET Ops
      /\ ops' \in [Setups -> SUBSET Ops]
      /\ \A s \in Setups : ops'[s] \cap cancelled' = {}
      /\ OpsInv'
    BY <1>1, <1>3, CancelOps
<1>5. /\ child' \in [Setups -> [Rounds -> Children]]
      /\ \A t \in Setups, r \in Rounds :
            /\ child'[t][r] = "alive" => t # current /\ child[t][r] = "alive" /\ ~gone'
            /\ gone' => child'[t][r] \notin {"alive", "stray"}
  <2>1. /\ child' \in [Setups -> [Rounds -> Children]]
        /\ \A r \in Rounds : child'[current][r] # "alive"
        /\ \A r \in Rounds : child'[current][r] = "stray" => child[current][r] = "stray"
        /\ \A t \in Setups \ {current} : child'[t] = child[t]
      BY <1>1, <1>2, KillOf DEF IInv, HostOwned
  <2> QED
      BY <1>1, <1>2, <2>1 DEF IInv, HostOwned, NoOrphan, GoneToldAll
<1>6. disposer' \in Begun \cup {None} /\ gone' \in BOOLEAN
    BY <1>1 DEF IInv, TypeOK
<1> QED
    BY <1>1, <1>2, <1>4, <1>5, <1>6, AbortKeeps

\* disposeWorkspace.
LEMMA DisposeKeeps == ASSUME IInv, Dispose PROVE IInv'
<1>1. /\ current' = None /\ disposer' = current /\ Abort(current) /\ Kill(current)
      /\ UNCHANGED <<round, ops, cancelled, gone>>
    BY DEF Dispose
<1>2. current \in Setups /\ current \in Begun
    BY DEF Dispose, IInv, TypeOK, Begun
<1>3. \A d \in Calls : call'[d] \in {call[d], "answered", "rejected"}
    BY <1>1, <1>2, AbortOf DEF IInv
<1>4. OpsInv'
    BY <1>1, <1>3, OpsInvKept DEF IInv
<1>5. /\ child' \in [Setups -> [Rounds -> Children]]
      /\ \A t \in Setups, r \in Rounds :
            /\ child'[t][r] = "alive" => t # current /\ child[t][r] = "alive" /\ ~gone'
            /\ gone' => child'[t][r] \notin {"alive", "stray"}
  <2>1. /\ child' \in [Setups -> [Rounds -> Children]]
        /\ \A r \in Rounds : child'[current][r] # "alive"
        /\ \A r \in Rounds : child'[current][r] = "stray" => child[current][r] = "stray"
        /\ \A t \in Setups \ {current} : child'[t] = child[t]
      BY <1>1, <1>2, KillOf DEF IInv, HostOwned
  <2> QED
      BY <1>1, <1>2, <2>1 DEF IInv, HostOwned, NoOrphan, GoneToldAll
<1>6. /\ gone' \in BOOLEAN /\ ops' \in [Setups -> SUBSET Ops] /\ cancelled' \in SUBSET Ops
      /\ \A t \in Setups : ops'[t] \cap cancelled' = {}
    BY <1>1 DEF IInv, TypeOK
<1> QED
    BY <1>1, <1>2, <1>4, <1>5, <1>6, AbortKeeps

\* RemoteSsh.dispose.
LEMMA DisposeHelperKeeps == ASSUME IInv, DisposeHelper PROVE IInv'
<1>1. /\ gone' = TRUE /\ current' = None
      /\ child' = [s \in Setups |-> [r \in Rounds |->
                     IF child[s][r] \in {"alive", "stray"} THEN "told" ELSE child[s][r]]]
      /\ UNCHANGED <<round, ops, cancelled, disposer>>
    BY DEF DisposeHelper
<1>2. /\ child' \in [Setups -> [Rounds -> Children]]
      /\ \A t \in Setups, r \in Rounds : child'[t][r] \notin {"alive", "stray"}
  <2>1. \A t \in Setups : child'[t] =
            [r \in Rounds |-> IF child[t][r] \in {"alive", "stray"} THEN "told" ELSE child[t][r]]
      BY <1>1
  <2>2. \A t \in Setups, r \in Rounds :
            (IF child[t][r] \in {"alive", "stray"} THEN "told" ELSE child[t][r]) \in Children
      BY DEF IInv, TypeOK, Children
  <2>3. ASSUME NEW t \in Setups PROVE child'[t] \in [Rounds -> Children]
    <3> DEFINE told(r) == IF child[t][r] \in {"alive", "stray"} THEN "told" ELSE child[t][r]
    <3>1. child'[t] = [r \in Rounds |-> told(r)] /\ \A r \in Rounds : told(r) \in Children
        BY <2>1, <2>2
    <3> HIDE DEF told
    <3> QED
        BY <3>1
  <2> QED
      BY <1>1, <2>1, <2>3
<1>3. CASE current = None /\ UNCHANGED <<stage, aborted, call>>
  <2>1. Begun' = Begun
      BY <1>3 DEF Begun
  <2>2. TypeOK' /\ OpsInv' /\ Heard'
      BY <1>1, <1>2, <1>3, <2>1 DEF IInv, TypeOK, OpsInv, OpsCalled, OpsApart, Associated, Heard
  <2>3. HostOwned'
      BY <1>1, <1>2, <1>3, <2>1
         DEF IInv, HostOwned, NoOrphan, Unaborted, GoneToldAll, JoinsLive
  <2> QED
      BY <2>2, <2>3 DEF IInv
<1>4. CASE current # None /\ Abort(current)
  <2>1. current \in Setups /\ current \in Begun
      BY <1>4 DEF IInv, TypeOK, Begun
  <2>2. \A d \in Calls : call'[d] \in {call[d], "answered", "rejected"}
      BY <1>4, <2>1, AbortOf DEF IInv
  <2>3. OpsInv'
      BY <1>1, <2>2, OpsInvKept DEF IInv
  <2>4. /\ gone' \in BOOLEAN /\ ops' \in [Setups -> SUBSET Ops] /\ cancelled' \in SUBSET Ops
        /\ \A t \in Setups : ops'[t] \cap cancelled' = {}
        /\ disposer' \in Begun \cup {None}
      BY <1>1 DEF IInv, TypeOK
  <2> QED
      BY <1>1, <1>2, <1>4, <2>1, <2>3, <2>4, AbortKeeps
<1> QED
    BY <1>3, <1>4 DEF DisposeHelper
----------------------------------------------------------------------------
\* Every step keeps the invariant.
THEOREM NextIInv == IInv /\ [Next]_vars => IInv'
<1> SUFFICES ASSUME IInv, [Next]_vars PROVE IInv'
    OBVIOUS
<1>1. CASE DisposeReturns
  <2>1. TypeOK' /\ OpsInv'
      BY <1>1 DEF DisposeReturns, setups, IInv, TypeOK, OpsInv, OpsCalled, OpsApart,
                  Associated, Begun
  <2>2. HostOwned' /\ Heard'
      BY <1>1 DEF DisposeReturns, setups, IInv, HostOwned, NoOrphan, Unaborted, GoneToldAll,
                  JoinsLive, Heard, Begun
  <2> QED
      BY <2>1, <2>2 DEF IInv
<1>2. CASE UNCHANGED vars
  <2>1. TypeOK' /\ OpsInv'
      BY <1>2 DEF vars, setups, IInv, TypeOK, OpsInv, OpsCalled, OpsApart, Associated, Begun
  <2>2. HostOwned' /\ Heard'
      BY <1>2 DEF vars, setups, IInv, HostOwned, NoOrphan, Unaborted, GoneToldAll, JoinsLive,
                  Heard, Begun
  <2> QED
      BY <2>1, <2>2 DEF IInv
<1>3. ASSUME NEW s \in Setups, ToldEnds(s) \/ StrayEnds(s) PROVE IInv'
    BY <1>3, EndsKeep DEF ToldEnds, StrayEnds
<1> QED
    BY <1>1, <1>2, <1>3, BeginKeeps, JoinKeeps, CancelSharedKeeps, CancelLastKeeps,
       DisposeKeeps, DisposeHelperKeeps, SpawnKeeps, FailuresKeep, ProgressKeeps, LossKeeps
       DEF Next

\* In every behaviour the invariant holds.
THEOREM IInvHolds == Spec => []IInv
BY InitIInv, NextIInv, PTL DEF Spec

\* The variables keep their types, and an operation that was cancelled is
\* associated with no setup.
THEOREM TypeCorrect == Spec => []TypeOK
<1>1. IInv => TypeOK
    BY DEF IInv
<1> QED
    BY <1>1, IInvHolds, PTL

\* The setup in the map is the only one that was not aborted, and every ssh
\* child but its own was told to end or lost its connection; after the helper
\* is disposed, each was told.
THEOREM HostIsOwned == Spec => []HostOwned
<1>1. IInv => HostOwned
    BY DEF IInv
<1> QED
    BY <1>1, IInvHolds, PTL

\* The cancellation of one operation takes nothing from another (the set of
\* operations of the setup in the map is the reason).
THEOREM CancellingSpares == Spec => CancelSpares
<1> DEFINE Spares == \A d \in Ops \ cancelled' : call[d] \in Setups \ aborted =>
                        call'[d] = call[d] /\ call[d] \notin aborted'
<1>1. ASSUME IInv, NEW c \in Ops, CancelLast(c) PROVE Spares
  <2>1. /\ ops[current] = {c} /\ c \in cancelled' /\ cancelled \subseteq cancelled'
        /\ aborted' = aborted \cup {current}
        /\ call' = call \/ Settle(current, "rejected")
      BY <1>1 DEF CancelLast, CancelInTime, Abort
  <2> SUFFICES ASSUME NEW d \in Ops \ cancelled', call[d] \in Setups \ aborted
               PROVE  call'[d] = call[d] /\ call[d] \notin aborted'
      OBVIOUS
  <2>2. d \in ops[call[d]] /\ d # c
      BY <1>1, <2>1 DEF IInv, OpsInv, Associated
  <2>3. call[d] # current
      BY <2>1, <2>2
  <2> QED
      BY <2>1, <2>3 DEF Settle, Calls
<1>2. ASSUME IInv, NEW c \in Ops, CancelShared(c) PROVE Spares
    BY <1>2 DEF CancelShared
<1>3. ASSUME IInv, Next, cancelled' # cancelled PROVE Spares
  <2>1. \E c \in Ops : CancelShared(c) \/ CancelLast(c)
      BY <1>3 DEF Next, Begin, Join, Dispose, DisposeReturns, DisposeHelper, Spawn,
         SpawnAborted, Opens, OpensOld, Routed, RouteFails, Fails, InstallRequired, Installed,
         InstallFails, Lost, Closes, ToldEnds, StrayEnds, Ends
  <2> QED
      BY <1>1, <1>2, <1>3, <2>1
<1>4. IInv /\ [Next]_vars => [cancelled' # cancelled => Spares]_vars
    BY <1>3
<1>5. IInv /\ [Next]_vars =>
        [cancelled' # cancelled =>
           \A c \in Ops \ cancelled' : call[c] \in Setups \ aborted =>
              call'[c] = call[c] /\ call[c] \notin aborted']_vars
    BY <1>4
<1> QED
    BY <1>5, IInvHolds, PTL DEF Spec, CancelSpares
=============================================================================
