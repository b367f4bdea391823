---------------------- MODULE ConnectionSessionProofs ----------------------
(***************************************************************************)
(* Machine-checked proofs about ConnectionSession, for any sets of calls,  *)
(* sockets, open requests and waiting callers.                             *)
(***************************************************************************)
EXTENDS ConnectionSession, TLAPS

\* The updater's position fixes what it may have done to the session: before
\* a switch commits, the session is the original's alone.
UpdaterInv ==
    /\ updater = "installing" => link["updated"] = "none"
    /\ updater = "spawning" => link["updated"] \in {"connecting", "closed"}
    /\ updater \in {"probing", "draining", "fetched", "updated"}
          => link["updated"] \in {"ready", "closed"}
    /\ updater # "updated" => /\ active = "original"
                              /\ selected = "original"
                              /\ ~rollback
    /\ switching <=> updater \in {"draining", "fetched"}
    /\ updater = "fetched" => link["updated"] = "ready" \/ "updated" \in closed

\* What the session knows of its transports agrees with their state.
LinkInv ==
    /\ link["original"] \in {"ready", "closed"}
    /\ "original" \in closed <=> link["original"] = "closed"
    /\ "updated" \in closed => link["updated"] = "closed"
    /\ aborted => \A t \in Transports : ~Live(t)
    /\ active = "updated" /\ link["updated"] = "closed" => aborted
    /\ rollback /\ ~aborted => active = "original"

\* Calls and sockets use open transports only.
CarriedInv ==
    /\ \A c \in Calls : call[c] = "pending"
                        => route[c] \in Transports /\ link[route[c]] = "ready"
    /\ \A s \in Sockets : socket[s] \in Transports => link[socket[s]] = "ready"

\* A call the switch waits for does not become pending again.
DrainInv ==
    /\ FreezeCoversPending
    /\ switching => \A c \in drain : call[c] \in {"pending", "answered", "failed"}
    /\ updater = "fetched" => Drained

\* The parts of the inductive invariant beside the types.
Strengthening ==
    /\ UpdaterInv
    /\ LinkInv
    /\ CarriedInv
    /\ DrainInv
    /\ ActiveUsable
    /\ RouteFollowsActive

IInv == TypeOK /\ Strengthening

----------------------------------------------------------------------------
\* Closing transports keeps the types of everything it touches.
LEMMA CloseType ==
    ASSUME TypeOK, NEW T \in SUBSET Transports, Close(T)
    PROVE  /\ link' \in [Transports -> {"none", "connecting", "ready", "closed"}]
           /\ closed' \in SUBSET Transports
           /\ call' \in [Calls -> CallState]
           /\ route' \in [Calls -> Transports \cup {NoTransport}]
           /\ socket' \in [Sockets -> Transports \cup {"idle", "closed"}]
  BY DEF TypeOK, Close, CallState

\* Abort, alone or as the end of CloseTransport, keeps the types.
LEMMA AbortType == ASSUME TypeOK, Abort PROVE TypeOK'
  <1>1. Close(Transports)
    BY DEF Abort
  <1>2. /\ watcher' \in [Watchers -> {"idle", "waiting", "served", "rejected"}]
        /\ waiters' \in Seq(Watchers)
        /\ requests' \in Seq(Opens)
    BY DEF TypeOK, Abort, RejectWaiters
  <1>3. QED
    BY <1>1, <1>2, CloseType DEF TypeOK, Abort, switchVars

\* Handing an open request over keeps the types.
LEMMA DeliverType ==
    ASSUME TypeOK, NEW o \in Opens, Deliver(o)
    PROVE  /\ requests' \in Seq(Opens)
           /\ waiters' \in Seq(Watchers)
           /\ watcher' \in [Watchers -> {"idle", "waiting", "served", "rejected"}]
           /\ handed' \in Seq(Opens)
  <1>1. CASE waiters # <<>>
    <2>1. Head(waiters) \in Watchers /\ Tail(waiters) \in Seq(Watchers)
      BY <1>1 DEF TypeOK
    <2>2. Append(handed, o) \in Seq(Opens)
      BY DEF TypeOK
    <2>3. QED
      BY <1>1, <2>1, <2>2 DEF TypeOK, Deliver
  <1>2. CASE waiters = <<>>
    <2>1. Append(requests, o) \in Seq(Opens)
      BY DEF TypeOK
    <2>2. QED
      BY <1>2, <2>1 DEF TypeOK, Deliver
  <1>3. QED
    BY <1>1, <1>2

\* CloseTransport keeps the types, whichever of its three outcomes it has.
LEMMA CloseTransportType ==
    ASSUME TypeOK, NEW t \in Transports, CloseTransport(t) PROVE TypeOK'
  <1>1. CASE /\ Close({t})
             /\ UNCHANGED <<aborted, switchVars, openVars>>
    BY <1>1, CloseType DEF TypeOK, switchVars, openVars
  <1>2. CASE /\ Close({t})
             /\ active' = "original"
             /\ rollback' = TRUE
             /\ UNCHANGED <<aborted, switching, drain, updater, selected, openVars>>
    BY <1>2, CloseType DEF TypeOK, openVars, Transports
  <1>3. CASE Abort
    BY <1>3, AbortType
  <1>4. QED
    BY <1>1, <1>2, <1>3 DEF CloseTransport

\* Every variable keeps its type (the type invariant of the module).
THEOREM TypeCorrect == Spec => []TypeOK
  <1>1. Init => TypeOK
    <2>1. <<>> \in Seq(Opens) /\ <<>> \in Seq(Watchers)
      OBVIOUS
    <2> SUFFICES ASSUME Init PROVE TypeOK
      OBVIOUS
    <2>2. /\ arrived \in [Transports -> Seq(Opens)]
          /\ sent \in [Transports -> Seq(Opens)]
          /\ requests \in Seq(Opens)
          /\ handed \in Seq(Opens)
          /\ waiters \in Seq(Watchers)
      BY <2>1 DEF Init
    <2>3. /\ route \in [Calls -> Transports \cup {NoTransport}]
          /\ call \in [Calls -> CallState]
          /\ socket \in [Sockets -> Transports \cup {"idle", "closed"}]
      BY DEF Init, CallState
    <2>4. QED
      BY <2>2, <2>3 DEF Init, TypeOK, Transports, UpdaterState
  <1>2. TypeOK /\ [Next]_vars => TypeOK'
    <2> SUFFICES ASSUME TypeOK, [Next]_vars PROVE TypeOK'
      OBVIOUS
    <2> USE DEF transportVars, switchVars, callVars, openVars
    <2>1. CASE Abort
      BY <2>1, AbortType
    <2>2. ASSUME NEW t \in Transports, CloseTransport(t) PROVE TypeOK'
      BY <2>2, CloseTransportType
    <2>3. ASSUME NEW t \in Transports, Watch(t) PROVE TypeOK'
      <3>1. Head(arrived[t]) \in Opens /\ Tail(arrived[t]) \in Seq(Opens)
        BY <2>3 DEF TypeOK, Watch
      <3>2. arrived' \in [Transports -> Seq(Opens)]
        BY <2>3, <3>1 DEF TypeOK, Watch
      <3>3. watching' \in SUBSET Transports
        BY <2>3 DEF TypeOK, Watch
      <3>4. QED
        BY <2>3, <3>1, <3>2, <3>3, DeliverType DEF TypeOK, Watch
    <2>4. CASE RollbackSettles
      BY <2>4 DEF TypeOK, RollbackSettles, Transports
    <2>5. ASSUME NEW c \in Calls, Invoke(c) PROVE TypeOK'
      BY <2>5 DEF TypeOK, Invoke, Issue, CallState
    <2>6. ASSUME NEW c \in Calls, Thaw(c) PROVE TypeOK'
      BY <2>6 DEF TypeOK, Thaw, Issue, CallState
    <2>7. ASSUME NEW c \in Calls, Answer(c) PROVE TypeOK'
      BY <2>7 DEF TypeOK, Answer, CallState
    <2>8. ASSUME NEW c \in Calls, CallBreaks(c) PROVE TypeOK'
      BY <2>8, CloseTransportType DEF CallBreaks
    <2>9. ASSUME NEW s \in Sockets, Upgrade(s) PROVE TypeOK'
      BY <2>9 DEF TypeOK, Upgrade
    <2>10. CASE InstallEnds
      BY <2>10 DEF TypeOK, InstallEnds, Step, UpdaterState
    <2>11. CASE Ready
      BY <2>11 DEF TypeOK, Ready, Step, UpdaterState
    <2>12. CASE ProbeAnswers
      BY <2>12 DEF TypeOK, ProbeAnswers, Step, UpdaterState, Pending
    <2>13. CASE BackendFetched
      BY <2>13 DEF TypeOK, BackendFetched, Step, UpdaterState
    <2>14. CASE SwitchCommits
      BY <2>14 DEF TypeOK, SwitchCommits, Step, UpdaterState, CallState, Transports
    <2>15. CASE SwitchFails
      <3>1. Close({"updated"})
        BY <2>15 DEF SwitchFails
      <3>2. {"updated"} \in SUBSET Transports
        BY DEF Transports
      <3>3. /\ link' \in [Transports -> {"none", "connecting", "ready", "closed"}]
            /\ closed' \in SUBSET Transports
            /\ call' \in [Calls -> CallState]
            /\ route' \in [Calls -> Transports \cup {NoTransport}]
            /\ socket' \in [Sockets -> Transports \cup {"idle", "closed"}]
        BY <3>1, <3>2, CloseType
      <3>4. QED
        BY <2>15, <3>3 DEF TypeOK, SwitchFails, UpdaterState
    <2>16. CASE UpdateFails
      <3>1. Close({"updated"})
        BY <2>16 DEF UpdateFails
      <3>2. {"updated"} \in SUBSET Transports
        BY DEF Transports
      <3>3. /\ link' \in [Transports -> {"none", "connecting", "ready", "closed"}]
            /\ closed' \in SUBSET Transports
            /\ call' \in [Calls -> CallState]
            /\ route' \in [Calls -> Transports \cup {NoTransport}]
            /\ socket' \in [Sockets -> Transports \cup {"idle", "closed"}]
        BY <3>1, <3>2, CloseType
      <3>4. QED
        BY <2>16, <3>3 DEF TypeOK, UpdateFails, UpdaterState
    <2>17. ASSUME NEW o \in Opens, NEW t \in Transports, OpenArrives(o, t)
           PROVE TypeOK'
      BY <2>17 DEF TypeOK, OpenArrives
    <2>18. ASSUME NEW w \in Watchers, WaitForOpenRequest(w) PROVE TypeOK'
      <3>1. /\ Append(waiters, w) \in Seq(Watchers)
            /\ requests # <<>> => /\ Head(requests) \in Opens
                                  /\ Tail(requests) \in Seq(Opens)
        BY DEF TypeOK
      <3>2. requests # <<>> => Append(handed, Head(requests)) \in Seq(Opens)
        BY <3>1 DEF TypeOK
      <3>3. QED
        BY <2>18, <3>1, <3>2 DEF TypeOK, WaitForOpenRequest
    <2>19. CASE UNCHANGED vars
      BY <2>19 DEF TypeOK, vars
    <2>20. QED
      BY <2>1, <2>2, <2>3, <2>4, <2>5, <2>6, <2>7, <2>8, <2>9, <2>10, <2>11,
         <2>12, <2>13, <2>14, <2>15, <2>16, <2>17, <2>18, <2>19 DEF Next
  <1>3. QED
    BY <1>1, <1>2, PTL DEF Spec

----------------------------------------------------------------------------
\* The strengthening holds when the session is built.
LEMMA StrengtheningInit == Init => Strengthening
  BY DEF Init, Strengthening, UpdaterInv, LinkInv, CarriedInv, DrainInv,
         ActiveUsable, RouteFollowsActive, FreezeCoversPending, Pending, Live,
         Drained, Transports

\* Every step keeps the strengthening.
LEMMA StrengtheningStep ==
    ASSUME TypeOK, Strengthening, [Next]_vars
    PROVE  Strengthening'
  <1> USE DEF transportVars, switchVars, callVars, openVars, Strengthening
  <1>1. CASE Abort
    BY <1>1 DEF Abort, Close, TypeOK, UpdaterInv, LinkInv, CarriedInv, DrainInv,
       ActiveUsable, RouteFollowsActive, FreezeCoversPending, Pending, Live,
       Drained, Transports, UpdaterState
  <1>2. ASSUME NEW t \in Transports, CloseTransport(t) PROVE Strengthening'
    <2>1. CASE /\ active # t
               /\ Live(t)
               /\ Close({t})
               /\ UNCHANGED <<aborted, switchVars, openVars>>
      <3>1. link' = [link EXCEPT ![t] = "closed"]
        BY <2>1 DEF Close, TypeOK, Live, Transports
      <3>2. closed' = IF link[t] = "ready" THEN closed \cup {t} ELSE closed
        BY <2>1 DEF Close
      <3>3. CarriedInv'
        BY <2>1, <3>1 DEF Close, TypeOK, CarriedInv, Transports
      <3>4. DrainInv'
        BY <2>1 DEF Close, TypeOK, DrainInv, FreezeCoversPending, Pending, Drained
      <3>5. QED
        BY <2>1, <3>1, <3>2, <3>3, <3>4 DEF TypeOK, UpdaterInv, LinkInv,
           ActiveUsable, RouteFollowsActive, Live, Transports
    <2>2. CASE /\ active = t
               /\ Live(t)
               /\ RollsBack(t)
               /\ Close({t})
               /\ active' = "original"
               /\ rollback' = TRUE
               /\ UNCHANGED <<aborted, switching, drain, updater, selected, openVars>>
      <3>1. link' = [link EXCEPT ![t] = "closed"]
        BY <2>2 DEF Close, TypeOK, Live, Transports
      <3>2. closed' = IF link[t] = "ready" THEN closed \cup {t} ELSE closed
        BY <2>2 DEF Close
      <3>3. CarriedInv'
        BY <2>2, <3>1 DEF Close, TypeOK, CarriedInv, Transports
      <3>4. DrainInv'
        BY <2>2 DEF Close, TypeOK, DrainInv, FreezeCoversPending, Pending, Drained
      <3>5. t = "updated" /\ link["original"] = "ready"
        BY <2>2 DEF RollsBack, Transports, LinkInv
      <3>6. QED
        BY <2>2, <3>1, <3>2, <3>3, <3>4, <3>5 DEF TypeOK, UpdaterInv, LinkInv,
           ActiveUsable, RouteFollowsActive, Live, Transports
    <2>3. QED
      BY <1>1, <1>2, <2>1, <2>2 DEF CloseTransport
  <1>3. ASSUME NEW t \in Transports, Watch(t) PROVE Strengthening'
    BY <1>3 DEF Watch, UpdaterInv, LinkInv, CarriedInv, DrainInv, ActiveUsable,
       RouteFollowsActive, FreezeCoversPending, Pending, Live, Drained
  <1>4. CASE RollbackSettles
    BY <1>4 DEF RollbackSettles, TypeOK, UpdaterInv, LinkInv, CarriedInv, DrainInv,
       ActiveUsable, RouteFollowsActive, FreezeCoversPending, Pending, Live,
       Drained, Transports
  <1>5. ASSUME NEW c \in Calls, Invoke(c) \/ Thaw(c) PROVE Strengthening'
    <2>1. UNCHANGED <<aborted, link, closed, active, switching, drain, updater,
                      rollback, selected, socket>>
      BY <1>5 DEF Invoke, Thaw
    <2>2. /\ call[c] \in {"idle", "frozen"}
          /\ \A d \in Calls \ {c} : call'[d] = call[d] /\ route'[d] = route[d]
      BY <1>5 DEF Invoke, Thaw, Issue, TypeOK
    <2>3. call'[c] = "pending" => /\ ~switching
                                  /\ link[active] = "ready"
                                  /\ route'[c] = active
      BY <1>5 DEF Invoke, Thaw, Issue, TypeOK, CallState
    <2>4. CarriedInv'
      <3>1. ASSUME NEW d \in Calls, call'[d] = "pending"
            PROVE  route'[d] \in Transports /\ link'[route'[d]] = "ready"
        <4>1. CASE d = c
          BY <2>1, <2>3, <3>1, <4>1 DEF TypeOK
        <4>2. CASE d # c
          BY <2>1, <2>2, <3>1, <4>2 DEF CarriedInv
        <4>3. QED
          BY <4>1, <4>2
      <3>2. QED
        BY <2>1, <3>1 DEF CarriedInv
    <2>5. DrainInv'
      BY <2>1, <2>2, <2>3 DEF DrainInv, FreezeCoversPending, Pending, Drained,
         TypeOK, UpdaterInv
    <2>6. QED
      BY <2>1, <2>4, <2>5 DEF UpdaterInv, LinkInv, ActiveUsable,
         RouteFollowsActive, Live
  <1>6. ASSUME NEW c \in Calls, Answer(c) PROVE Strengthening'
    BY <1>6 DEF Answer, TypeOK, UpdaterInv, LinkInv, CarriedInv, DrainInv,
       ActiveUsable, RouteFollowsActive, FreezeCoversPending, Pending, Live,
       Drained, CallState
  <1>7. ASSUME NEW c \in Calls, CallBreaks(c) PROVE Strengthening'
    BY <1>7, <1>2 DEF CallBreaks
  <1>8. ASSUME NEW s \in Sockets, Upgrade(s) PROVE Strengthening'
    BY <1>8 DEF Upgrade, TypeOK, UpdaterInv, LinkInv, CarriedInv, DrainInv,
       ActiveUsable, RouteFollowsActive, FreezeCoversPending, Pending, Live,
       Drained, Transports
  <1>9. CASE InstallEnds \/ Ready
    BY <1>9 DEF InstallEnds, Ready, Step, TypeOK, UpdaterInv, LinkInv,
       CarriedInv, DrainInv, ActiveUsable, RouteFollowsActive,
       FreezeCoversPending, Pending, Live, Drained, Transports
  <1>10. CASE ProbeAnswers \/ BackendFetched
    BY <1>10 DEF ProbeAnswers, BackendFetched, Step, TypeOK, UpdaterInv, LinkInv,
       CarriedInv, DrainInv, ActiveUsable, RouteFollowsActive,
       FreezeCoversPending, Pending, Live, Drained, Transports
  <1>11. CASE SwitchCommits
    BY <1>11 DEF SwitchCommits, SwitchRefused, Step, TypeOK, UpdaterInv, LinkInv,
       CarriedInv, DrainInv, ActiveUsable, RouteFollowsActive,
       FreezeCoversPending, Pending, Live, Drained, Transports
  <1>12. CASE SwitchFails
    BY <1>12 DEF SwitchFails, SwitchThrows, SwitchRefused, Close, TypeOK,
       UpdaterInv, LinkInv, CarriedInv, DrainInv, ActiveUsable,
       RouteFollowsActive, FreezeCoversPending, Pending, Live, Drained, Transports
  <1>13. CASE UpdateFails
    BY <1>13 DEF UpdateFails, UpdateThrows, Close, TypeOK,
       UpdaterInv, LinkInv, CarriedInv, DrainInv, ActiveUsable,
       RouteFollowsActive, FreezeCoversPending, Pending, Live, Drained, Transports
  <1>14. ASSUME NEW o \in Opens, NEW t \in Transports, OpenArrives(o, t)
         PROVE Strengthening'
    BY <1>14 DEF OpenArrives, UpdaterInv, LinkInv, CarriedInv, DrainInv,
       ActiveUsable, RouteFollowsActive, FreezeCoversPending, Pending, Live, Drained
  <1>15. ASSUME NEW w \in Watchers, WaitForOpenRequest(w) PROVE Strengthening'
    BY <1>15 DEF WaitForOpenRequest, UpdaterInv, LinkInv, CarriedInv, DrainInv,
       ActiveUsable, RouteFollowsActive, FreezeCoversPending, Pending, Live, Drained
  <1>16. CASE UNCHANGED vars
    BY <1>16 DEF vars, UpdaterInv, LinkInv, CarriedInv, DrainInv,
       ActiveUsable, RouteFollowsActive, FreezeCoversPending, Pending, Live, Drained
  <1>17. QED
    BY <1>1, <1>2, <1>3, <1>4, <1>5, <1>6, <1>7, <1>8, <1>9, <1>10, <1>11,
       <1>12, <1>13, <1>14, <1>15, <1>16 DEF Next

\* The inductive invariant holds in every reachable state.
THEOREM Invariance == Spec => []IInv
  <1>1. Init => Strengthening
    BY StrengtheningInit
  <1>2. TypeOK /\ Strengthening /\ [Next]_vars => Strengthening'
    BY StrengtheningStep
  <1>3. QED
    BY <1>1, <1>2, TypeCorrect, PTL DEF Spec, IInv

\* The session's active transport is open, the router leads to it, and a switch
\* waits for every call that runs while it is under way.
THEOREM SessionServes == Spec => []ActiveServes
  <1>1. IInv => ActiveUsable /\ RouteFollowsActive
    BY DEF IInv, Strengthening
  <1>2. IInv => FreezeCoversPending
    BY DEF IInv, Strengthening, DrainInv
  <1>3. IInv => ActiveServes
    BY <1>1, <1>2 DEF ActiveServes
  <1>4. QED
    BY <1>3, Invariance, PTL

----------------------------------------------------------------------------
(* The open requests of the remote CLI.                                    *)

\* No request is received twice, by one transport or by both.
SentOnce ==
    \A t, u \in Transports : \A i \in DOMAIN sent[t], j \in DOMAIN sent[u] :
        sent[t][i] = sent[u][j] => t = u /\ i = j

\* The session holds and hands over only what a transport received.
NothingMadeUp ==
    \A p \in DOMAIN Delivered : Delivered[p] \in Received

\* A transport's own queue holds what that transport received.
ArrivedOwn ==
    \A t \in Transports : \A i \in DOMAIN arrived[t] :
        \E j \in DOMAIN sent[t] : arrived[t][i] = sent[t][j]

\* A caller waits at most once.
WaitersOnce == \A i, j \in DOMAIN waiters : waiters[i] = waiters[j] => i = j

\* The inductive invariant of the open requests.  An aborted session has
\* dropped its queue, so only an open one keeps every request.
OpenInv ==
    /\ SentOnce
    /\ WaitersOnce
    /\ NoForgottenWaiter
    /\ ~aborted => /\ NothingMadeUp
                   /\ \A t \in Transports : OnceInOrder(sent[t], Onward(t))
                   /\ ArrivedOwn

\* The elements of a concatenation.
LEMMA ConcatAt ==
    ASSUME NEW S, NEW a \in Seq(S), NEW b \in Seq(S)
    PROVE  /\ a \o b \in Seq(S)
           /\ Len(a \o b) = Len(a) + Len(b)
           /\ DOMAIN (a \o b) = 1 .. (Len(a) + Len(b))
           /\ \A p \in 1 .. Len(a) : (a \o b)[p] = a[p]
           /\ \A p \in 1 .. Len(b) : (a \o b)[Len(a) + p] = b[p]
  OBVIOUS

\* The elements of a sequence that grew by one.
LEMMA AppendAt ==
    ASSUME NEW S, NEW a \in Seq(S), NEW o \in S
    PROVE  /\ Append(a, o) \in Seq(S)
           /\ Len(Append(a, o)) = Len(a) + 1
           /\ DOMAIN Append(a, o) = 1 .. (Len(a) + 1)
           /\ \A p \in 1 .. Len(a) : Append(a, o)[p] = a[p]
           /\ Append(a, o)[Len(a) + 1] = o
  OBVIOUS

\* A new last element of both sequences keeps the one in the order of the
\* other: a request its own transport receives.
LEMMA AppendKeepsOrder ==
    ASSUME NEW S, NEW s \in Seq(S), NEW d \in Seq(S), NEW o \in S,
           \A i \in DOMAIN s : s[i] # o,
           \A p \in DOMAIN d : d[p] # o,
           OnceInOrder(s, d)
    PROVE  OnceInOrder(Append(s, o), Append(d, o))
  <1> DEFINE n == Len(s)
             m == Len(d)
             s2 == Append(s, o)
             d2 == Append(d, o)
  <1>1. /\ n \in Nat /\ m \in Nat
        /\ DOMAIN s = 1 .. n /\ DOMAIN d = 1 .. m
        /\ DOMAIN s2 = 1 .. (n + 1) /\ DOMAIN d2 = 1 .. (m + 1)
        /\ \A i \in 1 .. n : s2[i] = s[i]
        /\ \A p \in 1 .. m : d2[p] = d[p]
        /\ s2[n + 1] = o /\ d2[m + 1] = o
    BY AppendAt
  <1> HIDE DEF n, m, s2, d2
  <1>2. ASSUME NEW i \in DOMAIN s2 PROVE \E p \in DOMAIN d2 : d2[p] = s2[i]
    <2>1. CASE i \in 1 .. n
      <3>1. PICK p \in DOMAIN d : d[p] = s[i]
        BY <1>1, <2>1 DEF OnceInOrder, InOrder
      <3>2. p \in DOMAIN d2 /\ d2[p] = s2[i]
        BY <1>1, <2>1, <3>1
      <3>3. QED
        BY <3>2
    <2>2. CASE i = n + 1
      <3>1. m + 1 \in DOMAIN d2 /\ d2[m + 1] = s2[i]
        BY <1>1, <2>2
      <3>2. QED
        BY <3>1
    <2>3. QED
      BY <1>1, <1>2, <2>1, <2>2
  <1>3. ASSUME NEW i \in DOMAIN s2, NEW j \in DOMAIN s2,
               NEW p \in DOMAIN d2, NEW q \in DOMAIN d2,
               d2[p] = s2[i], d2[q] = s2[j]
        PROVE  i < j <=> p < q
    <2>1. i \in 1 .. n <=> p \in 1 .. m
      BY <1>1, <1>3
    <2>2. j \in 1 .. n <=> q \in 1 .. m
      BY <1>1, <1>3
    <2>3. i = n + 1 <=> p = m + 1
      BY <1>1, <2>1
    <2>4. j = n + 1 <=> q = m + 1
      BY <1>1, <2>2
    <2>5. CASE i \in 1 .. n /\ j \in 1 .. n
      <3>1. d[p] = s[i] /\ d[q] = s[j]
        BY <1>1, <1>3, <2>1, <2>2, <2>5
      <3>2. QED
        BY <1>1, <2>1, <2>2, <2>5, <3>1 DEF OnceInOrder, InOrder
    <2>6. CASE ~(i \in 1 .. n /\ j \in 1 .. n)
      BY <1>1, <2>1, <2>2, <2>3, <2>4, <2>6
    <2>7. QED
      BY <2>5, <2>6
  <1>4. OnceInOrder(s2, d2)
    BY <1>2, <1>3 DEF OnceInOrder, InOrder
  <1>5. QED
    BY <1>4 DEF s2, d2

\* An element that is not of s may enter anywhere: a request another transport
\* hands on before this transport's own.
LEMMA InsertKeepsOrder ==
    ASSUME NEW S, NEW s \in Seq(S), NEW a \in Seq(S), NEW b \in Seq(S),
           NEW o \in S,
           \A i \in DOMAIN s : s[i] # o,
           OnceInOrder(s, a \o b)
    PROVE  OnceInOrder(s, Append(a, o) \o b)
  <1> DEFINE n == Len(a)
             m == Len(b)
             d == a \o b
             d2 == Append(a, o) \o b
             Old(p) == IF p <= n THEN p ELSE p - 1
             New(p) == IF p <= n THEN p ELSE p + 1
  <1>1. /\ n \in Nat /\ m \in Nat
        /\ DOMAIN d = 1 .. (n + m) /\ DOMAIN d2 = 1 .. (n + 1 + m)
        /\ \A p \in 1 .. n : d[p] = a[p]
        /\ \A p \in 1 .. m : d[n + p] = b[p]
        /\ \A p \in 1 .. (n + 1) : d2[p] = Append(a, o)[p]
        /\ \A p \in 1 .. m : d2[n + 1 + p] = b[p]
    <2>1. Append(a, o) \in Seq(S) /\ Len(Append(a, o)) = n + 1
      BY AppendAt
    <2>2. QED
      BY <2>1, ConcatAt
  <1>2. d2[n + 1] = o /\ \A p \in 1 .. n : d2[p] = a[p]
    BY <1>1, AppendAt
  <1>3. OnceInOrder(s, d)
    OBVIOUS
  <1> HIDE DEF n, m, d, d2
  <1>4. \A p \in 1 .. (n + m) : New(p) \in 1 .. (n + 1 + m) /\ d2[New(p)] = d[p]
    <2> SUFFICES ASSUME NEW p \in 1 .. (n + m)
                 PROVE  New(p) \in 1 .. (n + 1 + m) /\ d2[New(p)] = d[p]
      OBVIOUS
    <2>1. CASE p <= n
      BY <1>1, <1>2, <2>1
    <2>2. CASE p > n
      <3>1. p - n \in 1 .. m /\ n + (p - n) = p /\ n + 1 + (p - n) = p + 1
        BY <1>1, <2>2
      <3>2. d[p] = b[p - n] /\ d2[p + 1] = b[p - n]
        BY <1>1, <3>1
      <3>3. QED
        BY <1>1, <2>2, <3>2
    <2>3. QED
      BY <1>1, <2>1, <2>2
  <1>5. \A p \in 1 .. (n + 1 + m) :
           p # n + 1 => Old(p) \in 1 .. (n + m) /\ d2[p] = d[Old(p)]
    <2> SUFFICES ASSUME NEW p \in 1 .. (n + 1 + m), p # n + 1
                 PROVE  Old(p) \in 1 .. (n + m) /\ d2[p] = d[Old(p)]
      OBVIOUS
    <2>1. Old(p) \in 1 .. (n + m) /\ New(Old(p)) = p
      BY <1>1
    <2>2. QED
      BY <1>4, <2>1
  <1>6. ASSUME NEW i \in DOMAIN s PROVE \E p \in DOMAIN d2 : d2[p] = s[i]
    <2>1. PICK p \in 1 .. (n + m) : d[p] = s[i]
      BY <1>1, <1>3 DEF OnceInOrder, InOrder
    <2>2. New(p) \in DOMAIN d2 /\ d2[New(p)] = s[i]
      BY <1>1, <1>4, <2>1
    <2>3. QED
      BY <2>2
  <1>7. ASSUME NEW i \in DOMAIN s, NEW j \in DOMAIN s,
               NEW p \in DOMAIN d2, NEW q \in DOMAIN d2,
               d2[p] = s[i], d2[q] = s[j]
        PROVE  i < j <=> p < q
    <2>1. p # n + 1 /\ q # n + 1
      BY <1>2, <1>7
    <2>2. /\ Old(p) \in DOMAIN d /\ d[Old(p)] = s[i]
          /\ Old(q) \in DOMAIN d /\ d[Old(q)] = s[j]
      BY <1>1, <1>5, <1>7, <2>1
    <2>3. i < j <=> Old(p) < Old(q)
      BY <1>3, <2>2 DEF OnceInOrder, InOrder
    <2>4. p < q <=> Old(p) < Old(q)
      BY <1>1, <2>1
    <2>5. QED
      BY <2>3, <2>4
  <1>8. OnceInOrder(s, d2)
    BY <1>6, <1>7 DEF OnceInOrder, InOrder
  <1>9. QED
    BY <1>8 DEF d2

\* Given to a waiter or queued, a delivered request goes behind all those
\* delivered before it: nothing is queued while a caller waits.
LEMMA DeliverDelivers ==
    ASSUME TypeOK, NoForgottenWaiter, NEW o \in Opens, Deliver(o)
    PROVE  Delivered' = Append(Delivered, o)
  <1>1. handed \in Seq(Opens) /\ requests \in Seq(Opens)
    BY DEF TypeOK
  <1>2. CASE waiters # <<>>
    <2>1. requests = <<>> /\ requests' = <<>> /\ handed' = Append(handed, o)
      BY <1>2 DEF Deliver, NoForgottenWaiter
    <2>2. handed \o <<>> = handed /\ Append(handed, o) \o <<>> = Append(handed, o)
      BY <1>1
    <2>3. QED
      BY <2>1, <2>2 DEF Delivered
  <1>3. CASE waiters = <<>>
    <2>1. requests' = Append(requests, o) /\ handed' = handed
      BY <1>3 DEF Deliver
    <2>2. handed \o Append(requests, o) = Append(handed \o requests, o)
      BY <1>1
    <2>3. QED
      BY <2>1, <2>2 DEF Delivered
  <1>4. QED
    BY <1>2, <1>3

\* Moving the head of one queue to the end of the queue ahead of it changes
\* nothing of the two together.
LEMMA TakenFromFront ==
    ASSUME NEW S, NEW a \in Seq(S), NEW b \in Seq(S), b # <<>>
    PROVE  /\ Append(a, Head(b)) \o Tail(b) = a \o b
           /\ Head(b) \in S /\ Tail(b) \in Seq(S)
           /\ Head(b) = b[1] /\ 1 \in DOMAIN b
           /\ \A i \in DOMAIN Tail(b) : i + 1 \in DOMAIN b /\ Tail(b)[i] = b[i + 1]
  OBVIOUS

\* A new session has received nothing.
LEMMA InitOpenInv == Init => OpenInv
  <1> SUFFICES ASSUME Init PROVE OpenInv
    OBVIOUS
  <1>1. /\ \A t \in Transports : sent[t] = <<>> /\ arrived[t] = <<>>
        /\ waiters = <<>> /\ requests = <<>> /\ handed = <<>>
    BY DEF Init
  <1>2. Delivered = <<>> /\ \A t \in Transports : Onward(t) = <<>>
    BY <1>1 DEF Delivered, Onward
  <1>3. \A w \in Watchers : watcher[w] # "waiting"
    BY DEF Init
  <1>4. DOMAIN <<>> = {}
    OBVIOUS
  <1>5. SentOnce /\ WaitersOnce /\ NothingMadeUp /\ ArrivedOwn
    BY <1>1, <1>2, <1>4 DEF SentOnce, WaitersOnce, NothingMadeUp, ArrivedOwn
  <1>6. NoForgottenWaiter
    BY <1>1, <1>3, <1>4 DEF NoForgottenWaiter
  <1>7. \A t \in Transports : OnceInOrder(sent[t], Onward(t))
    BY <1>1, <1>2, <1>4 DEF OnceInOrder, InOrder
  <1>8. QED
    BY <1>5, <1>6, <1>7 DEF OpenInv

\* The abort rejects every waiter and drops every queued request.
LEMMA AbortKeepsOpenInv == ASSUME TypeOK, OpenInv, Abort PROVE OpenInv'
  <1>1. /\ aborted' = TRUE
        /\ waiters' = <<>> /\ requests' = <<>> /\ sent' = sent
        /\ \A w \in Watchers : watcher'[w] # "waiting"
    BY DEF Abort, RejectWaiters
  <1>2. SentOnce' /\ WaitersOnce'
    BY <1>1 DEF OpenInv, SentOnce, WaitersOnce
  <1>3. NoForgottenWaiter'
    BY <1>1 DEF NoForgottenWaiter
  <1>4. QED
    BY <1>1, <1>2, <1>3 DEF OpenInv

\* What leaves the queues and the waiters alone keeps the invariant.
LEMMA QuietKeepsOpenInv ==
    ASSUME OpenInv, UNCHANGED <<aborted, arrived, requests, waiters, watcher,
                                sent, handed>>
    PROVE  OpenInv'
  <1>1. Delivered' = Delivered /\ Received' = Received
    BY DEF Delivered, Received
  <1>2. \A t \in Transports : sent'[t] = sent[t] /\ Onward(t)' = Onward(t)
    BY <1>1 DEF Onward
  <1>3. (SentOnce <=> SentOnce') /\ (ArrivedOwn <=> ArrivedOwn')
    BY DEF SentOnce, ArrivedOwn
  <1>4. (WaitersOnce <=> WaitersOnce') /\ (NoForgottenWaiter <=> NoForgottenWaiter')
    BY DEF WaitersOnce, NoForgottenWaiter
  <1>5. NothingMadeUp <=> NothingMadeUp'
    BY <1>1 DEF NothingMadeUp
  <1>6. QED
    BY <1>2, <1>3, <1>4, <1>5 DEF OpenInv

\* A request that arrives goes last, behind all its transport received.
LEMMA ArrivalKeepsOpenInv ==
    ASSUME TypeOK, OpenInv,
           NEW o \in Opens, NEW t \in Transports, OpenArrives(o, t)
    PROVE  OpenInv'
  <1>1. /\ sent \in [Transports -> Seq(Opens)]
        /\ arrived \in [Transports -> Seq(Opens)]
        /\ Delivered \in Seq(Opens)
    BY ConcatAt DEF TypeOK, Delivered
  <1>2. /\ sent' = [sent EXCEPT ![t] = Append(sent[t], o)]
        /\ arrived' = [arrived EXCEPT ![t] = Append(arrived[t], o)]
        /\ o \notin Received
        /\ UNCHANGED <<aborted, Delivered, waiters, watcher, requests>>
    BY DEF OpenArrives, transportVars, Delivered
  <1>3. /\ DOMAIN sent'[t] = 1 .. (Len(sent[t]) + 1)
        /\ \A i \in DOMAIN sent[t] : i \in DOMAIN sent'[t] /\ sent'[t][i] = sent[t][i]
        /\ sent'[t][Len(sent[t]) + 1] = o
        /\ DOMAIN sent[t] = 1 .. Len(sent[t]) /\ Len(sent[t]) \in Nat
    BY <1>1, <1>2, AppendAt
  <1>4. \A u \in Transports : u # t => sent'[u] = sent[u] /\ arrived'[u] = arrived[u]
    BY <1>1, <1>2
  <1>5. \A u \in Transports : \A i \in DOMAIN sent[u] : sent[u][i] # o
    BY <1>2 DEF Received
  <1>6. SentOnce'
    <2> SUFFICES ASSUME NEW u \in Transports, NEW v \in Transports,
                        NEW i \in DOMAIN sent'[u], NEW j \in DOMAIN sent'[v],
                        sent'[u][i] = sent'[v][j]
                 PROVE  u = v /\ i = j
      BY DEF SentOnce
    <2>1. sent'[u][i] = o <=> u = t /\ i = Len(sent[t]) + 1
      BY <1>3, <1>4, <1>5
    <2>2. sent'[v][j] = o <=> v = t /\ j = Len(sent[t]) + 1
      BY <1>3, <1>4, <1>5
    <2>3. CASE sent'[u][i] = o
      BY <2>1, <2>2, <2>3
    <2>4. CASE sent'[u][i] # o
      <3>1. i \in DOMAIN sent[u] /\ sent'[u][i] = sent[u][i]
        BY <1>3, <1>4, <2>1, <2>4
      <3>2. j \in DOMAIN sent[v] /\ sent'[v][j] = sent[v][j]
        BY <1>3, <1>4, <2>2, <2>4
      <3>3. SentOnce /\ sent[u][i] = sent[v][j]
        BY <3>1, <3>2 DEF OpenInv
      <3>4. QED
        BY <3>1, <3>2, <3>3 DEF SentOnce
    <2>5. QED
      BY <2>3, <2>4
  <1>7. WaitersOnce' /\ NoForgottenWaiter'
    BY <1>2 DEF OpenInv, WaitersOnce, NoForgottenWaiter
  <1>8. ASSUME ~aborted
        PROVE  /\ NothingMadeUp'
               /\ \A u \in Transports : OnceInOrder(sent'[u], Onward(u)')
               /\ ArrivedOwn'
    <2>1. /\ NothingMadeUp
          /\ \A u \in Transports : OnceInOrder(sent[u], Onward(u))
          /\ ArrivedOwn
      BY <1>8 DEF OpenInv
    <2>2. Received \subseteq Received'
      <3> SUFFICES ASSUME NEW u \in Transports, NEW i \in DOMAIN sent[u]
                   PROVE  sent[u][i] \in Received'
        BY DEF Received
      <3>1. i \in DOMAIN sent'[u] /\ sent'[u][i] = sent[u][i]
        BY <1>3, <1>4
      <3>2. QED
        BY <3>1 DEF Received
    <2>3. NothingMadeUp'
      BY <1>2, <2>1, <2>2 DEF NothingMadeUp
    <2>4. ArrivedOwn'
      <3> SUFFICES ASSUME NEW u \in Transports, NEW i \in DOMAIN arrived'[u]
                   PROVE  \E j \in DOMAIN sent'[u] : arrived'[u][i] = sent'[u][j]
        BY DEF ArrivedOwn
      <3>1. CASE u # t
        BY <1>4, <2>1, <3>1 DEF ArrivedOwn
      <3>2. CASE u = t /\ i \in DOMAIN arrived[t]
        <4>1. arrived'[t][i] = arrived[t][i]
          BY <1>1, <1>2, <3>2, AppendAt
        <4>2. PICK j \in DOMAIN sent[t] : arrived[t][i] = sent[t][j]
          BY <2>1, <3>2 DEF ArrivedOwn
        <4>3. QED
          BY <1>3, <3>2, <4>1, <4>2
      <3>3. CASE u = t /\ i \notin DOMAIN arrived[t]
        <4>1. arrived'[t] = Append(arrived[t], o)
          BY <1>1, <1>2
        <4>2. i = Len(arrived[t]) + 1 /\ arrived'[t][i] = o
          BY <1>1, <3>3, <4>1, AppendAt
        <4>3. Len(sent[t]) + 1 \in DOMAIN sent'[t]
          BY <1>3
        <4>4. QED
          BY <1>3, <3>3, <4>2, <4>3
      <3>4. QED
        BY <3>1, <3>2, <3>3
    <2>5. ASSUME NEW u \in Transports PROVE OnceInOrder(sent'[u], Onward(u)')
      <3>1. CASE u # t
        <4>1. Onward(u)' = Onward(u)
          BY <1>2, <1>4, <3>1 DEF Onward
        <4>2. QED
          BY <1>4, <2>1, <3>1, <4>1
      <3>2. CASE u = t
        <4>1. Onward(t) \in Seq(Opens)
          BY <1>1, ConcatAt DEF Onward
        <4>2. Onward(t)' = Append(Onward(t), o)
          <5>1. arrived'[t] = Append(arrived[t], o)
            BY <1>1, <1>2
          <5>2. Delivered \o Append(arrived[t], o) = Append(Delivered \o arrived[t], o)
            BY <1>1
          <5>3. QED
            BY <1>2, <5>1, <5>2 DEF Onward
        <4>3. \A p \in DOMAIN Onward(t) : Onward(t)[p] # o
          <5> SUFFICES ASSUME NEW p \in DOMAIN Onward(t) PROVE Onward(t)[p] # o
            OBVIOUS
          <5> DEFINE n == Len(Delivered)
          <5>1. /\ n \in Nat
                /\ DOMAIN Onward(t) = 1 .. (n + Len(arrived[t]))
                /\ \A k \in 1 .. n : k \in DOMAIN Delivered /\ Onward(t)[k] = Delivered[k]
                /\ \A k \in 1 .. Len(arrived[t]) : /\ k \in DOMAIN arrived[t]
                                                   /\ Onward(t)[n + k] = arrived[t][k]
            BY <1>1, ConcatAt DEF Onward
          <5>2. CASE p \in 1 .. n
            BY <1>2, <2>1, <5>1, <5>2 DEF NothingMadeUp
          <5>3. CASE p \notin 1 .. n
            <6>1. p - n \in 1 .. Len(arrived[t]) /\ n + (p - n) = p
              BY <1>1, <5>1, <5>3
            <6>2. PICK j \in DOMAIN sent[t] : arrived[t][p - n] = sent[t][j]
              BY <2>1, <5>1, <6>1 DEF ArrivedOwn
            <6>3. QED
              BY <1>5, <5>1, <6>1, <6>2
          <5>4. QED
            BY <5>2, <5>3
        <4>4. sent'[t] = Append(sent[t], o)
          BY <1>1, <1>2
        <4>5. OnceInOrder(Append(sent[t], o), Append(Onward(t), o))
          BY <1>1, <1>5, <2>1, <4>1, <4>3, AppendKeepsOrder
        <4>6. QED
          BY <3>2, <4>2, <4>4, <4>5
      <3>3. QED
        BY <3>1, <3>2
    <2>6. QED
      BY <2>3, <2>4, <2>5
  <1>9. QED
    BY <1>2, <1>6, <1>7, <1>8 DEF OpenInv

\* A delivery serves the first waiter and leaves the others waiting.
LEMMA DeliverKeepsWaiters ==
    ASSUME TypeOK, WaitersOnce, NoForgottenWaiter, ~aborted, aborted' = aborted,
           NEW o \in Opens, Deliver(o)
    PROVE  WaitersOnce' /\ NoForgottenWaiter'
  <1>1. CASE waiters # <<>>
    <2>1. /\ waiters \in Seq(Watchers)
          /\ watcher \in [Watchers -> {"idle", "waiting", "served", "rejected"}]
      BY DEF TypeOK
    <2>2. /\ waiters' = Tail(waiters) /\ requests' = <<>>
          /\ watcher' = [watcher EXCEPT ![waiters[1]] = "served"]
      BY <1>1, <2>1 DEF Deliver, NoForgottenWaiter
    <2>3. /\ 1 \in DOMAIN waiters /\ waiters[1] \in Watchers
          /\ \A i \in DOMAIN waiters' : /\ i + 1 \in DOMAIN waiters
                                        /\ waiters'[i] = waiters[i + 1]
                                        /\ i \in Nat /\ i >= 1
          /\ \A i \in DOMAIN waiters : /\ i = 1 \/ i - 1 \in DOMAIN waiters'
                                       /\ i \in Nat
      BY <1>1, <2>1, <2>2
    <2>4. WaitersOnce'
      BY <2>3 DEF WaitersOnce
    <2>5. ASSUME NEW w \in Watchers
          PROVE  watcher'[w] = "waiting" <=> \E i \in DOMAIN waiters' : waiters'[i] = w
      <3>1. CASE w = waiters[1]
        <4>1. watcher'[w] # "waiting"
          BY <2>1, <2>2, <3>1
        <4>2. \A i \in DOMAIN waiters' : waiters'[i] # w
          <5> SUFFICES ASSUME NEW i \in DOMAIN waiters' PROVE waiters'[i] # w
            OBVIOUS
          <5>1. i + 1 # 1
            BY <2>3
          <5>2. QED
            BY <2>3, <3>1, <5>1 DEF WaitersOnce
        <4>3. QED
          BY <4>1, <4>2
      <3>2. CASE w # waiters[1]
        <4>1. watcher'[w] = watcher[w]
          BY <2>1, <2>2, <3>2
        <4>2. (\E i \in DOMAIN waiters' : waiters'[i] = w)
                 <=> \E i \in DOMAIN waiters : waiters[i] = w
          <5>1. ASSUME NEW i \in DOMAIN waiters, waiters[i] = w
                PROVE  \E k \in DOMAIN waiters' : waiters'[k] = w
            <6>1. i - 1 \in DOMAIN waiters' /\ (i - 1) + 1 = i
              BY <2>3, <3>2, <5>1
            <6>2. QED
              BY <2>3, <5>1, <6>1
          <5>2. QED
            BY <2>3, <5>1
        <4>3. QED
          BY <4>1, <4>2 DEF NoForgottenWaiter
      <3>3. QED
        BY <3>1, <3>2
    <2>6. QED
      BY <2>2, <2>4, <2>5 DEF NoForgottenWaiter
  <1>2. CASE waiters = <<>>
    BY <1>2 DEF Deliver, WaitersOnce, NoForgottenWaiter
  <1>3. QED
    BY <1>1, <1>2

\* A round of a watch loop hands on the oldest request of its transport, which
\* overtakes nothing that transport received.
LEMMA WatchKeepsOpenInv ==
    ASSUME TypeOK, OpenInv, NEW t \in Transports, Watch(t)
    PROVE  OpenInv'
  <1> DEFINE o == Head(arrived[t])
  <1>1. /\ sent \in [Transports -> Seq(Opens)]
        /\ arrived \in [Transports -> Seq(Opens)]
        /\ Delivered \in Seq(Opens)
    BY ConcatAt DEF TypeOK, Delivered
  <1>2. /\ ~aborted /\ ~aborted'
        /\ arrived[t] # <<>>
        /\ arrived' = [arrived EXCEPT ![t] = Tail(arrived[t])]
        /\ UNCHANGED <<aborted, sent>>
        /\ Deliver(o)
    BY DEF Watch, transportVars
  <1>3. /\ SentOnce /\ WaitersOnce /\ NoForgottenWaiter /\ NothingMadeUp
        /\ \A u \in Transports : OnceInOrder(sent[u], Onward(u))
        /\ ArrivedOwn
    BY <1>2 DEF OpenInv
  <1>4. /\ Append(Delivered, o) \o Tail(arrived[t]) = Delivered \o arrived[t]
        /\ o \in Opens /\ o = arrived[t][1] /\ 1 \in DOMAIN arrived[t]
        /\ \A i \in DOMAIN Tail(arrived[t]) :
              i + 1 \in DOMAIN arrived[t] /\ Tail(arrived[t])[i] = arrived[t][i + 1]
    BY <1>1, <1>2, TakenFromFront
  <1>5. /\ arrived'[t] = Tail(arrived[t])
        /\ \A u \in Transports : u # t => arrived'[u] = arrived[u]
    BY <1>1, <1>2
  <1>6. PICK k \in DOMAIN sent[t] : o = sent[t][k]
    BY <1>3, <1>4 DEF ArrivedOwn
  <1> HIDE DEF o
  <1>7. Delivered' = Append(Delivered, o)
    BY <1>2, <1>3, <1>4, DeliverDelivers
  <1>8. WaitersOnce' /\ NoForgottenWaiter'
    BY <1>2, <1>3, <1>4, DeliverKeepsWaiters
  <1>9. SentOnce'
    BY <1>2, <1>3 DEF SentOnce
  <1>10. NothingMadeUp'
    <2>1. Received' = Received /\ o \in Received
      BY <1>2, <1>6 DEF Received
    <2>2. ASSUME NEW p \in DOMAIN Append(Delivered, o)
          PROVE  Append(Delivered, o)[p] \in Received
      <3>1. CASE p \in DOMAIN Delivered
        BY <1>1, <1>3, <1>4, <3>1, AppendAt DEF NothingMadeUp
      <3>2. CASE p \notin DOMAIN Delivered
        BY <1>1, <1>4, <2>1, <3>2, <2>2, AppendAt
      <3>3. QED
        BY <3>1, <3>2
    <2>3. QED
      BY <1>7, <2>1, <2>2 DEF NothingMadeUp
  <1>11. ArrivedOwn'
    BY <1>2, <1>3, <1>4, <1>5 DEF ArrivedOwn
  <1>12. ASSUME NEW u \in Transports PROVE OnceInOrder(sent'[u], Onward(u)')
    <2>1. CASE u = t
      BY <1>2, <1>3, <1>4, <1>5, <1>7, <2>1 DEF Onward
    <2>2. CASE u # t
      <3>1. \A i \in DOMAIN sent[u] : sent[u][i] # o
        BY <1>3, <1>6, <2>2 DEF SentOnce
      <3>2. OnceInOrder(sent[u], Delivered \o arrived[u])
        BY <1>3 DEF Onward
      <3>3. OnceInOrder(sent[u], Append(Delivered, o) \o arrived[u])
        BY <1>1, <1>4, <3>1, <3>2, InsertKeepsOrder
      <3>4. QED
        BY <1>2, <1>5, <1>7, <2>2, <3>3 DEF Onward
    <2>3. QED
      BY <2>1, <2>2
  <1>13. QED
    BY <1>8, <1>9, <1>10, <1>11, <1>12 DEF OpenInv

\* A caller takes the oldest queued request, or waits behind the others.
LEMMA WaitKeepsOpenInv ==
    ASSUME TypeOK, OpenInv, NEW w \in Watchers, WaitForOpenRequest(w)
    PROVE  OpenInv'
  <1>1. /\ requests \in Seq(Opens) /\ handed \in Seq(Opens)
        /\ waiters \in Seq(Watchers)
        /\ watcher \in [Watchers -> {"idle", "waiting", "served", "rejected"}]
    BY DEF TypeOK
  <1>2. /\ watcher[w] = "idle"
        /\ UNCHANGED <<aborted, arrived, sent>>
    BY DEF WaitForOpenRequest, transportVars
  <1>3. SentOnce /\ WaitersOnce /\ NoForgottenWaiter
    BY DEF OpenInv
  <1>4. \A i \in DOMAIN waiters : waiters[i] # w
    BY <1>2, <1>3 DEF NoForgottenWaiter
  <1>5. Delivered' = Delivered
    <2>1. CASE UNCHANGED <<requests, handed>>
      BY <2>1 DEF Delivered
    <2>2. CASE /\ requests # <<>>
               /\ requests' = Tail(requests)
               /\ handed' = Append(handed, Head(requests))
      BY <1>1, <2>2, TakenFromFront DEF Delivered
    <2>3. QED
      BY <2>1, <2>2 DEF WaitForOpenRequest
  <1>6. WaitersOnce' /\ NoForgottenWaiter'
    <2>1. CASE /\ watcher' = [watcher EXCEPT ![w] = "rejected"]
               /\ UNCHANGED <<requests, waiters>>
      <3>1. \A v \in Watchers : watcher'[v] = "waiting" <=> watcher[v] = "waiting"
        BY <1>1, <1>2, <2>1
      <3>2. QED
        BY <1>2, <1>3, <2>1, <3>1 DEF WaitersOnce, NoForgottenWaiter
    <2>2. CASE /\ requests # <<>>
               /\ watcher' = [watcher EXCEPT ![w] = "served"]
               /\ ~aborted
               /\ UNCHANGED waiters
      <3>1. \A v \in Watchers : watcher'[v] = "waiting" <=> watcher[v] = "waiting"
        BY <1>1, <1>2, <2>2
      <3>2. waiters = <<>>
        BY <1>3, <2>2 DEF NoForgottenWaiter
      <3>3. QED
        BY <1>2, <1>3, <2>2, <3>1, <3>2 DEF WaitersOnce, NoForgottenWaiter
    <2>3. CASE /\ requests = <<>> /\ requests' = <<>>
               /\ watcher' = [watcher EXCEPT ![w] = "waiting"]
               /\ ~aborted
               /\ waiters' = Append(waiters, w)
      <3>1. /\ DOMAIN waiters' = 1 .. (Len(waiters) + 1)
            /\ DOMAIN waiters = 1 .. Len(waiters) /\ Len(waiters) \in Nat
            /\ \A i \in DOMAIN waiters : waiters'[i] = waiters[i]
            /\ waiters'[Len(waiters) + 1] = w
        BY <1>1, <2>3, AppendAt
      <3>2. WaitersOnce'
        BY <1>3, <1>4, <3>1 DEF WaitersOnce
      <3>3. ASSUME NEW v \in Watchers
            PROVE  watcher'[v] = "waiting" <=> \E i \in DOMAIN waiters' : waiters'[i] = v
        <4>1. CASE v = w
          <5>1. watcher'[v] = "waiting"
            BY <1>1, <2>3, <4>1
          <5>2. Len(waiters) + 1 \in DOMAIN waiters'
            BY <3>1
          <5>3. QED
            BY <3>1, <4>1, <5>1, <5>2
        <4>2. CASE v # w
          <5>1. watcher'[v] = watcher[v]
            BY <1>1, <2>3, <4>2
          <5>2. (\E i \in DOMAIN waiters' : waiters'[i] = v)
                   <=> \E i \in DOMAIN waiters : waiters[i] = v
            BY <3>1, <4>2
          <5>3. QED
            BY <1>3, <5>1, <5>2 DEF NoForgottenWaiter
        <4>3. QED
          BY <4>1, <4>2
      <3>4. QED
        BY <1>2, <2>3, <3>2, <3>3 DEF NoForgottenWaiter
    <2>4. QED
      BY <2>1, <2>2, <2>3 DEF WaitForOpenRequest
  <1>7. Received' = Received /\ SentOnce'
    BY <1>2, <1>3 DEF Received, SentOnce
  <1>8. ASSUME ~aborted
        PROVE  /\ NothingMadeUp'
               /\ \A t \in Transports : OnceInOrder(sent'[t], Onward(t)')
               /\ ArrivedOwn'
    <2>1. NothingMadeUp /\ ArrivedOwn
      BY <1>8 DEF OpenInv
    <2>2. NothingMadeUp'
      BY <1>5, <1>7, <2>1 DEF NothingMadeUp
    <2>3. ArrivedOwn'
      BY <1>2, <2>1 DEF ArrivedOwn
    <2>4. \A t \in Transports : Onward(t)' = Onward(t) /\ sent'[t] = sent[t]
      BY <1>2, <1>5 DEF Onward
    <2>5. \A t \in Transports : OnceInOrder(sent'[t], Onward(t)')
      BY <1>8, <2>4 DEF OpenInv
    <2>6. QED
      BY <2>2, <2>3, <2>5
  <1>9. QED
    BY <1>2, <1>6, <1>7, <1>8 DEF OpenInv

\* The loss of a transport aborts the session or leaves its requests alone.
LEMMA CloseTransportKeepsOpenInv ==
    ASSUME TypeOK, OpenInv, NEW t \in Transports, CloseTransport(t)
    PROVE  OpenInv'
  <1>1. CASE Abort
    BY <1>1, AbortKeepsOpenInv
  <1>2. CASE UNCHANGED <<aborted, openVars>>
    BY <1>2, QuietKeepsOpenInv DEF openVars
  <1>3. QED
    BY <1>1, <1>2 DEF CloseTransport

\* Every step keeps the invariant of the open requests.
LEMMA NextOpenInv == ASSUME TypeOK, OpenInv, [Next]_vars PROVE OpenInv'
  <1>1. CASE Abort
    BY <1>1, AbortKeepsOpenInv
  <1>2. ASSUME NEW t \in Transports, CloseTransport(t) PROVE OpenInv'
    BY <1>2, CloseTransportKeepsOpenInv
  <1>3. ASSUME NEW t \in Transports, Watch(t) PROVE OpenInv'
    BY <1>3, WatchKeepsOpenInv
  <1>4. ASSUME NEW o \in Opens, NEW t \in Transports, OpenArrives(o, t) PROVE OpenInv'
    BY <1>4, ArrivalKeepsOpenInv
  <1>5. ASSUME NEW w \in Watchers, WaitForOpenRequest(w) PROVE OpenInv'
    BY <1>5, WaitKeepsOpenInv
  <1>6. CASE \/ RollbackSettles \/ InstallEnds \/ Ready \/ ProbeAnswers
             \/ BackendFetched \/ SwitchCommits \/ SwitchFails \/ UpdateFails
             \/ UNCHANGED vars
    <2>1. UNCHANGED <<aborted, arrived, requests, waiters, watcher, sent, handed>>
      BY <1>6 DEF RollbackSettles, InstallEnds, Ready, ProbeAnswers, BackendFetched,
                  SwitchCommits, SwitchFails, UpdateFails, transportVars, openVars, vars
    <2>2. QED
      BY <2>1, QuietKeepsOpenInv
  <1>7. ASSUME NEW c \in Calls, Invoke(c) \/ Thaw(c) \/ Answer(c) PROVE OpenInv'
    <2>1. UNCHANGED <<aborted, arrived, requests, waiters, watcher, sent, handed>>
      BY <1>7 DEF Invoke, Thaw, Answer, transportVars, openVars
    <2>2. QED
      BY <2>1, QuietKeepsOpenInv
  <1>8. ASSUME NEW c \in Calls, CallBreaks(c) PROVE OpenInv'
    BY <1>8, CloseTransportKeepsOpenInv DEF CallBreaks
  <1>9. ASSUME NEW s \in Sockets, Upgrade(s) PROVE OpenInv'
    <2>1. UNCHANGED <<aborted, arrived, requests, waiters, watcher, sent, handed>>
      BY <1>9 DEF Upgrade, transportVars, openVars
    <2>2. QED
      BY <2>1, QuietKeepsOpenInv
  <1>10. QED
    BY <1>1, <1>2, <1>3, <1>4, <1>5, <1>6, <1>7, <1>8, <1>9 DEF Next

\* What comes before a position of `d` is in the part of `d \o b` that ends
\* there, so that a part of an ordered sequence loses no more than its end.
LEMMA FirstPartOfWhole ==
    ASSUME NEW s \in Seq(Opens), NEW d \in Seq(Opens), NEW b \in Seq(Opens),
           OnceInOrder(s, d \o b)
    PROVE  FirstPartInOrder(s, d)
  <1> DEFINE w == d \o b
  <1>1. /\ DOMAIN d \subseteq DOMAIN w
        /\ \A p \in DOMAIN d : w[p] = d[p]
        /\ DOMAIN w \subseteq Nat \ {0} /\ DOMAIN s \subseteq Nat
        /\ \A q \in DOMAIN d, p \in DOMAIN w : p <= q => p \in DOMAIN d /\ p \in 1 .. q
    <2>1. /\ Len(d) \in Nat /\ Len(b) \in Nat /\ Len(s) \in Nat
          /\ DOMAIN d = 1 .. Len(d) /\ DOMAIN s = 1 .. Len(s)
          /\ DOMAIN w = 1 .. (Len(d) + Len(b))
      BY ConcatAt
    <2>2. \A p \in DOMAIN d : w[p] = d[p]
      BY <2>1, ConcatAt
    <2>3. QED
      BY <2>1, <2>2
  <1>2. /\ \A i \in DOMAIN s : \E p \in DOMAIN w : w[p] = s[i]
        /\ \A i, j \in DOMAIN s, p, q \in DOMAIN w :
              w[p] = s[i] /\ w[q] = s[j] => (i < j <=> p < q)
    BY DEF OnceInOrder, InOrder
  <1> HIDE DEF w
  <1>3. ASSUME NEW i \in DOMAIN s, NEW j \in DOMAIN s, NEW q \in DOMAIN d,
               i <= j, d[q] = s[j]
        PROVE  \E p \in 1 .. q : d[p] = s[i]
    <2>1. PICK p \in DOMAIN w : w[p] = s[i]
      BY <1>2
    <2>2. q \in DOMAIN w /\ w[q] = s[j]
      BY <1>1, <1>3
    <2>3. j < i <=> q < p
      BY <1>2, <2>1, <2>2
    <2>4. p <= q
      BY <1>1, <1>3, <2>2, <2>3
    <2>5. QED
      BY <1>1, <2>1, <2>4
  <1>4. InOrder(s, d)
    BY <1>1, <1>2 DEF InOrder
  <1>5. QED
    BY <1>3, <1>4 DEF FirstPartInOrder

\* No open request is lost but by the close of its transport, which takes the
\* last ones; none is doubled or overtaken, and no caller waits beside a queued
\* request (RequestsServed), however the two watch loops, the callers and the
\* losses of transports interleave.
THEOREM OpenRequestsServed == Spec => []RequestsServed
  <1>1. TypeOK /\ TypeOK' /\ OpenInv /\ [Next]_vars => OpenInv'
    BY NextOpenInv
  <1>2. TypeOK /\ OpenInv => RequestsServed
    <2> SUFFICES ASSUME TypeOK, OpenInv, ~aborted, NEW t \in Transports
                 PROVE  /\ FirstPartInOrder(sent[t], Delivered)
                        /\ OnceInOrder(sent[t], Onward(t))
                        /\ ArrivedOwn
      BY DEF OpenInv, RequestsServed, OpenRequestsKept, ArrivedOwn
    <2>1. OnceInOrder(sent[t], Onward(t)) /\ ArrivedOwn
      BY DEF OpenInv
    <2>2. /\ sent[t] \in Seq(Opens) /\ arrived[t] \in Seq(Opens)
          /\ Delivered \in Seq(Opens)
      BY ConcatAt DEF TypeOK, Delivered
    <2>3. QED
      BY <2>1, <2>2, FirstPartOfWhole DEF Onward
  <1>3. QED
    BY TypeCorrect, InitOpenInv, <1>1, <1>2, PTL DEF Spec

----------------------------------------------------------------------------
\* When the switch commits, nothing is pending: the RPCs that switchTo
\* disposes carry no call.
LEMMA CommitIsQuiet ==
    ASSUME IInv, SwitchCommits
    PROVE  Pending = {} /\ UNCHANGED call
  <1>1. updater = "fetched" /\ switching
    BY DEF IInv, Strengthening, UpdaterInv, SwitchCommits, Step
  <1>2. Pending \subseteq drain /\ Drained
    BY <1>1 DEF IInv, Strengthening, DrainInv, FreezeCoversPending
  <1>3. Pending = {}
    BY <1>2 DEF Drained, Pending
  <1>4. \A c \in Calls : call[c] # "pending"
    BY <1>3 DEF Pending
  <1>5. call' = [c \in Calls |-> call[c]]
    BY <1>4 DEF SwitchCommits
  <1>6. QED
    BY <1>3, <1>5 DEF IInv, TypeOK

\* Closing transports cuts only what they carry.
LEMMA CloseIsIntact ==
    ASSUME IInv, NEW T \in SUBSET Transports, Close(T)
    PROVE  Intact
  <1>1. ASSUME NEW c \in Calls, call[c] = "pending", call'[c] = "failed"
        PROVE  link[route[c]] # "closed" /\ link'[route[c]] = "closed"
    <2>1. route[c] \in Transports /\ link[route[c]] = "ready"
      BY <1>1 DEF IInv, Strengthening, CarriedInv
    <2>2. route[c] \in T
      BY <1>1 DEF Close, IInv, TypeOK
    <2>3. QED
      BY <2>1, <2>2 DEF Close, Live
  <1>2. ASSUME NEW s \in Sockets, socket[s] \in Transports, socket'[s] # socket[s]
        PROVE  link[socket[s]] # "closed" /\ link'[socket[s]] = "closed"
    <2>1. link[socket[s]] = "ready"
      BY <1>2 DEF IInv, Strengthening, CarriedInv
    <2>2. socket[s] \in T
      BY <1>2 DEF Close, IInv, TypeOK
    <2>3. QED
      BY <1>2, <2>1, <2>2 DEF Close, Live
  <1>3. QED
    BY <1>1, <1>2 DEF Intact

\* Every step that leaves links alone fails no running call and closes no
\* socket; together with CloseIsIntact this covers Next.
LEMMA StepIsIntact == ASSUME IInv, [Next]_vars PROVE Intact \/ UNCHANGED vars
  <1> USE DEF transportVars, switchVars, callVars, openVars
  <1>1. ASSUME NEW T \in SUBSET Transports, Close(T) PROVE Intact
    BY <1>1, CloseIsIntact
  <1>2. ASSUME Abort PROVE Intact
    BY <1>1, <1>2 DEF Abort
  <1>3. ASSUME NEW t \in Transports, CloseTransport(t) PROVE Intact
    <2>1. {t} \in SUBSET Transports
      OBVIOUS
    <2>2. Close({t}) \/ Abort
      BY <1>3 DEF CloseTransport
    <2>3. CASE Close({t})
      BY <2>1, <2>3, CloseIsIntact
    <2>4. QED
      BY <1>2, <2>2, <2>3
  <1>4. CASE SwitchFails \/ UpdateFails
    <2>1. {"updated"} \in SUBSET Transports
      BY DEF Transports
    <2>2. QED
      BY <1>1, <1>4, <2>1 DEF SwitchFails, UpdateFails
  <1>5. CASE SwitchCommits
    BY <1>5, CommitIsQuiet DEF SwitchCommits, Intact
  <1>6. ASSUME NEW c \in Calls, Invoke(c) \/ Thaw(c) PROVE Intact
    <2>1. call[c] # "pending" /\ \A d \in Calls \ {c} : call'[d] = call[d]
      BY <1>6 DEF Invoke, Thaw, Issue, IInv, TypeOK
    <2>2. UNCHANGED socket
      BY <1>6 DEF Invoke, Thaw
    <2>3. QED
      BY <2>1, <2>2 DEF Intact
  <1>7. ASSUME NEW c \in Calls, Answer(c) PROVE Intact
    BY <1>7 DEF Answer, Intact, IInv, TypeOK
  <1>8. ASSUME NEW c \in Calls, CallBreaks(c) PROVE Intact
    BY <1>3, <1>8 DEF CallBreaks
  <1>9. ASSUME NEW s \in Sockets, Upgrade(s) PROVE Intact
    <2>1. "idle" \notin Transports /\ UNCHANGED call
      BY <1>9 DEF Upgrade, Transports
    <2>2. \A r \in Sockets : socket'[r] # socket[r] => socket[r] = "idle"
      BY <1>9 DEF Upgrade, IInv, TypeOK
    <2>3. QED
      BY <2>1, <2>2 DEF Intact
  <1>10. CASE RollbackSettles \/ InstallEnds \/ Ready \/ ProbeAnswers \/ BackendFetched
    BY <1>10 DEF RollbackSettles, InstallEnds, Ready, ProbeAnswers,
       BackendFetched, Intact
  <1>11. ASSUME NEW t \in Transports, Watch(t) PROVE Intact
    BY <1>11 DEF Watch, Intact
  <1>12. ASSUME NEW t \in Transports, NEW o \in Opens, OpenArrives(o, t) PROVE Intact
    BY <1>12 DEF OpenArrives, Intact
  <1>13. ASSUME NEW w \in Watchers, WaitForOpenRequest(w) PROVE Intact
    BY <1>13 DEF WaitForOpenRequest, Intact
  <1>14. QED
    BY <1>2, <1>3, <1>4, <1>5, <1>6, <1>7, <1>8, <1>9, <1>10, <1>11, <1>12,
       <1>13 DEF Next

\* No switch, failed update or rollback cuts off a running call or an open
\* editor socket.
THEOREM NothingIsCut == Spec => NothingCut
  <1>1. IInv /\ [Next]_vars => [Intact]_vars
    BY StepIsIntact
  <1>2. QED
    BY <1>1, Invariance, PTL DEF Spec, NothingCut

----------------------------------------------------------------------------
\* The session implements SessionContract, step by step.
Lost == {t \in Transports : link[t] = "closed"}

\* The three values the contract tells apart, call by call.
LEMMA ContractStateValues ==
    ASSUME TypeOK, NEW c \in Calls
    PROVE  /\ call[c] = "frozen"  => ContractState[c] = "waiting"
           /\ call[c] = "pending" => ContractState[c] = "running"
           /\ call[c] \notin {"frozen", "pending"} => ContractState[c] = call[c]
  BY DEF ContractState, TypeOK, CallState

\* A step that leaves the calls alone leaves their contract state alone.
LEMMA ContractStateUnchanged ==
    ASSUME UNCHANGED call PROVE UNCHANGED ContractState
  BY DEF ContractState

\* A step that changes one call changes its contract state alone.
LEMMA ContractStateExcept ==
    ASSUME TypeOK, NEW c \in Calls, NEW v \in CallState,
           call' = [call EXCEPT ![c] = v]
    PROVE  ContractState' = [ContractState EXCEPT ![c] =
               CASE v = "frozen" -> "waiting" [] v = "pending" -> "running" [] OTHER -> v]
  BY DEF ContractState, TypeOK, CallState

\* Closing transports is losing carriers.
LEMMA CloseIsLose ==
    ASSUME IInv, NEW T \in SUBSET Transports, Close(T), aborted' \in {aborted, TRUE}
    PROVE  Contract!Lose({t \in T : Live(t)})
  <1> DEFINE K == {t \in T : Live(t)}
  <1>1. Lost' = Lost \cup K
    BY DEF Lost, Close, Live, IInv, TypeOK
  <1>2. ASSUME NEW c \in Calls
        PROVE  ContractState'[c] = IF ContractState[c] = "running" /\ route[c] \in K
                                   THEN "failed" ELSE ContractState[c]
    <2>1. call[c] = "pending" => route[c] \in Transports /\ link[route[c]] = "ready"
      BY DEF IInv, Strengthening, CarriedInv
    <2>2. call'[c] = IF call[c] = "pending" /\ route[c] \in K THEN "failed" ELSE call[c]
      BY <2>1 DEF Close, Live
    <2>3. ContractState[c] = "running" <=> call[c] = "pending"
      BY DEF ContractState, IInv, TypeOK, CallState
    <2>4. QED
      BY <2>2, <2>3 DEF ContractState
  <1>3. ContractState' = [c \in Calls |->
            IF ContractState[c] = "running" /\ route[c] \in K
            THEN "failed" ELSE ContractState[c]]
    BY <1>2 DEF ContractState
  <1>4. UNCHANGED route
    BY DEF Close
  <1>5. (~aborted)' \in {~aborted, FALSE}
    BY DEF IInv, TypeOK
  <1>6. QED
    BY <1>1, <1>3, <1>4, <1>5 DEF Contract!Lose, Lost

\* Every step of the session is a step of the contract, or a stutter.
LEMMA ContractStep ==
    ASSUME IInv, [Next]_vars
    PROVE  [Contract!Next]_(<<ContractState, route, Lost, ~aborted>>)
  <1> USE DEF transportVars, switchVars, callVars, openVars
  <1> DEFINE Goal == [Contract!Next]_(<<ContractState, route, Lost, ~aborted>>)
  <1>1. ASSUME \E K \in SUBSET Transports : Contract!Lose(K) PROVE Goal
    BY <1>1 DEF Contract!Next
  <1>2. ASSUME NEW T \in SUBSET Transports, Close(T), aborted' \in {aborted, TRUE}
        PROVE Goal
    <2>1. {t \in T : Live(t)} \in SUBSET Transports
      OBVIOUS
    <2>2. Contract!Lose({t \in T : Live(t)})
      BY <1>2, CloseIsLose
    <2>3. \E K \in SUBSET Transports : Contract!Lose(K)
      BY <2>1, <2>2 DEF Contract!Lose
    <2>4. QED
      BY <1>1, <2>3
  <1>3. ASSUME UNCHANGED <<aborted, link, call, route>> PROVE Goal
    BY <1>3, ContractStateUnchanged DEF Lost
  <1>4. CASE Abort
    BY <1>2, <1>4 DEF Abort
  <1>5. ASSUME NEW t \in Transports, CloseTransport(t) PROVE Goal
    <2>1. {t} \in SUBSET Transports
      OBVIOUS
    <2>2. (Close({t}) /\ aborted' \in {aborted, TRUE}) \/ Abort
      BY <1>5 DEF CloseTransport
    <2>3. CASE Close({t}) /\ aborted' \in {aborted, TRUE}
      BY <1>2, <2>1, <2>3
    <2>4. QED
      BY <1>4, <2>2, <2>3
  <1>6. CASE SwitchFails \/ UpdateFails
    <2>1. {"updated"} \in SUBSET Transports
      BY DEF Transports
    <2>2. Close({"updated"}) /\ aborted' \in {aborted, TRUE}
      BY <1>6 DEF SwitchFails, UpdateFails
    <2>3. QED
      BY <1>2, <2>1, <2>2
  <1>7. CASE SwitchCommits
    BY <1>3, <1>7, CommitIsQuiet DEF SwitchCommits
  <1>8. ASSUME NEW c \in Calls, Answer(c) PROVE Goal
    <2>1. ContractState[c] = "running"
      BY <1>8, ContractStateValues DEF Answer, IInv
    <2>2. ContractState' = [ContractState EXCEPT ![c] = "answered"]
      BY <1>8, ContractStateExcept DEF Answer, IInv, CallState
    <2>3. Contract!Answer(c)
      BY <1>8, <2>1, <2>2 DEF Answer, Contract!Answer
    <2>4. QED
      BY <2>3 DEF Contract!Next
  <1>9. ASSUME NEW c \in Calls, Invoke(c) \/ Thaw(c) PROVE Goal
    <2>1. ContractState[c] \in {"idle", "waiting"}
      BY <1>9, ContractStateValues DEF Invoke, Thaw, IInv
    <2>2. CASE call' = [call EXCEPT ![c] = "frozen"] /\ call[c] = "idle" /\ UNCHANGED route
      <3>1. ContractState[c] = "idle"
        BY <2>2, ContractStateValues DEF IInv
      <3>2. ContractState' = [ContractState EXCEPT ![c] = "waiting"]
        BY <2>2, ContractStateExcept DEF IInv, CallState
      <3>3. Contract!Hold(c)
        BY <1>9, <2>2, <3>1, <3>2 DEF Invoke, Thaw, Contract!Hold
      <3>4. QED
        BY <3>3 DEF Contract!Next
    <2>3. CASE /\ ~aborted
               /\ link[active] = "ready"
               /\ call' = [call EXCEPT ![c] = "pending"]
               /\ route' = [route EXCEPT ![c] = active]
      <3>1. ContractState' = [ContractState EXCEPT ![c] = "running"]
        BY <2>3, ContractStateExcept DEF IInv, CallState
      <3>2. active \in Transports
        BY DEF IInv, TypeOK
      <3>3. Contract!Begin(c, active)
        BY <1>9, <2>1, <2>3, <3>1, <3>2 DEF Invoke, Thaw, Contract!Begin
      <3>4. QED
        BY <3>2, <3>3 DEF Contract!Next
    <2>4. CASE aborted /\ call' = [call EXCEPT ![c] = "failed"] /\ UNCHANGED route
      <3>1. ContractState' = [ContractState EXCEPT ![c] = "failed"]
        BY <2>4, ContractStateExcept DEF IInv, CallState
      <3>2. Contract!Refuse(c)
        BY <1>9, <2>1, <2>4, <3>1 DEF Invoke, Thaw, Contract!Refuse
      <3>3. QED
        BY <3>2 DEF Contract!Next
    <2>5. aborted \/ link[active] = "ready"
      BY DEF IInv, Strengthening, ActiveUsable
    <2>6. QED
      BY <1>9, <2>2, <2>3, <2>4, <2>5 DEF Invoke, Thaw, Issue
  <1>10. ASSUME NEW c \in Calls, CallBreaks(c) PROVE Goal
    BY <1>5, <1>10 DEF CallBreaks
  <1>11. CASE InstallEnds \/ Ready
    <2>1. UNCHANGED <<aborted, call, route>>
      BY <1>11 DEF InstallEnds, Ready
    <2>2. UNCHANGED Lost
      BY <1>11 DEF InstallEnds, Ready, Step, Lost, IInv, TypeOK, Strengthening,
         UpdaterInv
    <2>3. QED
      BY <2>1, <2>2, ContractStateUnchanged
  <1>12. ASSUME NEW s \in Sockets, Upgrade(s) PROVE Goal
    BY <1>3, <1>12 DEF Upgrade
  <1>13. CASE RollbackSettles \/ ProbeAnswers \/ BackendFetched
    BY <1>3, <1>13 DEF RollbackSettles, ProbeAnswers, BackendFetched
  <1>14. ASSUME NEW t \in Transports, Watch(t) PROVE Goal
    BY <1>3, <1>14 DEF Watch
  <1>15. ASSUME NEW t \in Transports, NEW o \in Opens, OpenArrives(o, t) PROVE Goal
    BY <1>3, <1>15 DEF OpenArrives
  <1>16. ASSUME NEW w \in Watchers, WaitForOpenRequest(w) PROVE Goal
    BY <1>3, <1>16 DEF WaitForOpenRequest
  <1>17. CASE UNCHANGED vars
    BY <1>3, <1>17 DEF vars
  <1>18. QED
    BY <1>4, <1>5, <1>6, <1>7, <1>8, <1>9, <1>10, <1>11, <1>12, <1>13, <1>14,
       <1>15, <1>16, <1>17 DEF Next

\* The session over two transports, with its update, drain, switch and
\* rollback, implements the contract of one connection.
THEOREM SessionImplementsContract == Spec => ImplementsContract
  <1>1. Init => Contract!Init
    BY DEF Init, Contract!Init, ContractState, Transports
  <1>2. IInv /\ [Next]_vars => [Contract!Next]_Contract!contractVars
    BY ContractStep DEF Contract!contractVars, Lost
  <1>3. QED
    BY <1>1, <1>2, Invariance, PTL DEF Spec, ImplementsContract, Contract!Spec
=============================================================================
