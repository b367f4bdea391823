----------------------- MODULE RemoteConnectionProofs -----------------------
(***************************************************************************)
(* Proofs about PortForwards, for any number of workspaces and local       *)
(* ports: a workspace that asked for the port keeps it until it stops it,  *)
(* and ssh listens on no port that could not be cancelled any more.        *)
(*                                                                         *)
(* Proofs about RemoteConnection, for any number of calls, types and RPCs: *)
(* no call is stranded or given another's answer, and a call fails only    *)
(* with the connection.  What is proved of the ports by themselves holds   *)
(* there too.                                                              *)
(***************************************************************************)
EXTENDS RemoteConnection, TLAPS

----------------------------------------------------------------------------
(* The ports by themselves: Init, Next and Spec are those of PortForwards. *)

\* Only an entry is stopped, and what ssh is asked to cancel is open.
StoppingForward ==
    /\ stopping = "waiting" => forwarding = "running"
    /\ stopping = "running" => forwarding = "open"

\* While the connection is open, ssh listens for an open forward.
OpenListens == forwarding = "open" /\ ~closed => local \in listening

\* A forward that is awaited is not open yet; the port is held on an open
\* connection, and by owners of a forward that nobody has begun to cancel.
HeldOpenForward ==
    /\ asked # {} => forwarding = "running"
    /\ held # {} => ~closed /\ forwarding = "open" /\ stopping = "no" /\ held \subseteq owners

\* A forward that is being set up has no listener.
RunningSilent == forwarding = "running" => local \notin listening

PortInv ==
    /\ TypeOK /\ StoppingForward /\ OpenListens /\ HeldOpenForward
    /\ RunningSilent /\ NoneForgotten /\ AskedOwn

\* A connection starts without an entry (RemoteConnection).
THEOREM InitPorts == Init => PortInv
BY DEF Init, PortInv, TypeOK, StoppingForward, OpenListens, HeldOpenForward,
       RunningSilent, NoneForgotten, AskedOwn

\* Every call, and every end of an ssh command, keeps the invariant.
THEOREM NextPorts == PortInv /\ [Next]_vars => PortInv'
<1> SUFFICES ASSUME PortInv, [Next]_vars PROVE PortInv'
    OBVIOUS
<1> USE NoneAssumption
    DEF PortInv, TypeOK, StoppingForward, OpenListens, HeldOpenForward, RunningSilent,
        NoneForgotten, AskedOwn, entry, wishes
<1>1. ASSUME NEW o \in Owners, ForwardNew(o) PROVE PortInv'
    BY <1>1 DEF ForwardNew, Create
<1>2. ASSUME NEW o \in Owners, ForwardJoins(o) PROVE PortInv'
    BY <1>2 DEF ForwardJoins
<1>3. ASSUME NEW o \in Owners, ForwardWaits(o) PROVE PortInv'
    BY <1>3 DEF ForwardWaits
<1>4. ASSUME NEW o \in Owners, StopNothing(o) PROVE PortInv'
    BY <1>4 DEF StopNothing, StopsAsking
<1>5. ASSUME NEW o \in Owners, StopShared(o) PROVE PortInv'
    BY <1>5 DEF StopShared, StopsAsking
<1>6. ASSUME NEW o \in Owners, StopLast(o) PROVE PortInv'
    BY <1>6 DEF StopLast, StopsAsking
<1>7. ASSUME NEW o \in Owners, StopWaits(o) PROVE PortInv'
    BY <1>7 DEF StopWaits, StopsAsking
<1>8. CASE Opens
    BY <1>8 DEF Opens
<1>9. CASE Fails
    BY <1>9 DEF Fails, Delete, Dismiss
<1>10. CASE Cancelled
  <2>1. CASE (joiners = {} \/ closed) /\ Delete /\ asked' = {}
      BY <1>10, <2>1 DEF Cancelled, Delete
  <2>2. CASE joiners # {} /\ ~closed /\ Create(joiners) /\ asked' = asking
      BY <1>10, <2>2 DEF Cancelled, Create
  <2> QED
      BY <1>10, <2>1, <2>2 DEF Cancelled
<1>11. CASE CancelFails
    BY <1>11 DEF CancelFails, Dismiss
<1>12. CASE Close
    BY <1>12 DEF Close
<1>13. CASE UNCHANGED vars
    BY <1>13 DEF vars
<1> QED
    BY <1>1, <1>2, <1>3, <1>4, <1>5, <1>6, <1>7, <1>8, <1>9, <1>10, <1>11, <1>12,
       <1>13 DEF Next

\* In every behaviour the invariant holds.
THEOREM PortInvHolds == Spec => []PortInv
BY InitPorts, NextPorts, PTL DEF Spec

\* The variables keep their types, and an entry has owners.
THEOREM PortTypesCorrect == Spec => []TypeOK
<1>1. PortInv => TypeOK
    BY DEF PortInv
<1> QED
    BY <1>1, PortInvHolds, PTL

\* No workspace loses a port it asked for, or was given, to another one's stop,
\* and every port on which ssh listens can be cancelled.
THEOREM PortsAreKept == Spec => []PortsKept
<1>1. PortInv => WishesKept
    BY DEF PortInv, HeldOpenForward, OpenListens, HeldOpen, WishesKept
<1>2. PortInv => PortsKept
    BY <1>1 DEF PortInv, PortsKept
<1> QED
    BY <1>2, PortInvHolds, PTL

----------------------------------------------------------------------------
(* The calls.                                                              *)

\* A call that runs was given an RPC; one that has not begun has no request.
Begun ==
    \A c \in Calls : /\ call[c] = "running" => on[c] \in Rpcs
                     /\ call[c] = "idle" => id[c] = 0

\* The ids an RPC has given out are behind its counter and differ.
Numbered ==
    /\ \A c \in Calls : id[c] # 0 => on[c] \in Rpcs /\ id[c] < nextId[on[c]]
    /\ \A c, d \in Calls : id[c] # 0 /\ id[c] = id[d] /\ on[c] = on[d] => c = d

\* An answer names the RPC and the id of the call it is for, which keeps them
\* when it has ended.
Addressed == \A a \in answers : id[a.call] # 0 /\ a.rpc = on[a.call] /\ a.id = id[a.call]

CallInv ==
    /\ closed \in BOOLEAN
    /\ CallTypes /\ NoneStranded /\ OwnAnswers
    /\ Begun /\ Numbered /\ Addressed

----------------------------------------------------------------------------

\* No step of the ports closes the connection.
LEMMA PortStepOpen == PortStep => closed' = closed
BY DEF PortStep, ForwardNew, ForwardJoins, ForwardWaits, StopNothing, StopShared, StopLast,
       StopWaits, Opens, Fails, Cancelled, CancelFails

\* A connection starts without calls.
LEMMA InitCallInv == ConnectionInit => CallInv
<1> SUFFICES ASSUME ConnectionInit PROVE CallInv
    OBVIOUS
<1>1. CallTypes
    BY DEF ConnectionInit, CallTypes
<1>2. \A c \in Calls : call[c] = "idle" /\ id[c] = 0 /\ given[c] = None
    BY DEF ConnectionInit
<1>3. NoneStranded /\ OwnAnswers
    BY <1>2 DEF ConnectionInit, Init, NoneStranded, OwnAnswers, Running
<1>4. Begun /\ Numbered /\ Addressed
    BY <1>2 DEF ConnectionInit, Begun, Numbered, Addressed
<1> QED
    BY <1>1, <1>3, <1>4 DEF ConnectionInit, Init, CallInv

\* The close leaves neither an RPC in the map nor a running call.
LEMMA CloseCallInv == CallInv /\ CloseConnection => CallInv'
<1> SUFFICES ASSUME CallInv, CloseConnection PROVE CallInv'
    OBVIOUS
<1> USE RpcAssumption DEF CallInv
<1>1. closed' = TRUE /\ \A c \in Calls : call'[c] # "running"
    BY DEF CloseConnection, Close, CallTypes
<1>2. CallTypes'
    BY DEF CloseConnection, Close, EndRpcs, CallTypes
<1>3. \A t \in Types : rpc'[t] = None
    BY DEF CloseConnection, EndRpcs, CallTypes, NoneStranded
<1>4. NoneStranded'
    BY <1>1, <1>3 DEF NoneStranded, Running
<1>5. OwnAnswers'
    BY DEF CloseConnection, OwnAnswers, CallTypes
<1>6. Begun'
    BY <1>1 DEF CloseConnection, Begun, CallTypes
<1>7. Numbered' /\ Addressed'
    BY DEF CloseConnection, Numbered, Addressed
<1> QED
    BY <1>1, <1>2, <1>4, <1>5, <1>6, <1>7

\* RPCs that end alone carry no call, and leave the map.
LEMMA BreakCallInv == ASSUME NEW R \in SUBSET Rpcs PROVE CallInv /\ Break(R) => CallInv'
<1> SUFFICES ASSUME CallInv, Break(R) PROVE CallInv'
    OBVIOUS
<1> USE RpcAssumption DEF CallInv
<1>1. CASE CloseConnection
    BY <1>1, CloseCallInv
<1>2. ASSUME \A r \in R : Carried(r) = {}, EndRpcs(R),
             UNCHANGED <<vars, nextId, call, on, id, answers, given>>
      PROVE CallInv'
  <2>1. CallTypes' /\ closed' = closed
      BY <1>2 DEF EndRpcs, CallTypes, vars
  <2>2. \A c \in Running : on[c] \notin R
      BY <1>2 DEF Carried
  <2>3. NoneStranded'
      BY <1>2, <2>1, <2>2 DEF EndRpcs, NoneStranded, CallTypes, Running, Begun
  <2> QED
      BY <1>2, <2>1, <2>3 DEF OwnAnswers, Begun, Numbered, Addressed
<1> QED
    BY <1>1, <1>2 DEF Break

\* A call begins on an RPC that is in the map, made for it or there before.
LEMMA InvokeCallInv ==
    ASSUME NEW c \in Calls, NEW t \in Types PROVE CallInv /\ Invoke(c, t) => CallInv'
<1> SUFFICES ASSUME CallInv, Invoke(c, t) PROVE CallInv'
    OBVIOUS
<1> USE RpcAssumption DEF CallInv
<1>1. PICK r \in Rpcs :
        /\ \/ rpc[t] = r /\ UNCHANGED <<rpc, socket>>
           \/ /\ rpc[t] = None
              /\ socket[r] = "none"
              /\ rpc' = [rpc EXCEPT ![t] = r]
              /\ socket' = [socket EXCEPT ![r] = "connecting"]
        /\ on' = [on EXCEPT ![c] = r]
    BY DEF Invoke, Carry
<1>2. CallTypes' /\ closed' = closed /\ ~closed
    BY <1>1 DEF Invoke, CallTypes, vars
<1>3. \A d \in Calls : d # c => call'[d] = call[d] /\ on'[d] = on[d]
    BY <1>1 DEF Invoke, CallTypes
<1>4. on'[c] = r /\ rpc'[t] = r
    BY <1>1 DEF CallTypes
<1>5. \A u \in Types : u # t => rpc'[u] = rpc[u] /\ rpc[u] # r
    BY <1>1 DEF CallTypes, NoneStranded
<1>6. NoneStranded'
  <2>1. \A u \in Types : rpc'[u] # None => socket'[rpc'[u]] \in {"connecting", "open"}
      BY <1>1, <1>4, <1>5 DEF CallTypes, NoneStranded
  <2>2. \A u, v \in Types : rpc'[u] = rpc'[v] /\ rpc'[u] # None => u = v
      BY <1>4, <1>5 DEF NoneStranded
  <2>3. \A d \in Calls : call'[d] = "running" => \E u \in Types : on'[d] = rpc'[u]
      BY <1>1, <1>3, <1>4, <1>5 DEF CallTypes, NoneStranded, Running, Begun
  <2> QED
      BY <1>2, <2>1, <2>2, <2>3 DEF NoneStranded, Running
<1>7. OwnAnswers' /\ Begun'
    BY <1>3, <1>4 DEF Invoke, OwnAnswers, Begun, CallTypes
<1>8. Numbered' /\ Addressed'
    BY <1>3 DEF Invoke, Numbered, Addressed, Begun, CallTypes
<1> QED
    BY <1>2, <1>6, <1>7, <1>8

\* A request is sent under an id that its RPC has not used.
LEMMA SendCallInv == ASSUME NEW c \in Calls PROVE CallInv /\ Send(c) => CallInv'
<1> SUFFICES ASSUME CallInv, Send(c) PROVE CallInv'
    OBVIOUS
<1> USE RpcAssumption DEF CallInv
<1>1. PICK r \in Rpcs :
        /\ call[c] = "running" /\ id[c] = 0
        /\ on[c] = r /\ socket[r] = "open"
        /\ id' = [id EXCEPT ![c] = nextId[r]]
        /\ nextId' = [nextId EXCEPT ![r] = @ + 1]
        /\ UNCHANGED <<vars, rpc, socket, call, on, answers, given>>
    BY DEF Send
<1>2. CallTypes' /\ closed' = closed
    BY <1>1 DEF CallTypes, vars
<1>3. NoneStranded' /\ OwnAnswers' /\ Begun'
    BY <1>1, <1>2 DEF NoneStranded, Running, OwnAnswers, Begun, CallTypes
<1>4. Numbered'
    BY <1>1 DEF Numbered, CallTypes
<1>5. Addressed'
    BY <1>1 DEF Addressed, CallTypes
<1> QED
    BY <1>2, <1>3, <1>4, <1>5

\* An answer settles the call it was sent for, or none.
LEMMA AnswerCallInv == ASSUME NEW a \in answers PROVE CallInv /\ HandleAnswer(a) => CallInv'
<1> SUFFICES ASSUME CallInv, HandleAnswer(a) PROVE CallInv'
    OBVIOUS
<1> USE RpcAssumption DEF CallInv
<1>1. closed' = closed /\ UNCHANGED <<rpc, socket, nextId, on, id>> /\ answers' \subseteq answers
    BY DEF HandleAnswer, vars
<1>2. CASE UNCHANGED <<call, given>>
  <2>1. CallTypes' /\ Addressed'
      BY <1>1, <1>2 DEF CallTypes, Addressed
  <2> QED
      BY <1>1, <1>2, <2>1 DEF NoneStranded, Running, OwnAnswers, Begun, Numbered
<1>3. ASSUME NEW c \in Sent,
             on[c] = a.rpc, id[c] = a.id,
             call' = [call EXCEPT ![c] = "answered"],
             given' = [given EXCEPT ![c] = a.call]
      PROVE CallInv'
  <2>1. c \in Calls /\ call[c] = "running" /\ id[c] # 0
      BY DEF Sent, Running
  <2>2. a.call = c
      BY <1>3, <2>1 DEF Addressed, Numbered, CallTypes
  <2>3. CallTypes' /\ Addressed'
      BY <1>1, <1>3, <2>1 DEF CallTypes, Addressed
  <2>4. OwnAnswers' /\ Begun'
      BY <1>1, <1>3, <2>1, <2>2 DEF OwnAnswers, Begun, CallTypes
  <2>5. NoneStranded'
      BY <1>1, <1>3, <2>1 DEF NoneStranded, Running, CallTypes
  <2> QED
      BY <1>1, <2>3, <2>4, <2>5 DEF Numbered
<1> QED
    BY <1>2, <1>3 DEF HandleAnswer

\* Every step keeps the invariant.
THEOREM NextCallInv == CallInv /\ [ConnectionNext]_connectionVars => CallInv'
<1> SUFFICES ASSUME CallInv, [ConnectionNext]_connectionVars PROVE CallInv'
    OBVIOUS
<1> USE RpcAssumption
<1>1. CASE closed' = closed /\ UNCHANGED rpcVars
    BY <1>1 DEF CallInv, CallTypes, NoneStranded, OwnAnswers, Begun, Numbered, Addressed,
                Running, rpcVars
<1>2. CASE PortStep /\ UNCHANGED rpcVars
    BY <1>1, <1>2, PortStepOpen
<1>3. CASE CloseConnection
    BY <1>3, CloseCallInv
<1>4. CASE RpcStep
  <2>1. ASSUME NEW c \in Calls, NEW t \in Types, Invoke(c, t) PROVE CallInv'
      BY <2>1, InvokeCallInv
  <2>2. ASSUME NEW c \in Calls, InvokeRefused(c) PROVE CallInv'
      BY <2>2 DEF InvokeRefused, CallInv, CallTypes, NoneStranded, OwnAnswers, Begun,
                  Numbered, Addressed, Running, vars
  <2>3. ASSUME NEW c \in Calls, Send(c) PROVE CallInv'
      BY <2>3, SendCallInv
  <2>4. ASSUME NEW c \in Calls, BackendAnswers(c) PROVE CallInv'
    <3>1. c \in Running /\ id[c] # 0 /\ on[c] \in Rpcs
        BY <2>4 DEF BackendAnswers, Sent, Running, CallInv, Begun
    <3>2. CallTypes' /\ Addressed'
        BY <2>4, <3>1 DEF BackendAnswers, CallInv, CallTypes, Addressed, Running
    <3> QED
        BY <2>4, <3>2 DEF BackendAnswers, CallInv, NoneStranded, OwnAnswers, Begun,
                          Numbered, Running, vars
  <2>5. ASSUME NEW c \in Calls, TimesOut(c) PROVE CallInv'
      BY <2>5, CloseCallInv DEF TimesOut
  <2>6. ASSUME NEW r \in Rpcs, SocketOpens(r) PROVE CallInv'
    <3>1. CallTypes'
        BY <2>6 DEF SocketOpens, CallInv, CallTypes
    <3>2. NoneStranded'
        BY <2>6 DEF SocketOpens, CallInv, CallTypes, NoneStranded, Running, vars
    <3> QED
        BY <2>6, <3>1, <3>2 DEF SocketOpens, CallInv, OwnAnswers, Begun, Numbered,
                                Addressed, vars
  <2>7. ASSUME NEW r \in Rpcs, SocketEnds(r) PROVE CallInv'
      BY <2>7, BreakCallInv, {r} \in SUBSET Rpcs DEF SocketEnds
  <2>8. ASSUME NEW a \in answers, HandleAnswer(a) PROVE CallInv'
      BY <2>8, AnswerCallInv
  <2>9. CASE DisposeBackendRpcs
    <3> DEFINE live == {r \in Rpcs : socket[r] \in {"connecting", "open"}}
    <3>1. live \in SUBSET Rpcs /\ Break(live)
        BY <2>9 DEF DisposeBackendRpcs
    <3> HIDE DEF live
    <3> QED
        BY <3>1, BreakCallInv
  <2> QED
      BY <1>4, <2>1, <2>2, <2>3, <2>4, <2>5, <2>6, <2>7, <2>8, <2>9 DEF RpcStep
<1>5. CASE UNCHANGED connectionVars
    BY <1>1, <1>5 DEF connectionVars, vars
<1> QED
    BY <1>2, <1>3, <1>4, <1>5 DEF ConnectionNext

\* Calls share RPCs, RPCs come and go under the calls, and no call is stranded
\* or given the answer of another (WorkspaceBackendRpc, invokeBackend).
THEOREM CallsAreSound == ConnectionSpec => []CallsSound
<1>1. CallInv => CallsSound
    BY DEF CallInv, CallsSound
<1> QED
    BY <1>1, InitCallInv, NextCallInv, PTL DEF ConnectionSpec

----------------------------------------------------------------------------
(* What a step does to the calls and to the ports.                         *)

\* The steps of the RPCs leave the ports alone, but for the close.
LEMMA RpcStepPorts == RpcStep => UNCHANGED vars \/ CloseConnection
BY DEF RpcStep, Invoke, InvokeRefused, Send, BackendAnswers, TimesOut, SocketOpens, SocketEnds,
       HandleAnswer, DisposeBackendRpcs, Break

\* The ports of a connection behave as PortForwards says.
THEOREM PortsCompose == ConnectionSpec => Spec
<1>1. ConnectionInit => Init
    BY DEF ConnectionInit
<1>2. [ConnectionNext]_connectionVars => [Next]_vars
  <2>1. PortStep => Next
      BY DEF PortStep, Next
  <2>2. CloseConnection => Next
      BY DEF CloseConnection, Next
  <2> QED
      BY <2>1, <2>2, RpcStepPorts DEF ConnectionNext, connectionVars
<1> QED
    BY <1>1, <1>2, PTL DEF ConnectionSpec, Spec

\* The ports of a connection keep what is proved of ports by themselves: no
\* workspace loses a port it asked for, and every listener can be cancelled.
THEOREM ConnectionKeepsPorts == ConnectionSpec => []PortsKept
BY PortsCompose, PortsAreKept, PTL

\* A call is answered, or fails in the step in which the connection closes, and
\* none begins afterwards (invokeBackend, close).
THEOREM CallsImplementContract == ConnectionSpec => Contract!Spec
<1>1. ConnectionInit => Contract!Init
    BY DEF ConnectionInit, Init, Contract!Init
<1>2. CallInv /\ [ConnectionNext]_connectionVars => [Contract!Next]_(Contract!vars)
  <2> SUFFICES ASSUME CallInv, [ConnectionNext]_connectionVars
               PROVE  [Contract!Next]_(Contract!vars)
      OBVIOUS
  <2>1. CASE closed' = closed /\ call' = call
      BY <2>1 DEF Contract!vars
  <2>2. CASE CloseConnection
    <3>1. Contract!Close
        BY <2>2 DEF CloseConnection, Close, Contract!Close
    <3> QED
        BY <3>1 DEF Contract!Next
  <2>3. CASE PortStep /\ UNCHANGED rpcVars
      BY <2>1, <2>3, PortStepOpen DEF rpcVars
  <2>4. CASE RpcStep
    <3>1. ASSUME NEW c \in Calls, NEW t \in Types, Invoke(c, t)
          PROVE  [Contract!Next]_(Contract!vars)
      <4>1. Contract!Begin(c)
          BY <3>1 DEF Invoke, Contract!Begin, vars
      <4> QED
          BY <4>1 DEF Contract!Next
    <3>2. ASSUME NEW c \in Calls, InvokeRefused(c) PROVE [Contract!Next]_(Contract!vars)
      <4>1. Contract!Refuse(c)
          BY <3>2 DEF InvokeRefused, Contract!Refuse, vars
      <4> QED
          BY <4>1 DEF Contract!Next
    <3>3. ASSUME NEW a \in answers, HandleAnswer(a) PROVE [Contract!Next]_(Contract!vars)
      <4>1. CASE call' = call
          BY <3>3, <4>1, <2>1 DEF HandleAnswer, vars
      <4>2. ASSUME NEW c \in Sent, call' = [call EXCEPT ![c] = "answered"]
            PROVE  Contract!Answer(c) /\ c \in Calls
        <5>1. ~closed
            BY RpcAssumption DEF CallInv, NoneStranded, Begun, Sent, Running
        <5> QED
            BY <3>3, <4>2, <5>1 DEF HandleAnswer, Contract!Answer, Sent, Running, vars
      <4> QED
          BY <3>3, <4>1, <4>2 DEF HandleAnswer, Contract!Next
    <3>4. ASSUME NEW c \in Calls, Send(c) \/ BackendAnswers(c) \/ TimesOut(c)
          PROVE  [Contract!Next]_(Contract!vars)
        BY <3>4, <2>1, <2>2 DEF Send, BackendAnswers, TimesOut, vars
    <3>5. ASSUME NEW r \in Rpcs, SocketOpens(r) \/ SocketEnds(r)
          PROVE  [Contract!Next]_(Contract!vars)
        BY <3>5, <2>1, <2>2 DEF SocketOpens, SocketEnds, Break, vars
    <3>6. CASE DisposeBackendRpcs
        BY <3>6, <2>1, <2>2 DEF DisposeBackendRpcs, Break, vars
    <3> QED
        BY <2>4, <3>1, <3>2, <3>3, <3>4, <3>5, <3>6 DEF RpcStep
  <2>5. CASE UNCHANGED connectionVars
      BY <2>1, <2>5 DEF connectionVars, vars, rpcVars
  <2> QED
      BY <2>2, <2>3, <2>4, <2>5 DEF ConnectionNext
<1> QED
    BY <1>1, <1>2, InitCallInv, NextCallInv, PTL DEF ConnectionSpec, Contract!Spec
=============================================================================
