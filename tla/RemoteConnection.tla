-------------------------- MODULE RemoteConnection --------------------------
(***************************************************************************)
(* A ready RemoteConnection of the helper: the forwarded ports of          *)
(* PortForwards and the calls of the workspace backend, which end together *)
(* when the connection closes.  Calls of one type share a WebSocket RPC,   *)
(* that is made by the first and dropped when it ends.                     *)
(*                                                                         *)
(* A step is one event of the helper: a call, the end of an ssh command,   *)
(* an event of a WebSocket, a timer, or the answer whose text has been     *)
(* read: binary answers are read with an await, so that they come in any   *)
(* order and also after their WebSocket has closed.  What the promises of  *)
(* an event set off belongs to its step.  The contents of calls and        *)
(* answers are left out; a result and an error of the application are both *)
(* an answer.                                                              *)
(*                                                                         *)
(* An operator with a suffix in lower case, as EndRpcs_kept, is a wrong    *)
(* variant of the definition below it, and no part of ConnectionSpec.      *)
(***************************************************************************)
EXTENDS PortForwards, Naturals

CONSTANTS Calls,
          Types,        \* the processes of the backend that have a WebSocket
          Rpcs          \* names for the RPCs that are made

ASSUME RpcAssumption == None \notin Rpcs /\ None \notin Calls

VARIABLES
    rpc,        \* backendRpcs: the RPC of a type, or None
    socket,     \* the WebSocket of an RPC, as its handlers have seen it
    nextId,     \* the id of the next request of an RPC
    call,       \* the promise of a call
    on,         \* the RPC that carries a call
    id,         \* the id of its request, or 0 before it is sent
    answers,    \* the answers on their way or being read
    given       \* history: the call whose answer a call was given

rpcVars == <<rpc, socket, nextId, call, on, id, answers, given>>
connectionVars == <<vars, rpcVars>>

Running == {c \in Calls : call[c] = "running"}
Sent == {c \in Running : id[c] # 0}
Carried(r) == {c \in Running : on[c] = r}

ConnectionInit ==
    /\ Init
    /\ rpc = [t \in Types |-> None]
    /\ socket = [r \in Rpcs |-> "none"]
    /\ nextId = [r \in Rpcs |-> 1]
    /\ call = [c \in Calls |-> "idle"]
    /\ on = [c \in Calls |-> None]
    /\ id = [c \in Calls |-> 0]
    /\ answers = {}
    /\ given = [c \in Calls |-> None]

----------------------------------------------------------------------------
(* The end of RPCs, and of the connection.                                 *)

EndRpcs_kept(R) ==
    /\ socket' = [r \in Rpcs |-> IF r \in R THEN "closed" ELSE socket[r]]
    /\ UNCHANGED rpc

\* close of a WorkspaceBackendRpc for each of R; onClose takes it out of the
\* map if it is still there.
EndRpcs(R) ==
    /\ socket' = [r \in Rpcs |-> IF r \in R THEN "closed" ELSE socket[r]]
    /\ rpc' = [t \in Types |-> IF rpc[t] \in R THEN None ELSE rpc[t]]

\* RemoteConnection.close: the ports go with the master, every RPC is
\* disposed, which rejects what it carries.
CloseConnection ==
    /\ Close
    /\ EndRpcs({r \in Rpcs : socket[r] # "none"})
    /\ call' = [c \in Calls |-> IF call[c] = "running" THEN "failed" ELSE call[c]]
    /\ UNCHANGED <<nextId, on, id, answers, given>>

\* An RPC that carries calls does not end alone: invokeBackend closes the
\* connection when one of them is rejected.
Break(R) ==
    \/ /\ \A r \in R : Carried(r) = {}
       /\ EndRpcs(R)
       /\ UNCHANGED <<vars, nextId, call, on, id, answers, given>>
    \/ /\ \E r \in R : Carried(r) # {}
       /\ CloseConnection

----------------------------------------------------------------------------
(* invokeBackend.                                                          *)

\* The RPC of the type, or a new one.
Carry(c, t) ==
    \E r \in Rpcs :
       /\ \/ rpc[t] = r /\ UNCHANGED <<rpc, socket>>
          \/ /\ rpc[t] = None
             /\ socket[r] = "none"
             /\ rpc' = [rpc EXCEPT ![t] = r]
             /\ socket' = [socket EXCEPT ![r] = "connecting"]
       /\ on' = [on EXCEPT ![c] = r]

\* The call waits for the handshake of its RPC.
Invoke(c, t) ==
    /\ ~closed
    /\ call[c] = "idle"
    /\ call' = [call EXCEPT ![c] = "running"]
    /\ Carry(c, t)
    /\ UNCHANGED <<vars, nextId, id, answers, given>>

\* getWorkspaceBackend throws the error the connection closed with.
InvokeRefused(c) ==
    /\ closed
    /\ call[c] = "idle"
    /\ call' = [call EXCEPT ![c] = "failed"]
    /\ UNCHANGED <<vars, rpc, socket, nextId, on, id, answers, given>>

\* onopen.
SocketOpens(r) ==
    /\ socket[r] = "connecting"
    /\ socket' = [socket EXCEPT ![r] = "open"]
    /\ UNCHANGED <<vars, rpc, nextId, call, on, id, answers, given>>

\* After the await of ready, the request is sent under an id of its own.
Send(c) ==
    \E r \in Rpcs :
       /\ call[c] = "running" /\ id[c] = 0
       /\ on[c] = r /\ socket[r] = "open"
       /\ id' = [id EXCEPT ![c] = nextId[r]]
       /\ nextId' = [nextId EXCEPT ![r] = @ + 1]
       /\ UNCHANGED <<vars, rpc, socket, call, on, answers, given>>

\* The backend answers a request once, whenever it has come to it.
BackendAnswers(c) ==
    /\ c \in Sent
    /\ \A a \in answers : a.call # c
    /\ answers' = answers \cup {[rpc |-> on[c], id |-> id[c], call |-> c]}
    /\ UNCHANGED <<vars, rpc, socket, nextId, call, on, id, given>>

\* handleMessage, once the text has been read: the request it answers is
\* settled, and an answer to none that is pending is dropped.
HandleAnswer(a) ==
    /\ answers' = answers \ {a}
    /\ \/ \E c \in Sent :
             /\ on[c] = a.rpc /\ id[c] = a.id
             /\ call' = [call EXCEPT ![c] = "answered"]
             /\ given' = [given EXCEPT ![c] = a.call]
       \/ /\ \A c \in Sent : ~(on[c] = a.rpc /\ id[c] = a.id)
          /\ UNCHANGED <<call, given>>
    /\ UNCHANGED <<vars, rpc, socket, nextId, on, id>>

TimesOut_alone(c) ==
    /\ c \in Sent
    /\ call' = [call EXCEPT ![c] = "failed"]
    /\ UNCHANGED <<vars, rpc, socket, nextId, on, id, answers, given>>

\* The two minutes of a request are over: invokeBackend gives up the RPC and
\* the connection, not only the call.
TimesOut(c) ==
    /\ c \in Sent
    /\ CloseConnection

\* The WebSocket closes or fails, its handshake takes more than ten seconds,
\* or its RPC has read something that is no answer.
SocketEnds(r) ==
    /\ socket[r] \in {"connecting", "open"}
    /\ Break({r})

\* disposeBackendRpcs, when the session has switched to another connection.
DisposeBackendRpcs ==
    LET live == {r \in Rpcs : socket[r] \in {"connecting", "open"}}
    IN live # {} /\ Break(live)

----------------------------------------------------------------------------
\* A step of the ports.
PortStep ==
    \/ \E o \in Owners :
          \/ ForwardNew(o) \/ ForwardJoins(o) \/ ForwardWaits(o)
          \/ StopNothing(o) \/ StopShared(o) \/ StopLast(o) \/ StopWaits(o)
    \/ Opens \/ Fails \/ Cancelled \/ CancelFails

RpcStep ==
    \/ \E c \in Calls :
          \/ \E t \in Types : Invoke(c, t)
          \/ InvokeRefused(c) \/ Send(c) \/ BackendAnswers(c) \/ TimesOut(c)
    \/ \E r \in Rpcs : SocketOpens(r) \/ SocketEnds(r)
    \/ \E a \in answers : HandleAnswer(a)
    \/ DisposeBackendRpcs

\* The ssh child exits, or the setup's signal aborts: CloseConnection.
ConnectionNext ==
    \/ PortStep /\ UNCHANGED rpcVars
    \/ RpcStep
    \/ CloseConnection

\* The handshake and every request have a timer, and promise reactions run;
\* nothing is assumed of the backend, of ssh or of the ports.
ConnectionFairness ==
    /\ \A r \in Rpcs : WF_connectionVars(socket[r] = "connecting"
                                         /\ (SocketOpens(r) \/ SocketEnds(r)))
    /\ \A c \in Calls : WF_connectionVars(Send(c)) /\ WF_connectionVars(TimesOut(c))

ConnectionSpec == ConnectionInit /\ [][ConnectionNext]_connectionVars
FairConnection == ConnectionSpec /\ ConnectionFairness

----------------------------------------------------------------------------
(* Properties.                                                             *)

CallTypes ==
    /\ rpc \in [Types -> Rpcs \cup {None}]
    /\ socket \in [Rpcs -> {"none", "connecting", "open", "closed"}]
    /\ nextId \in [Rpcs -> Nat \ {0}]
    /\ call \in [Calls -> {"idle", "running", "answered", "failed"}]
    /\ on \in [Calls -> Rpcs \cup {None}]
    /\ id \in [Calls -> Nat]
    /\ answers \subseteq [rpc : Rpcs, id : Nat, call : Calls]
    /\ given \in [Calls -> Calls \cup {None}]

\* What carries a call is in the map and has not ended, so that the end of it
\* and of the connection reach the call; two types do not share it.
NoneStranded ==
    /\ \A t \in Types : rpc[t] # None => socket[rpc[t]] \in {"connecting", "open"}
    /\ \A t, u \in Types : rpc[t] = rpc[u] /\ rpc[t] # None => t = u
    /\ \A c \in Running : \E t \in Types : on[c] = rpc[t]
    /\ closed => \A t \in Types : rpc[t] = None

\* A call is answered with the answer to its own request, also when answers
\* overtake each other, ids start again in a new RPC, and answers are read
\* after their RPC has ended.
OwnAnswers ==
    \A c \in Calls : given[c] = IF call[c] = "answered" THEN c ELSE None

\* Calls share RPCs, RPCs come and go under the calls, and no call is stranded
\* or given the answer of another (WorkspaceBackendRpc, invokeBackend).
CallsSound == CallTypes /\ NoneStranded /\ OwnAnswers

Contract == INSTANCE BackendContract

\* The connection keeps what ConnectionSession relies on: a call is answered or
\* fails with the connection, and always ends (WorkspaceBackendRpc,
\* invokeBackend, close).
ImplementsCalls == Contract!Spec /\ Contract!CallsSettle
=============================================================================
