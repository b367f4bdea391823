------------------------ MODULE GatewayAccessProofs ------------------------
(***************************************************************************)
(* Proofs about GatewayAccess, for any number of browsers, credentials and *)
(* limits: its types, that a credential is good for one session, and that  *)
(* a gateway whose owner was denied access has none.  And about            *)
(* CloudflareTunnel, for any number of gateways and enrollments: who owns  *)
(* the files of a tunnel.                                                  *)
(***************************************************************************)
EXTENDS GatewayAccess, CloudflareTunnel, TLAPS

\* The credential of a session can not be redeemed again: its grant is remembered
\* or has expired, its pairing token was replaced or cleared.
Spent ==
    \A s \in Sessions : by[s] # None =>
        IF managed THEN by[s] \in used \cup expired
                   ELSE by[s] \in issued /\ by[s] # link

\* A link is one of the tokens issued, and never that of a managed gateway.
LinkIssued == link # None => ~managed /\ link \in issued

\* A denial blocks new sessions for as long as it lasts.
DenialBlocks ==
    managed /\ denied /\ closing = "open" => ~available /\ Known = {}

IInv == TypeOK /\ Spent /\ LinkIssued /\ OneSessionPerCredential /\ DenialBlocks

\* The initial states satisfy the inductive invariant (createRemoteWebGateway).
THEOREM InitIInv == Init => IInv
<1> SUFFICES ASSUME Init PROVE IInv
    OBVIOUS
<1>1. TypeOK
    BY DEF Init, TypeOK
<1>2. Spent /\ OneSessionPerCredential
    BY DEF Init, Spent, OneSessionPerCredential
<1>3. LinkIssued /\ DenialBlocks
    BY DEF Init, LinkIssued, DenialBlocks
<1> QED
    BY <1>1, <1>2, <1>3 DEF IInv

\* Revoking sessions leaves what they were given for alone (revokeSession).
LEMMA RevokeKeeps ==
    ASSUME IInv, NEW S \in SUBSET Known, Revoke(S), by' = by
    PROVE  /\ session' \in [Sessions -> {"none", "live", "expired", "gone"}]
           /\ \A s \in Sessions : by'[s] = None <=> session'[s] = "none"
           /\ Known' = Known \ S
BY DEF IInv, TypeOK, Revoke, Known

\* A session that is created in an unused place for a credential that no other
\* was given for keeps the types and the uniqueness (/auth/pair, /auth/account).
LEMMA NewSessionKeeps ==
    ASSUME IInv, NEW s \in Sessions, NEW k \in Creds, NewSession(s, k),
           \A r \in Sessions : by[r] # k
    PROVE  /\ session' \in [Sessions -> {"none", "live", "expired", "gone"}]
           /\ by' \in [Sessions -> Creds \cup {None}]
           /\ \A r \in Sessions : by'[r] = None <=> session'[r] = "none"
           /\ OneSessionPerCredential'
           /\ \A r \in Sessions : by'[r] = IF r = s THEN k ELSE by[r]
BY NoneAssumption DEF IInv, TypeOK, NewSession, OneSessionPerCredential

\* Every step of the gateway keeps the inductive invariant.
THEOREM NextIInv == IInv /\ [Next]_vars => IInv'
<1> SUFFICES ASSUME IInv, [Next]_vars PROVE IInv'
    OBVIOUS
<1> USE DEF IInv
<1>1. ASSUME NEW s \in Sessions, Pair(s) PROVE IInv'
  <2>1. /\ link \in Creds /\ link \in issued /\ ~managed /\ link' = None
        /\ NewSession(s, link)
        /\ UNCHANGED <<managed, access, check, closing, issued, used, expired>>
      BY <1>1 DEF Pair, TypeOK, LinkIssued
  <2>2. \A r \in Sessions : by[r] # link
      BY <2>1, NoneAssumption DEF Spent
  <2>3. /\ session' \in [Sessions -> {"none", "live", "expired", "gone"}]
        /\ by' \in [Sessions -> Creds \cup {None}]
        /\ \A r \in Sessions : by'[r] = None <=> session'[r] = "none"
        /\ OneSessionPerCredential'
        /\ \A r \in Sessions : by'[r] = IF r = s THEN link ELSE by[r]
      BY <2>1, <2>2, NewSessionKeeps
  <2>4. TypeOK' /\ LinkIssued' /\ DenialBlocks'
      BY <2>1, <2>3 DEF TypeOK, LinkIssued, DenialBlocks, check
  <2>5. Spent'
      BY <2>1, <2>3, NoneAssumption DEF Spent
  <2> QED
      BY <2>3, <2>4, <2>5
<1>2. ASSUME NEW s \in Sessions, NEW k \in Creds, Account(s, k) PROVE IInv'
  <2>1. /\ managed /\ available /\ k \notin expired \cup used
        /\ used' = (used \ expired) \cup {k} /\ NewSession(s, k)
        /\ UNCHANGED <<managed, access, check, closing, link, issued, expired>>
      BY <1>2 DEF Account, AuthorizeAccount
  <2>2. \A r \in Sessions : by[r] # k
      BY <2>1, NoneAssumption DEF Spent
  <2>3. /\ session' \in [Sessions -> {"none", "live", "expired", "gone"}]
        /\ by' \in [Sessions -> Creds \cup {None}]
        /\ \A r \in Sessions : by'[r] = None <=> session'[r] = "none"
        /\ OneSessionPerCredential'
        /\ \A r \in Sessions : by'[r] = IF r = s THEN k ELSE by[r]
      BY <2>1, <2>2, NewSessionKeeps
  <2>4. TypeOK' /\ LinkIssued'
      BY <2>1, <2>3 DEF TypeOK, LinkIssued, check
  <2>5. Spent'
      BY <2>1, <2>3 DEF Spent
  <2>6. DenialBlocks'
      BY <2>1 DEF DenialBlocks, check
  <2> QED
      BY <2>3, <2>4, <2>5, <2>6
<1>3. ASSUME NEW k \in Creds, PairWeb(k) \/ GrantExpires(k) \/ AccountRefused(k)
      PROVE  IInv'
  <2>1. TypeOK' /\ OneSessionPerCredential'
      BY <1>3 DEF PairWeb, GrantExpires, AccountRefused, AuthorizeAccount, TypeOK,
                  OneSessionPerCredential, check
  <2>2. Spent'
      BY <1>3 DEF PairWeb, GrantExpires, AccountRefused, AuthorizeAccount, Spent
  <2>3. LinkIssued' /\ DenialBlocks'
      BY <1>3 DEF PairWeb, GrantExpires, AccountRefused, AuthorizeAccount, LinkIssued,
                  DenialBlocks, Known, check
  <2> QED
      BY <2>1, <2>2, <2>3
<1>4. CASE GrantRefused \/ LinkExpires
  <2>1. TypeOK' /\ OneSessionPerCredential'
      BY <1>4 DEF GrantRefused, LinkExpires, TypeOK, OneSessionPerCredential, check
  <2>2. Spent' /\ LinkIssued'
      BY <1>4, NoneAssumption DEF GrantRefused, LinkExpires, Spent, LinkIssued
  <2>3. DenialBlocks'
      BY <1>4 DEF GrantRefused, LinkExpires, DenialBlocks, Known, check
  <2> QED
      BY <2>1, <2>2, <2>3
<1>5. ASSUME NEW s \in Sessions, Disconnect(s) \/ Expire(s) PROVE IInv'
  <2>1. /\ Revoke({s}) /\ s \in Known
        /\ UNCHANGED <<managed, access, check, closing, creds, by>>
      BY <1>5 DEF Disconnect, Expire, Known
  <2>2. /\ session' \in [Sessions -> {"none", "live", "expired", "gone"}]
        /\ \A r \in Sessions : by'[r] = None <=> session'[r] = "none"
        /\ Known' = Known \ {s}
      BY <2>1, RevokeKeeps
  <2>3. TypeOK' /\ OneSessionPerCredential'
      BY <2>1, <2>2 DEF TypeOK, OneSessionPerCredential, check, creds
  <2>4. Spent' /\ LinkIssued' /\ DenialBlocks'
      BY <2>1, <2>2 DEF Spent, LinkIssued, DenialBlocks, check, creds
  <2> QED
      BY <2>3, <2>4
<1>6. ASSUME NEW s \in Sessions, SessionExpires(s) PROVE IInv'
  <2>1. TypeOK' /\ OneSessionPerCredential'
      BY <1>6 DEF SessionExpires, TypeOK, OneSessionPerCredential, check, creds
  <2>2. Spent' /\ LinkIssued' /\ DenialBlocks'
      BY <1>6 DEF SessionExpires, Spent, LinkIssued, DenialBlocks, check, creds
  <2> QED
      BY <2>1, <2>2
<1>7. CASE RevokeWeb \/ CloseGateway
  <2>1. /\ Revoke(Known) /\ link' = None /\ closing' \in {closing, "revoked"}
        /\ UNCHANGED <<managed, access, check, issued, used, expired, by>>
      BY <1>7 DEF RevokeWeb, CloseGateway
  <2>2. /\ session' \in [Sessions -> {"none", "live", "expired", "gone"}]
        /\ \A r \in Sessions : by'[r] = None <=> session'[r] = "none"
        /\ Known' = Known \ Known
      BY <2>1, RevokeKeeps
  <2>3. TypeOK' /\ OneSessionPerCredential'
      BY <2>1, <2>2 DEF TypeOK, OneSessionPerCredential, check
  <2>4. Spent' /\ LinkIssued' /\ DenialBlocks'
      BY <2>1, <2>2 DEF Spent, LinkIssued, DenialBlocks, check
  <2> QED
      BY <2>3, <2>4
<1>8. CASE ChangeAccess \/ CheckAccount \/ BackendAnswers \/ CheckThrows \/ CloseServer
  <2>1. TypeOK' /\ OneSessionPerCredential'
      BY <1>8 DEF ChangeAccess, CheckAccount, BackendAnswers, CheckThrows, CloseServer,
                  TypeOK, OneSessionPerCredential, check, creds
  <2>2. Spent' /\ LinkIssued'
      BY <1>8 DEF ChangeAccess, CheckAccount, BackendAnswers, CheckThrows, CloseServer,
                  Spent, LinkIssued, creds
  <2>3. DenialBlocks'
      BY <1>8 DEF ChangeAccess, CheckAccount, BackendAnswers, CheckThrows, CloseServer,
                  DenialBlocks, Known, check
  <2> QED
      BY <2>1, <2>2, <2>3
<1>9. CASE CheckAnswers
  <2> DEFINE S == IF reply = "no" THEN Known ELSE {}
  <2>1. /\ Revoke(S) /\ UNCHANGED <<managed, access, closing, creds, by>>
        /\ checking' = FALSE /\ reply' = "none" /\ denied' = (reply = "no")
        /\ available' = IF closing = "open" THEN reply = "yes" ELSE available
      BY <1>9 DEF CheckAnswers
  <2>2. /\ session' \in [Sessions -> {"none", "live", "expired", "gone"}]
        /\ \A r \in Sessions : by'[r] = None <=> session'[r] = "none"
        /\ Known' = Known \ S
    <3>1. S \in SUBSET Known /\ by' = by
        BY <2>1
    <3> HIDE DEF S
    <3> QED
        BY <2>1, <3>1, RevokeKeeps
  <2>3. TypeOK'
      BY <2>1, <2>2 DEF TypeOK, creds
  <2>4. OneSessionPerCredential' /\ Spent' /\ LinkIssued'
      BY <2>1 DEF OneSessionPerCredential, Spent, LinkIssued, creds
  <2>5. DenialBlocks'
      BY <2>1, <2>2 DEF DenialBlocks
  <2> QED
      BY <2>3, <2>4, <2>5
<1>10. CASE UNCHANGED vars
    BY <1>10 DEF vars, check, creds, TypeOK, Spent, LinkIssued,
                 OneSessionPerCredential, DenialBlocks, Known
<1> QED
    BY <1>1, <1>2, <1>3, <1>4, <1>5, <1>6, <1>7, <1>8, <1>9, <1>10 DEF Next

\* In every behaviour the inductive invariant holds.
THEOREM IInvHolds == Spec => []IInv
BY InitIInv, NextIInv, PTL DEF Spec

\* The variables keep their types, and a session is in the map, or was, only
\* if a credential was redeemed for it (/auth/pair, /auth/account).
THEOREM TypeCorrect == Spec => []TypeOK
<1>1. IInv => TypeOK
    BY DEF IInv
<1> QED
    BY <1>1, IInvHolds, PTL

\* A pairing link, and an account grant, is good for one session only, and after
\* a check that denied access there is no session until one grants it.
THEOREM EverySessionEarned == Spec => []SessionsEarned
<1>1. IInv => DeniedHasNoSession
    BY DEF IInv, DenialBlocks, DeniedHasNoSession
<1>2. IInv => SessionsEarned
    BY <1>1 DEF IInv, SessionsEarned
<1> QED
    BY <1>2, IInvHolds, PTL

\* A step on the sessions is one of GatewaySessions, or none.
LEMMA NextImplements == IInv /\ [Next]_vars => [GS!Next]_(GS!vars)
<1> SUFFICES ASSUME IInv, [Next]_vars PROVE [GS!Next]_(GS!vars)
    OBVIOUS
<1> USE DEF GS!Accepts, GS!vars
<1>0. /\ TypeOK /\ GS!Live = Known
    BY DEF IInv, TypeOK, GS!Live, Known
<1>1. ASSUME NEW s \in Sessions, NEW k, NewSession(s, k), Accepts, UNCHANGED closing
      PROVE  GS!Login(s)
    BY <1>0, <1>1 DEF NewSession, Accepts, GS!Login, TypeOK
<1>2. ASSUME NEW s \in Sessions, Revoke({s}), s \in Known, UNCHANGED closing
      PROVE  GS!RevokeOne(s)
    BY <1>0, <1>2 DEF Revoke, Known, GS!RevokeOne, GS!Revoke, TypeOK
<1>3. ASSUME Revoke(Known) PROVE GS!Revoke(GS!Live)
    BY <1>0, <1>3 DEF Revoke, Known, GS!Revoke, TypeOK
<1>4. ASSUME NEW s \in Sessions, Pair(s) PROVE GS!Next
    BY <1>1, <1>4 DEF Pair, GS!Next
<1>5. ASSUME NEW s \in Sessions, NEW k \in Creds, Account(s, k) PROVE GS!Next
    BY <1>1, <1>5 DEF Account, GS!Next
<1>6. ASSUME NEW s \in Sessions, Disconnect(s) \/ Expire(s) PROVE GS!Next
    BY <1>2, <1>6 DEF Disconnect, Expire, Known, GS!Next
<1>7. ASSUME NEW s \in Sessions, SessionExpires(s) PROVE UNCHANGED GS!vars
    BY <1>0, <1>7 DEF SessionExpires, TypeOK
<1>8. CASE RevokeWeb
    BY <1>3, <1>8 DEF RevokeWeb, GS!RevokeAll, GS!Next
<1>9. CASE CloseGateway
    BY <1>3, <1>9 DEF CloseGateway, GS!Close, GS!Next
<1>10. CASE CloseServer
    BY <1>10 DEF CloseServer, GS!Drain, GS!Next
<1>11. CASE CheckAnswers
  <2>1. CASE reply = "no"
      BY <1>3, <1>11, <2>1 DEF CheckAnswers, GS!RevokeAll, GS!Next
  <2>2. CASE reply # "no"
    <3>1. session' = session
        BY <1>0, <1>11, <2>2 DEF CheckAnswers, Revoke, TypeOK
    <3> QED
        BY <1>11, <3>1 DEF CheckAnswers
  <2> QED
      BY <2>1, <2>2
<1>12. ASSUME NEW k \in Creds, PairWeb(k) \/ GrantExpires(k) \/ AccountRefused(k)
       PROVE  UNCHANGED GS!vars
    BY <1>12 DEF PairWeb, GrantExpires, AccountRefused
<1>13. CASE \/ GrantRefused \/ LinkExpires \/ ChangeAccess \/ CheckAccount
            \/ BackendAnswers \/ CheckThrows \/ UNCHANGED vars
    BY <1>13 DEF GrantRefused, LinkExpires, ChangeAccess, CheckAccount,
                 BackendAnswers, CheckThrows, vars
<1> QED
    BY <1>4, <1>5, <1>6, <1>7, <1>8, <1>9, <1>10, <1>11, <1>12, <1>13 DEF Next

\* GatewayAccess implements GatewaySessions, on which GatewayWorkspace is built.
THEOREM AccessImplementsSessions == Spec => ImplementsSessions
<1>1. Init => GS!Init
    BY DEF Init, GS!Init
<1> QED
    BY <1>1, IInvHolds, NextImplements, PTL DEF Spec, GS!Spec, ImplementsSessions

----------------------------------------------------------------------------
(* CloudflareTunnel.  A gateway that disables a tunnel or enrolls is       *)
(* between its reads and its removals or renames of the files of all.      *)

\* A place of the port is claimed from the lock directory to the end of stop.
Claims(g) == At(g, "owner") \/ Holds(g)

\* Where a gateway stands bounds what it can have left.
Positions ==
    \A g \in Gateways :
        /\ pc[g] \in {"write", "rename"} => uses[g] # None
        /\ pc[g] = "rmTmp" => stop[g] = "finished"
        /\ stop[g] \in {"token", "lock", "finished"} => child[g] # "running"
        /\ tmp = g => pc[g] \in {"rename", "failing", "rmTmp", "crashed"}
        /\ socket = g => pc[g] \in {"running", "crashed"}

\* The lock was made by a gateway that began, and an owner found dead stays dead.
OwnersKnown ==
    /\ lock # None => pc[lock.by] # "idle"
    /\ \A p \in Processes : gone[p] # None =>
            pc[gone[p]] \in Over /\ stop[gone[p]] \in {"none", "finished"}

\* The port is the lock's: a gateway that claims it made the lock.
LockClaimed == \A g \in Gateways : Claims(g) => lock # None /\ lock.by = g

\* The token and the temporary file are written and removed under the claim.
FilesClaimed ==
    \A g \in Gateways :
        /\ pc[g] \in {"spawn", "starting", "running"} /\ stop[g] = "none" => token = g
        /\ pc[g] = "rename" => tmp \in {g, None}
        /\ stop[g] \in {"lock", "finished"} => token # g
        /\ stop[g] = "finished" /\ lock # None => lock.by # g

\* What was read to be disabled is gone before its file is removed.
ReadGone ==
    \A p \in Processes : task[p] = "rmState" /\ found[p] # None => enrollment[found[p]] = "gone"

\* A gateway enrolls when nothing that was printed is left, and what it waits
\* for is what is saved, unless a disable has removed that.
Replaceable ==
    \A g \in Gateways :
        /\ pc[g] \in {"enroll", "write", "rename"} => \A e \in printed : enrollment[e] = "gone"
        /\ pc[g] \in {"poll", "recover"} => saved \in {uses[g], None}

TunnelInv ==
    /\ TunnelTypes /\ Positions /\ OwnersKnown /\ ReadGone
    /\ ~broken => LockClaimed /\ FilesClaimed
    /\ ~broken /\ ~mistaken => CredentialKept /\ Replaceable

\* The lock stays a lock, whoever writes it (enable).
LEMMA LockStaysTyped ==
    ASSUME TunnelTypes, NEW g \in Gateways, Lock(g) \/ WriteOwner(g)
    PROVE  lock' \in [by : Gateways, owner : BOOLEAN] \cup {None}
<1>1. lock \in [by : Gateways, owner : BOOLEAN] \cup {None}
    BY DEF TunnelTypes
<1>2. [by |-> g, owner |-> FALSE] \in [by : Gateways, owner : BOOLEAN]
    OBVIOUS
<1>3. \A l \in [by : Gateways, owner : BOOLEAN] :
            [l EXCEPT !.owner = TRUE] \in [by : Gateways, owner : BOOLEAN]
    OBVIOUS
<1>4. CASE Lock(g)
  <2>1. lock' = lock \/ lock' = [by |-> g, owner |-> FALSE]
      BY <1>4 DEF Lock
  <2> QED
      BY <1>1, <1>2, <2>1
<1>5. CASE WriteOwner(g)
    BY <1>1, <1>3, <1>5 DEF WriteOwner
<1> QED
    BY <1>4, <1>5

\* A step of the tunnel keeps the types of its state.
LEMMA TypesKept ==
    ASSUME TunnelTypes, Positions, [TunnelNext]_tunnelVars
    PROVE  TunnelTypes'
<1> USE AbsentAssumption, ProcessesAssumption, CrashesAssumption
    DEF TunnelTypes, Positions, At, Goto, Advance, Forget, Finish, Over, Enabling, Processes,
        gateway, disabler, files, history
<1>1. ASSUME NEW g \in Gateways, Lock(g) \/ WriteOwner(g) PROVE TunnelTypes'
  <2>1. lock' \in [by : Gateways, owner : BOOLEAN] \cup {None}
      BY <1>1, LockStaysTyped
  <2> QED
      BY <1>1, <2>1 DEF Lock, WriteOwner
<1>2. ASSUME NEW g \in Gateways, ReadSaved(g) \/ Enroll(g) \/ WriteTmp(g) \/ Rename(g)
      PROVE  TunnelTypes'
  <2>1. CASE ReadSaved(g)
      BY <2>1 DEF ReadSaved
  <2>2. CASE Enroll(g)
      BY <2>2 DEF Enroll, Fresh
  <2>3. CASE WriteTmp(g)
      BY <2>3 DEF WriteTmp
  <2>4. CASE Rename(g)
      BY <2>4 DEF Rename
  <2> QED
      BY <1>2, <2>1, <2>2, <2>3, <2>4
<1>3. ASSUME NEW g \in Gateways,
             Ready(g) \/ Ended(g) \/ Recover(g) \/ RemoveToken(g) \/ WriteToken(g) \/ Spawn(g)
      PROVE  TunnelTypes'
    BY <1>3 DEF Ready, Ended, Recover, RemoveToken, WriteToken, Spawn
<1>4. ASSUME NEW g \in Gateways,
             Fail(g) \/ Listen(g) \/ ListenFails(g) \/ LeaveClosed(g) \/ Leave(g)
               \/ CloseTunnel(g) \/ Stopped(g) \/ Disabled(g) \/ StopEnds(g) \/ RemoveTmp(g)
      PROVE  TunnelTypes'
    BY <1>4 DEF Fail, Listen, ListenFails, LeaveClosed, Leave, CloseTunnel, Stopped, Disabled,
        StopEnds, RemoveTmp
<1>5. ASSUME NEW g \in Gateways,
             KillChild(g) \/ ChildExits(g) \/ StopChild(g) \/ StopToken(g) \/ StopLock(g)
      PROVE  TunnelTypes'
    BY <1>5 DEF KillChild, ChildExits, StopChild, StopToken, StopLock
<1>6. ASSUME NEW g \in Gateways, Crash(g) PROVE TunnelTypes'
    BY <1>6 DEF Crash
<1>7. ASSUME NEW p \in Processes, Disable(p) PROVE TunnelTypes'
  <2>1. CASE Read(p)
      BY <2>1 DEF Read
  <2>2. CASE Request(p)
      BY <2>2 DEF Request
  <2>3. CASE RequestFails(p)
      BY <2>3 DEF RequestFails
  <2>4. CASE RemoveSaved(p)
      BY <2>4 DEF RemoveSaved
  <2>5. CASE ReadOwner(p)
      BY <2>5 DEF ReadOwner
  <2>6. CASE RemoveDeadToken(p)
      BY <2>6 DEF RemoveDeadToken
  <2>7. CASE RemoveDeadLock(p)
      BY <2>7 DEF RemoveDeadLock
  <2> QED
      BY <1>7, <2>1, <2>2, <2>3, <2>4, <2>5, <2>6, <2>7 DEF Disable
<1>8. ASSUME NEW d \in Disables, Ask(d) PROVE TunnelTypes'
    BY <1>8 DEF Ask
<1>9. ASSUME NEW d \in Disables, CrashDisable(d) PROVE TunnelTypes'
    BY <1>9 DEF CrashDisable
<1>10. ASSUME NEW e \in Enrollments, Approve(e) \/ EndEnrollment(e) PROVE TunnelTypes'
    BY <1>10 DEF Approve, EndEnrollment
<1>11. CASE UNCHANGED tunnelVars
    BY <1>11 DEF tunnelVars
<1> QED
    BY <1>1, <1>2, <1>3, <1>4, <1>5, <1>6, <1>7, <1>8, <1>9, <1>10, <1>11
    DEF TunnelNext, Step, Stop

\* What a gateway has left, and who is known dead, agree with where each one stands.
LEMMA StandingKept ==
    ASSUME TunnelTypes,
           Positions,
           OwnersKnown,
           ReadGone,
           [TunnelNext]_tunnelVars
    PROVE  (Positions /\ OwnersKnown /\ ReadGone)'
<1> USE AbsentAssumption, ProcessesAssumption
    DEF At, Goto, Advance, Forget, Finish, Alive, Over, Enabling, Processes,
        gateway, disabler, files, history, TunnelTypes, Positions, OwnersKnown,
        ReadGone
<1>1. ASSUME NEW g \in Gateways,
             Lock(g) \/ WriteOwner(g)
      PROVE  (Positions /\ OwnersKnown /\ ReadGone)'
    BY <1>1 DEF Lock, WriteOwner
<1>2. ASSUME NEW g \in Gateways,
             ReadSaved(g) \/ Enroll(g) \/ WriteTmp(g) \/ Rename(g) \/ Ready(g) \/ Ended(g)
               \/ Recover(g) \/ RemoveToken(g) \/ WriteToken(g) \/ Spawn(g)
      PROVE  (Positions /\ OwnersKnown /\ ReadGone)'
    BY <1>2 DEF ReadSaved, Enroll, WriteTmp, Rename, Ready, Ended, Recover,
        RemoveToken, WriteToken, Spawn, Fresh
<1>3. ASSUME NEW g \in Gateways,
             Fail(g) \/ Listen(g) \/ ListenFails(g) \/ LeaveClosed(g) \/ Leave(g)
               \/ CloseTunnel(g) \/ Stopped(g) \/ Disabled(g) \/ StopEnds(g) \/ RemoveTmp(g)
      PROVE  (Positions /\ OwnersKnown /\ ReadGone)'
    BY <1>3 DEF Fail, Listen, ListenFails, LeaveClosed, Leave, CloseTunnel,
        Stopped, Disabled, StopEnds, RemoveTmp
<1>4. ASSUME NEW g \in Gateways,
             KillChild(g) \/ ChildExits(g) \/ StopChild(g) \/ StopToken(g) \/ StopLock(g)
               \/ Crash(g)
      PROVE  (Positions /\ OwnersKnown /\ ReadGone)'
    BY <1>4 DEF KillChild, ChildExits, StopChild, StopToken, StopLock, Crash
<1>5. ASSUME NEW p \in Processes,
             Read(p) \/ Request(p) \/ RequestFails(p) \/ RemoveSaved(p) \/ ReadOwner(p)
               \/ RemoveDeadToken(p) \/ RemoveDeadLock(p)
      PROVE  (Positions /\ OwnersKnown /\ ReadGone)'
    BY <1>5 DEF Read, Request, RequestFails, RemoveSaved, ReadOwner,
        RemoveDeadToken, RemoveDeadLock
<1>6. ASSUME NEW d \in Disables,
             Ask(d) \/ CrashDisable(d)
      PROVE  (Positions /\ OwnersKnown /\ ReadGone)'
    BY <1>6 DEF Ask, CrashDisable
<1>7. ASSUME NEW e \in Enrollments,
             Approve(e) \/ EndEnrollment(e)
      PROVE  (Positions /\ OwnersKnown /\ ReadGone)'
    BY <1>7 DEF Approve, EndEnrollment
<1>8. CASE UNCHANGED tunnelVars
    BY <1>8 DEF tunnelVars
<1> QED
    BY <1>1, <1>2, <1>3, <1>4, <1>5, <1>6, <1>7, <1>8
    DEF TunnelNext, Step, Stop, Disable

\* While no lock is broken, the port stays with the gateway that made its lock.
LEMMA ClaimKept ==
    ASSUME TunnelTypes,
           Positions,
           OwnersKnown,
           ~broken => LockClaimed,
           [TunnelNext]_tunnelVars
    PROVE  (~broken => LockClaimed)'
<1> USE AbsentAssumption, ProcessesAssumption
    DEF At, Goto, Advance, Forget, Finish, Alive, Over, Enabling, Processes,
        gateway, disabler, files, history, TunnelTypes, Positions, OwnersKnown,
        LockClaimed, Claims, Holds
<1>1. ASSUME NEW g \in Gateways, Lock(g) PROVE (~broken => LockClaimed)'
  <2>1. CASE /\ lock = None /\ lock' = [by |-> g, owner |-> FALSE]
            /\ pc' = [pc EXCEPT ![g] = "owner"]
    <3>1. lock' # None /\ lock'.by = g
      <4>1. lock' \in [by : Gateways, owner : BOOLEAN]
          BY <2>1
      <4> QED
          BY <2>1, <4>1
    <3>2. ASSUME ~broken, NEW h \in Gateways, Claims(h)' PROVE h = g
        BY <1>1, <2>1, <3>2 DEF Lock
    <3>3. broken' = broken
        BY <1>1 DEF Lock
    <3> QED
        BY <3>1, <3>2, <3>3
  <2>2. CASE pc' = [pc EXCEPT ![g] = "refused"] /\ lock' = lock
      BY <1>1, <2>2 DEF Lock
  <2> QED
      BY <1>1, <2>1, <2>2 DEF Lock
<1>2. ASSUME NEW g \in Gateways, WriteOwner(g) PROVE (~broken => LockClaimed)'
  <2>1. lock # None => [lock EXCEPT !.owner = TRUE].by = lock.by
      OBVIOUS
  <2>2. lock # None => [lock EXCEPT !.owner = TRUE] # None
    <3>1. \A l \in [by : Gateways, owner : BOOLEAN] :
              [l EXCEPT !.owner = TRUE] \in [by : Gateways, owner : BOOLEAN]
        OBVIOUS
    <3> QED
        BY <3>1
  <2>3. lock' # None <=> lock # None
      BY <1>2, <2>2 DEF WriteOwner
  <2>4. lock # None => lock'.by = lock.by
      BY <1>2, <2>1 DEF WriteOwner
  <2>5. ASSUME NEW h \in Gateways, Claims(h)' PROVE Claims(h)
      BY <1>2, <2>5 DEF WriteOwner
  <2>6. broken' = broken
      BY <1>2 DEF WriteOwner
  <2> QED
      BY <2>3, <2>4, <2>5, <2>6
<1>3. ASSUME NEW g \in Gateways,
             ReadSaved(g) \/ Enroll(g) \/ WriteTmp(g) \/ Rename(g) \/ Ready(g) \/ Ended(g)
               \/ Recover(g) \/ RemoveToken(g) \/ WriteToken(g) \/ Spawn(g)
      PROVE  (~broken => LockClaimed)'
    BY <1>3 DEF ReadSaved, Enroll, WriteTmp, Rename, Ready, Ended, Recover,
        RemoveToken, WriteToken, Spawn, Fresh
<1>4. ASSUME NEW g \in Gateways,
             Fail(g) \/ Listen(g) \/ ListenFails(g) \/ LeaveClosed(g) \/ Leave(g)
               \/ CloseTunnel(g) \/ Stopped(g) \/ Disabled(g) \/ StopEnds(g) \/ RemoveTmp(g)
      PROVE  (~broken => LockClaimed)'
    BY <1>4 DEF Fail, Listen, ListenFails, LeaveClosed, Leave, CloseTunnel,
        Stopped, Disabled, StopEnds, RemoveTmp
<1>5. ASSUME NEW g \in Gateways,
             KillChild(g) \/ ChildExits(g) \/ StopChild(g) \/ StopToken(g) \/ StopLock(g)
               \/ Crash(g)
      PROVE  (~broken => LockClaimed)'
    BY <1>5 DEF KillChild, ChildExits, StopChild, StopToken, StopLock, Crash
<1>6. ASSUME NEW p \in Processes, RemoveDeadLock(p) PROVE (~broken => LockClaimed)'
  <2>1. ~broken' => ~broken /\ (lock = None \/ lock.by = gone[p])
      BY <1>6, Zenon DEF RemoveDeadLock
  <2>2. ASSUME NEW h \in Gateways, Claims(h)' PROVE Claims(h) /\ gone[p] # h
      BY <1>6, <2>2 DEF RemoveDeadLock
  <2> QED
      BY <2>1, <2>2
<1>7. ASSUME NEW p \in Processes,
             Read(p) \/ Request(p) \/ RequestFails(p) \/ RemoveSaved(p) \/ ReadOwner(p)
               \/ RemoveDeadToken(p)
      PROVE  (~broken => LockClaimed)'
    BY <1>7 DEF Read, Request, RequestFails, RemoveSaved, ReadOwner,
        RemoveDeadToken
<1>8. ASSUME NEW d \in Disables, Ask(d) \/ CrashDisable(d) PROVE (~broken => LockClaimed)'
    BY <1>8 DEF Ask, CrashDisable
<1>9. ASSUME NEW e \in Enrollments,
             Approve(e) \/ EndEnrollment(e)
      PROVE  (~broken => LockClaimed)'
    BY <1>9 DEF Approve, EndEnrollment
<1>10. CASE UNCHANGED tunnelVars
    BY <1>10 DEF tunnelVars
<1> QED
    BY <1>1, <1>2, <1>3, <1>4, <1>5, <1>6, <1>7, <1>8, <1>9, <1>10
    DEF TunnelNext, Step, Stop, Disable

\* While no lock is broken, a file of the port is touched by none but its holder.
LEMMA FilesKept ==
    ASSUME TunnelTypes,
           Positions,
           OwnersKnown,
           ~broken => LockClaimed /\ FilesClaimed,
           [TunnelNext]_tunnelVars
    PROVE  (~broken => FilesClaimed)'
<1> USE AbsentAssumption, ProcessesAssumption
    DEF At, Goto, Advance, Forget, Finish, Alive, Over, Enabling, Processes,
        gateway, disabler, files, history, TunnelTypes, Positions, OwnersKnown,
        LockClaimed, FilesClaimed, Claims, Holds
<1>1. ASSUME NEW g \in Gateways, Lock(g) \/ WriteOwner(g) PROVE (~broken => FilesClaimed)'
    BY <1>1 DEF Lock, WriteOwner
<1>2. ASSUME NEW g \in Gateways,
             ReadSaved(g) \/ Enroll(g) \/ WriteTmp(g) \/ Rename(g) \/ Ready(g) \/ Ended(g)
               \/ Recover(g) \/ RemoveToken(g) \/ WriteToken(g) \/ Spawn(g)
      PROVE  (~broken => FilesClaimed)'
    BY <1>2 DEF ReadSaved, Enroll, WriteTmp, Rename, Ready, Ended, Recover,
        RemoveToken, WriteToken, Spawn, Fresh
<1>3. ASSUME NEW g \in Gateways,
             Fail(g) \/ Listen(g) \/ ListenFails(g) \/ LeaveClosed(g) \/ Leave(g)
               \/ CloseTunnel(g) \/ Stopped(g) \/ Disabled(g) \/ StopEnds(g) \/ RemoveTmp(g)
      PROVE  (~broken => FilesClaimed)'
    BY <1>3 DEF Fail, Listen, ListenFails, LeaveClosed, Leave, CloseTunnel,
        Stopped, Disabled, StopEnds, RemoveTmp
<1>4. ASSUME NEW g \in Gateways,
             KillChild(g) \/ ChildExits(g) \/ StopChild(g) \/ StopToken(g) \/ StopLock(g)
               \/ Crash(g)
      PROVE  (~broken => FilesClaimed)'
    BY <1>4 DEF KillChild, ChildExits, StopChild, StopToken, StopLock, Crash
<1>5. ASSUME NEW p \in Processes, RemoveDeadToken(p) PROVE (~broken => FilesClaimed)'
  <2>1. ~broken' => ~broken /\ token \in {gone[p], None}
      BY <1>5, Zenon DEF RemoveDeadToken
  <2> QED
      BY <1>5, <2>1 DEF RemoveDeadToken
<1>6. ASSUME NEW p \in Processes, RemoveDeadLock(p) PROVE (~broken => FilesClaimed)'
    BY <1>6 DEF RemoveDeadLock
<1>7. ASSUME NEW p \in Processes,
             Read(p) \/ Request(p) \/ RequestFails(p) \/ RemoveSaved(p) \/ ReadOwner(p)
      PROVE  (~broken => FilesClaimed)'
    BY <1>7 DEF Read, Request, RequestFails, RemoveSaved, ReadOwner
<1>8. ASSUME NEW d \in Disables, Ask(d) \/ CrashDisable(d) PROVE (~broken => FilesClaimed)'
    BY <1>8 DEF Ask, CrashDisable
<1>9. ASSUME NEW e \in Enrollments,
             Approve(e) \/ EndEnrollment(e)
      PROVE  (~broken => FilesClaimed)'
    BY <1>9 DEF Approve, EndEnrollment
<1>10. CASE UNCHANGED tunnelVars
    BY <1>10 DEF tunnelVars
<1> QED
    BY <1>1, <1>2, <1>3, <1>4, <1>5, <1>6, <1>7, <1>8, <1>9, <1>10
    DEF TunnelNext, Step, Stop, Disable

\* The saved credential is replaced or removed when its tunnel is gone.
LEMMA CredentialsStayKept ==
    ASSUME TunnelTypes,
           Positions,
           ReadGone,
           ~broken => LockClaimed /\ FilesClaimed,
           ~broken /\ ~mistaken => CredentialKept /\ Replaceable,
           [TunnelNext]_tunnelVars
    PROVE  (~broken /\ ~mistaken => CredentialKept /\ Replaceable)'
<1> USE AbsentAssumption, ProcessesAssumption
    DEF At, Goto, Advance, Forget, Finish, Alive, Over, Enabling, Processes,
        gateway, disabler, files, history, TunnelTypes, Positions, ReadGone,
        LockClaimed, FilesClaimed, Claims, Holds, CredentialKept, Replaceable
<1>1. ASSUME NEW g \in Gateways,
             Lock(g) \/ WriteOwner(g)
      PROVE  (~broken /\ ~mistaken => CredentialKept /\ Replaceable)'
    BY <1>1 DEF Lock, WriteOwner
<1>2. ASSUME NEW g \in Gateways,
             ReadSaved(g)
      PROVE  (~broken /\ ~mistaken => CredentialKept /\ Replaceable)'
    BY <1>2 DEF ReadSaved
<1>3. ASSUME NEW g \in Gateways,
             Enroll(g)
      PROVE  (~broken /\ ~mistaken => CredentialKept /\ Replaceable)'
    BY <1>3 DEF Enroll, Fresh
<1>4. ASSUME NEW g \in Gateways,
             Rename(g)
      PROVE  (~broken /\ ~mistaken => CredentialKept /\ Replaceable)'
    BY <1>4 DEF Rename
<1>5. ASSUME NEW g \in Gateways,
             Recover(g)
      PROVE  (~broken /\ ~mistaken => CredentialKept /\ Replaceable)'
    BY <1>5 DEF Recover
<1>6. ASSUME NEW g \in Gateways,
             WriteTmp(g) \/ Ready(g) \/ Ended(g) \/ RemoveToken(g) \/ WriteToken(g)
               \/ Spawn(g)
      PROVE  (~broken /\ ~mistaken => CredentialKept /\ Replaceable)'
    BY <1>6 DEF WriteTmp, Ready, Ended, RemoveToken, WriteToken, Spawn
<1>7. ASSUME NEW g \in Gateways,
             Fail(g) \/ Listen(g) \/ ListenFails(g) \/ LeaveClosed(g) \/ Leave(g)
               \/ CloseTunnel(g) \/ Stopped(g) \/ Disabled(g) \/ StopEnds(g) \/ RemoveTmp(g)
      PROVE  (~broken /\ ~mistaken => CredentialKept /\ Replaceable)'
    BY <1>7 DEF Fail, Listen, ListenFails, LeaveClosed, Leave, CloseTunnel,
        Stopped, Disabled, StopEnds, RemoveTmp
<1>8. ASSUME NEW g \in Gateways,
             KillChild(g) \/ ChildExits(g) \/ StopChild(g) \/ StopToken(g) \/ StopLock(g)
               \/ Crash(g)
      PROVE  (~broken /\ ~mistaken => CredentialKept /\ Replaceable)'
    BY <1>8 DEF KillChild, ChildExits, StopChild, StopToken, StopLock, Crash
<1>9. ASSUME NEW p \in Processes,
             RemoveSaved(p)
      PROVE  (~broken /\ ~mistaken => CredentialKept /\ Replaceable)'
  <2>1. ~mistaken' => ~mistaken /\ saved \in {found[p], None}
      BY <1>9, Zenon DEF RemoveSaved
  <2> QED
      BY <1>9, <2>1 DEF RemoveSaved
<1>10. ASSUME NEW p \in Processes,
             Read(p) \/ Request(p) \/ RequestFails(p) \/ ReadOwner(p) \/ RemoveDeadToken(p)
               \/ RemoveDeadLock(p)
      PROVE  (~broken /\ ~mistaken => CredentialKept /\ Replaceable)'
    BY <1>10 DEF Read, Request, RequestFails, ReadOwner, RemoveDeadToken,
        RemoveDeadLock
<1>11. ASSUME NEW d \in Disables,
             Ask(d) \/ CrashDisable(d)
      PROVE  (~broken /\ ~mistaken => CredentialKept /\ Replaceable)'
    BY <1>11 DEF Ask, CrashDisable
<1>12. ASSUME NEW e \in Enrollments,
             Approve(e) \/ EndEnrollment(e)
      PROVE  (~broken /\ ~mistaken => CredentialKept /\ Replaceable)'
    BY <1>12 DEF Approve, EndEnrollment
<1>13. CASE UNCHANGED tunnelVars
    BY <1>13 DEF tunnelVars
<1> QED
    BY <1>1, <1>2, <1>3, <1>4, <1>5, <1>6, <1>7, <1>8, <1>9, <1>10, <1>11, <1>12,
       <1>13
    DEF TunnelNext, Step, Stop, Disable

\* The invariant of the tunnel holds before anything was enrolled.
THEOREM InitTunnelInv == TunnelInit => TunnelInv
<1> SUFFICES ASSUME TunnelInit PROVE TunnelInv
    OBVIOUS
<1> USE AbsentAssumption, CrashesAssumption DEF TunnelInit, Processes
<1>1. TunnelTypes
  <2>1. /\ pc \in [Gateways -> {"idle"}] /\ stop \in [Gateways -> {"none"}]
        /\ child \in [Gateways -> {"none"}] /\ uses \in [Gateways -> {None}]
      OBVIOUS
  <2>2. /\ task \in [Processes -> {"idle"}] /\ found \in [Processes -> {None}]
        /\ gone \in [Processes -> {None}] /\ enrollment \in [Enrollments -> {"none"}]
      OBVIOUS
  <2>3. crashes \in 0..MaxCrashes
      OBVIOUS
  <2> QED
      BY <2>1, <2>2, <2>3 DEF TunnelTypes, Enabling, Over
<1>2. Positions /\ OwnersKnown /\ ReadGone
    BY DEF Positions, OwnersKnown, ReadGone
<1>3. LockClaimed /\ FilesClaimed
    BY DEF LockClaimed, FilesClaimed, Claims, Holds, At, Alive, Over
<1>4. CredentialKept /\ Replaceable
    BY DEF CredentialKept, Replaceable
<1> QED
    BY <1>1, <1>2, <1>3, <1>4 DEF TunnelInv

\* Every step of the processes, the backend and the user keeps it.
THEOREM NextTunnelInv == TunnelInv /\ [TunnelNext]_tunnelVars => TunnelInv'
BY TypesKept, StandingKept, ClaimKept, FilesKept, CredentialsStayKept DEF TunnelInv

\* So it holds of every state of the tunnel.
THEOREM TunnelInvHolds == TunnelSpec => []TunnelInv
BY InitTunnelInv, NextTunnelInv, PTL DEF TunnelSpec

\* The state of the tunnel is always of its types (enable, disable, stop).
THEOREM TunnelTypesCorrect == TunnelSpec => []TunnelTypes
BY TunnelInvHolds, PTL DEF TunnelInv

\* Any number of gateways of one port: one at a time holds it with files of its own.
THEOREM TunnelFilesOwned == TunnelSpec => []FilesOwned
<1>1. TunnelInv => FilesOwned
  <2> SUFFICES ASSUME TunnelInv PROVE FilesOwned
      OBVIOUS
  <2>1. OneGateway
      BY DEF TunnelInv, OneGateway, LockClaimed, FilesClaimed, Claims, Holds, Alive, Over
  <2>2. ExitClean
      BY DEF TunnelInv, ExitClean, Positions, FilesClaimed, At, TunnelTypes
  <2>3. CredentialKept
      BY DEF TunnelInv, CredentialKept
  <2> QED
      BY <2>1, <2>2, <2>3 DEF FilesOwned, PortOwned
<1> QED
    BY <1>1, TunnelInvHolds, PTL
=============================================================================
