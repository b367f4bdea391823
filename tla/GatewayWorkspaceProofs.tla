----------------------- MODULE GatewayWorkspaceProofs -----------------------
(***************************************************************************)
(* Proofs about GatewayWorkspace, for any number of sessions and tickets:  *)
(* a revoked session keeps nothing, and a revocation terminates no socket  *)
(* of another session.  And about WebConnection, for any number of         *)
(* attempts and sockets of a browser: what it holds is what it uses, what  *)
(* it gave up is gone, and what ends late takes nothing newer away.        *)
(***************************************************************************)
EXTENDS GatewayWorkspace, WebConnection, WellFoundedInduction, TLAPS

\* A terminal was created through a pair, so that its failure closes one whose
\* ticket is used up.
TermsPaired == \A t \in Tickets : term[t] # "none" => pair[t] # "none"

IInv == TypeOK /\ TermsPaired /\ RevokedKeepsNothing

\* A gateway starts without sessions.
LEMMA InitIInv == Init => IInv
BY DEF Init, IInv, TypeOK, TermsPaired, RevokedKeepsNothing

----------------------------------------------------------------------------
(* Revocations.                                                            *)

\* Lose leaves the sessions of S nothing, and those of others what they had.
LEMMA LoseKeeps ==
    ASSUME NEW S \in SUBSET Sessions, IInv, Lose(S), session' \in [Sessions -> {"none", "live", "gone"}],
           \A s \in Sessions : session'[s] = "gone" => s \in S \/ session[s] = "gone",
           closing' \in {"open", "revoked", "draining", "closed"},
           awaited' \in SUBSET (Sessions \cup Tickets)
    PROVE  IInv'
<1> USE NoneAssumption DEF IInv, TermsPaired, Lose, Terminate, Withdraw
<1>1. TypeOK'
  <2>1. /\ ticket' \in [Tickets -> {"none", "valid", "used"}]
        /\ pair' \in [Tickets -> {"none", "open", "terminated", "closed"}]
        /\ box' \in [Sessions -> {"none", "opening", "open", "closing", "closed"}]
        /\ granted' \in SUBSET Sessions /\ served' \in SUBSET Sessions
      BY DEF TypeOK
  <2>2. \A t \in Tickets : /\ of'[t] = None <=> ticket'[t] = "none"
                           /\ pair'[t] # "none" => ticket'[t] = "used"
      BY DEF TypeOK
  <2> QED
      BY <2>1, <2>2 DEF TypeOK
<1>2. ASSUME NEW s \in Sessions, session'[s] = "gone"
      PROVE  /\ box'[s] # "open"
             /\ s \notin granted'
             /\ \A t \in Tickets : of'[t] = s => ticket'[t] = "used" /\ pair'[t] # "open"
  <2>1. CASE s \in S
      BY <2>1 DEF TypeOK
  <2>2. CASE session[s] = "gone"
      BY <2>2 DEF TypeOK, RevokedKeepsNothing
  <2> QED
      BY <1>2, <2>1, <2>2
<1>3. served' \subseteq granted'
    BY DEF RevokedKeepsNothing
<1>4. TermsPaired'
    BY DEF TypeOK
<1> QED
    BY <1>1, <1>2, <1>3, <1>4 DEF RevokedKeepsNothing

\* A revocation of S makes the sessions of S gone.
LEMMA Revoked ==
    ASSUME NEW S \in SUBSET Sessions, TypeOK, GS!Revoke(S)
    PROVE  /\ session' \in [Sessions -> {"none", "live", "gone"}]
           /\ \A s \in Sessions : session'[s] = IF s \in S THEN "gone" ELSE session[s]
BY DEF GS!Revoke, TypeOK

\* A session is revoked alone, with all others, or with the gateway.
LEMMA RevocationsKeep ==
    ASSUME IInv, (\E s \in Sessions : RevokeOne(s)) \/ RevokeAll \/ CloseGateway
    PROVE  IInv'
<1> USE DEF IInv
<1>1. ASSUME NEW s \in Sessions, RevokeOne(s) PROVE IInv'
  <2>1. GS!Revoke({s}) /\ Lose({s}) /\ UNCHANGED <<closing, awaited>>
      BY <1>1 DEF RevokeOne, GS!RevokeOne
  <2> QED
      BY <2>1, Revoked, LoseKeeps, {s} \in SUBSET Sessions DEF TypeOK
<1>2. Live \in SUBSET Sessions
    BY DEF Live, GS!Live
<1>3. CASE RevokeAll
  <2>1. GS!Revoke(Live) /\ Lose(Live) /\ UNCHANGED <<closing, awaited>>
      BY <1>3 DEF RevokeAll, GS!RevokeAll, Live
  <2> QED
      BY <1>2, <2>1, Revoked, LoseKeeps DEF TypeOK
<1>4. CASE CloseGateway
  <2>1. GS!Revoke(Live) /\ Lose(Live) /\ closing' = "revoked"
      BY <1>4 DEF CloseGateway, GS!Close, Live
  <2>2. awaited' \in SUBSET (Sessions \cup Tickets)
      BY <1>4 DEF CloseGateway, Pending
  <2> QED
      BY <1>2, <2>1, <2>2, Revoked, LoseKeeps
<1> QED
    BY <1>1, <1>3, <1>4

----------------------------------------------------------------------------
(* The other steps.                                                        *)

\* A container that starts late is closed at once.
LEMMA BoxesKeep ==
    ASSUME NEW s \in Sessions, IInv,
           OpenBox(s) \/ BoxOpens(s) \/ BoxFails(s) \/ BoxDies(s) \/ BoxClosed(s)
    PROVE  IInv'
BY DEF IInv, TypeOK, TermsPaired, RevokedKeepsNothing, OpenBox, BoxOpens, BoxFails, BoxDies, BoxClosed,
       sockets, previews

\* Previews are granted to sessions that are not revoked.
LEMMA PreviewsKeep ==
    ASSUME NEW s \in Sessions, IInv,
           CreatePreview(s) \/ ServePreview(s) \/ PreviewServed(s) \/ RevokePreviews(s)
    PROVE  IInv'
BY DEF IInv, TypeOK, TermsPaired, RevokedKeepsNothing, CreatePreview, ServePreview, PreviewServed,
       RevokePreviews, Withdraw, sockets

\* Tickets are issued to sessions that are not revoked.
LEMMA IssueKeeps ==
    ASSUME NEW s \in Sessions, NEW t \in Tickets, IInv, IssueTicket(s, t) PROVE IInv'
<1> USE NoneAssumption DEF IInv, TermsPaired
<1>1. /\ ticket' \in [Tickets -> {"none", "valid", "used"}]
      /\ ticket'[t] = "valid"
      /\ \A u \in Tickets : u # t => /\ ticket'[u] = ticket[u] \/ ticket'[u] = "used"
                                     /\ ticket'[u] = "none" <=> ticket[u] = "none"
    BY DEF IssueTicket, TypeOK
<1>2. of'[t] = s /\ \A u \in Tickets : u # t => of'[u] = of[u]
    BY DEF IssueTicket, TypeOK
<1>3. TypeOK'
  <2>1. \A u \in Tickets : /\ of'[u] = None <=> ticket'[u] = "none"
                           /\ pair'[u] # "none" => ticket'[u] = "used"
      BY <1>1, <1>2 DEF IssueTicket, TypeOK
  <2> QED
      BY <1>1, <2>1 DEF IssueTicket, TypeOK, previews
<1>4. RevokedKeepsNothing'
    BY <1>1, <1>2 DEF IssueTicket, RevokedKeepsNothing, previews
<1> QED
    BY <1>3, <1>4 DEF IssueTicket

\* A ticket opens a pair only for a session that is not revoked.
LEMMA PairsKeep ==
    ASSUME NEW t \in Tickets, IInv,
           \/ Upgrade(t) \/ UpgradeRefused(t) \/ PairCloses(t) \/ CreateTerminal(t)
           \/ TerminalReady(t) \/ TerminalFails(t) \/ TerminalDisposed(t)
    PROVE  IInv'
<1> USE DEF IInv, TypeOK, TermsPaired, RevokedKeepsNothing, previews
<1>1. CASE Upgrade(t) \/ UpgradeRefused(t)
    BY <1>1 DEF Upgrade, UpgradeRefused
<1>2. CASE PairCloses(t)
    BY <1>2 DEF PairCloses
<1>3. CASE CreateTerminal(t) \/ TerminalReady(t) \/ TerminalDisposed(t)
    BY <1>3 DEF CreateTerminal, TerminalReady, TerminalDisposed
<1>4. CASE TerminalFails(t)
    BY <1>4 DEF TerminalFails
<1> QED
    BY <1>1, <1>2, <1>3, <1>4

\* Every step keeps the invariant.
THEOREM NextIInv == IInv /\ [Next]_vars => IInv'
<1> SUFFICES ASSUME IInv, [Next]_vars PROVE IInv'
    OBVIOUS
<1>1. ASSUME NEW s \in Sessions, Login(s) PROVE IInv'
    BY <1>1 DEF Login, GS!Login, IInv, TypeOK, TermsPaired, RevokedKeepsNothing, sockets, previews
<1>2. CASE CloseServer
    BY <1>2 DEF CloseServer, GS!Drain, Terminate, Withdraw, IInv, TypeOK, TermsPaired, RevokedKeepsNothing
<1>3. CASE Closed
    BY <1>3 DEF Closed, GS!End, IInv, TypeOK, TermsPaired, RevokedKeepsNothing, sockets, previews
<1>4. CASE UNCHANGED vars
    BY <1>4 DEF vars, IInv, TypeOK, TermsPaired, RevokedKeepsNothing, sockets, previews
<1> QED
    BY <1>1, <1>2, <1>3, <1>4, RevocationsKeep, BoxesKeep, PreviewsKeep, IssueKeeps, PairsKeep
       DEF Next

\* In every behaviour the invariant holds.
THEOREM IInvHolds == Spec => []IInv
BY InitIInv, NextIInv, PTL DEF Spec

\* The variables keep their types, and a ticket that has opened a pair is used
\* up.
THEOREM TypeCorrect == Spec => []TypeOK
<1>1. IInv => TypeOK
    BY DEF IInv
<1> QED
    BY <1>1, IInvHolds, PTL

\* A revoked session keeps no ticket, open socket, preview or container, also
\* when the container starts after the revocation, however many sessions there
\* are and however they overlap.
THEOREM RevocationIsComplete == Spec => []RevokedKeepsNothing
<1>1. IInv => RevokedKeepsNothing
    BY DEF IInv
<1> QED
    BY <1>1, IInvHolds, PTL

----------------------------------------------------------------------------
(* Who is terminated.                                                      *)

\* A revocation of S terminates sockets of S.
LEMMA LoseTerminates ==
    ASSUME NEW S \in SUBSET Sessions, TypeOK, GS!Revoke(S), Lose(S),
           NEW t \in Tickets, pair[t] = "open", pair'[t] = "terminated"
    PROVE  session'[of[t]] = "gone"
BY DEF GS!Revoke, Lose, Terminate, TypeOK

\* The gateway terminates the sockets of sessions that are revoked, and those
\* of others only when it closes.
THEOREM OthersKeepTheirSockets == Spec => OnlyRevokedTerminated
<1> DEFINE Spared == \A t \in Tickets : pair[t] = "open" /\ pair'[t] = "terminated"
                         => session'[of[t]] = "gone" \/ closing' = "draining"
<1>1. TypeOK /\ [Next]_vars => [Spared]_vars
  <2> SUFFICES ASSUME TypeOK, [Next]_vars,
                      NEW t \in Tickets, pair[t] = "open", pair'[t] = "terminated"
               PROVE  session'[of[t]] = "gone" \/ closing' = "draining"
      OBVIOUS
  <2>1. ASSUME NEW s \in Sessions, RevokeOne(s) PROVE session'[of[t]] = "gone"
      BY <2>1, LoseTerminates, {s} \in SUBSET Sessions DEF RevokeOne, GS!RevokeOne
  <2>2. CASE RevokeAll \/ CloseGateway
    <3>1. Live \in SUBSET Sessions /\ GS!Revoke(Live) /\ Lose(Live)
        BY <2>2 DEF RevokeAll, CloseGateway, GS!RevokeAll, GS!Close, Live, GS!Live
    <3> QED
        BY <3>1, LoseTerminates
  <2>3. CASE CloseServer
      BY <2>3 DEF CloseServer, GS!Drain
  <2>4. ASSUME pair' = pair PROVE FALSE
      BY <2>4
  <2>5. ASSUME NEW u \in Tickets, pair' = [pair EXCEPT ![u] = "open"] \/ pair' = [pair EXCEPT ![u] = "closed"]
        PROVE  FALSE
      BY <2>5 DEF TypeOK
  <2>6. ASSUME NEW s \in Sessions,
               \/ Login(s) \/ OpenBox(s) \/ BoxOpens(s) \/ BoxFails(s) \/ BoxDies(s) \/ BoxClosed(s)
               \/ CreatePreview(s) \/ ServePreview(s) \/ PreviewServed(s) \/ RevokePreviews(s)
        PROVE  pair' = pair
      BY <2>6 DEF Login, OpenBox, BoxOpens, BoxFails, BoxDies, BoxClosed, CreatePreview,
                  ServePreview, PreviewServed, RevokePreviews, sockets
  <2>7. ASSUME NEW s \in Sessions, NEW u \in Tickets, IssueTicket(s, u) PROVE pair' = pair
      BY <2>7 DEF IssueTicket
  <2>8. ASSUME NEW u \in Tickets,
               \/ Upgrade(u) \/ UpgradeRefused(u) \/ PairCloses(u) \/ CreateTerminal(u)
               \/ TerminalReady(u) \/ TerminalFails(u) \/ TerminalDisposed(u)
        PROVE  pair' = pair \/ pair' = [pair EXCEPT ![u] = "open"] \/ pair' = [pair EXCEPT ![u] = "closed"]
      BY <2>8 DEF Upgrade, UpgradeRefused, PairCloses, CreateTerminal, TerminalReady,
                  TerminalFails, TerminalDisposed
  <2>9. CASE Closed \/ UNCHANGED vars
      BY <2>4, <2>9 DEF Closed, vars, sockets
  <2> QED
      BY <2>1, <2>2, <2>3, <2>4, <2>5, <2>6, <2>7, <2>8, <2>9 DEF Next
<1> QED
    BY <1>1, TypeCorrect, PTL DEF Spec, OnlyRevokedTerminated
----------------------------------------------------------------------------
(* The other half of the gateway.                                          *)

\* In this half sessions come and go as in the interface of the two, which
\* GatewayAccess implements: none comes back, and none outlives the close.
THEOREM WorkspaceFollowsSessions == Spec => GS!Spec
<1>1. Init => GS!Init
    BY DEF Init, GS!Init
<1>2. [Next]_vars => [GS!Next]_(GS!vars)
  <2> SUFFICES ASSUME [Next]_vars PROVE GS!Next \/ UNCHANGED <<closing, session>>
      BY DEF GS!vars
  <2>1. ASSUME NEW s \in Sessions, Login(s) \/ RevokeOne(s) PROVE GS!Next
      BY <2>1 DEF Login, RevokeOne, GS!Next
  <2>2. CASE RevokeAll \/ CloseGateway \/ CloseServer \/ Closed
      BY <2>2 DEF RevokeAll, CloseGateway, CloseServer, Closed, GS!Next
  <2>3. ASSUME NEW s \in Sessions,
               \/ OpenBox(s) \/ BoxOpens(s) \/ BoxFails(s) \/ BoxDies(s) \/ BoxClosed(s)
               \/ CreatePreview(s) \/ ServePreview(s) \/ PreviewServed(s) \/ RevokePreviews(s)
        PROVE  UNCHANGED <<closing, session>>
      BY <2>3 DEF OpenBox, BoxOpens, BoxFails, BoxDies, BoxClosed, CreatePreview, ServePreview,
                  PreviewServed, RevokePreviews
  <2>4. ASSUME NEW s \in Sessions, NEW t \in Tickets, IssueTicket(s, t)
        PROVE  UNCHANGED <<closing, session>>
      BY <2>4 DEF IssueTicket
  <2>5. ASSUME NEW t \in Tickets,
               \/ Upgrade(t) \/ UpgradeRefused(t) \/ PairCloses(t) \/ CreateTerminal(t)
               \/ TerminalReady(t) \/ TerminalFails(t) \/ TerminalDisposed(t)
        PROVE  UNCHANGED <<closing, session>>
      BY <2>5 DEF Upgrade, UpgradeRefused, PairCloses, CreateTerminal, TerminalReady, TerminalFails,
                  TerminalDisposed
  <2>6. CASE UNCHANGED vars
      BY <2>6 DEF vars
  <2> QED
      BY <2>1, <2>2, <2>3, <2>4, <2>5, <2>6 DEF Next
<1> QED
    BY <1>1, <1>2, PTL DEF Spec, GS!Spec

----------------------------------------------------------------------------
(* WebConnection.  What a task captured before an await decides whether    *)
(* its end counts; what storage is left with is decided by the order of    *)
(* the operations that wait in its queue.                                  *)

\* Where storage has a session s: saved (place 0), or in a queued save.
Holds(p, s) ==
    IF p = 0 THEN saved # None /\ saved.session = s
             ELSE queue[p].op = "save" /\ queue[p].what.session = s

\* Wherever the first n operations have s, a clear among them follows.
Swept(s, n) ==
    \A p \in 0 .. n : Holds(p, s) => \E c \in (p + 1) .. n : queue[c].op = "clear"

\* What is given up is neither used nor left by storage, now or by what a
\* restoration that counts will load.
GivenUpSwept ==
    \A s \in forgotten :
        /\ s \notin Current
        /\ Swept(s, Len(queue))
        /\ "restoration" \in fresh => \A i \in Loads : Swept(s, i)

\* Sessions come from gateways; options that are stored or were paired say so.
OptionsKnown == \A o \in {options, saved, back} \ {None} : o.session \in used

AttemptsKnown ==
    \A a \in Attempts :
        /\ given[a] # None <=> connect[a] \in {"ticketing", "opening"}
        /\ given[a] # None => given[a].session \in used /\ given[a].from = "paired"
        /\ previous[a] # None => given[a] # None /\ previous[a].session \in used

StoredKnown ==
    /\ saved # None => saved.from = "restored"
    /\ \A i \in DOMAIN queue : queue[i].op = "save" =>
            queue[i].what.session \in used /\ queue[i].what.from = "restored"

\* What is still fresh saw the connection in use.
AwaitFresh ==
    /\ \A c \in {"restoration"} \cup Callers : c \in fresh => options = None
    /\ "restoration" \in fresh => restoring

SocketsFresh ==
    \A k \in Sockets :
        /\ socket[k] = "open" => ticketOf[k] = options
        /\ k \in fresh => socket[k] = "ticketing" /\ ticketOf[k] = options

SwitchFresh ==
    /\ switch \notin {"idle", "returning"} => back # None
    /\ "container" \in fresh =>
        /\ switch \notin {"idle", "returning", "confirming"}
        /\ options # None /\ options.session = back.session

\* An attempt may be undone as long as the options it set are in use, or come
\* back when a switch or another attempt is undone; what it replaced is not
\* given up meanwhile.
Undoable(undo) ==
    /\ \A a \in Attempts : given[a] # None =>
        /\ options = given[a] => a \in undo
        /\ "container" \in fresh /\ back = given[a] => a \in undo
        /\ \A b \in undo : previous[b] = given[a] => a \in undo
    /\ \A a \in undo : previous[a] # None => previous[a].session \notin forgotten

UndoKept == \E undo \in SUBSET Attempts : Undoable(undo)

WebInv ==
    /\ WebTypes /\ OptionsKnown /\ AttemptsKnown /\ StoredKnown
    /\ AwaitFresh /\ SocketsFresh /\ SwitchFresh
    /\ ~overrode => GivenUpSwept /\ UndoKept

\* A nonempty set of the first n numbers has a last one.
LEMMA LastIndex ==
    ASSUME NEW n \in Nat, NEW I \in SUBSET (1 .. n), I # {}
    PROVE  Max(I) \in I /\ \A k \in I : k <= Max(I)
<1> DEFINE T == {n - i : i \in I}
<1>0. \A i \in I : i \in Nat /\ n - i \in Nat
    OBVIOUS
<1>1. T \subseteq Nat /\ T # {}
    BY <1>0
<1>2. PICK x \in T : \A y \in T : <<y, x>> \notin OpToRel(<, Nat)
    BY <1>1, NatLessThanWellFounded, WFMin
<1>3. \A y \in T : ~(y < x)
    BY <1>1, <1>2 DEF OpToRel
<1>4. PICK m \in I : x = n - m
    OBVIOUS
<1>5. ASSUME NEW k \in I PROVE m >= k
  <2>1. n - k \in T
      OBVIOUS
  <2>2. ~(n - k < n - m)
      BY <1>3, <1>4, <2>1
  <2> QED
      BY <1>0, <2>2
<1> QED
    BY <1>0, <1>5 DEF Max

\* Where nothing is left, storage ends up without it.
LEMMA SweptFinally ==
    ASSUME queue \in Seq(Ops), NEW s \in Tokens, Swept(s, Len(queue)), FinallySaved # None
    PROVE  FinallySaved.session # s
<1> DEFINE n == Len(queue)
           I == {i \in 1 .. n : queue[i].op # "load"}
           last == IF I = {} THEN 0 ELSE Max(I)
<1>0. n \in Nat /\ \A i \in 1 .. n : queue[i] \in Ops
    OBVIOUS
<1>1. FinallySaved = IF last = 0 THEN saved
                     ELSE IF queue[last].op = "save" THEN queue[last].what ELSE None
    BY DEF FinallySaved, SelectLastInSubSeq
<1>2. CASE I = {}
  <2>1. ~\E c \in 1 .. n : queue[c].op = "clear"
      BY <1>2
  <2>2. 0 \in 0 .. n /\ 0 + 1 = 1
      BY <1>0
  <2>3. ~Holds(0, s)
      BY <2>1, <2>2 DEF Swept
  <2> QED
      BY <1>1, <1>2, <2>3 DEF Holds
<1>3. CASE I # {}
  <2>1. last \in I /\ \A k \in I : k <= last
      BY <1>0, <1>3, LastIndex
  <2>2. last \in 1 .. n /\ last # 0
      BY <2>1
  <2> HIDE DEF last
  <2>3. ~\E c \in (last + 1) .. n : queue[c].op = "clear"
      BY <1>0, <2>1, <2>2
  <2>4. last \in 0 .. n
      BY <2>2
  <2>5. ~Holds(last, s)
      BY <2>3, <2>4 DEF Swept
  <2> QED
      BY <1>1, <2>2, <2>5 DEF Holds
<1> QED
    BY <1>2, <1>3

\* An operation that ends takes its place with it.
LEMMA PopSwept ==
    ASSUME queue \in Seq(Ops), queue # <<>>, queue' = Tail(queue),
           NEW n \in 1 .. Len(queue), NEW s, Swept(s, n),
           \/ saved' = None
           \/ Head(queue).op = "save" /\ saved' = Head(queue).what
           \/ saved' = saved /\ (Head(queue).op # "clear" \/ ~Holds(0, s))
    PROVE  Swept(s, n - 1)'
<1>1. n \in Nat /\ n - 1 \in Nat /\ Len(queue) \in Nat /\ Len(queue') = Len(queue) - 1
    OBVIOUS
<1>2. \A i \in 1 .. (Len(queue) - 1) : queue'[i] = queue[i + 1]
    OBVIOUS
<1>3. Head(queue) = queue[1]
    OBVIOUS
<1>4. ASSUME NEW p \in 0 .. (n - 1), Holds(p, s)'
      PROVE  \E c \in (p + 1) .. (n - 1) : queue'[c].op = "clear"
  <2>1. PICK q \in 0 .. n : /\ Holds(q, s)
                            /\ q = p + 1 \/ (q = 0 /\ p = 0 /\ queue[1].op # "clear")
    <3>1. CASE p # 0
      <4>1. p + 1 \in 0 .. n /\ p \in 1 .. (Len(queue) - 1)
          BY <1>1, <3>1
      <4>2. Holds(p + 1, s)
          BY <1>1, <1>2, <1>4, <3>1, <4>1 DEF Holds
      <4> QED
          BY <4>1, <4>2
    <3>2. CASE p = 0
      <4>1. saved' # None /\ saved'.session = s
          BY <1>4, <3>2 DEF Holds
      <4>2. CASE Head(queue).op = "save" /\ saved' = Head(queue).what
          BY <1>1, <1>3, <3>2, <4>1, <4>2 DEF Holds
      <4>3. CASE saved' = saved /\ (Head(queue).op # "clear" \/ ~Holds(0, s))
          BY <1>1, <1>3, <3>2, <4>1, <4>3 DEF Holds
      <4> QED
          BY <4>1, <4>2, <4>3
    <3> QED
        BY <3>1, <3>2
  <2>2. PICK c \in (q + 1) .. n : queue[c].op = "clear"
      BY <2>1 DEF Swept
  <2>3. c - 1 \in (p + 1) .. (n - 1) /\ c - 1 \in 1 .. (Len(queue) - 1) /\ (c - 1) + 1 = c
      BY <1>1, <2>1, <2>2
  <2> QED
      BY <1>2, <2>2, <2>3
<1> QED
    BY <1>4 DEF Swept

\* An operation that comes last changes nothing before it.
LEMMA AppendSwept ==
    ASSUME queue \in Seq(Ops), NEW op \in Ops, queue' = Append(queue, op), saved' = saved,
           NEW n \in 0 .. Len(queue), NEW s, Swept(s, n)
    PROVE  Swept(s, n)'
<1>1. \A i \in 1 .. n : queue'[i] = queue[i]
    OBVIOUS
<1>2. ASSUME NEW p \in 0 .. n PROVE Holds(p, s)' <=> Holds(p, s)
    BY <1>1 DEF Holds
<1>3. ASSUME NEW p \in 0 .. n, NEW c \in (p + 1) .. n PROVE queue'[c] = queue[c]
    BY <1>1
<1> QED
    BY <1>2, <1>3 DEF Swept

\* Nor does it bring a session back, unless it is a save of it.
LEMMA LastSwept ==
    ASSUME queue \in Seq(Ops), NEW op \in Ops, queue' = Append(queue, op), saved' = saved,
           NEW n \in Nat, n = Len(queue),
           NEW s, Swept(s, n), op.op = "save" => op.what.session # s
    PROVE  Swept(s, n + 1)'
<1>1. n \in Nat /\ queue'[n + 1] = op /\ \A i \in 1 .. n : queue'[i] = queue[i]
    OBVIOUS
<1>2. ASSUME NEW p \in 0 .. n, Holds(p, s)' PROVE Holds(p, s)
    BY <1>1, <1>2 DEF Holds
<1>3. ~Holds(n + 1, s)'
    BY <1>1 DEF Holds
<1>4. ASSUME NEW p \in 0 .. (n + 1), Holds(p, s)'
      PROVE  \E c \in (p + 1) .. (n + 1) : queue'[c].op = "clear"
  <2>1. p \in 0 .. n
      BY <1>1, <1>3, <1>4
  <2>2. PICK c \in (p + 1) .. n : queue[c].op = "clear"
      BY <1>2, <1>4, <2>1 DEF Swept
  <2>3. c \in 1 .. n /\ c \in (p + 1) .. (n + 1)
      BY <1>1, <2>1
  <2> QED
      BY <1>1, <2>2, <2>3
<1> QED
    BY <1>4 DEF Swept

\* A delete that comes last takes everything away.
LEMMA ClearSwept ==
    ASSUME queue \in Seq(Ops), NEW op \in Ops, op.op = "clear", queue' = Append(queue, op),
           NEW n \in Nat, n = Len(queue), NEW s
    PROVE  Swept(s, n + 1)'
<1>1. n \in Nat /\ queue'[n + 1] = op
    OBVIOUS
<1>2. ~Holds(n + 1, s)'
    BY <1>1 DEF Holds
<1>3. ASSUME NEW p \in 0 .. (n + 1), Holds(p, s)'
      PROVE  n + 1 \in (p + 1) .. (n + 1)
    BY <1>1, <1>2, <1>3
<1> QED
    BY <1>1, <1>3 DEF Swept

\* Options, and the copy that is stored of them.
LEMMA OptionsFields ==
    ASSUME NEW o \in Options, NEW by \in Callers \cup {None}
    PROVE  /\ o # None /\ o.session \in Tokens
           /\ [op |-> "save", what |-> [o EXCEPT !.from = "restored"], by |-> by] \in Ops
           /\ [o EXCEPT !.from = "restored"] \in Options
           /\ [o EXCEPT !.from = "restored"].session = o.session
           /\ [o EXCEPT !.from = "restored"].from = "restored"
<1>1. o # None
    BY AbsentAssumption
<1>2. [o EXCEPT !.from = "restored"] \in Options
    BY DEF Options
<1> QED
    BY <1>1, <1>2 DEF Options, Ops

\* The operations without options.
LEMMA ClearAndLoad == [op |-> "clear"] \in Ops /\ [op |-> "load"] \in Ops
    BY DEF Ops

\* What a new operation does to the queue, and what it leaves as it is.
LEMMA AppendLoads ==
    ASSUME queue \in Seq(Ops), NEW op \in Ops, queue' = Append(queue, op),
           NEW n \in Nat, n = Len(queue)
    PROVE  /\ queue' \in Seq(Ops) /\ Len(queue') = n + 1
           /\ queue'[n + 1] = op /\ \A i \in 1 .. n : queue'[i] = queue[i]
           /\ Loads' = Loads \cup (IF op.op = "load" THEN {n + 1} ELSE {})
<1>1. queue' \in Seq(Ops) /\ Len(queue') = n + 1 /\ DOMAIN queue' = 1 .. (n + 1)
    OBVIOUS
<1>2. queue'[n + 1] = op /\ \A i \in 1 .. n : queue'[i] = queue[i]
    OBVIOUS
<1>3. DOMAIN queue = 1 .. n
    OBVIOUS
<1>4. ASSUME NEW i \in 1 .. (n + 1) PROVE i = n + 1 \/ i \in 1 .. n
    OBVIOUS
<1> QED
    BY <1>1, <1>2, <1>3, <1>4 DEF Loads

\* And what becomes of it when the first of them ends.
LEMMA TailLoads ==
    ASSUME queue \in Seq(Ops), queue # <<>>, queue' = Tail(queue)
    PROVE  /\ queue' \in Seq(Ops) /\ Len(queue) - 1 = Len(queue')
           /\ Len(queue) \in 1 .. Len(queue) /\ Head(queue) = queue[1] /\ queue[1] \in Ops
           /\ 1 \in Loads <=> Head(queue).op = "load"
           /\ \A i \in 1 .. Len(queue') : i + 1 \in 1 .. Len(queue) /\ queue'[i] = queue[i + 1]
           /\ \A i \in Loads' : i + 1 \in Loads
           /\ \A i \in Loads \ {1} : i - 1 \in Loads'
<1>1. /\ queue' \in Seq(Ops) /\ Len(queue) \in Nat /\ Len(queue) - 1 = Len(queue')
      /\ Head(queue) = queue[1] /\ DOMAIN queue = 1 .. Len(queue)
      /\ Len(queue) \in 1 .. Len(queue) /\ 1 \in 1 .. Len(queue)
      /\ DOMAIN queue' = 1 .. Len(queue')
    OBVIOUS
<1>2. \A i \in 1 .. Len(queue') : i + 1 \in 1 .. Len(queue) /\ queue'[i] = queue[i + 1]
    OBVIOUS
<1>3. \A i \in 1 .. Len(queue) : i # 1 => i - 1 \in 1 .. Len(queue') /\ (i - 1) + 1 = i
    BY <1>1
<1>4. queue[1] \in Ops
    BY <1>1
<1>5. 1 \in Loads <=> Head(queue).op = "load"
    BY <1>1 DEF Loads
<1>6. \A i \in Loads' : i + 1 \in Loads
    BY <1>1, <1>2 DEF Loads
<1>7. \A i \in Loads \ {1} : i - 1 \in Loads'
    BY <1>1, <1>2, <1>3 DEF Loads
<1> QED
    BY <1>1, <1>2, <1>4, <1>5, <1>6, <1>7

\* The queue with a save or a delete more.
LEMMA AppendTypes ==
    ASSUME StorageTypes, NEW op \in Ops, op.op # "load", queue' = Append(queue, op),
           saved' = saved, restoring' = restoring,
           waiting' \subseteq Callers \cup {"disconnect", "signout"}
    PROVE  StorageTypes'
<1>1. queue' \in Seq(Ops) /\ Loads' = Loads
    BY AppendLoads, Len(queue) \in Nat DEF StorageTypes
<1> QED
    BY <1>1 DEF StorageTypes

\* The queue with the load of a restoration.
LEMMA LoadTypes ==
    ASSUME StorageTypes, ~restoring, restoring' = TRUE,
           queue' = Append(queue, [op |-> "load"]), saved' = saved,
           waiting' \subseteq Callers \cup {"disconnect", "signout"}
    PROVE  StorageTypes'
<1>1. queue' \in Seq(Ops) /\ Loads' = Loads \cup {Len(queue) + 1}
    BY AppendLoads, ClearAndLoad, Len(queue) \in Nat DEF StorageTypes
<1>2. Loads' = {Len(queue) + 1}
    BY <1>1 DEF StorageTypes
<1> QED
    BY <1>1, <1>2 DEF StorageTypes

\* The queue without the operation that ends.
LEMMA TailTypes ==
    ASSUME StorageTypes, queue # <<>>, queue' = Tail(queue),
           saved' \in Options \cup {None},
           IF Head(queue).op = "load" THEN restoring' = FALSE ELSE restoring' = restoring,
           waiting' \subseteq Callers \cup {"disconnect", "signout"}
    PROVE  StorageTypes'
<1>1. /\ queue' \in Seq(Ops)
      /\ 1 \in Loads <=> Head(queue).op = "load"
      /\ \A i \in Loads' : i + 1 \in Loads
      /\ \A i \in Loads \ {1} : i - 1 \in Loads'
    BY TailLoads DEF StorageTypes
<1>2. Loads' \subseteq Nat
    BY <1>1 DEF Loads
<1>3. \A i, j \in Loads' : i = j
    BY <1>1, <1>2 DEF StorageTypes
<1>4. restoring' <=> Loads' # {}
  <2>1. CASE Head(queue).op = "load"
    <3>1. ASSUME NEW i \in Loads' PROVE FALSE
      <4>1. i + 1 = 1
          BY <1>1, <2>1 DEF StorageTypes
      <4> QED
          BY <1>1, <4>1, Loads' \subseteq 1 .. Len(queue') DEF Loads
    <3> QED
        BY <2>1, <3>1
  <2>2. CASE Head(queue).op # "load"
      BY <1>1, <2>2 DEF StorageTypes
  <2> QED
      BY <2>1, <2>2
<1>5. restoring' \in BOOLEAN
    BY DEF StorageTypes
<1> QED
    BY <1>1, <1>3, <1>4, <1>5 DEF StorageTypes

----------------------------------------------------------------------------
(* What a step does to the storage, and who is given up by it.             *)

Stale == "restoration" \in fresh' => "restoration" \in fresh

Idles == UNCHANGED <<saved, queue, restoring, forgotten>> /\ Stale

Saves(o, by) ==
    /\ Save(o, by) /\ UNCHANGED <<saved, restoring, forgotten>> /\ Stale
    /\ o.session \in used'
    /\ ~overrode' => o.session \notin forgotten

Clears ==
    /\ queue' = Append(queue, [op |-> "clear"]) /\ UNCHANGED <<saved, restoring>>
    /\ forgotten' = forgotten \cup Current /\ "restoration" \notin fresh'

Reads ==
    /\ ~restoring /\ restoring' = TRUE
    /\ queue' = Append(queue, [op |-> "load"]) /\ UNCHANGED <<saved, forgotten>>

Runs ==
    /\ queue # <<>> /\ queue' = Tail(queue)
    /\ IF Head(queue).op = "load" THEN restoring' = FALSE /\ "restoration" \notin fresh'
                                  ELSE restoring' = restoring /\ Stale
    /\ forgotten' \subseteq forgotten
    /\ \A s \in forgotten' :
           \/ saved' = None
           \/ Head(queue).op = "save" /\ saved' = Head(queue).what
           \/ saved' = saved /\ (Head(queue).op # "clear" \/ ~Holds(0, s))
    /\ saved' \in {saved, None} \/ (Head(queue).op = "save" /\ saved' = Head(queue).what)

StorageStep ==
    \/ Idles \/ Clears \/ Reads \/ Runs
    \/ \E o \in Options, by \in Callers \cup {None} : Saves(o, by)

\* The waiters, and what they do before anything else.
LEMMA WaitersStorage ==
    ASSUME WebInv, Waiters
    PROVE  StorageStep
<1>1. CASE Disconnects
    BY <1>1 DEF Disconnects, Invalidate, Use, Clears, StorageStep
<1>2. CASE SignOutGoesOn
    BY <1>2 DEF SignOutGoesOn, SignsOut, Invalidate, Use, Keep, Clears, Idles, Stale, StorageStep
<1>3. CASE \E p \in Callers : Restored(p)
    BY <1>3 DEF Restored, Keep, history, Idles, Stale, StorageStep
<1> QED
    BY <1>1, <1>2, <1>3 DEF Waiters

\* The storage operations that run.
LEMMA RunsStorage ==
    ASSUME WebInv, \/ Stored \/ SaveFails \/ Cleared \/ ClearFails \/ LoadFails
                   \/ \E valid \in BOOLEAN : Loaded(valid)
    PROVE  Runs
<1>1. CASE Stored
    BY <1>1 DEF Stored, Running, Keep, history, Runs, Stale
<1>2. CASE SaveFails
    BY <1>2 DEF SaveFails, Running, Keep, history, Runs, Stale
<1>3. CASE Cleared
    BY <1>3 DEF Cleared, Running, Keep, history, Runs, Stale
<1>4. CASE ClearFails
    BY <1>4 DEF ClearFails, Running, Keep, Runs, Stale, Holds
<1>5. CASE LoadFails
    BY <1>5 DEF LoadFails, Running, Ends, history, Runs
<1>6. ASSUME NEW valid \in BOOLEAN, Loaded(valid) PROVE Runs
    BY <1>6 DEF Loaded, Running, Ends, Use, history, Runs
<1> QED
    BY <1>1, <1>2, <1>3, <1>4, <1>5, <1>6

\* A connect.
LEMMA ConnectStorage ==
    ASSUME WebInv, NEW a \in Attempts,
           \/ Connect(a) \/ PairFails(a) \/ CliTicket(a) \/ Opened(a) \/ OpenFails(a)
           \/ \E s \in Tokens : Paired(a, s)
    PROVE  StorageStep
<1>0. a # "restoration"
    BY NamesAssumption DEF Tasks
<1>1. CASE Connect(a) \/ PairFails(a) \/ CliTicket(a)
    BY <1>0, <1>1 DEF Connect, PairFails, CliTicket, Ends, storage, history, Idles, Stale,
                      StorageStep
<1>2. CASE OpenFails(a)
    BY <1>2 DEF OpenFails, Ends, Use, storage, history, Idles, Stale, StorageStep
<1>3. ASSUME NEW s \in Tokens, Paired(a, s) PROVE Idles
    BY <1>0, <1>3 DEF Paired, NewSession, Use, storage, Idles, Stale
<1>4. CASE Opened(a) /\ options # given[a]
    BY <1>4 DEF Opened, Ends, history, Idles, Stale, StorageStep
<1>5. CASE Opened(a) /\ options = given[a]
  <2>1. options \in Options
      BY <1>5 DEF Opened, WebInv, AttemptsKnown, WebTypes, ConnectionTypes
  <2>2. options.session \in used /\ Current = {options.session}
      BY <2>1, OptionsFields DEF WebInv, OptionsKnown, Current
  <2>3. ~overrode => options.session \notin forgotten
      BY <2>2 DEF WebInv, GivenUpSwept
  <2>4. Saves(options, None)
      BY <1>5, <2>2, <2>3 DEF Opened, Ends, history, Saves, Stale
  <2> QED
      BY <2>1, <2>4 DEF StorageStep
<1> QED
    BY <1>1, <1>2, <1>3, <1>4, <1>5 DEF StorageStep

\* A page, and the account it asks.
LEMMA PrepareStorage ==
    ASSUME WebInv, \/ OpenPage \/ PrepareSwitch \/ PageFails
                   \/ \E p \in Callers : Checked(p) \/ \E s \in Tokens : Authorized(p, s)
    PROVE  StorageStep
<1>1. ASSUME OpenPage \/ PrepareSwitch PROVE StorageStep
    BY <1>1 DEF OpenPage, PrepareSwitch, Enters, JoinRestoration, Keep, storage, history,
                Idles, Reads,
                Stale, StorageStep
<1>2. CASE PageFails
    BY <1>2 DEF PageFails, Ends, storage, history, Idles, Stale, StorageStep
<1>3. ASSUME NEW p \in Callers, Checked(p) PROVE Idles
  <2>1. p # "restoration"
      BY DEF Callers
  <2> QED
      BY <1>3, <2>1 DEF Checked, Keep, storage, history, Idles, Stale
<1>4. ASSUME NEW p \in Callers, NEW s \in Tokens, Authorized(p, s) PROVE StorageStep
  <2> DEFINE o == [session |-> s, boxed |-> FALSE, from |-> "paired"]
  <2>1. o \in Options /\ o.session = s
      BY DEF Options
  <2>2. s \in used' /\ s \notin used /\ UNCHANGED forgotten /\ s \notin forgotten
      BY <1>4 DEF Authorized, NewSession, WebInv, WebTypes, HistoryTypes
  <2>3. Saves(o, p)
      BY <1>4, <2>1, <2>2 DEF Authorized, Use, Save, Saves, Stale
  <2> QED
      BY <2>1, <2>3 DEF StorageStep
<1> QED
    BY <1>1, <1>2, <1>3, <1>4 DEF StorageStep

\* The container switch.
LEMMA SwitchStorage ==
    ASSUME WebInv, \/ ReopenInContainer \/ ContainerStarts \/ ContainerFails \/ Confirmed
                   \/ ReopenOnHost \/ Switched \/ SwitchFails
    PROVE  StorageStep
<1>1. CASE ReopenInContainer \/ ContainerStarts \/ ContainerFails \/ Switched
    BY <1>1 DEF ReopenInContainer, ContainerStarts, ContainerFails, Switched, Ends, storage,
                history,
                Idles, Stale, StorageStep
<1>2. back # None => back \in Options /\ back.session \in used
    BY OptionsFields DEF WebInv, WebTypes, SwitchTypes, OptionsKnown
<1>3. options # None => /\ options \in Options /\ options.session \in used
                        /\ ~overrode => options.session \notin forgotten
    BY DEF WebInv, WebTypes, ConnectionTypes, OptionsKnown, GivenUpSwept, Current
<1>4. ASSUME NEW boxed2 \in BOOLEAN, SwitchTo(boxed2), back' \in Options,
             UNCHANGED <<used, forgotten>>, back'.session \in used,
             ~overrode' => back'.session \notin forgotten
      PROVE  StorageStep
  <2> DEFINE o == [back' EXCEPT !.boxed = boxed2, !.from = "switched"]
  <2>1. o \in Options /\ o.session = back'.session
      BY <1>4 DEF Options
  <2>2. Saves(o, "switch")
      BY <1>4, <2>1 DEF SwitchTo, Use, Save, Saves, Stale
  <2> QED
      BY <2>1, <2>2 DEF StorageStep, Callers
<1>5. CASE Confirmed
  <2>1. back \in Options /\ back.session \in used
      BY <1>2, <1>5 DEF Confirmed, WebInv, SwitchFresh
  <2>2. ASSUME ~overrode' PROVE options = back /\ ~overrode
      BY <1>5, <2>2 DEF Confirmed
  <2>3. ~overrode' => back.session \notin forgotten
      BY <1>3, <2>1, <2>2, OptionsFields
  <2> QED
      BY <1>4, <1>5, <2>1, <2>3 DEF Confirmed
<1>6. CASE ReopenOnHost
    BY <1>3, <1>4, <1>6 DEF ReopenOnHost, history
<1>7. CASE SwitchFails /\ "container" \notin fresh
    BY <1>7 DEF SwitchFails, Ends, history, Idles, Stale, StorageStep
<1>8. CASE SwitchFails /\ "container" \in fresh
  <2>1. back \in Options /\ back.session \in used /\ options # None /\ options.session = back.session
      BY <1>2, <1>8 DEF SwitchFails, WebInv, SwitchFresh
  <2>2. Saves(back, "switch")
      BY <1>3, <1>8, <2>1 DEF SwitchFails, Use, history, Saves, Stale
  <2> QED
      BY <2>1, <2>2 DEF StorageStep, Callers
<1> QED
    BY <1>1, <1>5, <1>6, <1>7, <1>8

\* Leaving, and the sockets.
LEMMA LeavingStorage ==
    ASSUME WebInv, \/ Disconnect \/ SignOut \/ Refused \/ ReleaseWorkspace \/ Restore
                   \/ \E k \in Sockets : Ticket(k) \/ SocketOpens(k) \/ SocketEnds(k)
    PROVE  StorageStep
<1>1. CASE Disconnect \/ SignOut
    BY <1>1 DEF Disconnect, SignOut, SignsOut, JoinRestoration, Invalidate, Use, Keep, Idles,
                Reads, Clears,
                Stale, StorageStep
<1>2. CASE Refused
    BY <1>2 DEF Refused, Invalidate, Use, Clears, StorageStep
<1>3. CASE ReleaseWorkspace
    BY <1>3 DEF ReleaseWorkspace, Use, storage, history, Idles, Stale, StorageStep
<1>4. CASE Restore
    BY <1>4 DEF Restore, history, Reads, StorageStep
<1>5. ASSUME NEW k \in Sockets, Ticket(k) \/ SocketOpens(k) \/ SocketEnds(k) PROVE Idles
  <2>1. k # "restoration"
      BY NamesAssumption DEF Tasks
  <2> QED
      BY <1>5, <2>1 DEF Ticket, SocketOpens, SocketEnds, storage, history, Idles, Stale
<1> QED
    BY <1>1, <1>2, <1>3, <1>4, <1>5 DEF StorageStep

\* Every step but a reload does one of these things to the storage.
LEMMA NextStorage ==
    ASSUME WebInv, WebNext
    PROVE  StorageStep \/ Reload
<1>1. CASE Waiters
    BY <1>1, WaitersStorage
<1>2. CASE Others
    BY <1>2, RunsStorage, ConnectStorage, PrepareStorage, SwitchStorage, LeavingStorage
       DEF Others, StorageStep
<1> QED
    BY <1>1, <1>2 DEF WebNext

\* The storage operations keep their types, and the load its restoration.
LEMMA NextWaiting ==
    ASSUME WebInv, WebNext
    PROVE  waiting' \subseteq Callers \cup {"disconnect", "signout"}
<1>1. waiting \subseteq Callers \cup {"disconnect", "signout"}
    BY DEF WebInv, WebTypes, StorageTypes
<1>2. CASE UNCHANGED waiting \/ waiting' \subseteq waiting
    BY <1>1, <1>2
<1>3. CASE \E c \in Callers \cup {"disconnect", "signout"} : JoinRestoration(c)
    BY <1>1, <1>3 DEF JoinRestoration
<1>4. CASE Waiters
    BY <1>1, <1>4 DEF Waiters, Restored, Disconnects, SignOutGoesOn, Proceeds
<1>5. CASE OpenPage \/ PrepareSwitch \/ Disconnect \/ SignOut
  <2>1. \/ \E c \in Callers \cup {"disconnect", "signout"} : JoinRestoration(c)
        \/ UNCHANGED waiting
      BY <1>5 DEF OpenPage, PrepareSwitch, Enters, Disconnect, SignOut, SignsOut, storage, Callers
  <2> QED
      BY <1>2, <1>3, <2>1
<1>6. CASE Others /\ ~(OpenPage \/ PrepareSwitch \/ Disconnect \/ SignOut)
  <2>1. ASSUME NEW a \in Attempts,
               \/ Connect(a) \/ PairFails(a) \/ CliTicket(a) \/ Opened(a) \/ OpenFails(a)
               \/ \E s \in Tokens : Paired(a, s)
        PROVE  UNCHANGED waiting
      BY <2>1 DEF Connect, PairFails, CliTicket, Opened, OpenFails, Paired, storage
  <2>2. ASSUME \/ Stored \/ SaveFails \/ Cleared \/ ClearFails \/ LoadFails
               \/ \E valid \in BOOLEAN : Loaded(valid)
        PROVE  waiting' \subseteq waiting
      BY <2>2 DEF Stored, SaveFails, Cleared, ClearFails, LoadFails, Loaded
  <2>3. ASSUME \/ PageFails \/ ReopenInContainer \/ ContainerStarts \/ ContainerFails \/ Confirmed
               \/ ReopenOnHost \/ Switched \/ SwitchFails
               \/ \E p \in Callers : Checked(p) \/ \E s \in Tokens : Authorized(p, s)
        PROVE  UNCHANGED waiting
      BY <2>3 DEF PageFails, ReopenInContainer, ContainerStarts, ContainerFails, Confirmed,
                  SwitchTo,
                  ReopenOnHost, Switched, SwitchFails, Checked, Authorized, storage
  <2>4. ASSUME \/ Refused \/ ReleaseWorkspace \/ Restore \/ Reload
               \/ \E k \in Sockets : Ticket(k) \/ SocketOpens(k) \/ SocketEnds(k)
        PROVE  waiting' \subseteq waiting
      BY <2>4 DEF Refused, ReleaseWorkspace, Restore, Reload, Ticket, SocketOpens, SocketEnds,
                  storage
  <2> QED
      BY <1>2, <1>6, <2>1, <2>2, <2>3, <2>4 DEF Others
<1> QED
    BY <1>4, <1>5, <1>6 DEF WebNext

\* Hence the types of the storage.
LEMMA NextStorageTypes ==
    ASSUME WebInv, WebNext
    PROVE  StorageTypes'
<1>1. StorageTypes /\ waiting' \subseteq Callers \cup {"disconnect", "signout"}
    BY NextWaiting DEF WebInv, WebTypes
<1>2. CASE Idles
    BY <1>1, <1>2 DEF Idles, StorageTypes, Loads
<1>3. CASE Clears
    BY <1>1, <1>3, ClearAndLoad, AppendTypes DEF Clears
<1>4. CASE Reads
    BY <1>1, <1>4, LoadTypes DEF Reads
<1>5. CASE Runs
  <2>1. Head(queue).op = "save" => Head(queue).what \in Options
      BY <1>1, <1>5, TailLoads DEF Runs, StorageTypes, Ops
  <2>2. saved' \in Options \cup {None}
      BY <1>1, <1>5, <2>1 DEF Runs, StorageTypes
  <2> QED
      BY <1>1, <1>5, <2>2, TailTypes DEF Runs, Stale
<1>6. ASSUME NEW o \in Options, NEW by \in Callers \cup {None}, Saves(o, by) PROVE StorageTypes'
  <2> DEFINE op == [op |-> "save", what |-> [o EXCEPT !.from = "restored"], by |-> by]
  <2>1. op \in Ops /\ op.op # "load"
      BY OptionsFields
  <2>2. queue' = Append(queue, op) /\ UNCHANGED <<saved, restoring>>
      BY <1>6 DEF Saves, Save
  <2> QED
      BY <1>1, <2>1, <2>2, AppendTypes
<1>7. CASE Reload
  <2>1. queue' = <<>> /\ restoring' = FALSE /\ UNCHANGED saved
      BY <1>7 DEF Reload
  <2>2. Loads' = {} /\ queue' \in Seq(Ops)
      BY <2>1 DEF Loads
  <2> QED
      BY <1>1, <2>1, <2>2 DEF StorageTypes
<1> QED
    BY <1>2, <1>3, <1>4, <1>5, <1>6, <1>7, NextStorage DEF StorageStep

\* What is stored stays what a gateway gave.
LEMMA NextStoredKnown ==
    ASSUME WebInv, WebNext, used \subseteq used'
    PROVE  StoredKnown' /\ (saved' # None => saved'.session \in used')
<1>0. DOMAIN queue = 1 .. Len(queue) /\ Len(queue) \in Nat /\ queue \in Seq(Ops)
    BY DEF WebInv, WebTypes, StorageTypes
<1>1. /\ saved # None => saved.session \in used /\ saved.from = "restored"
      /\ \A i \in 1 .. Len(queue) : queue[i].op = "save" =>
            queue[i].what.session \in used /\ queue[i].what.from = "restored"
    BY <1>0 DEF WebInv, StoredKnown, OptionsKnown
<1>2. ASSUME NEW op \in Ops, queue' = Append(queue, op), UNCHANGED saved,
             op.op = "save" => op.what.session \in used' /\ op.what.from = "restored"
      PROVE  StoredKnown' /\ (saved' # None => saved'.session \in used')
  <2>1. /\ DOMAIN queue' = 1 .. (Len(queue) + 1)
        /\ queue'[Len(queue) + 1] = op /\ \A i \in 1 .. Len(queue) : queue'[i] = queue[i]
      BY <1>0, <1>2
  <2>2. ASSUME NEW i \in 1 .. (Len(queue) + 1) PROVE i = Len(queue) + 1 \/ i \in 1 .. Len(queue)
      BY <1>0
  <2> QED
      BY <1>1, <1>2, <2>1, <2>2 DEF StoredKnown
<1>3. CASE Idles
    BY <1>0, <1>1, <1>3 DEF Idles, StoredKnown
<1>4. CASE Clears \/ Reads
    BY <1>2, <1>4, ClearAndLoad DEF Clears, Reads
<1>5. CASE Runs
  <2>1. /\ Head(queue) = queue[1] /\ 1 \in 1 .. Len(queue)
        /\ DOMAIN queue' = 1 .. Len(queue')
        /\ \A i \in 1 .. Len(queue') : i + 1 \in 1 .. Len(queue) /\ queue'[i] = queue[i + 1]
      BY <1>0, <1>5, TailLoads DEF Runs
  <2> QED
      BY <1>1, <1>5, <2>1 DEF Runs, StoredKnown
<1>6. ASSUME NEW o \in Options, NEW by \in Callers \cup {None}, Saves(o, by)
      PROVE  StoredKnown' /\ (saved' # None => saved'.session \in used')
    BY <1>2, <1>6, OptionsFields DEF Saves, Save
<1>7. CASE Reload
    BY <1>1, <1>7 DEF Reload, StoredKnown
<1> QED
    BY <1>3, <1>4, <1>5, <1>6, <1>7, NextStorage DEF StorageStep

\* What is given up, by then or now, is not left by the storage.
LEMMA NextSwept ==
    ASSUME WebInv, WebNext, ~overrode, ~overrode', NEW s \in forgotten'
    PROVE  /\ Swept(s, Len(queue))'
           /\ "restoration" \in fresh' => \A i \in Loads' : Swept(s, i)'
<1>0. queue \in Seq(Ops) /\ Loads \subseteq 1 .. Len(queue) /\ (restoring <=> Loads # {})
    BY DEF WebInv, WebTypes, StorageTypes, Loads
<1>1. PICK n \in Nat : n = Len(queue)
    BY <1>0
<1>2. s \in forgotten => /\ Swept(s, n)
                         /\ "restoration" \in fresh => \A i \in Loads : Swept(s, i)
    BY <1>1 DEF WebInv, GivenUpSwept
<1>3. CASE Idles
    BY <1>1, <1>2, <1>3 DEF Idles, Stale, Swept, Holds, Loads
<1>4. CASE Clears
  <2>1. Swept(s, n + 1)' /\ Len(queue') = n + 1
      BY <1>0, <1>1, <1>4, ClearAndLoad, ClearSwept, AppendLoads DEF Clears
  <2> QED
      BY <1>4, <2>1 DEF Clears, Swept
<1>5. CASE Reads
  <2>1. s \in forgotten
      BY <1>5 DEF Reads
  <2>2. Swept(s, n + 1)' /\ Len(queue') = n + 1 /\ Loads' = {n + 1}
      BY <1>0, <1>1, <1>2, <1>5, <2>1, ClearAndLoad, LastSwept, AppendLoads DEF Reads
  <2> QED
      BY <2>2 DEF Swept
<1>6. ASSUME NEW o \in Options, NEW by \in Callers \cup {None}, Saves(o, by)
      PROVE  /\ Swept(s, Len(queue))'
             /\ "restoration" \in fresh' => \A i \in Loads' : Swept(s, i)'
  <2> DEFINE op == [op |-> "save", what |-> [o EXCEPT !.from = "restored"], by |-> by]
  <2>1. op \in Ops /\ op.op = "save" /\ op.what.session = o.session
      BY OptionsFields
  <2>2. queue' = Append(queue, op) /\ saved' = saved /\ s \in forgotten /\ o.session # s /\ Stale
      BY <1>6 DEF Saves, Save
  <2>3. Swept(s, n + 1)' /\ Len(queue') = n + 1 /\ Loads' = Loads
      BY <1>0, <1>1, <1>2, <2>1, <2>2, LastSwept, AppendLoads
  <2>4. ASSUME "restoration" \in fresh', NEW i \in Loads PROVE Swept(s, i)'
    <3>1. i \in 0 .. Len(queue) /\ Swept(s, i)
        BY <1>0, <1>1, <1>2, <2>2, <2>4 DEF Stale
    <3> QED
        BY <1>0, <2>1, <2>2, <3>1, AppendSwept
  <2> QED
      BY <2>3, <2>4 DEF Swept
<1>7. CASE Runs
  <2>1. /\ s \in forgotten /\ queue # <<>> /\ queue' = Tail(queue)
        /\ \/ saved' = None
           \/ Head(queue).op = "save" /\ saved' = Head(queue).what
           \/ saved' = saved /\ (Head(queue).op # "clear" \/ ~Holds(0, s))
      BY <1>7 DEF Runs
  <2>2. n \in 1 .. Len(queue) /\ Len(queue') = n - 1
      BY <1>0, <1>1, <2>1
  <2>3. Swept(s, n - 1)'
      BY <1>0, <1>2, <2>1, <2>2, PopSwept
  <2>4. ASSUME "restoration" \in fresh', NEW i \in Loads' PROVE Swept(s, i)'
    <3>1. i \in Nat /\ i + 1 \in Loads
        BY <1>0, <2>1, TailLoads DEF Loads
    <3>2. i + 1 \in 1 .. Len(queue) /\ (i + 1) - 1 = i
        BY <1>0, <3>1
    <3>3. "restoration" \in fresh
        BY <1>7, <2>4 DEF Runs, Stale
    <3>4. Swept(s, i + 1)
        BY <1>2, <2>1, <3>1, <3>3
    <3>5. Swept(s, (i + 1) - 1)'
        BY <1>0, <2>1, <3>2, <3>4, PopSwept
    <3> QED
        BY <3>2, <3>5 DEF Swept
  <2> QED
      BY <2>2, <2>3, <2>4 DEF Swept
<1>8. CASE Reload
  <2>1. Len(queue') = 0 /\ fresh' = {} /\ saved' = saved /\ s \in forgotten
      BY <1>8 DEF Reload
  <2>2. ~(saved # None /\ saved.session = s)
    <3>1. ASSUME saved # None, saved.session = s PROVE FALSE
      <4>1. 0 \in 0 .. n /\ Holds(0, s)
          BY <3>1 DEF Holds
      <4>2. PICK c \in (0 + 1) .. n : queue[c].op = "clear"
          BY <1>2, <2>1, <4>1 DEF Swept
      <4>3. c \in DOMAIN queue
          BY <1>0, <1>1, <4>2
      <4> QED
          BY <1>8, <3>1, <4>2, <4>3 DEF Reload
    <3> QED
        BY <3>1
  <2>3. \A p \in 0 .. 0 : p = 0
      OBVIOUS
  <2>4. Swept(s, 0)'
      BY <2>1, <2>2, <2>3 DEF Swept, Holds
  <2> QED
      BY <2>1, <2>4 DEF Swept
<1> QED
    BY <1>3, <1>4, <1>5, <1>6, <1>7, <1>8, NextStorage DEF StorageStep

----------------------------------------------------------------------------
(* What a step does to the connection in use, and to what is still fresh.  *)

Remains ==
    /\ UNCHANGED <<options, socket, ticketOf>>
    /\ forgotten' \subseteq forgotten
    /\ fresh' \ fresh \subseteq Attempts \cup {"container"} \cup
                                (IF options = None THEN Callers \cup {"restoration"} ELSE {})

Sets(o, task) ==
    /\ Use(o, task)
    /\ o = None => task = None
    /\ o # None => /\ UNCHANGED forgotten
                   /\ o.session \in used'
                   /\ ~overrode /\ ~overrode' => o.session \notin forgotten

SocketStep(k) == Ticket(k) \/ SocketOpens(k) \/ SocketEnds(k)

ConnectionStep ==
    \/ Remains
    \/ \E o \in Options \cup {None}, task \in Attempts \cup {"container", None} : Sets(o, task)
    \/ \E k \in Sockets : SocketStep(k)

\* What the invariant says of the options in use, and of those the switch came from.
LEMMA InUse ==
    ASSUME WebInv
    PROVE  /\ options # None => /\ options \in Options /\ options.session \in used
                                /\ ~overrode => options.session \notin forgotten
           /\ back # None => back \in Options /\ back.session \in used
           /\ options \in Options \cup {None}
    BY DEF WebInv, WebTypes, ConnectionTypes, SwitchTypes, OptionsKnown, GivenUpSwept, Current

\* To give up the connection is to set none.
LEMMA InvalidateSets ==
    ASSUME Invalidate
    PROVE  ConnectionStep
    BY DEF Invalidate, Sets, ConnectionStep

\* What follows an await of the restoration leaves the connection, or gives it up.
LEMMA WaitersConnection ==
    ASSUME WebInv, Waiters
    PROVE  ConnectionStep
<1>1. CASE Disconnects
    BY <1>1, InvalidateSets DEF Disconnects
<1>2. CASE SignOutGoesOn
  <2>1. CASE Current \cap Accounts # {}
      BY <1>2, <2>1, InvalidateSets DEF SignOutGoesOn, SignsOut
  <2>2. CASE Use(None, None)
      BY <2>2 DEF Sets, ConnectionStep
  <2>3. CASE Keep /\ UNCHANGED forgotten
      BY <2>3 DEF Keep, Remains, ConnectionStep
  <2> QED
      BY <1>2, <2>1, <2>2, <2>3 DEF SignOutGoesOn, SignsOut
<1>3. CASE \E p \in Callers : Restored(p)
    BY <1>3 DEF Restored, Keep, history, Remains, ConnectionStep
<1> QED
    BY <1>1, <1>2, <1>3 DEF Waiters

\* Of the storage operations, a load may set what was saved: it was not given up.
LEMMA RunsConnection ==
    ASSUME WebInv, \/ Stored \/ SaveFails \/ Cleared \/ ClearFails \/ LoadFails
                   \/ \E valid \in BOOLEAN : Loaded(valid)
    PROVE  ConnectionStep
<1>1. CASE Stored \/ SaveFails \/ Cleared \/ ClearFails
    BY <1>1 DEF Stored, SaveFails, Cleared, ClearFails, Keep, history, Remains, ConnectionStep
<1>2. CASE LoadFails
    BY <1>2 DEF LoadFails, Ends, history, Remains, ConnectionStep
<1>3. ASSUME NEW valid \in BOOLEAN, Loaded(valid) PROVE ConnectionStep
  <2>1. CASE ~(saved # None /\ valid /\ "restoration" \in fresh /\ options = None)
      BY <1>3, <2>1 DEF Loaded, Ends, history, Remains, ConnectionStep
  <2>2. CASE saved # None /\ valid /\ "restoration" \in fresh /\ options = None
    <3>1. saved \in Options /\ saved.session \in used
        BY <2>2 DEF WebInv, WebTypes, StorageTypes, OptionsKnown
    <3>2. queue \in Seq(Ops) /\ 1 \in Loads /\ queue[1].op = "load"
        BY <1>3, TailLoads DEF Loaded, Running, WebInv, WebTypes, StorageTypes
    <3>3. ASSUME ~overrode PROVE saved.session \notin forgotten
      <4>1. ASSUME saved.session \in forgotten PROVE FALSE
        <5>1. Swept(saved.session, 1)
            BY <2>2, <3>2, <3>3, <4>1 DEF WebInv, GivenUpSwept
        <5>2. 0 \in 0 .. 1 /\ Holds(0, saved.session)
            BY <2>2 DEF Holds
        <5>3. PICK c \in (0 + 1) .. 1 : queue[c].op = "clear"
            BY <5>1, <5>2 DEF Swept
        <5> QED
            BY <3>2, <5>3, c = 1
      <4> QED
          BY <4>1
    <3>4. Sets(saved, None)
        BY <1>3, <2>2, <3>1, <3>3 DEF Loaded, history, Sets
    <3> QED
        BY <3>1, <3>4 DEF ConnectionStep
  <2> QED
      BY <2>1, <2>2
<1> QED
    BY <1>1, <1>2, <1>3

\* An attempt sets what it was given, and its failure what that replaced.
LEMMA ConnectConnection ==
    ASSUME WebInv, NEW a \in Attempts,
           \/ Connect(a) \/ PairFails(a) \/ CliTicket(a) \/ Opened(a) \/ OpenFails(a)
           \/ \E s \in Tokens : Paired(a, s)
    PROVE  ConnectionStep
<1>1. CASE Connect(a) \/ PairFails(a) \/ CliTicket(a) \/ Opened(a)
    BY <1>1 DEF Connect, PairFails, CliTicket, Opened, Ends, history, Remains, ConnectionStep
<1>2. CASE OpenFails(a) /\ options # given[a]
    BY <1>2 DEF OpenFails, Ends, history, Remains, ConnectionStep
<1>3. CASE OpenFails(a) /\ options = given[a]
  <2>1. given[a] # None /\ previous[a] \in Options \cup {None}
      BY <1>3 DEF OpenFails, WebInv, WebTypes, AttemptTypes, AttemptsKnown
  <2>2. previous[a] # None => previous[a].session \in used
      BY DEF WebInv, AttemptsKnown
  <2>3. ASSUME ~overrode, previous[a] # None PROVE previous[a].session \notin forgotten
      BY <1>3, <2>1, <2>3 DEF WebInv, UndoKept, Undoable
  <2>4. Sets(previous[a], None)
      BY <1>3, <2>2, <2>3 DEF OpenFails, history, Sets
  <2> QED
      BY <2>1, <2>4 DEF ConnectionStep
<1>4. ASSUME NEW s \in Tokens, Paired(a, s) PROVE ConnectionStep
  <2> DEFINE o == [session |-> s, boxed |-> FALSE, from |-> "paired"]
  <2>1. o \in Options /\ o.session = s
      BY DEF Options
  <2>2. s \in used' /\ s \notin used /\ UNCHANGED forgotten /\ s \notin forgotten
      BY <1>4 DEF Paired, NewSession, WebInv, WebTypes, HistoryTypes
  <2>3. given'[a] = o
      BY <1>4 DEF Paired, WebInv, WebTypes, AttemptTypes
  <2>4. Use(o, a)
      BY <1>4, <2>3 DEF Paired, Use
  <2>5. Sets(o, a)
      BY <2>1, <2>2, <2>4, OptionsFields DEF Sets
  <2> QED
      BY <2>1, <2>5 DEF ConnectionStep
<1> QED
    BY <1>1, <1>2, <1>3, <1>4

\* A page leaves the connection, or sets what the account's grant gave.
LEMMA PrepareConnection ==
    ASSUME WebInv, \/ OpenPage \/ PrepareSwitch \/ PageFails
                   \/ \E p \in Callers : Checked(p) \/ \E s \in Tokens : Authorized(p, s)
    PROVE  ConnectionStep
<1>1. CASE OpenPage \/ PrepareSwitch
    BY <1>1 DEF OpenPage, PrepareSwitch, Enters, JoinRestoration, Keep, history, Remains,
                ConnectionStep
<1>2. CASE PageFails
    BY <1>2 DEF PageFails, Ends, history, Remains, ConnectionStep
<1>3. ASSUME NEW p \in Callers, Checked(p) PROVE Remains
    BY <1>3 DEF Checked, Keep, history, Remains
<1>4. ASSUME NEW p \in Callers, NEW s \in Tokens, Authorized(p, s) PROVE ConnectionStep
  <2> DEFINE o == [session |-> s, boxed |-> FALSE, from |-> "paired"]
  <2>1. o \in Options /\ o.session = s
      BY DEF Options
  <2>2. s \in used' /\ s \notin used /\ UNCHANGED forgotten /\ s \notin forgotten
      BY <1>4 DEF Authorized, NewSession, WebInv, WebTypes, HistoryTypes
  <2>3. Sets(o, None)
      BY <1>4, <2>1, <2>2 DEF Authorized, Sets
  <2> QED
      BY <2>1, <2>3 DEF ConnectionStep
<1> QED
    BY <1>1, <1>2, <1>3, <1>4 DEF ConnectionStep

\* The switch sets the session it came from.
LEMMA SwitchConnection ==
    ASSUME WebInv, \/ ReopenInContainer \/ ContainerStarts \/ ContainerFails \/ Confirmed
                   \/ ReopenOnHost \/ Switched \/ SwitchFails
    PROVE  ConnectionStep
<1>1. CASE ReopenInContainer \/ ContainerStarts \/ ContainerFails \/ Switched
    BY <1>1 DEF ReopenInContainer, ContainerStarts, ContainerFails, Switched, Ends, history,
                Remains, ConnectionStep
<1>2. ASSUME NEW boxed2 \in BOOLEAN, SwitchTo(boxed2), back' \in Options,
             UNCHANGED <<used, forgotten>>, back'.session \in used,
             ~overrode /\ ~overrode' => back'.session \notin forgotten
      PROVE  ConnectionStep
  <2> DEFINE o == [back' EXCEPT !.boxed = boxed2, !.from = "switched"]
  <2>1. o \in Options /\ o.session = back'.session
      BY <1>2 DEF Options
  <2>2. o # None
      BY <2>1, AbsentAssumption
  <2>3. Sets(o, "container")
      BY <1>2, <2>1, <2>2 DEF SwitchTo, Sets
  <2> QED
      BY <2>1, <2>3 DEF ConnectionStep
<1>3. CASE Confirmed
  <2>1. back \in Options /\ back.session \in used
      BY <1>3, InUse DEF Confirmed, WebInv, SwitchFresh
  <2>2. ~overrode /\ ~overrode' => back.session \notin forgotten
      BY <1>3, <2>1, InUse, OptionsFields DEF Confirmed
  <2> QED
      BY <1>2, <1>3, <2>1, <2>2 DEF Confirmed
<1>4. CASE ReopenOnHost
    BY <1>2, <1>4, InUse DEF ReopenOnHost, history
<1>5. CASE SwitchFails /\ "container" \notin fresh
    BY <1>5 DEF SwitchFails, Ends, history, Remains, ConnectionStep
<1>6. CASE SwitchFails /\ "container" \in fresh
  <2>1. back \in Options /\ back.session \in used /\ options # None /\ options.session = back.session
      BY <1>6, InUse DEF SwitchFails, WebInv, SwitchFresh
  <2>2. Sets(back, None)
      BY <1>6, <2>1, InUse DEF SwitchFails, history, Sets
  <2> QED
      BY <2>1, <2>2 DEF ConnectionStep
<1> QED
    BY <1>1, <1>3, <1>4, <1>5, <1>6

\* What is left is given up, or stays in a new generation.
LEMMA LeavingConnection ==
    ASSUME WebInv, \/ Disconnect \/ SignOut \/ Refused \/ ReleaseWorkspace \/ Restore
                   \/ \E k \in Sockets : SocketStep(k)
    PROVE  ConnectionStep
<1>1. CASE Disconnect
  <2>1. CASE Invalidate
      BY <2>1, InvalidateSets
  <2>2. CASE options = None
      BY <1>1, <2>2 DEF Disconnect, JoinRestoration, Remains, ConnectionStep
  <2> QED
      BY <1>1, <2>1, <2>2 DEF Disconnect
<1>2. CASE SignOut
  <2>1. CASE Invalidate
      BY <2>1, InvalidateSets
  <2>2. CASE options = None
      BY <1>2, <2>2 DEF SignOut, JoinRestoration, Remains, ConnectionStep
  <2>3. CASE Keep /\ UNCHANGED forgotten
      BY <2>3 DEF Keep, Remains, ConnectionStep
  <2> QED
      BY <1>2, <2>1, <2>2, <2>3 DEF SignOut, SignsOut
<1>3. CASE Refused
    BY <1>3, InvalidateSets DEF Refused
<1>4. CASE ReleaseWorkspace
  <2>1. Sets(options, None)
      BY <1>4, InUse DEF ReleaseWorkspace, history, Sets
  <2> QED
      BY <2>1, InUse DEF ConnectionStep
<1>5. CASE Restore
    BY <1>5 DEF Restore, history, Remains, ConnectionStep
<1> QED
    BY <1>1, <1>2, <1>3, <1>4, <1>5 DEF ConnectionStep

\* Every step but a reload leaves the generation, sets a new one, or is a socket's.
LEMMA NextConnection ==
    ASSUME WebInv, WebNext
    PROVE  ConnectionStep \/ Reload
<1>1. CASE Waiters
    BY <1>1, WaitersConnection
<1>2. CASE Others
    BY <1>2, RunsConnection, ConnectConnection, PrepareConnection, SwitchConnection,
       LeavingConnection
       DEF Others, SocketStep
<1> QED
    BY <1>1, <1>2 DEF WebNext

----------------------------------------------------------------------------
(* The parts of the invariant, one after the other.                        *)

\* The types of the connection.
LEMMA NextConnectionTypes ==
    ASSUME WebInv, WebNext
    PROVE  ConnectionTypes'
<1>1. ConnectionTypes
    BY DEF WebInv, WebTypes
<1>2. CASE Remains
    BY <1>1, <1>2 DEF Remains, ConnectionTypes, Tasks
<1>3. ASSUME NEW o \in Options \cup {None}, NEW task \in Attempts \cup {"container", None},
             Sets(o, task)
      PROVE  ConnectionTypes'
  <2>1. options' \in Options \cup {None}
      BY <1>3 DEF Sets, Use
  <2>2. fresh' \subseteq Attempts \cup Sockets \cup Tasks
      BY <1>3 DEF Sets, Use, Tasks
  <2>3. socket' \in [Sockets -> {"none", "ticketing", "open"}]
        /\ ticketOf' \in [Sockets -> Options \cup {None}]
      BY <1>1, <1>3 DEF Sets, Use, CloseSockets, ConnectionTypes
  <2> QED
      BY <2>1, <2>2, <2>3 DEF ConnectionTypes
<1>4. ASSUME NEW k \in Sockets, SocketStep(k) PROVE ConnectionTypes'
    BY <1>1, <1>4 DEF SocketStep, Ticket, SocketOpens, SocketEnds, ConnectionTypes
<1>5. CASE Reload
    BY <1>5 DEF Reload, ConnectionTypes
<1> QED
    BY <1>2, <1>3, <1>4, <1>5, NextConnection DEF ConnectionStep

\* The history only grows by what a gateway gives.
LEMMA NextUsed ==
    ASSUME WebInv, WebNext
    PROVE  /\ used \subseteq used' /\ used' \subseteq Tokens /\ forgotten' \subseteq used'
           /\ overrode' \in BOOLEAN /\ (overrode => overrode')
<1>1. used \subseteq Tokens /\ forgotten \subseteq used /\ overrode \in BOOLEAN
      /\ Current \subseteq used
    BY InUse DEF WebInv, WebTypes, HistoryTypes, Current
<1>2. /\ used' = used \/ \E s \in Tokens : used' = used \cup {s}
      /\ overrode' = overrode \/ Confirmed
  <2>1. CASE Waiters
      BY <2>1 DEF Waiters, Restored, Disconnects, SignOutGoesOn, history
  <2>2. ASSUME NEW a \in Attempts,
               \/ Connect(a) \/ PairFails(a) \/ CliTicket(a) \/ Opened(a) \/ OpenFails(a)
               \/ \E s \in Tokens : Paired(a, s)
        PROVE  overrode' = overrode /\ (used' = used \/ \E s \in Tokens : used' = used \cup {s})
      BY <2>2 DEF Connect, PairFails, CliTicket, Opened, OpenFails, Paired, NewSession, history
  <2>3. CASE \/ Stored \/ SaveFails \/ Cleared \/ ClearFails \/ LoadFails
             \/ \E valid \in BOOLEAN : Loaded(valid)
      BY <2>3 DEF Stored, SaveFails, Cleared, ClearFails, LoadFails, Loaded, history
  <2>4. CASE \/ OpenPage \/ PrepareSwitch \/ PageFails
             \/ \E p \in Callers : Checked(p) \/ \E s \in Tokens : Authorized(p, s)
      BY <2>4 DEF OpenPage, PrepareSwitch, PageFails, Checked, Authorized, NewSession, history
  <2>5. CASE \/ ReopenInContainer \/ ContainerStarts \/ ContainerFails \/ Confirmed
             \/ ReopenOnHost \/ Switched \/ SwitchFails
      BY <2>5 DEF ReopenInContainer, ContainerStarts, ContainerFails, Confirmed, ReopenOnHost,
                  Switched, SwitchFails, history
  <2>6. CASE \/ Disconnect \/ SignOut \/ Refused \/ ReleaseWorkspace \/ Restore \/ Reload
             \/ \E k \in Sockets : Ticket(k) \/ SocketOpens(k) \/ SocketEnds(k)
      BY <2>6 DEF Disconnect, SignOut, Refused, ReleaseWorkspace, Restore, Reload,
                  Ticket, SocketOpens, SocketEnds, history
  <2> QED
      BY <2>1, <2>2, <2>3, <2>4, <2>5, <2>6 DEF WebNext, Others
<1>3. forgotten' \subseteq forgotten \cup Current
  <2>1. CASE StorageStep
      BY <2>1 DEF StorageStep, Idles, Clears, Reads, Runs, Saves
  <2>2. CASE Reload
      BY <2>2 DEF Reload
  <2> QED
      BY <2>1, <2>2, NextStorage
<1>4. overrode' \in BOOLEAN /\ (overrode => overrode')
  <2>1. CASE Confirmed
      BY <1>1, <2>1, Zenon DEF Confirmed
  <2> QED
      BY <1>1, <1>2, <2>1
<1> QED
    BY <1>1, <1>2, <1>3, <1>4

\* The types of the attempts.
LEMMA NextAttemptTypes ==
    ASSUME WebInv, WebNext
    PROVE  AttemptTypes'
<1>1. AttemptTypes /\ options \in Options \cup {None}
    BY DEF WebInv, WebTypes, ConnectionTypes
<1>2. CASE UNCHANGED attempts
    BY <1>1, <1>2 DEF attempts, AttemptTypes
<1>3. ASSUME NEW a \in Attempts, NEW s \in Tokens, Paired(a, s) PROVE AttemptTypes'
  <2>1. [session |-> s, boxed |-> FALSE, from |-> "paired"] \in Options
      BY DEF Options
  <2> QED
      BY <1>1, <1>3, <2>1 DEF Paired, DoneBy, AttemptTypes
<1>4. ASSUME NEW a \in Attempts,
             Connect(a) \/ PairFails(a) \/ CliTicket(a) \/ Opened(a) \/ OpenFails(a)
      PROVE  AttemptTypes'
    BY <1>1, <1>4 DEF Connect, PairFails, CliTicket, Opened, OpenFails, Returns, DoneBy,
                      AttemptTypes
<1>5. CASE Reload
    BY <1>5 DEF Reload, AttemptTypes
<1>6. ASSUME UNCHANGED <<connect, given, previous>>,
             newest' \in Attempts \cup Callers \cup {"signout", None}
      PROVE  AttemptTypes'
    BY <1>1, <1>6 DEF AttemptTypes
<1>7. CASE \/ PageFails \/ SwitchFails \/ SignOut
           \/ \E p \in Callers : Checked(p) \/ \E s \in Tokens : Authorized(p, s)
    BY <1>1, <1>6, <1>7 DEF PageFails, SwitchFails, SignOut, Checked, Authorized, DoneBy,
                            AttemptTypes
<1>8. CASE Waiters
    BY <1>2, <1>8 DEF Waiters, Restored, Disconnects, SignOutGoesOn
<1>9. CASE \/ Stored \/ SaveFails \/ Cleared \/ ClearFails \/ LoadFails
           \/ \E valid \in BOOLEAN : Loaded(valid)
    BY <1>2, <1>9 DEF Stored, SaveFails, Cleared, ClearFails, LoadFails, Loaded
<1>10. CASE \/ OpenPage \/ PrepareSwitch \/ ReopenInContainer \/ ContainerStarts \/ ContainerFails
            \/ Confirmed \/ ReopenOnHost \/ Switched
    BY <1>2, <1>10 DEF OpenPage, PrepareSwitch, ReopenInContainer, ContainerStarts, ContainerFails,
                       Confirmed, ReopenOnHost, SwitchTo, Switched
<1>11. CASE \/ Disconnect \/ Refused \/ ReleaseWorkspace \/ Restore
            \/ \E k \in Sockets : Ticket(k) \/ SocketOpens(k) \/ SocketEnds(k)
    BY <1>2, <1>11 DEF Disconnect, Refused, ReleaseWorkspace, Restore, Ticket, SocketOpens,
                       SocketEnds
<1> QED
    BY <1>3, <1>4, <1>5, <1>7, <1>8, <1>9, <1>10, <1>11 DEF WebNext, Others

\* An attempt has options from its pairing to its return.
LEMMA NextAttemptsKnown ==
    ASSUME WebInv, WebNext
    PROVE  AttemptsKnown'
<1>1. AttemptsKnown /\ AttemptTypes /\ used \subseteq used'
    BY NextUsed DEF WebInv, WebTypes
<1>2. CASE UNCHANGED <<connect, given, previous>>
    BY <1>1, <1>2 DEF AttemptsKnown
<1>3. ASSUME NEW a \in Attempts, NEW s \in Tokens, Paired(a, s) PROVE AttemptsKnown'
  <2> DEFINE o == [session |-> s, boxed |-> FALSE, from |-> "paired"]
  <2>0. o \in Options
      BY DEF Options
  <2>1. o # None /\ o.session = s /\ o.from = "paired"
      BY <2>0, OptionsFields
  <2>2. given'[a] = o /\ previous'[a] = options /\ connect'[a] = "ticketing" /\ s \in used'
      BY <1>1, <1>3 DEF Paired, NewSession, AttemptTypes
  <2>3. \A b \in Attempts \ {a} :
            given'[b] = given[b] /\ previous'[b] = previous[b] /\ connect'[b] = connect[b]
      BY <1>1, <1>3 DEF Paired, AttemptTypes
  <2>4. options # None => options.session \in used'
      BY <1>1, InUse
  <2> QED
      BY <1>1, <2>1, <2>2, <2>3, <2>4 DEF AttemptsKnown
<1>4. ASSUME NEW a \in Attempts, Connect(a) \/ PairFails(a) \/ CliTicket(a) PROVE AttemptsKnown'
    BY <1>1, <1>4 DEF Connect, PairFails, CliTicket, AttemptTypes, AttemptsKnown
<1>5. ASSUME NEW a \in Attempts, Returns(a) PROVE AttemptsKnown'
    BY <1>1, <1>5 DEF Returns, AttemptTypes, AttemptsKnown
<1>6. ASSUME NEW a \in Attempts, Opened(a) \/ OpenFails(a) PROVE AttemptsKnown'
    BY <1>5, <1>6 DEF Opened, OpenFails
<1>7. CASE Reload
    BY <1>7 DEF Reload, AttemptsKnown
<1>8. CASE Waiters
    BY <1>2, <1>8 DEF Waiters, Restored, Disconnects, SignOutGoesOn, attempts
<1>9. CASE \/ Stored \/ SaveFails \/ Cleared \/ ClearFails \/ LoadFails
           \/ \E valid \in BOOLEAN : Loaded(valid)
    BY <1>2, <1>9 DEF Stored, SaveFails, Cleared, ClearFails, LoadFails, Loaded, attempts
<1>10. CASE \/ OpenPage \/ PrepareSwitch \/ PageFails
            \/ \E p \in Callers : Checked(p) \/ \E s \in Tokens : Authorized(p, s)
    BY <1>2, <1>10 DEF OpenPage, PrepareSwitch, PageFails, Checked, Authorized, attempts
<1>11. CASE \/ ReopenInContainer \/ ContainerStarts \/ ContainerFails
            \/ Confirmed \/ ReopenOnHost \/ Switched \/ SwitchFails
    BY <1>2, <1>11 DEF ReopenInContainer, ContainerStarts, ContainerFails,
                       Confirmed, ReopenOnHost, SwitchTo, Switched, SwitchFails, attempts
<1>12. CASE \/ Disconnect \/ SignOut \/ Refused \/ ReleaseWorkspace \/ Restore
            \/ \E k \in Sockets : Ticket(k) \/ SocketOpens(k) \/ SocketEnds(k)
    BY <1>2, <1>12 DEF Disconnect, SignOut, Refused, ReleaseWorkspace, Restore,
                       Ticket, SocketOpens, SocketEnds, attempts
<1> QED
    BY <1>3, <1>4, <1>6, <1>7, <1>8, <1>9, <1>10, <1>11, <1>12 DEF WebNext, Others

\* A restoration or a page whose capture counts finds no connection.
LEMMA NextAwaitFresh ==
    ASSUME WebInv, WebNext
    PROVE  AwaitFresh'
<1>1. AwaitFresh
    BY DEF WebInv
<1>2. ASSUME NEW c \in {"restoration"} \cup Callers, c \in fresh' PROVE options' = None
  <2>0. c \notin Attempts \cup Sockets \cup {"container"}
      BY NamesAssumption DEF Tasks, Callers
  <2>1. CASE Remains
      BY <1>1, <1>2, <2>0, <2>1 DEF Remains, AwaitFresh
  <2>2. ASSUME NEW o \in Options \cup {None}, NEW task \in Attempts \cup {"container", None},
             Sets(o, task)
        PROVE  FALSE
      BY <1>2, <2>0, <2>2 DEF Sets, Use
  <2>3. ASSUME NEW k \in Sockets, SocketStep(k) PROVE options' = None
      BY <1>1, <1>2, <2>0, <2>3 DEF SocketStep, Ticket, SocketOpens, SocketEnds, AwaitFresh
  <2>4. ~Reload
      BY <1>2 DEF Reload
  <2> QED
      BY <2>1, <2>2, <2>3, <2>4, NextConnection DEF ConnectionStep
<1>3. ASSUME "restoration" \in fresh' PROVE restoring'
  <2>1. CASE StorageStep
      BY <1>1, <1>3, <2>1 DEF StorageStep, Idles, Clears, Reads, Runs, Saves, Stale, AwaitFresh
  <2>2. ~Reload
      BY <1>3 DEF Reload
  <2> QED
      BY <2>1, <2>2, NextStorage
<1> QED
    BY <1>2, <1>3 DEF AwaitFresh

\* A socket that is open, or may open, has the ticket of the connection in use.
LEMMA NextSocketsFresh ==
    ASSUME WebInv, WebNext
    PROVE  SocketsFresh'
<1>1. SocketsFresh /\ ConnectionTypes
    BY DEF WebInv, WebTypes
<1>2. ASSUME NEW k \in Sockets
      PROVE  /\ socket'[k] = "open" => ticketOf'[k] = options'
             /\ k \in fresh' => socket'[k] = "ticketing" /\ ticketOf'[k] = options'
  <2>0. k \notin Attempts \cup Callers \cup {"container", "restoration"}
      BY NamesAssumption DEF Tasks
  <2>1. CASE Remains
      BY <1>1, <2>0, <2>1 DEF Remains, SocketsFresh
  <2>2. ASSUME NEW o \in Options \cup {None}, NEW task \in Attempts \cup {"container", None},
             Sets(o, task)
        PROVE  socket'[k] # "open" /\ k \notin fresh'
      BY <2>0, <2>2 DEF Sets, Use, CloseSockets
  <2>3. ASSUME NEW k2 \in Sockets, SocketStep(k2)
        PROVE  /\ socket'[k] = "open" => ticketOf'[k] = options'
               /\ k \in fresh' => socket'[k] = "ticketing" /\ ticketOf'[k] = options'
      BY <1>1, <2>3 DEF SocketStep, Ticket, SocketOpens, SocketEnds, SocketsFresh, ConnectionTypes
  <2>4. CASE Reload
      BY <2>4 DEF Reload
  <2> QED
      BY <2>1, <2>2, <2>3, <2>4, NextConnection DEF ConnectionStep
<1> QED
    BY <1>2 DEF SocketsFresh

\* The switch, and what it came from.
LEMMA NextSwitchTypes ==
    ASSUME WebInv, WebNext
    PROVE  SwitchTypes'
<1>1. SwitchTypes /\ options \in Options \cup {None}
    BY DEF WebInv, WebTypes, ConnectionTypes
<1>2. CASE UNCHANGED switching
    BY <1>1, <1>2 DEF switching, SwitchTypes
<1>3. CASE Stored \/ SaveFails
    BY <1>1, <1>3 DEF Stored, SaveFails, SwitchTypes
<1>4. CASE \/ OpenPage \/ PrepareSwitch \/ PageFails \/ \E p \in Callers : Restored(p) \/ Checked(p)
    BY <1>1, <1>4 DEF OpenPage, PrepareSwitch, PageFails, Restored, Checked, Enters, SwitchTypes
<1>5. ASSUME NEW p \in Callers, NEW s \in Tokens, Authorized(p, s) PROVE SwitchTypes'
    BY <1>1, <1>5 DEF Authorized, SwitchTypes
<1>6. CASE ReopenInContainer \/ ContainerStarts \/ ContainerFails \/ Switched \/ SwitchFails
    BY <1>1, <1>6 DEF ReopenInContainer, ContainerStarts, ContainerFails, Switched,
                      SwitchFails, SwitchTypes
<1>7. CASE Confirmed \/ ReopenOnHost
    BY <1>1, <1>7 DEF Confirmed, ReopenOnHost, SwitchTo, SwitchTypes
<1>8. CASE Reload
    BY <1>8 DEF Reload, SwitchTypes
<1>9. CASE \/ Disconnects \/ SignOutGoesOn \/ Cleared \/ ClearFails \/ LoadFails
           \/ \E valid \in BOOLEAN : Loaded(valid)
    BY <1>2, <1>9 DEF Disconnects, SignOutGoesOn, Cleared, ClearFails, LoadFails, Loaded
<1>10. ASSUME NEW a \in Attempts,
              \/ Connect(a) \/ PairFails(a) \/ CliTicket(a) \/ Opened(a) \/ OpenFails(a)
              \/ \E s \in Tokens : Paired(a, s)
       PROVE  UNCHANGED switching
    BY <1>10 DEF Connect, PairFails, CliTicket, Opened, OpenFails, Paired
<1>11. CASE \/ Disconnect \/ SignOut \/ Refused \/ ReleaseWorkspace \/ Restore
            \/ \E k \in Sockets : Ticket(k) \/ SocketOpens(k) \/ SocketEnds(k)
    BY <1>2, <1>11 DEF Disconnect, SignOut, Refused, ReleaseWorkspace, Restore,
                       Ticket, SocketOpens, SocketEnds
<1> QED
    BY <1>2, <1>3, <1>4, <1>5, <1>6, <1>7, <1>8, <1>9, <1>10, <1>11 DEF WebNext, Waiters, Others

\* What a step does to the switch: what is fresh of it, and what it came from.
SwitchMoves ==
    \/ /\ UNCHANGED <<switch, back>>
       /\ "container" \in fresh' => "container" \in fresh /\ UNCHANGED options
    \/ Stored \/ SaveFails \/ PrepareSwitch \/ Reload
    \/ ReopenInContainer \/ ContainerStarts \/ ContainerFails \/ Confirmed
    \/ ReopenOnHost \/ Switched \/ SwitchFails

\* Every other step leaves the switch, and sets nothing it would be fresh for.
LEMMA NextSwitch ==
    ASSUME WebInv, WebNext
    PROVE  SwitchMoves
<1>0. "container" \notin Attempts \cup Sockets \cup Callers \cup {"restoration", None}
    BY NamesAssumption, AbsentAssumption DEF Tasks, Callers
<1>1. CASE Waiters
    BY <1>1 DEF Waiters, Restored, Disconnects, SignOutGoesOn, SignsOut, Invalidate, Use, Keep,
                switching,
                SwitchMoves
<1>2. ASSUME NEW a \in Attempts,
             \/ Connect(a) \/ PairFails(a) \/ CliTicket(a) \/ Opened(a) \/ OpenFails(a)
             \/ \E s \in Tokens : Paired(a, s)
      PROVE  SwitchMoves
    BY <1>0, <1>2 DEF Connect, PairFails, CliTicket, Opened, OpenFails, Paired, Use, Ends,
                      switching, SwitchMoves
<1>3. CASE \/ Cleared \/ ClearFails \/ LoadFails \/ \E valid \in BOOLEAN : Loaded(valid)
    BY <1>3 DEF Cleared, ClearFails, LoadFails, Loaded, Use, Ends, Keep, switching, SwitchMoves
<1>4. CASE \/ OpenPage \/ PageFails
           \/ \E p \in Callers : Checked(p) \/ \E s \in Tokens : Authorized(p, s)
    BY <1>0, <1>4 DEF OpenPage, Enters, JoinRestoration, PageFails, Checked, Authorized, Use,
                      Ends, Keep,
                      SwitchMoves
<1>5. CASE Disconnect \/ SignOut
    BY <1>0, <1>5 DEF Disconnect, SignOut, SignsOut, JoinRestoration, Invalidate, Use, Keep,
                      switching,
                      SwitchMoves
<1>6. CASE \/ Refused \/ ReleaseWorkspace \/ Restore
           \/ \E k \in Sockets : Ticket(k) \/ SocketOpens(k) \/ SocketEnds(k)
    BY <1>0, <1>6 DEF Refused, Invalidate, ReleaseWorkspace, Restore, Ticket, SocketOpens,
                      SocketEnds, Use,
                      switching, SwitchMoves
<1> QED
    BY <1>1, <1>2, <1>3, <1>4, <1>5, <1>6 DEF WebNext, Others, SwitchMoves

\* Options that a step sets while the switch is fresh are those of the switch.
LEMMA NextSwitchFresh ==
    ASSUME WebInv, WebNext
    PROVE  SwitchFresh'
<1>1. SwitchFresh /\ SwitchTypes /\ (options # None => options \in Options)
    BY DEF WebInv, WebTypes, ConnectionTypes
<1>2. ASSUME NEW boxed2 \in BOOLEAN, SwitchTo(boxed2), back' \in Options PROVE SwitchFresh'
  <2>1. [back' EXCEPT !.boxed = boxed2, !.from = "switched"] \in Options
      BY <1>2 DEF Options
  <2>2. options' \in Options /\ options'.session = back'.session /\ switch' = "saving"
      BY <1>2, <2>1 DEF SwitchTo, Use, Options
  <2> QED
      BY <1>2, <2>2, OptionsFields DEF SwitchFresh
<1>3. CASE Confirmed
  <2>1. back' \in Options
      BY <1>1, <1>3 DEF Confirmed, SwitchTypes, SwitchFresh
  <2> QED
      BY <1>2, <1>3, <2>1 DEF Confirmed
<1>4. CASE ReopenOnHost
    BY <1>1, <1>2, <1>4 DEF ReopenOnHost
<1>5. CASE ReopenInContainer
    BY <1>1, <1>5 DEF ReopenInContainer, SwitchFresh
<1>6. CASE ContainerStarts \/ ContainerFails \/ Switched
    BY <1>1, <1>6 DEF ContainerStarts, ContainerFails, Switched, Ends, SwitchFresh
<1>7. CASE SwitchFails
    BY <1>1, <1>7 DEF SwitchFails, Use, Ends, SwitchFresh
<1>8. CASE Reload
    BY <1>8 DEF Reload, SwitchFresh
<1>9. CASE PrepareSwitch
  <2>1. UNCHANGED <<options, back>> /\ fresh' \subseteq fresh \cup {"restoration"}
      BY <1>9 DEF PrepareSwitch, Enters, JoinRestoration, Keep
  <2> QED
      BY <1>1, <1>9, <2>1 DEF PrepareSwitch, SwitchFresh
<1>10. CASE Stored \/ SaveFails
  <2>1. UNCHANGED <<options, back, fresh>>
      BY <1>10 DEF Stored, SaveFails, Keep
  <2>2. \/ UNCHANGED switch
        \/ switch = "saving" /\ switch' \in {"preparing", "moving"}
        \/ switch = "returning" /\ switch' = "idle"
      BY <1>10 DEF Stored, SaveFails
  <2> QED
      BY <1>1, <2>1, <2>2 DEF SwitchFresh
<1>11. CASE /\ UNCHANGED <<switch, back>>
            /\ "container" \in fresh' => "container" \in fresh /\ UNCHANGED options
    BY <1>1, <1>11 DEF SwitchFresh
<1> QED
    BY <1>3, <1>4, <1>5, <1>6, <1>7, <1>8, <1>9, <1>10, <1>11, NextSwitch DEF SwitchMoves

\* The sessions that are in use, saved or come back are a gateway's.
LEMMA NextOptionsKnown ==
    ASSUME WebInv, WebNext
    PROVE  OptionsKnown'
<1>1. used \subseteq used'
    BY NextUsed
<1>2. options' # None => options'.session \in used'
  <2>1. CASE ConnectionStep
      BY <1>1, <2>1, InUse DEF ConnectionStep, Remains, Sets, Use, SocketStep, Ticket,
                               SocketOpens, SocketEnds
  <2>2. CASE Reload
      BY <2>2 DEF Reload
  <2> QED
      BY <2>1, <2>2, NextConnection
<1>3. saved' # None => saved'.session \in used'
    BY <1>1, NextStoredKnown
<1>4. back' \in {back, options, None}
    BY NextSwitch DEF SwitchMoves, Stored, SaveFails, PrepareSwitch, Reload, ReopenInContainer,
                      ContainerStarts, ContainerFails, Confirmed, ReopenOnHost, Switched, SwitchFails
<1>5. back' # None => back'.session \in used'
    BY <1>1, <1>4, InUse
<1> QED
    BY <1>2, <1>3, <1>5 DEF OptionsKnown

\* What a gateway has not given up is in use, or comes back: neither an attempt
\* nor the switch brings back what is given up.
LEMMA NextGivenUpSwept ==
    ASSUME WebInv, WebNext, ~overrode, ~overrode'
    PROVE  GivenUpSwept'
<1>1. ASSUME NEW s \in forgotten' PROVE s \notin Current'
  <2>1. s \in forgotten => options = None \/ options.session # s
      BY DEF WebInv, GivenUpSwept, Current
  <2>2. CASE Remains
      BY <1>1, <2>1, <2>2 DEF Remains, Current
  <2>3. ASSUME NEW o \in Options \cup {None}, NEW task \in Attempts \cup {"container", None},
             Sets(o, task)
        PROVE  s \notin Current'
      BY <1>1, <2>3 DEF Sets, Use, Current
  <2>4. ASSUME NEW k \in Sockets, SocketStep(k) PROVE s \notin Current'
      BY <1>1, <2>1, <2>4 DEF SocketStep, Ticket, SocketOpens, SocketEnds, history, Current
  <2>5. CASE Reload
      BY <2>5 DEF Reload, Current
  <2> QED
      BY <2>2, <2>3, <2>4, <2>5, NextConnection DEF ConnectionStep
<1> QED
    BY <1>1, NextSwept DEF GivenUpSwept

\* An attempt is undone once, and what it replaced was in use.
LEMMA UndoStays ==
    ASSUME NEW undo \in SUBSET Attempts, Undoable(undo), forgotten' \subseteq forgotten,
           \A a \in Attempts : \/ given'[a] = given[a] /\ previous'[a] = previous[a]
                               \/ given'[a] = None /\ previous'[a] = None,
           \A a \in Attempts : given'[a] # None =>
                /\ options' = given'[a] => a \in undo
                /\ "container" \in fresh' /\ back' = given'[a] => a \in undo
    PROVE  UndoKept'
<1>1. \A a \in Attempts, b \in undo : given'[a] # None /\ previous'[b] = given'[a] => a \in undo
    BY DEF Undoable
<1>2. \A a \in undo : previous'[a] # None => previous'[a].session \notin forgotten'
    BY DEF Undoable
<1>3. Undoable(undo)'
    BY <1>1, <1>2 DEF Undoable
<1> QED
    BY <1>3 DEF UndoKept

\* Where nothing is set, nothing can be undone.
LEMMA NothingUndone ==
    ASSUME \A a \in Attempts : given'[a] # None =>
                options' # given'[a] /\ "container" \notin fresh'
    PROVE  UndoKept'
<1>1. Undoable({})'
    BY DEF Undoable
<1> QED
    BY <1>1 DEF UndoKept

\* An answer to a pairing: what it replaces is in use.
LEMMA PairedUndo ==
    ASSUME WebInv, ~overrode, NEW a \in Attempts, NEW s \in Tokens, Paired(a, s)
    PROVE  UndoKept'
<1> DEFINE o == [session |-> s, boxed |-> FALSE, from |-> "paired"]
<1>0. AttemptTypes /\ AttemptsKnown /\ UndoKept
    BY DEF WebInv, WebTypes
<1>1. PICK undo \in SUBSET Attempts : Undoable(undo)
    BY <1>0 DEF UndoKept
<1> o \in Options
    BY DEF Options
<1>2. o # None /\ o.session = s /\ s \notin used /\ UNCHANGED forgotten
    BY OptionsFields DEF Paired, NewSession
<1>3. given'[a] = o /\ previous'[a] = options /\ options' = o /\ fresh' = {a} \ {None}
    BY <1>0 DEF Paired, Use, AttemptTypes
<1>4. \A b \in Attempts \ {a} : given'[b] = given[b] /\ previous'[b] = previous[b]
    BY <1>0 DEF Paired, AttemptTypes
<1>5. "container" \notin fresh'
    BY <1>3, NamesAssumption DEF Tasks
<1>6. \A b \in Attempts : /\ given[b] # None => given[b].session \in used
                          /\ previous[b] # None => previous[b].session \in used
    BY <1>0 DEF AttemptsKnown
<1>7. options # None => options.session \notin forgotten /\ options.session \in used
    BY InUse
<1>8. ASSUME NEW b \in Attempts, given'[b] # None
      PROVE  /\ options' = given'[b] => b \in undo \cup {a}
             /\ \A c \in undo \cup {a} : previous'[c] = given'[b] => b \in undo \cup {a}
  <2>1. CASE b = a
      BY <2>1
  <2>2. CASE b # a
    <3>1. given'[b] = given[b] /\ given[b] # o
        BY <1>2, <1>4, <1>6, <1>8, <2>2
    <3>2. ASSUME NEW c \in undo \cup {a}, previous'[c] = given'[b] PROVE b \in undo
        BY <1>1, <1>3, <1>4, <1>8, <3>1, <3>2 DEF Undoable
    <3> QED
        BY <1>3, <3>1, <3>2
  <2> QED
      BY <2>1, <2>2
<1>9. \A b \in undo \cup {a} : previous'[b] # None => previous'[b].session \notin forgotten'
    BY <1>1, <1>2, <1>3, <1>4, <1>7 DEF Undoable
<1>10. Undoable(undo \cup {a})'
    BY <1>5, <1>8, <1>9 DEF Undoable
<1> QED
    BY <1>10 DEF UndoKept

\* Where the options in use come from.
LEMMA NextOptions ==
    ASSUME WebInv, WebNext, options' \notin {None, options}
    PROVE  \/ options'.from # "paired"
           \/ options'.session \notin used /\ UNCHANGED given
           \/ \E a \in Attempts : options = given[a] /\ options' = previous[a] /\ OpenFails(a)
           \/ \E a \in Attempts, s \in Tokens : Paired(a, s)
           \/ "container" \in fresh /\ options' = back /\ UNCHANGED given
<1>1. CASE Waiters
    BY <1>1 DEF Waiters, Restored, Disconnects, SignOutGoesOn, SignsOut, Invalidate, Use, Keep
<1>2. CASE Stored \/ SaveFails \/ Cleared \/ ClearFails \/ LoadFails
    BY <1>2 DEF Stored, SaveFails, Cleared, ClearFails, LoadFails, Ends, Keep
<1>3. ASSUME NEW valid \in BOOLEAN, Loaded(valid) PROVE options'.from # "paired"
    BY <1>3 DEF Loaded, Use, Ends, WebInv, StoredKnown
<1>4. ASSUME NEW a \in Attempts, Connect(a) \/ PairFails(a) \/ CliTicket(a) \/ Opened(a)
      PROVE  FALSE
    BY <1>4 DEF Connect, PairFails, CliTicket, Opened, Ends
<1>5. ASSUME NEW a \in Attempts, OpenFails(a)
      PROVE  options = given[a] /\ options' = previous[a]
    BY <1>5 DEF OpenFails, Use, Ends
<1>6. CASE \/ OpenPage \/ PrepareSwitch \/ PageFails \/ \E p \in Callers : Checked(p)
    BY <1>6 DEF OpenPage, PrepareSwitch, PageFails, Checked, Enters, JoinRestoration, Keep, Ends
<1>7. ASSUME NEW p \in Callers, NEW s \in Tokens, Authorized(p, s)
      PROVE  options'.session \notin used /\ UNCHANGED given
    BY <1>7 DEF Authorized, NewSession, Use
<1>8. CASE ReopenInContainer \/ ContainerStarts \/ ContainerFails \/ Switched
    BY <1>8 DEF ReopenInContainer, ContainerStarts, ContainerFails, Switched, Ends
<1>9. ASSUME Confirmed \/ ReopenOnHost PROVE options'.from # "paired"
  <2>1. back' \in Options
      BY <1>9, InUse DEF Confirmed, ReopenOnHost, WebInv, SwitchFresh
  <2> QED
      BY <1>9, <2>1 DEF Confirmed, ReopenOnHost, SwitchTo, Use, Options
<1>10. ASSUME SwitchFails PROVE "container" \in fresh /\ options' = back /\ UNCHANGED given
    BY <1>10 DEF SwitchFails, Use, Ends
<1>11. CASE \/ Disconnect \/ SignOut \/ Refused \/ ReleaseWorkspace \/ Restore \/ Reload
            \/ \E k \in Sockets : Ticket(k) \/ SocketOpens(k) \/ SocketEnds(k)
    BY <1>11 DEF Disconnect, SignOut, SignsOut, JoinRestoration, Invalidate, Refused,
                 ReleaseWorkspace,
                 Restore, Reload, Ticket, SocketOpens, SocketEnds, Use, Keep
<1> QED
    BY <1>1, <1>2, <1>3, <1>4, <1>5, <1>6, <1>7, <1>8, <1>9, <1>10, <1>11 DEF WebNext, Others

\* Which attempts a step ends.
LEMMA NextAttempts ==
    ASSUME WebInv, WebNext, ~Reload, \A a \in Attempts : \A s \in Tokens : ~Paired(a, s)
    PROVE  \/ UNCHANGED <<given, previous>>
           \/ \E a \in Attempts : Returns(a)
<1>1. CASE Waiters
    BY <1>1 DEF Waiters, Restored, Disconnects, SignOutGoesOn, attempts
<1>2. CASE \/ Stored \/ SaveFails \/ Cleared \/ ClearFails \/ LoadFails
           \/ \E valid \in BOOLEAN : Loaded(valid)
    BY <1>2 DEF Stored, SaveFails, Cleared, ClearFails, LoadFails, Loaded, attempts
<1>3. ASSUME NEW a \in Attempts,
             Connect(a) \/ PairFails(a) \/ CliTicket(a) \/ Opened(a) \/ OpenFails(a)
      PROVE  UNCHANGED <<given, previous>> \/ Returns(a)
    BY <1>3 DEF Connect, PairFails, CliTicket, Opened, OpenFails
<1>4. CASE \/ OpenPage \/ PrepareSwitch \/ PageFails
           \/ \E p \in Callers : Checked(p) \/ \E s \in Tokens : Authorized(p, s)
    BY <1>4 DEF OpenPage, PrepareSwitch, PageFails, Checked, Authorized, attempts
<1>5. CASE \/ ReopenInContainer \/ ContainerStarts \/ ContainerFails
           \/ Confirmed \/ ReopenOnHost \/ Switched \/ SwitchFails
    BY <1>5 DEF ReopenInContainer, ContainerStarts, ContainerFails,
                Confirmed, ReopenOnHost, SwitchTo, Switched, SwitchFails, attempts
<1>6. CASE \/ Disconnect \/ SignOut \/ Refused \/ ReleaseWorkspace \/ Restore
           \/ \E k \in Sockets : Ticket(k) \/ SocketOpens(k) \/ SocketEnds(k)
    BY <1>6 DEF Disconnect, SignOut, Refused, ReleaseWorkspace, Restore,
                Ticket, SocketOpens, SocketEnds, attempts
<1> QED
    BY <1>1, <1>2, <1>3, <1>4, <1>5, <1>6 DEF WebNext, Others

\* Hence what an attempt replaced is not given up as long as it may come back.
LEMMA NextUndoKept ==
    ASSUME WebInv, WebNext, ~overrode, ~overrode'
    PROVE  UndoKept'
<1>1. PICK undo \in SUBSET Attempts : Undoable(undo)
    BY DEF WebInv, UndoKept
<1>2. CASE \E a \in Attempts, s \in Tokens : Paired(a, s)
    BY <1>2, PairedUndo
<1>3. CASE Reload
    BY <1>3, NothingUndone DEF Reload
<1>4. CASE options' = None /\ fresh' = {}
    BY <1>4, NothingUndone
<1>5. CASE /\ ~Reload /\ ~(options' = None /\ fresh' = {})
           /\ \A a \in Attempts : \A s \in Tokens : ~Paired(a, s)
  <2>1. forgotten' \subseteq forgotten
    <3>1. CASE Remains
        BY <3>1 DEF Remains
    <3>2. ASSUME NEW o \in Options \cup {None}, NEW task \in Attempts \cup {"container", None},
             Sets(o, task)
          PROVE  forgotten' \subseteq forgotten
        BY <1>5, <3>2 DEF Sets, Use
    <3>3. ASSUME NEW k \in Sockets, SocketStep(k) PROVE forgotten' \subseteq forgotten
        BY <3>3 DEF SocketStep, Ticket, SocketOpens, SocketEnds, history
    <3> QED
        BY <1>5, <3>1, <3>2, <3>3, NextConnection DEF ConnectionStep
  <2>2. \A a \in Attempts : \/ given'[a] = given[a] /\ previous'[a] = previous[a]
                            \/ given'[a] = None /\ previous'[a] = None
    <3>1. ASSUME NEW a \in Attempts, Returns(a), NEW b \in Attempts
          PROVE  \/ given'[b] = given[b] /\ previous'[b] = previous[b]
                 \/ given'[b] = None /\ previous'[b] = None
        BY <3>1 DEF Returns, WebInv, WebTypes, AttemptTypes
    <3> QED
        BY <1>5, <3>1, NextAttempts
  <2>3. ASSUME NEW a \in Attempts, given'[a] # None, options' = given'[a]
        PROVE  a \in undo
    <3>1. given'[a] = given[a]
        BY <2>2, <2>3
    <3>2. given[a].session \in used /\ given[a].from = "paired"
        BY <2>3, <3>1 DEF WebInv, AttemptsKnown
    <3>3. CASE options' = options
        BY <1>1, <2>3, <3>1, <3>3 DEF Undoable
    <3>4. ASSUME NEW b \in Attempts, options = given[b], options' = previous[b], OpenFails(b)
          PROVE  a \in undo
      <4>1. given[b] # None
          BY <3>4 DEF OpenFails, WebInv, AttemptsKnown
      <4>2. b \in undo
          BY <1>1, <3>4, <4>1 DEF Undoable
      <4> QED
          BY <1>1, <2>3, <3>1, <3>4, <4>2 DEF Undoable
    <3>5. CASE "container" \in fresh /\ options' = back
        BY <1>1, <2>3, <3>1, <3>5 DEF Undoable
    <3> QED
        BY <1>5, <2>3, <3>1, <3>2, <3>3, <3>4, <3>5, NextOptions
  <2>4. ASSUME NEW a \in Attempts, given'[a] # None, "container" \in fresh', back' = given'[a]
        PROVE  a \in undo
    <3>1. given'[a] = given[a]
        BY <2>2, <2>4
    <3>2. CASE "container" \in fresh /\ back' = back
        BY <1>1, <2>4, <3>1, <3>2 DEF Undoable
    <3>3. CASE back' = options
        BY <1>1, <2>4, <3>1, <3>3 DEF Undoable
    <3>4. back' # None
        BY <2>4
    <3>5. CASE Confirmed
      <4>1. options = back
          BY <3>5 DEF Confirmed
      <4> QED
          BY <3>3, <3>5, <4>1 DEF Confirmed
    <3>6. CASE PrepareSwitch \/ Stored \/ SaveFails
      <4>1. "container" \in fresh /\ back' = back
          BY <2>4, <3>6 DEF PrepareSwitch, Enters, JoinRestoration, Stored, SaveFails, Keep
      <4> QED
          BY <3>2, <4>1
    <3>7. CASE ReopenInContainer \/ ReopenOnHost
        BY <3>3, <3>7 DEF ReopenInContainer, ReopenOnHost
    <3>8. ~(ContainerStarts \/ ContainerFails \/ Switched \/ SwitchFails)
        BY <2>4, <3>4 DEF ContainerStarts, ContainerFails, Switched, SwitchFails, Ends
    <3> QED
        BY <1>5, <2>4, <3>2, <3>5, <3>6, <3>7, <3>8, NextSwitch DEF SwitchMoves
  <2> QED
      BY <1>1, <2>1, <2>2, <2>3, <2>4, UndoStays
<1> QED
    BY <1>2, <1>3, <1>4, <1>5

----------------------------------------------------------------------------
(* The invariant, and what follows from it.                                *)

\* The invariant holds when the page loads.
THEOREM InitWebInv == WebInit => WebInv
<1> SUFFICES ASSUME WebInit PROVE WebInv
    OBVIOUS
<1>1. WebTypes
  <2>1. ConnectionTypes /\ AttemptTypes /\ SwitchTypes /\ HistoryTypes
      BY DEF WebInit, ConnectionTypes, AttemptTypes, SwitchTypes, HistoryTypes
  <2>2. Loads = {} /\ queue \in Seq(Ops)
      BY DEF WebInit, Loads
  <2>3. StorageTypes
      BY <2>2 DEF WebInit, StorageTypes
  <2> QED
      BY <2>1, <2>3 DEF WebTypes
<1>2. OptionsKnown /\ AttemptsKnown /\ StoredKnown
    BY DEF WebInit, OptionsKnown, AttemptsKnown, StoredKnown
<1>3. AwaitFresh /\ SocketsFresh /\ SwitchFresh
    BY DEF WebInit, AwaitFresh, SocketsFresh, SwitchFresh
<1>4. GivenUpSwept
    BY DEF WebInit, GivenUpSwept
<1>5. Undoable({})
    BY DEF WebInit, Undoable
<1> QED
    BY <1>1, <1>2, <1>3, <1>4, <1>5 DEF WebInv, UndoKept

\* And every step keeps it.
THEOREM NextWebInv == WebInv /\ [WebNext]_webVars => WebInv'
<1> SUFFICES ASSUME WebInv, [WebNext]_webVars PROVE WebInv'
    OBVIOUS
<1>1. CASE WebNext
  <2>1. HistoryTypes'
      BY <1>1, NextUsed DEF HistoryTypes
  <2>2. WebTypes'
      BY <1>1, <2>1, NextConnectionTypes, NextAttemptTypes, NextStorageTypes,
         NextSwitchTypes DEF WebTypes
  <2>3. OptionsKnown' /\ AttemptsKnown' /\ StoredKnown'
      BY <1>1, NextUsed, NextOptionsKnown, NextAttemptsKnown, NextStoredKnown
  <2>4. AwaitFresh' /\ SocketsFresh' /\ SwitchFresh'
      BY <1>1, NextAwaitFresh, NextSocketsFresh, NextSwitchFresh
  <2>5. ASSUME ~overrode' PROVE GivenUpSwept' /\ UndoKept'
    <3>1. ~overrode
        BY <1>1, <2>5, NextUsed
    <3> QED
        BY <1>1, <2>5, <3>1, NextGivenUpSwept, NextUndoKept
  <2> QED
      BY <2>2, <2>3, <2>4, <2>5 DEF WebInv
<1>2. CASE UNCHANGED webVars
  <2> USE <1>2 DEF webVars, attempts, storage, switching, history
  <2>1. ConnectionTypes' /\ AttemptTypes' /\ StorageTypes' /\ SwitchTypes' /\ HistoryTypes'
      BY DEF WebInv, WebTypes, ConnectionTypes, AttemptTypes, StorageTypes, SwitchTypes,
             HistoryTypes, Loads
  <2>2. OptionsKnown' /\ AttemptsKnown' /\ StoredKnown'
      BY DEF WebInv, OptionsKnown, AttemptsKnown, StoredKnown
  <2>3. AwaitFresh' /\ SocketsFresh' /\ SwitchFresh'
      BY DEF WebInv, AwaitFresh, SocketsFresh, SwitchFresh
  <2>4. ASSUME ~overrode PROVE GivenUpSwept'
      BY <2>4 DEF WebInv, GivenUpSwept, Swept, Holds, Loads, Current
  <2>5. ASSUME ~overrode PROVE UndoKept'
      BY <2>5 DEF WebInv, UndoKept, Undoable
  <2> QED
      BY <2>1, <2>2, <2>3, <2>4, <2>5 DEF WebInv, WebTypes
<1> QED
    BY <1>1, <1>2

\* So it holds of every state of the browser.
THEOREM WebInvHolds == WebSpec => []WebInv
    BY InitWebInv, NextWebInv, PTL DEF WebSpec

\* The browser's connection, its calls, its storage and its switch keep their
\* types; and a restoration is the one load among the storage operations.
THEOREM WebTypesCorrect == WebSpec => []WebTypes
<1>1. WebInv => WebTypes
    BY DEF WebInv
<1> QED
    BY <1>1, WebInvHolds, PTL

\* HeldCurrent: sockets carry the session in use, and what was given up is
\* neither used nor saved in the end (set, invalidate, save, clear).
THEOREM BrowserHeldCurrent == WebSpec => []HeldCurrent
<1>1. WebInv => HeldCurrent
  <2> SUFFICES ASSUME WebInv PROVE HeldCurrent
      OBVIOUS
  <2>1. SocketsCurrent
      BY DEF WebInv, SocketsFresh, SocketsCurrent
  <2>2. ASSUME ~overrode, NEW s \in forgotten
        PROVE  s \notin Current /\ (FinallySaved # None => FinallySaved.session # s)
    <3>1. s \notin Current /\ Swept(s, Len(queue))
        BY <2>2 DEF WebInv, GivenUpSwept
    <3>2. queue \in Seq(Ops) /\ s \in Tokens
        BY <2>2 DEF WebInv, WebTypes, StorageTypes, HistoryTypes
    <3> QED
        BY <3>1, <3>2, SweptFinally
  <2>3. ForgottenGone
      BY <2>2 DEF ForgottenGone, Forgotten
  <2> QED
      BY <2>1, <2>3 DEF HeldCurrent
<1> QED
    BY <1>1, WebInvHolds, PTL

\* NewerKept: what ends late took the connection only if nothing newer was set.
THEOREM BrowserNewerKept == WebSpec => NewerKept
<1> DEFINE A == \/ options = None
                \/ Current' = Current
                \/ options.session \in forgotten'
                \/ newest \in Attempts /\ connect[newest] = "pairing" /\ connect'[newest] = "ticketing"
                \/ \E a \in Attempts : options = given[a] /\ connect'[a] = "idle"
                \/ Reload
                \/ overrode'
<1>1. ASSUME WebInv, [WebNext]_webVars PROVE [A]_webVars
  <2>1. SUFFICES ASSUME WebNext, options # None PROVE A
      BY <1>1
  <2>2. ASSUME options' = options \/ (options' # None /\ options'.session = options.session)
        PROVE  A
      BY <2>1, <2>2 DEF Current
  <2>3. ASSUME Invalidate PROVE A
      BY <2>1, <2>3 DEF Invalidate, Current
  <2>4. CASE Waiters
      BY <2>1, <2>2, <2>3, <2>4 DEF Waiters, Restored, Disconnects, SignOutGoesOn, SignsOut, Keep
  <2>5. CASE \/ Stored \/ SaveFails \/ Cleared \/ ClearFails \/ LoadFails
             \/ \E valid \in BOOLEAN : Loaded(valid)
      BY <2>1, <2>2, <2>5 DEF Stored, SaveFails, Cleared, ClearFails, LoadFails, Loaded, Ends, Keep
  <2>6. ASSUME NEW a \in Attempts, Connect(a) \/ PairFails(a) \/ CliTicket(a) \/ Opened(a) PROVE A
      BY <2>2, <2>6 DEF Connect, PairFails, CliTicket, Opened, Ends
  <2>7. ASSUME NEW a \in Attempts, OpenFails(a) PROVE A
    <3>1. connect'[a] = "idle"
        BY <1>1, <2>7 DEF OpenFails, Returns, WebInv, WebTypes, AttemptTypes
    <3> QED
        BY <2>2, <2>7, <3>1 DEF OpenFails, Ends
  <2>8. ASSUME NEW a \in Attempts, NEW s \in Tokens, Paired(a, s) PROVE A
    <3>1. newest = a /\ connect[a] = "pairing" /\ connect'[a] = "ticketing"
        BY <1>1, <2>8 DEF Paired, WebInv, WebTypes, AttemptTypes
    <3> QED
        BY <3>1
  <2>9. ASSUME NEW p \in Callers, NEW s \in Tokens, Authorized(p, s) PROVE FALSE
      BY <1>1, <2>1, <2>9 DEF Authorized, WebInv, AwaitFresh
  <2>10. CASE OpenPage \/ PrepareSwitch \/ PageFails \/ \E p \in Callers : Checked(p)
      BY <2>1, <2>2, <2>10 DEF OpenPage, PrepareSwitch, PageFails, Checked, Enters, Keep, Ends
  <2>11. CASE ReopenInContainer \/ ContainerStarts \/ ContainerFails \/ Switched
      BY <2>2, <2>11 DEF ReopenInContainer, ContainerStarts, ContainerFails, Switched, Ends
  <2>12. ASSUME NEW boxed2 \in BOOLEAN, SwitchTo(boxed2), back' = options PROVE A
    <3> DEFINE o == [options EXCEPT !.boxed = boxed2, !.from = "switched"]
    <3>1. o \in Options /\ o.session = options.session
        BY <1>1, <2>1, InUse DEF Options
    <3>2. o # None
        BY <3>1, AbsentAssumption
    <3>3. options' = o
        BY <2>12 DEF SwitchTo, Use
    <3> QED
        BY <2>2, <3>1, <3>2, <3>3
  <2>13. CASE Confirmed
    <3>1. CASE options = back
        BY <2>12, <2>13, <3>1 DEF Confirmed
    <3>2. CASE options # back
        BY <2>13, <3>2, Zenon DEF Confirmed
    <3> QED
        BY <3>1, <3>2
  <2>14. CASE ReopenOnHost
      BY <2>12, <2>14 DEF ReopenOnHost
  <2>15. CASE SwitchFails
    <3>1. "container" \in fresh => back # None /\ options.session = back.session
        BY <1>1, <2>15 DEF SwitchFails, WebInv, SwitchFresh
    <3> QED
        BY <2>2, <2>15, <3>1 DEF SwitchFails, Use, Ends
  <2>16. CASE \/ Disconnect \/ SignOut \/ Refused \/ ReleaseWorkspace \/ Restore \/ Reload
              \/ \E k \in Sockets : Ticket(k) \/ SocketOpens(k) \/ SocketEnds(k)
      BY <2>1, <2>2, <2>3, <2>16 DEF Disconnect, SignOut, SignsOut, Refused, ReleaseWorkspace,
                                     Restore,
                                     Ticket, SocketOpens, SocketEnds, Use, Keep
  <2> QED
      BY <2>1, <2>4, <2>5, <2>6, <2>7, <2>8, <2>9, <2>10, <2>11, <2>13, <2>14, <2>15, <2>16
         DEF WebNext, Others
<1> QED
    BY <1>1, WebInvHolds, PTL DEF WebSpec, NewerKept
=============================================================================
