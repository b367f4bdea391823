---------------------------- MODULE PortForwards ----------------------------
(***************************************************************************)
(* The forwarding of one remote port over an ssh connection.  Workspaces   *)
(* of the host share it: the first to ask has ssh listen on a local port,  *)
(* the last to stop has it cancelled, and calls that meet a forward that   *)
(* is being set up or cancelled wait for that.  The entries of different   *)
(* ports are independent.                                                  *)
(*                                                                         *)
(* A step is one call of a workspace, or what runs when the ssh control    *)
(* command of the entry has ended: every call that waits for it resumes,   *)
(* in the order in which they came, before anything else happens.          *)
(*                                                                         *)
(* An operator with a suffix in lower case, as StopShared_always, is a     *)
(* wrong variant of the definition below it, and no part of Spec.          *)
(***************************************************************************)

CONSTANTS Owners,       \* workspace paths
          LocalPorts,
          None

ASSUME NoneAssumption == None \notin LocalPorts

VARIABLES
    closed,     \* the connection has closed
    local,      \* the local port of the entry in forwardedPorts, or None
    owners,     \* entry.owners
    forwarding, \* entry.forwarding: ssh is asked to listen, or listens
    stopping,   \* entry.stopping: waits for forwarding, or ssh is asked to cancel
    joiners,    \* the owners whose forwardPort waits for entry.stopping
    listening,  \* the local ports on which ssh listens
    asking,     \* history: the joiners that have not called stopForwardPort since
    asked,      \* history: those that wait for entry.forwarding, and have not
    held        \* history: those that were given the port, and have not

entry == <<local, owners, forwarding, stopping>>
wishes == <<asking, asked, held>>
vars == <<closed, entry, joiners, listening, wishes>>

\* Types; and an entry has owners, and a forward.
TypeOK ==
    /\ closed \in BOOLEAN
    /\ local \in LocalPorts \cup {None}
    /\ owners \in SUBSET Owners
    /\ forwarding \in {"none", "running", "open"}
    /\ stopping \in {"no", "waiting", "running"}
    /\ joiners \in SUBSET Owners
    /\ listening \in SUBSET LocalPorts
    /\ asking \in SUBSET joiners
    /\ asked \in SUBSET Owners
    /\ held \in SUBSET Owners
    /\ (local = None) <=> (owners = {})
    /\ (local = None) <=> (forwarding = "none")

Init ==
    /\ closed = FALSE
    /\ local = None
    /\ owners = {}
    /\ forwarding = "none"
    /\ stopping = "no"
    /\ joiners = {}
    /\ listening = {}
    /\ asking = {}
    /\ asked = {}
    /\ held = {}

----------------------------------------------------------------------------
(* The entry.                                                              *)

\* A new entry for the first of O; the others find it and join.
Create(O) ==
    /\ local' \in LocalPorts \ listening
    /\ owners' = O
    /\ forwarding' = "running"
    /\ stopping' = "no"

Delete ==
    /\ local' = None
    /\ owners' = {}
    /\ forwarding' = "none"
    /\ stopping' = "no"

\* The calls that waited for the entry are over.
Dismiss == joiners' = {} /\ asking' = {} /\ asked' = {}

----------------------------------------------------------------------------
(* forwardPort.                                                            *)

ForwardNew(o) ==
    /\ ~closed
    /\ local = None
    /\ Create({o})
    /\ asked' = asked \cup {o}
    /\ UNCHANGED <<closed, joiners, listening, asking, held>>

\* The entry is shared: its forward is awaited, or returned at once.
ForwardJoins(o) ==
    /\ ~closed
    /\ local # None
    /\ stopping = "no"
    /\ owners' = owners \cup {o}
    /\ \/ forwarding = "running" /\ asked' = asked \cup {o} /\ UNCHANGED held
       \/ forwarding = "open" /\ held' = held \cup {o} /\ UNCHANGED asked
    /\ UNCHANGED <<closed, local, forwarding, stopping, joiners, listening, asking>>

\* The entry is being stopped: forwardPort starts again afterwards.
ForwardWaits(o) ==
    /\ ~closed
    /\ local # None
    /\ stopping # "no"
    /\ joiners' = joiners \cup {o}
    /\ asking' = asking \cup {o}
    /\ UNCHANGED <<closed, entry, listening, asked, held>>

\* ssh listens.  A stop that waited for this goes on to cancel it.
Opens ==
    /\ ~closed
    /\ forwarding = "running"
    /\ forwarding' = "open"
    /\ listening' = listening \cup {local}
    /\ stopping' = IF stopping = "waiting" THEN "running" ELSE stopping
    /\ held' = held \cup asked
    /\ asked' = {}
    /\ UNCHANGED <<closed, local, owners, joiners, asking>>

\* ssh refuses: the entry goes, and whoever waited for it is rejected.
Fails ==
    /\ forwarding = "running"
    /\ Delete
    /\ Dismiss
    /\ UNCHANGED <<closed, listening, held>>

----------------------------------------------------------------------------
(* stopForwardPort.                                                        *)

StopsAsking(o) ==
    /\ asking' = asking \ {o}
    /\ asked' = asked \ {o}
    /\ held' = held \ {o}

\* o is not among the owners: nothing is done.
StopNothing(o) ==
    /\ o \notin owners
    /\ o \in asking \cup asked \cup held
    /\ StopsAsking(o)
    /\ UNCHANGED <<closed, entry, joiners, listening>>

StopShared_always(o) ==
    /\ o \in owners
    /\ stopping = "no"
    /\ owners' = owners \ {o}
    /\ StopsAsking(o)
    /\ UNCHANGED <<closed, local, forwarding, stopping, joiners, listening>>

\* Others own it too.
StopShared(o) ==
    /\ o \in owners
    /\ stopping = "no"
    /\ owners # {o}
    /\ owners' = owners \ {o}
    /\ StopsAsking(o)
    /\ UNCHANGED <<closed, local, forwarding, stopping, joiners, listening>>

StopLast_ignoresOthers(o) ==
    /\ o \in owners
    /\ stopping = "no"
    /\ stopping' = IF forwarding = "open" THEN "running" ELSE "waiting"
    /\ StopsAsking(o)
    /\ UNCHANGED <<closed, local, owners, forwarding, joiners, listening>>

\* The last owner: the forward is cancelled, once it is open.
StopLast(o) ==
    /\ owners = {o}
    /\ stopping = "no"
    /\ stopping' = IF forwarding = "open" THEN "running" ELSE "waiting"
    /\ StopsAsking(o)
    /\ UNCHANGED <<closed, local, owners, forwarding, joiners, listening>>

\* It is being stopped already.
StopWaits(o) ==
    /\ o \in owners
    /\ stopping # "no"
    /\ StopsAsking(o)
    /\ UNCHANGED <<closed, entry, joiners, listening>>

\* ssh no longer listens: the entry goes, and those that waited to forward
\* the port make a new one, or are refused by a closed connection.
Cancelled ==
    /\ stopping = "running"
    /\ listening' = listening \ {local}
    /\ joiners' = {}
    /\ asking' = {}
    /\ \/ (joiners = {} \/ closed) /\ Delete /\ asked' = {}
       \/ joiners # {} /\ ~closed /\ Create(joiners) /\ asked' = asking
    /\ UNCHANGED <<closed, held>>

\* ssh does not cancel it: the entry and its owner stay, so that the stop can
\* be tried again; those that waited are rejected.
CancelFails ==
    /\ stopping = "running"
    /\ stopping' = "no"
    /\ Dismiss
    /\ UNCHANGED <<closed, local, owners, forwarding, listening, held>>

----------------------------------------------------------------------------
\* The connection closes, and the ssh master with it.
Close ==
    /\ ~closed
    /\ closed' = TRUE
    /\ listening' = {}
    /\ held' = {}
    /\ UNCHANGED <<entry, joiners, asking, asked>>

Next ==
    \/ \E o \in Owners :
          \/ ForwardNew(o) \/ ForwardJoins(o) \/ ForwardWaits(o)
          \/ StopNothing(o) \/ StopShared(o) \/ StopLast(o) \/ StopWaits(o)
    \/ Opens \/ Fails \/ Cancelled \/ CancelFails \/ Close

Spec == Init /\ [][Next]_vars

----------------------------------------------------------------------------
(* Properties.                                                             *)

\* A workspace that was given the port can use it: ssh listens on it, and
\* nobody has begun to cancel it.
HeldOpen ==
    \A o \in held : o \in owners /\ local \in listening /\ stopping = "no"

\* A workspace that waits for the port owns the entry it waits for.
AskedOwn == asked \subseteq owners /\ (asked # {} => stopping = "no")

\* A workspace that has asked for the port, or was given it, keeps it until it
\* stops it itself, whatever the other workspaces do and however the ssh
\* commands end meanwhile: the stop of another owner never takes it for the
\* last (forwardPort, stopForwardPort).
WishesKept == HeldOpen /\ AskedOwn

\* ssh listens on no port but the one in the entry: none is forgotten that
\* stopForwardPort could not cancel any more.
NoneForgotten == listening \subseteq {local}

\* A forward lasts as long as somebody wants it, and no longer than somebody can
\* end it (forwardPort, stopForwardPort).
PortsKept == WishesKept /\ NoneForgotten
=============================================================================
