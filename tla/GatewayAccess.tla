--------------------------- MODULE GatewayAccess ---------------------------
(***************************************************************************)
(* Who may use the web gateway of a remote server.  A browser redeems a    *)
(* pairing link, or on a managed tunnel an account grant, for a session;   *)
(* its browser, revoke-web, its expiry, the account check or close revokes *)
(* it.  What a session gives access to, and loses with it, is              *)
(* GatewayWorkspace.                                                       *)
(*                                                                         *)
(* The handlers run on one event loop: a step is one handler, or what runs *)
(* after its await.  Time only turns something valid into something        *)
(* expired. The rate limit, the checks of origin and protocol version, and *)
(* the bodies of requests are left out.                                    *)
(*                                                                         *)
(* An operator with a suffix in lower case, as                             *)
(* AuthorizeAccount_duringDenial, is a wrong variant of the definition     *)
(* below it, and no part of Spec.                                          *)
(***************************************************************************)
EXTENDS Optional, Naturals, FiniteSets

CONSTANTS Creds,        \* pairing tokens, or nonces of account grants
          Sessions,
          MaxSessions,  \* 16 in the code
          MaxUsed       \* 128 in the code

ASSUME NoneAssumption == None \notin Creds

VARIABLES
    managed,    \* options.accountAccess is given
    access,     \* the account backend grants access to this machine
    reply,      \* the answer of the backend to the check under way
    available,  \* accountAvailable
    checking,   \* checkingAccount
    denied,     \* history: the last answer that was applied said no
    closing,    \* how far close has come
    link,       \* pairingToken, while it is valid
    issued,     \* history: the pairing tokens generated so far
    used,       \* usedAuthorizations
    expired,    \* the grants whose expiresAt has passed
    session,    \* the sessions map
    by          \* history: the credential each session was given for

check == <<available, checking, reply, denied>>
creds == <<link, issued, used, expired>>
vars == <<managed, access, check, closing, creds, session, by>>

\* Types; and only a session given for a credential is in the map, or was.
TypeOK ==
    /\ managed \in BOOLEAN /\ access \in BOOLEAN /\ available \in BOOLEAN
    /\ checking \in BOOLEAN /\ denied \in BOOLEAN
    /\ reply \in {"none", "yes", "no"}
    /\ closing \in {"open", "revoked", "draining"}
    /\ link \in Creds \cup {None}
    /\ issued \in SUBSET Creds
    /\ used \in SUBSET Creds
    /\ expired \in SUBSET Creds
    /\ session \in [Sessions -> {"none", "live", "expired", "gone"}]
    /\ by \in [Sessions -> Creds \cup {None}]
    /\ \A s \in Sessions : by[s] = None <=> session[s] = "none"

\* An unmanaged gateway starts with a pairing link.
Init ==
    /\ managed \in BOOLEAN
    /\ access = managed
    /\ available = managed
    /\ checking = FALSE
    /\ reply = "none"
    /\ denied = FALSE
    /\ closing = "open"
    /\ link \in IF managed THEN {None} ELSE Creds
    /\ issued = {link} \ {None}
    /\ used = {}
    /\ expired = {}
    /\ session = [s \in Sessions |-> "none"]
    /\ by = [s \in Sessions |-> None]

\* The HTTP server accepts requests until close reaches server.close.
Accepts == closing \in {"open", "revoked"}

\* Sessions in the map.
Known == {s \in Sessions : session[s] \in {"live", "expired"}}

----------------------------------------------------------------------------
(* Credentials and sessions.                                               *)

\* pair-web: pair generates a token, which replaces the one before.
PairWeb(k) ==
    /\ closing = "open"
    /\ ~managed
    /\ k \notin issued
    /\ link' = k
    /\ issued' = issued \cup {k}
    /\ UNCHANGED <<managed, access, check, closing, used, expired, session, by>>

\* Ten minutes pass: Date.now() >= pairingExpires from now on.
LinkExpires ==
    /\ link # None
    /\ link' = None
    /\ UNCHANGED <<managed, access, check, closing, issued, used, expired, session, by>>

HasRoom == Cardinality(Known) < MaxSessions

\* A new session, with a token that no session had before.
NewSession(s, k) ==
    /\ session[s] = "none"
    /\ session' = [session EXCEPT ![s] = "live"]
    /\ by' = [by EXCEPT ![s] = k]

Pair_emptyToken(s) ==
    /\ Accepts
    /\ HasRoom
    /\ NewSession(s, link)
    /\ link' = None
    /\ UNCHANGED <<managed, access, check, closing, issued, used, expired>>

\* /auth/pair: the token is cleared when there is room for its session.
Pair(s) ==
    /\ Accepts
    /\ link # None
    /\ HasRoom
    /\ NewSession(s, link)
    /\ link' = None
    /\ UNCHANGED <<managed, access, check, closing, issued, used, expired>>

\* The ninety seconds of a grant pass.
GrantExpires(k) ==
    /\ managed
    /\ k \notin expired
    /\ expired' = expired \cup {k}
    /\ UNCHANGED <<managed, access, check, closing, link, issued, used, session, by>>

AuthorizeAccount_duringDenial(k) ==
    /\ managed
    /\ k \notin expired \cup used
    /\ Cardinality(used \ expired) < MaxUsed
    /\ used' = (used \ expired) \cup {k}

\* authorizeAccount accepts a grant once: its nonce is forgotten only when it
\* has expired, and there is a limit on those that are remembered.
AuthorizeAccount(k) ==
    /\ managed
    /\ available
    /\ k \notin expired \cup used
    /\ Cardinality(used \ expired) < MaxUsed
    /\ used' = (used \ expired) \cup {k}

\* /auth/account: the grant is used up before the room is checked.
Account(s, k) ==
    /\ Accepts
    /\ AuthorizeAccount(k)
    /\ HasRoom
    /\ NewSession(s, k)
    /\ UNCHANGED <<managed, access, check, closing, link, issued, expired>>

AccountRefused(k) ==
    /\ Accepts
    /\ AuthorizeAccount(k)
    /\ ~HasRoom
    /\ UNCHANGED <<managed, access, check, closing, link, issued, expired, session, by>>

\* A signed grant that is refused also has the expired nonces forgotten.
GrantRefused ==
    /\ Accepts
    /\ managed
    /\ available
    /\ used' = used \ expired
    /\ UNCHANGED <<managed, access, check, closing, link, issued, expired, session, by>>

----------------------------------------------------------------------------
(* Revocation.                                                             *)

Revoke(S) == session' = [s \in Sessions |-> IF s \in S THEN "gone" ELSE session[s]]

\* /auth/revoke.
Disconnect(s) ==
    /\ Accepts
    /\ session[s] = "live"
    /\ Revoke({s})
    /\ UNCHANGED <<managed, access, check, closing, creds, by>>

\* The 24 hours of a manual session pass.
SessionExpires(s) ==
    /\ ~managed
    /\ session[s] = "live"
    /\ session' = [session EXCEPT ![s] = "expired"]
    /\ UNCHANGED <<managed, access, check, closing, creds, by>>

\* Its timer, or getSession in a request that comes first, revokes it.
Expire(s) ==
    /\ session[s] = "expired"
    /\ Revoke({s})
    /\ UNCHANGED <<managed, access, check, closing, creds, by>>

\* revoke-web, or the first half of cloudflare-stop.
RevokeWeb ==
    /\ closing = "open"
    /\ link' = None
    /\ Revoke(Known)
    /\ UNCHANGED <<managed, access, check, closing, issued, used, expired, by>>

----------------------------------------------------------------------------
(* The account check.                                                      *)

\* The owner removes the tunnel, or enables it again, on the backend.
ChangeAccess ==
    /\ managed
    /\ access' = ~access
    /\ UNCHANGED <<managed, check, closing, creds, session, by>>

\* checkAccount, every thirty seconds, one at a time.
CheckAccount ==
    /\ managed
    /\ ~checking
    /\ closing = "open"
    /\ checking' = TRUE
    /\ reply' = "none"
    /\ UNCHANGED <<managed, access, available, denied, closing, creds, session, by>>

\* The backend answers with what it knows then.
BackendAnswers ==
    /\ checking
    /\ reply = "none"
    /\ reply' = IF access THEN "yes" ELSE "no"
    /\ UNCHANGED <<managed, access, available, checking, denied, closing, creds, session, by>>

CheckAnswers_onlyBlocks ==
    /\ checking
    /\ reply # "none"
    /\ checking' = FALSE
    /\ reply' = "none"
    /\ denied' = (reply = "no")
    /\ available' = IF closing = "open" THEN reply = "yes" ELSE available
    /\ UNCHANGED <<managed, access, closing, creds, session, by>>

\* The answer arrives: no access revokes every account session.
CheckAnswers ==
    /\ checking
    /\ reply # "none"
    /\ checking' = FALSE
    /\ reply' = "none"
    /\ denied' = (reply = "no")
    /\ available' = IF closing = "open" THEN reply = "yes" ELSE available
    /\ Revoke(IF reply = "no" THEN Known ELSE {})
    /\ UNCHANGED <<managed, access, closing, creds, by>>

\* The check fails: no new session until one answers.
CheckThrows ==
    /\ checking
    /\ checking' = FALSE
    /\ reply' = "none"
    /\ available' = FALSE
    /\ UNCHANGED <<managed, access, denied, closing, creds, session, by>>

----------------------------------------------------------------------------
CloseGateway_onlyLink ==
    /\ closing = "open"
    /\ closing' = "revoked"
    /\ link' = None
    /\ UNCHANGED <<managed, access, check, issued, used, expired, session, by>>

\* close, after the control socket was closed; requests are accepted until
\* the cleanups of the revoked sessions have settled.
CloseGateway ==
    /\ closing = "open"
    /\ closing' = "revoked"
    /\ link' = None
    /\ Revoke(Known)
    /\ UNCHANGED <<managed, access, check, issued, used, expired, by>>

\* server.close.
CloseServer ==
    /\ closing = "revoked"
    /\ closing' = "draining"
    /\ UNCHANGED <<managed, access, check, creds, session, by>>

Next ==
    \/ \E s \in Sessions : Pair(s) \/ Disconnect(s) \/ SessionExpires(s) \/ Expire(s)
    \/ \E k \in Creds : PairWeb(k) \/ GrantExpires(k) \/ AccountRefused(k)
    \/ \E s \in Sessions, k \in Creds : Account(s, k)
    \/ GrantRefused \/ LinkExpires \/ RevokeWeb
    \/ ChangeAccess \/ CheckAccount \/ BackendAnswers \/ CheckAnswers \/ CheckThrows
    \/ CloseGateway \/ CloseServer

\* The timer fires, a check ends within its timeout, and the backend is
\* reached again and again: an outage does not last for ever.
Fairness ==
    /\ WF_vars(CheckAccount)
    /\ WF_vars(BackendAnswers \/ CheckThrows)
    /\ SF_vars(CheckAnswers)
    /\ SF_vars(BackendAnswers)

Spec == Init /\ [][Next]_vars
FairSpec == Spec /\ Fairness

----------------------------------------------------------------------------
(* Properties.                                                             *)

\* A pairing link, and an account grant, is good for one session, whatever is
\* issued, redeemed, refused or forgotten in between (/auth/pair, /auth/account).
OneSessionPerCredential ==
    \A r, s \in Sessions : by[r] # None /\ by[r] = by[s] => r = s

\* From an answer that denies access until one that grants it a managed
\* gateway has no session, neither an old one nor one created since, although
\* checks fail and sign-ins race them (checkAccount, authorizeAccount).
DeniedHasNoSession ==
    managed /\ denied /\ closing = "open" => Known = {}

\* Every session was earned: by a credential of its own, and by an account that
\* was not refused since (/auth/pair, /auth/account, checkAccount).
SessionsEarned == OneSessionPerCredential /\ DeniedHasNoSession

\* Once the tunnel is removed for good its sessions are closed, and none is
\* created any more (checkAccount), although answers from before and failed
\* checks come first.  That is as much as the code gives: a failed check closes
\* no session (its catch, CheckThrows), and it is the next answer, however late,
\* that does.  src/README.md:322-325 has more, which is not true of the code: a
\* removal closes within 45 seconds, and "Backend outages also close account
\* sessions on the next failed check".
RemovalCloses ==
    <>[](managed /\ ~access) => <>[](closing = "open" => Known = {})

\* For the rest of the gateway, a session that has expired and was not revoked
\* yet is live.
GS == INSTANCE GatewaySessions
        WITH session <- [s \in Sessions |-> IF session[s] = "expired" THEN "live"
                                                                   ELSE session[s]]

\* Sessions come and go as GatewayWorkspace assumes: created while requests
\* are accepted, revoked for good, alone or together, and all of them by close.
\* A session that is created leaves the others as they are (/auth/pair, and the
\* test "pairing another browser preserves the first browser session").  This
\* contradicts src/README.md:190-191, "redeeming a new link revokes the previous
\* browser session".
ImplementsSessions == GS!Spec
=============================================================================
