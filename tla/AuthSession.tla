---------------------------- MODULE AuthSession ----------------------------
(***************************************************************************)
(* The login state of one user in Redis: the session hash, the refresh     *)
(* token states and the blacklist of access tokens, under concurrent       *)
(* logins, refreshes and logouts (internal/pkg/redis/auth_store.go called  *)
(* by internal/service/auth_service.go).  Keys of different users do not   *)
(* meet, so one user is enough.                                            *)
(*                                                                         *)
(* A store operation is a WATCH, one or two reads and an EXEC, each a round *)
(* trip of its own; EXEC does nothing when a watched key has changed, and  *)
(* the operation is tried again a few times.  A request draws fresh        *)
(* identifiers, so the tokens, the refresh jti and (for a login) the       *)
(* session id it makes are named after the request.                        *)
(***************************************************************************)
EXTENDS Naturals, FiniteSets

CONSTANTS
    Logins, Refreshes, Logouts,   \* the requests, by kind
    None,
    TxMaxRetry,                   \* redisTxMaxRetry
    MaxExpiries                   \* bound on expired sessions

Requests == Logins \cup Refreshes \cup Logouts
JTI == Logins \cup Refreshes

ASSUME AuthAssumption ==
    /\ Logins \cap Refreshes = {} /\ JTI \cap Logouts = {}
    /\ None \notin Requests
    /\ TxMaxRetry \in Nat \ {0}
    /\ MaxExpiries \in Nat
    /\ IsFiniteSet(Requests)

VARIABLES
    session,     \* auth:session:user:<id>, or NoSession
    refresh,     \* refresh[j]: session_id of auth:refresh:jti:<j>, None without it
    blacklist,   \* jti of access tokens that were logged out
    lastLogin,   \* logins whose time reached users.last_login_at
    pc,          \* where each request is
    token,       \* token[r]: the pair of tokens request r presents
    sid,         \* sid[r]: session_id in the claims of r's tokens
    seen,        \* seen[r]: the session as r read it
    touched,     \* touched[r]: a key r watches has changed
    conflicts,   \* conflicts[r]: EXECs of r that did nothing
    expiries

store == <<session, refresh, blacklist>>
vars == <<store, lastLogin, pc, token, sid, seen, touched, conflicts, expiries>>

NoSession == [id |-> None, refresh |-> None]
Session == [id : Logins, refresh : JTI] \cup {NoSession}
PC == {"idle", "watch", "read", "readRefresh", "exec", "done", "lost", "failed"}

TypeOK ==
    /\ session \in Session
    /\ refresh \in [JTI -> Logins \cup {None}]
    /\ blacklist \subseteq JTI
    /\ lastLogin \subseteq Logins
    /\ pc \in [Requests -> PC]
    /\ token \in [Requests -> JTI \cup {None}]
    /\ sid \in [Requests -> Logins \cup {None}]
    /\ seen \in [Requests -> Session]
    /\ touched \in [Requests -> BOOLEAN]
    /\ conflicts \in [Requests -> Nat]
    /\ expiries \in 0 .. MaxExpiries

Init ==
    /\ session = NoSession
    /\ refresh = [j \in JTI |-> None]
    /\ blacklist = {} /\ lastLogin = {}
    /\ pc = [r \in Requests |-> "idle"]
    /\ token = [r \in Requests |-> None]
    /\ sid = [r \in Requests |-> None]
    /\ seen = [r \in Requests |-> NoSession]
    /\ touched = [r \in Requests |-> FALSE]
    /\ conflicts = [r \in Requests |-> 0]
    /\ expiries = 0

Goto(r, label) == pc' = [pc EXCEPT ![r] = label]

\* The pairs of tokens a client holds: the response that carried them arrived.
Issued == {j \in JTI : pc[j] = "done"}

\* ValidateAccessSession and ValidateRefreshSession.
AccessValid(j) == j \notin blacklist /\ session.id = sid[j]
RefreshValid(j) == session.id = sid[j] /\ session.refresh = j

-----------------------------------------------------------------------------
(* The requests up to their store operation *)

\* Login: the account is checked and last_login_at is committed before Redis is asked.
Login(r) ==
    /\ pc[r] = "idle"
    /\ lastLogin' = lastLogin \cup {r}
    /\ sid' = [sid EXCEPT ![r] = r]
    /\ Goto(r, "watch")
    /\ UNCHANGED <<store, token, seen, touched, conflicts, expiries>>

\* RefreshToken with any refresh token ever handed out.
RefreshToken(r) ==
    /\ pc[r] = "idle"
    /\ \E j \in Issued :
         /\ token' = [token EXCEPT ![r] = j]
         /\ sid' = [sid EXCEPT ![r] = sid[j]]
         /\ Goto(r, IF RefreshValid(j) THEN "watch" ELSE "failed")
    /\ UNCHANGED <<store, lastLogin, seen, touched, conflicts, expiries>>

\* Logout, which the middleware lets through only with a valid access token.
Logout(r) ==
    /\ pc[r] = "idle"
    /\ \E j \in Issued :
         /\ token' = [token EXCEPT ![r] = j]
         /\ sid' = [sid EXCEPT ![r] = sid[j]]
         /\ Goto(r, IF AccessValid(j) THEN "watch" ELSE "failed")
    /\ UNCHANGED <<store, lastLogin, seen, touched, conflicts, expiries>>

-----------------------------------------------------------------------------
(* LoginSession, RotateRefreshToken and LogoutSession *)

Watch(r) ==
    /\ pc[r] = "watch"
    /\ touched' = [touched EXCEPT ![r] = FALSE]
    /\ Goto(r, "read")
    /\ UNCHANGED <<store, lastLogin, token, sid, seen, conflicts, expiries>>

\* Only a rotation minds what it finds: its own token must still be the current one.
ReadSession(r) ==
    /\ pc[r] = "read"
    /\ seen' = [seen EXCEPT ![r] = session]
    /\ Goto(r, CASE r \notin Refreshes -> "exec"
                 [] r \in Refreshes /\ session = [id |-> sid[r], refresh |-> token[r]]
                      -> "readRefresh"
                 [] OTHER -> "failed")
    /\ UNCHANGED <<store, lastLogin, token, sid, touched, conflicts, expiries>>

ReadRefresh(r) ==
    /\ pc[r] = "readRefresh"
    /\ Goto(r, IF refresh[token[r]] = sid[r] THEN "exec" ELSE "failed")
    /\ UNCHANGED <<store, lastLogin, token, sid, seen, touched, conflicts, expiries>>

\* As if a login left the refresh state of the session it replaces.
LoginKeepsOldRefresh(r) ==
    /\ session' = [id |-> r, refresh |-> r]
    /\ refresh' = [refresh EXCEPT ![r] = r]
    /\ UNCHANGED blacklist

LoginWrites(r) ==
    /\ session' = [id |-> r, refresh |-> r]
    /\ refresh' = [j \in JTI |-> CASE j = r -> r
                                   [] j # r /\ j = seen[r].refresh -> None
                                   [] OTHER -> refresh[j]]
    /\ UNCHANGED blacklist

\* Only the refresh_jti of the hash is written; the session keeps its id.
RotateWrites(r) ==
    /\ session' = [session EXCEPT !.refresh = r]
    /\ refresh' = [refresh EXCEPT ![token[r]] = None, ![r] = sid[r]]
    /\ UNCHANGED blacklist

\* As if a logout only blacklisted the access token.
LogoutKeepsSession(r) ==
    /\ blacklist' = blacklist \cup {token[r]}
    /\ UNCHANGED <<session, refresh>>

\* The session goes only if it is still the one of the token.
LogoutWrites(r) ==
    /\ blacklist' = blacklist \cup {token[r]}
    /\ IF seen[r].id = sid[r]
       THEN /\ session' = NoSession
            /\ refresh' = [refresh EXCEPT ![seen[r].refresh] = None]
       ELSE UNCHANGED <<session, refresh>>

Writes(r) ==
    \/ r \in Logins /\ LoginWrites(r)
    \/ r \in Refreshes /\ RotateWrites(r)
    \/ r \in Logouts /\ LogoutWrites(r)

\* Every other request watches the session key, and a refresh key changes only
\* together with it.
TouchWatchers == touched' = [q \in Requests |-> touched[q] \/ session' # session]

\* As if the keys were not watched.
ExecUnwatched(r) ==
    /\ pc[r] = "exec"
    /\ Writes(r)
    /\ TouchWatchers
    /\ Goto(r, "done") \/ Goto(r, "lost")
    /\ UNCHANGED <<lastLogin, token, sid, seen, conflicts, expiries>>

\* EXEC with nothing touched.  Its reply may be lost: the client gets no tokens.
Exec(r) ==
    /\ pc[r] = "exec"
    /\ ~touched[r]
    /\ Writes(r)
    /\ TouchWatchers
    /\ Goto(r, "done") \/ Goto(r, "lost")
    /\ UNCHANGED <<lastLogin, token, sid, seen, conflicts, expiries>>

\* As if a retry went back to EXEC without watching and reading again.
RetryWithoutWatch(r) ==
    /\ pc[r] = "exec"
    /\ touched[r]
    /\ conflicts' = [conflicts EXCEPT ![r] = @ + 1]
    /\ Goto(r, IF conflicts[r] + 1 = TxMaxRetry THEN "failed" ELSE "exec")
    /\ UNCHANGED <<store, lastLogin, token, sid, seen, touched, expiries>>

\* EXEC does nothing; RetryRedisTx runs the whole operation again, WATCH included.
Conflict(r) ==
    /\ pc[r] = "exec"
    /\ touched[r]
    /\ conflicts' = [conflicts EXCEPT ![r] = @ + 1]
    /\ Goto(r, IF conflicts[r] + 1 = TxMaxRetry THEN "failed" ELSE "watch")
    /\ UNCHANGED <<store, lastLogin, token, sid, seen, touched, expiries>>

\* Redis cannot be reached, the context is cancelled or the server dies.
Abandon(r) ==
    /\ pc[r] \in {"watch", "read", "readRefresh", "exec"}
    /\ Goto(r, "failed")
    /\ UNCHANGED <<store, lastLogin, token, sid, seen, touched, conflicts, expiries>>

\* The session and its refresh state were given one ttl by one EXEC.
Expire ==
    /\ session # NoSession
    /\ expiries < MaxExpiries
    /\ expiries' = expiries + 1
    /\ session' = NoSession
    /\ refresh' = [refresh EXCEPT ![session.refresh] = None]
    /\ TouchWatchers
    /\ UNCHANGED <<blacklist, lastLogin, pc, token, sid, seen, conflicts>>

Step(r) ==
    \/ Watch(r) \/ ReadSession(r) \/ ReadRefresh(r)
    \/ Exec(r) \/ Conflict(r) \/ Abandon(r)

Next ==
    \/ \E r \in Logins : Login(r)
    \/ \E r \in Refreshes : RefreshToken(r)
    \/ \E r \in Logouts : Logout(r)
    \/ \E r \in Requests : Step(r)
    \/ Expire

Spec == Init /\ [][Next]_vars
-----------------------------------------------------------------------------
(* Properties *)

\* The EXEC of the request took effect, whether or not its client was told.
Applied(r) == pc[r] \in {"done", "lost"}

\* One device, one refresh token: concurrent logins, rotations, logouts and an
\* expiry leave exactly the refresh state the session names, and none without a
\* session: no token survives its session, no session loses its token.
OneRefreshToken ==
    refresh = [j \in JTI |-> IF j = session.refresh THEN session.id ELSE None]

\* A refresh token is exchanged at most once, even when it is presented twice
\* at the same time or again after a lost reply.
RefreshIsSingleUse ==
    \A q, r \in Refreshes :
        q # r /\ Applied(q) /\ Applied(r) => token[q] # token[r]

\* Once a logout took effect no token of its session is accepted any more, the
\* ones a refresh in flight was about to hand out included.
LogoutIsFinal ==
    \A r \in Logouts : Applied(r) =>
        \A j \in JTI : sid[j] = sid[r] => ~AccessValid(j) /\ ~RefreshValid(j)

Others(r) == {q \in Requests \ {r} : Applied(q)}

\* A request gives up on conflicts only after as many writes of other requests
\* (or expiries): it is never in its own way.
ConflictsAreOthers ==
    \A r \in Requests : conflicts[r] <= Cardinality(Others(r)) + expiries
-----------------------------------------------------------------------------
(* The inductive strengthening of the invariants *)

\* A request presents tokens a client really holds, of a login that took effect.
TokensWereIssued ==
    /\ \A r \in Requests : pc[r] = "idle" => sid[r] = None
    /\ \A r \in Logins : pc[r] # "idle" => sid[r] = r
    /\ \A r \in Refreshes \cup Logouts : pc[r] # "idle" =>
         /\ token[r] \in Issued
         /\ sid[r] = sid[token[r]] /\ sid[r] \in Logins /\ Applied(sid[r])

SessionWasWritten ==
    session # NoSession =>
        Applied(session.id) /\ Applied(session.refresh) /\ sid[session.refresh] = session.id

\* What an operation read is what it overwrites, unless EXEC will refuse.
SnapshotsHold ==
    \A r \in Requests : pc[r] \in {"readRefresh", "exec"} =>
        /\ ~touched[r] => seen[r] = session
        /\ r \in Refreshes => seen[r] = [id |-> sid[r], refresh |-> token[r]]

\* RetryRedisTx runs an operation TxMaxRetry times at most.
RetriesAreBounded ==
    \A r \in Requests :
        /\ conflicts[r] <= TxMaxRetry
        /\ pc[r] \notin {"done", "lost", "failed"} => conflicts[r] < TxMaxRetry

\* The EXEC request r is on its way to will be refused.
Beaten(r) == touched[r] /\ pc[r] \in {"read", "readRefresh", "exec"}

\* Every conflict of a request, the one it has not met yet included, was caused
\* by a write of its own.
LossesAreOthers ==
    \A r \in Requests :
        conflicts[r] + (IF Beaten(r) THEN 1 ELSE 0) <= Cardinality(Others(r)) + expiries

SpentTokensAreGone ==
    \A r \in Refreshes : Applied(r) => session.refresh # token[r]

LoggedOutSessionsAreGone ==
    \A r \in Logouts : Applied(r) => session.id # sid[r]

IndInv ==
    /\ TypeOK
    /\ OneRefreshToken
    /\ RefreshIsSingleUse
    /\ TokensWereIssued
    /\ SessionWasWritten
    /\ SnapshotsHold
    /\ RetriesAreBounded
    /\ LossesAreOthers
    /\ SpentTokensAreGone
    /\ LoggedOutSessionsAreGone
=============================================================================
