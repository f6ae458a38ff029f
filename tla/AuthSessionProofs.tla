------------------------- MODULE AuthSessionProofs -------------------------
(***************************************************************************)
(* Theorems of AuthSession for any number of concurrent logins, refreshes  *)
(* and logouts, any number of retries and any number of expired sessions.  *)
(***************************************************************************)
EXTENDS AuthSession, FiniteSetTheorems, TLAPS

LEMMA Kinds ==
    /\ Logins \subseteq JTI /\ Refreshes \subseteq JTI /\ JTI \subseteq Requests
    /\ \A r \in Requests : r \in Logins \/ r \in Refreshes \/ r \in Logouts
    /\ \A r \in Logins : r \notin Refreshes /\ r \notin Logouts
    /\ \A r \in Refreshes : r \notin Logins /\ r \notin Logouts
    /\ \A r \in Logouts : r \notin JTI
    /\ None \notin JTI /\ None \notin Logins
BY AuthAssumption DEF Requests, JTI

LEMMA Records ==
    /\ NoSession \in Session /\ NoSession.id = None /\ NoSession.refresh = None
    /\ \A l \in Logins, j \in JTI :
         /\ [id |-> l, refresh |-> j] \in Session
         /\ [id |-> l, refresh |-> j] # NoSession
         /\ [id |-> l, refresh |-> j].id = l
         /\ [id |-> l, refresh |-> j].refresh = j
    /\ \A s \in Session : s # NoSession =>
         s.id \in Logins /\ s.refresh \in JTI /\ s = [id |-> s.id, refresh |-> s.refresh]
BY Kinds DEF Session, NoSession

\* Finitely many requests have written.
LEMMA OthersCount ==
    ASSUME NEW r \in Requests
    PROVE  Cardinality(Others(r)) \in Nat
<1>1. Others(r) \subseteq Requests /\ IsFiniteSet(Requests)
  BY AuthAssumption DEF Others
<1>2. IsFiniteSet(Others(r))
  BY <1>1, FS_Subset
<1> QED
  BY <1>2, FS_CardinalityType

LEMMA InitInv == Init => IndInv
<1> SUFFICES ASSUME Init PROVE IndInv
  OBVIOUS
<1>1. TypeOK
  BY AuthAssumption, Records DEF Init, TypeOK, PC
<1>2. \A r \in Requests : ~Applied(r)
  BY DEF Init, Applied
<1>3. OneRefreshToken
  BY Kinds, Records DEF Init, OneRefreshToken
<1>4. TokensWereIssued
  BY Kinds DEF Init, TokensWereIssued, Requests, JTI
<1>6. SnapshotsHold /\ SessionWasWritten /\ RetriesAreBounded
  BY AuthAssumption DEF Init, SnapshotsHold, SessionWasWritten, RetriesAreBounded
<1>5. RefreshIsSingleUse /\ SpentTokensAreGone /\ LoggedOutSessionsAreGone
  BY <1>2, Kinds DEF RefreshIsSingleUse, SpentTokensAreGone, LoggedOutSessionsAreGone, Requests
<1>7. LossesAreOthers
  <2> SUFFICES ASSUME NEW r \in Requests
               PROVE  conflicts[r] + (IF Beaten(r) THEN 1 ELSE 0)
                        <= Cardinality(Others(r)) + expiries
    BY DEF LossesAreOthers
  <2>1. conflicts[r] = 0 /\ expiries = 0 /\ ~Beaten(r)
    BY DEF Init, Beaten
  <2> QED
    BY <2>1, OthersCount
<1> QED
  BY <1>1, <1>3, <1>4, <1>5, <1>6, <1>7 DEF IndInv

-----------------------------------------------------------------------------
(* Steps that leave Redis alone *)

\* What each of them does to the requests.
Quiet(r) ==
    \/ r \in Logins /\ Login(r)
    \/ r \in Refreshes /\ RefreshToken(r)
    \/ r \in Logouts /\ Logout(r)
    \/ Watch(r) \/ ReadSession(r) \/ ReadRefresh(r) \/ Conflict(r) \/ Abandon(r)

LEMMA QuietType ==
    ASSUME TypeOK, NEW r \in Requests, Quiet(r)
    PROVE  TypeOK'
<1> USE DEF TypeOK
<1>1. CASE r \in Logins /\ Login(r)
  BY <1>1 DEF Login, Goto, PC, store
<1>2. CASE r \in Refreshes /\ RefreshToken(r)
  BY <1>2, Kinds DEF RefreshToken, Goto, PC, store, Issued
<1>3. CASE r \in Logouts /\ Logout(r)
  BY <1>3, Kinds DEF Logout, Goto, PC, store, Issued
<1>4. CASE Watch(r)
  BY <1>4 DEF Watch, Goto, PC, store
<1>5. CASE ReadSession(r)
  BY <1>5 DEF ReadSession, Goto, PC, store
<1>6. CASE ReadRefresh(r)
  BY <1>6 DEF ReadRefresh, Goto, PC, store
<1>7. CASE Conflict(r)
  BY <1>7 DEF Conflict, Goto, PC, store
<1>8. CASE Abandon(r)
  BY <1>8 DEF Abandon, Goto, PC, store
<1> QED
  BY <1>1, <1>2, <1>3, <1>4, <1>5, <1>6, <1>7, <1>8 DEF Quiet

LEMMA QuietFrame ==
    ASSUME TypeOK, NEW r \in Requests, Quiet(r)
    PROVE  /\ session' = session /\ refresh' = refresh /\ blacklist' = blacklist
           /\ \A q \in Requests : q # r =>
                /\ pc'[q] = pc[q] /\ token'[q] = token[q] /\ sid'[q] = sid[q]
                /\ seen'[q] = seen[q] /\ touched'[q] = touched[q]
                /\ conflicts'[q] = conflicts[q]
           /\ pc[r] \notin {"done", "lost", "failed"} /\ pc'[r] \notin {"idle", "done", "lost"}
           /\ pc[r] # "idle" => token'[r] = token[r] /\ sid'[r] = sid[r]
<1> USE DEF TypeOK
<1>1. CASE r \in Logins /\ Login(r)
  BY <1>1 DEF Login, Goto, store
<1>2. CASE r \in Refreshes /\ RefreshToken(r)
  BY <1>2 DEF RefreshToken, Goto, store
<1>3. CASE r \in Logouts /\ Logout(r)
  BY <1>3 DEF Logout, Goto, store
<1>4. CASE Watch(r)
  BY <1>4 DEF Watch, Goto, store
<1>5. CASE ReadSession(r)
  BY <1>5 DEF ReadSession, Goto, store
<1>6. CASE ReadRefresh(r)
  BY <1>6 DEF ReadRefresh, Goto, store
<1>7. CASE Conflict(r)
  BY <1>7 DEF Conflict, Goto, store
<1>8. CASE Abandon(r)
  BY <1>8 DEF Abandon, Goto, store
<1> QED
  BY <1>1, <1>2, <1>3, <1>4, <1>5, <1>6, <1>7, <1>8 DEF Quiet

\* No quiet step makes a request applied, or changes the tokens of one that is.
LEMMA QuietApplied ==
    ASSUME TypeOK, NEW r \in Requests, Quiet(r), NEW q \in Requests
    PROVE  /\ Applied(q)' <=> Applied(q)
           /\ pc'[q] = "done" <=> pc[q] = "done"
           /\ Applied(q) => q # r /\ token'[q] = token[q] /\ sid'[q] = sid[q]
<1>1. CASE q = r
  BY <1>1, QuietFrame DEF Applied
<1>2. CASE q # r
  BY <1>2, QuietFrame DEF Applied
<1> QED
  BY <1>1, <1>2

LEMMA QuietTokens ==
    ASSUME TypeOK, TokensWereIssued, NEW r \in Requests, Quiet(r)
    PROVE  TokensWereIssued'
<1>1. ASSUME NEW q \in Requests, pc'[q] = "idle" PROVE sid'[q] = None
  BY <1>1, QuietFrame DEF TokensWereIssued
<1>2. ASSUME NEW q \in Logins, pc'[q] # "idle" PROVE sid'[q] = q
  <2>1. CASE q = r /\ pc[r] = "idle"
    <3>1. CASE Login(r)
      BY <2>1, <3>1, Kinds DEF Login, TypeOK
    <3>2. CASE ~Login(r)
      BY <2>1, <3>2, Kinds DEF Quiet, Watch, ReadSession, ReadRefresh, Conflict, Abandon
    <3> QED
      BY <3>1, <3>2
  <2>2. CASE ~(q = r /\ pc[r] = "idle")
    <3>1. q \in Requests /\ pc[q] # "idle" /\ sid'[q] = sid[q]
      BY <1>2, <2>2, QuietFrame, Kinds
    <3> QED
      BY <3>1, <1>2 DEF TokensWereIssued
  <2> QED
    BY <2>1, <2>2
<1>3. ASSUME NEW q \in Refreshes \cup Logouts, pc'[q] # "idle"
      PROVE  /\ token'[q] \in Issued'
             /\ sid'[q] = sid'[token'[q]] /\ sid'[q] \in Logins
             /\ pc'[sid'[q]] \in {"done", "lost"}
  <2>0. q \in Requests
    BY DEF Requests
  <2>1. /\ token'[q] \in Issued
        /\ sid'[q] = sid[token'[q]] /\ sid'[q] \in Logins /\ Applied(sid'[q])
    <3>1. CASE q = r /\ pc[r] = "idle"
      <4>1. \A j \in Issued : sid[j] \in Logins /\ Applied(sid[j])
        BY Kinds DEF Issued, TokensWereIssued, Applied, JTI
      <4>2. PICK j \in Issued : token'[r] = j /\ sid'[r] = sid[j]
        <5>1. CASE RefreshToken(r)
          BY <5>1, Kinds DEF RefreshToken, TypeOK, Issued
        <5>2. CASE Logout(r)
          BY <5>2, Kinds DEF Logout, TypeOK, Issued
        <5>3. RefreshToken(r) \/ Logout(r)
          BY <3>1, Kinds DEF Quiet, Watch, ReadSession, ReadRefresh, Conflict, Abandon
        <5> QED
          BY <5>1, <5>2, <5>3
      <4> QED
        BY <3>1, <4>1, <4>2
    <3>2. CASE ~(q = r /\ pc[r] = "idle")
      <4>1. pc[q] # "idle" /\ token'[q] = token[q] /\ sid'[q] = sid[q]
        BY <1>3, <2>0, <3>2, QuietFrame
      <4> QED
        BY <4>1 DEF TokensWereIssued
    <3> QED
      BY <3>1, <3>2
  <2>2. token'[q] \in Requests /\ Applied(token'[q]) /\ pc[token'[q]] = "done"
    BY <2>1, Kinds DEF Issued, Applied
  <2>3. token'[q] \in Issued' /\ sid'[token'[q]] = sid[token'[q]]
    BY <2>1, <2>2, QuietApplied DEF Issued
  <2>4. ASSUME NEW l \in Requests, Applied(l) PROVE pc'[l] \in {"done", "lost"}
    BY <2>4, QuietApplied DEF Applied
  <2>5. pc'[sid'[q]] \in {"done", "lost"}
    BY <2>1, <2>4, Kinds
  <2> QED
    BY <2>1, <2>3, <2>5
<1> QED
  BY <1>1, <1>2, <1>3 DEF TokensWereIssued, Applied

LEMMA QuietSnapshots ==
    ASSUME TypeOK, SnapshotsHold, NEW r \in Requests, Quiet(r)
    PROVE  SnapshotsHold'
<1>1. ASSUME NEW q \in Requests, q # r, pc'[q] \in {"readRefresh", "exec"}
      PROVE  /\ ~touched'[q] => seen'[q] = session'
             /\ q \in Refreshes => seen'[q] = [id |-> sid'[q], refresh |-> token'[q]]
  BY <1>1, QuietFrame DEF SnapshotsHold
<1>2. ASSUME pc'[r] \in {"readRefresh", "exec"}
      PROVE  /\ ~touched'[r] => seen'[r] = session'
             /\ r \in Refreshes => seen'[r] = [id |-> sid'[r], refresh |-> token'[r]]
  <2>1. CASE ReadSession(r)
    BY <1>2, <2>1 DEF ReadSession, Goto, store, TypeOK
  <2>2. CASE ReadRefresh(r)
    BY <1>2, <2>2 DEF ReadRefresh, Goto, store, TypeOK, SnapshotsHold
  <2>3. ReadSession(r) \/ ReadRefresh(r)
    BY <1>2 DEF Quiet, Login, RefreshToken, Logout, Watch, Conflict, Abandon, Goto, TypeOK
  <2> QED
    BY <2>1, <2>2, <2>3
<1> QED
  BY <1>1, <1>2 DEF SnapshotsHold

LEMMA QuietRetries ==
    ASSUME TypeOK, RetriesAreBounded, NEW r \in Requests, Quiet(r)
    PROVE  RetriesAreBounded'
<1>1. ASSUME NEW q \in Requests, q # r
      PROVE  /\ conflicts'[q] <= TxMaxRetry
             /\ pc'[q] \notin {"done", "lost", "failed"} => conflicts'[q] < TxMaxRetry
  BY <1>1, QuietFrame DEF RetriesAreBounded
<1>2. /\ conflicts'[r] <= TxMaxRetry
      /\ pc'[r] \notin {"done", "lost", "failed"} => conflicts'[r] < TxMaxRetry
  <2>1. conflicts[r] \in Nat /\ conflicts[r] < TxMaxRetry /\ TxMaxRetry \in Nat
    BY QuietFrame, AuthAssumption DEF RetriesAreBounded, TypeOK
  <2>2. CASE Conflict(r)
    BY <2>1, <2>2 DEF Conflict, Goto, TypeOK
  <2>3. CASE conflicts' = conflicts
    BY <2>1, <2>3
  <2>4. Conflict(r) \/ conflicts' = conflicts
    BY DEF Quiet, Login, RefreshToken, Logout, Watch, ReadSession, ReadRefresh, Abandon
  <2> QED
    BY <2>2, <2>3, <2>4
<1> QED
  BY <1>1, <1>2 DEF RetriesAreBounded

\* A quiet step costs its own request no EXEC that was not refused already.
LEMMA QuietOwnLosses ==
    ASSUME TypeOK, NEW r \in Requests, Quiet(r)
    PROVE  \/ conflicts'[r] = conflicts[r] /\ (Beaten(r)' => Beaten(r))
           \/ conflicts'[r] = conflicts[r] + 1 /\ Beaten(r) /\ ~Beaten(r)'
<1> USE DEF TypeOK
<1>1. CASE r \in Logins /\ Login(r)
  BY <1>1 DEF Login, Goto, Beaten
<1>2. CASE r \in Refreshes /\ RefreshToken(r)
  BY <1>2 DEF RefreshToken, Goto, Beaten
<1>3. CASE r \in Logouts /\ Logout(r)
  BY <1>3 DEF Logout, Goto, Beaten
<1>4. CASE Watch(r)
  BY <1>4 DEF Watch, Goto, Beaten
<1>5. CASE ReadSession(r)
  BY <1>5 DEF ReadSession, Goto, Beaten
<1>6. CASE ReadRefresh(r)
  BY <1>6 DEF ReadRefresh, Goto, Beaten
<1>7. CASE Conflict(r)
  BY <1>7 DEF Conflict, Goto, Beaten
<1>8. CASE Abandon(r)
  BY <1>8 DEF Abandon, Goto, Beaten
<1> QED
  BY <1>1, <1>2, <1>3, <1>4, <1>5, <1>6, <1>7, <1>8 DEF Quiet

LEMMA QuietLosses ==
    ASSUME TypeOK, LossesAreOthers, NEW r \in Requests, Quiet(r)
    PROVE  LossesAreOthers'
<1> SUFFICES ASSUME NEW q \in Requests
             PROVE  conflicts'[q] + (IF Beaten(q)' THEN 1 ELSE 0)
                      <= Cardinality(Others(q)') + expiries'
  BY DEF LossesAreOthers
<1>1. Others(q)' = Others(q)
  <2>1. \A p \in Requests : Applied(p)' <=> Applied(p)
    BY QuietApplied
  <2> QED
    BY <2>1 DEF Others
<1>2. expiries' = expiries
  BY DEF Quiet, Login, RefreshToken, Logout, Watch, ReadSession, ReadRefresh, Conflict, Abandon
<1>3. /\ conflicts[q] \in Nat /\ expiries \in Nat /\ Cardinality(Others(q)) \in Nat
      /\ conflicts[q] + (IF Beaten(q) THEN 1 ELSE 0) <= Cardinality(Others(q)) + expiries
  BY OthersCount, AuthAssumption DEF TypeOK, LossesAreOthers
<1>4. \/ conflicts'[q] = conflicts[q] /\ (Beaten(q)' => Beaten(q))
      \/ conflicts'[q] = conflicts[q] + 1 /\ Beaten(q) /\ ~Beaten(q)'
  <2>1. CASE q = r
    BY <2>1, QuietOwnLosses
  <2>2. CASE q # r
    BY <2>2, QuietFrame DEF Beaten
  <2> QED
    BY <2>1, <2>2
<1> QED
  BY <1>1, <1>2, <1>3, <1>4

LEMMA QuietInv ==
    ASSUME IndInv, NEW r \in Requests, Quiet(r)
    PROVE  IndInv'
<1> USE DEF IndInv
<1>1. TypeOK'
  BY QuietType
<1>2. TokensWereIssued' /\ SnapshotsHold' /\ RetriesAreBounded' /\ LossesAreOthers'
  BY QuietTokens, QuietSnapshots, QuietRetries, QuietLosses
<1>3. session' = session /\ refresh' = refresh
  BY QuietFrame
<1>4. OneRefreshToken'
  BY <1>3 DEF OneRefreshToken
<1>5. SessionWasWritten'
  <2>1. ASSUME session # NoSession
        PROVE  /\ session.id \in Requests /\ session.refresh \in Requests
               /\ Applied(session.id) /\ Applied(session.refresh)
               /\ sid[session.refresh] = session.id
    BY <2>1, Records, Kinds DEF SessionWasWritten, TypeOK
  <2>2. ASSUME NEW l \in Requests, Applied(l)
        PROVE  pc'[l] \in {"done", "lost"} /\ sid'[l] = sid[l]
    BY <2>2, QuietApplied DEF Applied
  <2> QED
    BY <1>3, <2>1, <2>2 DEF SessionWasWritten, Applied
<1>6. RefreshIsSingleUse' /\ SpentTokensAreGone' /\ LoggedOutSessionsAreGone'
  <2>1. ASSUME NEW q \in Requests, pc'[q] \in {"done", "lost"}
        PROVE  Applied(q) /\ token'[q] = token[q] /\ sid'[q] = sid[q]
    <3>1. Applied(q)' <=> Applied(q)
      BY QuietApplied
    <3> QED
      BY <2>1, <3>1, QuietApplied DEF Applied
  <2>2. RefreshIsSingleUse'
    BY <2>1, Kinds DEF RefreshIsSingleUse, Applied
  <2>3. SpentTokensAreGone' /\ LoggedOutSessionsAreGone'
    BY <1>3, <2>1, Kinds DEF SpentTokensAreGone, LoggedOutSessionsAreGone, Applied, Requests
  <2> QED
    BY <2>2, <2>3
<1> QED
  BY <1>1, <1>2, <1>4, <1>5, <1>6

-----------------------------------------------------------------------------
(* Steps that change Redis *)

LEMMA ExecFrame ==
    ASSUME IndInv, NEW r \in Requests, Exec(r)
    PROVE  /\ pc[r] = "exec" /\ ~Applied(r) /\ pc'[r] \in {"done", "lost"}
           /\ seen[r] = session
           /\ r \in Refreshes => session = [id |-> sid[r], refresh |-> token[r]]
           /\ pc' \in [Requests -> PC]
           /\ \A q \in Requests : q # r => pc'[q] = pc[q]
           /\ token' = token /\ sid' = sid /\ seen' = seen /\ conflicts' = conflicts
           /\ lastLogin' = lastLogin /\ expiries' = expiries
           /\ touched' = [q \in Requests |-> touched[q] \/ session' # session]
<1> USE DEF IndInv
<1>1. pc[r] = "exec" /\ ~touched[r]
  BY DEF Exec
<1>2. seen[r] = session /\ (r \in Refreshes => seen[r] = [id |-> sid[r], refresh |-> token[r]])
  BY <1>1 DEF SnapshotsHold
<1>3. /\ pc'[r] \in {"done", "lost"}
      /\ pc' \in [Requests -> PC]
      /\ \A q \in Requests : q # r => pc'[q] = pc[q]
  BY DEF Exec, Goto, TypeOK, PC
<1> QED
  BY <1>1, <1>2, <1>3 DEF Exec, Applied, TouchWatchers

\* The requests after an EXEC: r is applied, nobody else's state has changed.
LEMMA ExecApplied ==
    ASSUME IndInv, NEW r \in Requests, Exec(r), NEW q \in Requests
    PROVE  Applied(q)' <=> Applied(q) \/ q = r
BY ExecFrame DEF Applied

\* Login sessions and tokens of requests that have begun.
LEMMA OwnClaims ==
    ASSUME IndInv, NEW r \in Requests, pc[r] = "exec"
    PROVE  /\ r \in Logins => sid[r] = r
           /\ r \notin Logins => token[r] \in JTI /\ token[r] # r /\ pc[token[r]] = "done"
                                   /\ sid[r] \in Logins /\ sid[r] # r /\ Applied(sid[r])
BY Kinds DEF IndInv, TokensWereIssued, Issued, Applied

\* What an EXEC leaves in Redis, by kind of request.
LEMMA ExecStore ==
    ASSUME IndInv, NEW r \in Requests, Exec(r)
    PROVE  /\ session' \in Session /\ refresh' \in [JTI -> Logins \cup {None}]
           /\ blacklist' \subseteq JTI
           /\ OneRefreshToken'
           /\ r \in Logins => session' = [id |-> r, refresh |-> r]
           /\ r \in Refreshes => session' = [id |-> sid[r], refresh |-> r]
           /\ r \in Logouts => session' = IF session.id = sid[r] THEN NoSession ELSE session
<1> USE DEF IndInv, TypeOK
<1>0. pc[r] = "exec" /\ seen[r] = session
  BY ExecFrame
<1>1. CASE r \in Logins
  <2>1. LoginWrites(r)
    BY <1>1, Kinds DEF Exec, Writes
  <2>2. session' = [id |-> r, refresh |-> r] /\ session' \in Session
    BY <1>1, <2>1, Records, Kinds DEF LoginWrites
  <2>3. refresh' = [j \in JTI |-> IF j = r THEN r ELSE None]
    BY <1>0, <2>1, Kinds DEF LoginWrites, OneRefreshToken
  <2>4. OneRefreshToken'
    BY <1>1, <2>2, <2>3, Records, Kinds DEF OneRefreshToken
  <2> QED
    BY <1>1, <2>1, <2>2, <2>3, <2>4, Kinds DEF LoginWrites
<1>2. CASE r \in Refreshes
  <2>1. RotateWrites(r)
    BY <1>2, Kinds DEF Exec, Writes
  <2>2. /\ session = [id |-> sid[r], refresh |-> token[r]]
        /\ sid[r] \in Logins /\ token[r] \in JTI /\ token[r] # r
    BY <1>0, <1>2, ExecFrame, OwnClaims, Kinds
  <2>3. session' = [id |-> sid[r], refresh |-> r] /\ session' \in Session
    BY <1>2, <2>1, <2>2, Records, Kinds DEF RotateWrites
  <2>4. refresh = [j \in JTI |-> IF j = token[r] THEN sid[r] ELSE None]
    BY <2>2, Records DEF OneRefreshToken
  <2>5. refresh' = [j \in JTI |-> IF j = r THEN sid[r] ELSE None]
    BY <1>2, <2>1, <2>2, <2>4, Kinds DEF RotateWrites
  <2>6. OneRefreshToken'
    BY <1>2, <2>2, <2>3, <2>5, Records, Kinds DEF OneRefreshToken
  <2> QED
    BY <1>2, <2>1, <2>2, <2>3, <2>5, <2>6, Kinds DEF RotateWrites
<1>3. CASE r \in Logouts
  <2>1. LogoutWrites(r)
    BY <1>3, Kinds DEF Exec, Writes
  <2>2. sid[r] \in Logins /\ token[r] \in JTI
    BY <1>0, <1>3, OwnClaims, Kinds
  <2>3. CASE session.id = sid[r]
    <3>1. session' = NoSession
      BY <1>0, <2>1, <2>3 DEF LogoutWrites
    <3>2. refresh' = [refresh EXCEPT ![session.refresh] = None]
      BY <1>0, <2>1, <2>3 DEF LogoutWrites
    <3>3. refresh' = [j \in JTI |-> None]
      BY <3>2 DEF OneRefreshToken
    <3>4. OneRefreshToken'
      BY <3>1, <3>3, Records, Kinds DEF OneRefreshToken
    <3> QED
      BY <1>3, <2>1, <2>2, <2>3, <3>1, <3>3, <3>4, Records, Kinds DEF LogoutWrites
  <2>4. CASE session.id # sid[r]
    <3>1. session' = session /\ refresh' = refresh
      BY <1>0, <2>1, <2>4 DEF LogoutWrites
    <3>2. OneRefreshToken'
      BY <3>1 DEF OneRefreshToken
    <3> QED
      BY <1>3, <2>1, <2>2, <2>4, <3>1, <3>2, Kinds DEF LogoutWrites
  <2> QED
    BY <2>3, <2>4
<1> QED
  BY <1>1, <1>2, <1>3, Kinds

\* Whoever an EXEC beats has one more request to blame; its own request is
\* done with EXECs.
LEMMA ExecLosses ==
    ASSUME IndInv, NEW r \in Requests, Exec(r)
    PROVE  LossesAreOthers'
<1> SUFFICES ASSUME NEW q \in Requests
             PROVE  conflicts'[q] + (IF Beaten(q)' THEN 1 ELSE 0)
                      <= Cardinality(Others(q)') + expiries'
  BY DEF LossesAreOthers
<1>1. /\ conflicts[q] \in Nat /\ expiries \in Nat /\ Cardinality(Others(q)) \in Nat
      /\ conflicts[q] + (IF Beaten(q) THEN 1 ELSE 0) <= Cardinality(Others(q)) + expiries
  BY OthersCount, AuthAssumption DEF IndInv, TypeOK, LossesAreOthers
<1>2. conflicts'[q] = conflicts[q] /\ expiries' = expiries
  BY ExecFrame
<1>3. \A p \in Requests : Applied(p)' <=> Applied(p) \/ p = r
  BY ExecApplied
<1>4. CASE q = r
  <2>1. Others(q)' = Others(q)
    BY <1>3, <1>4 DEF Others
  <2>2. ~Beaten(q)'
    BY <1>4, ExecFrame DEF Beaten
  <2> QED
    BY <1>1, <1>2, <2>1, <2>2
<1>5. CASE q # r
  <2>1. Others(q)' = Others(q) \cup {r} /\ r \notin Others(q)
    BY <1>3, <1>5, ExecFrame DEF Others
  <2>2. Cardinality(Others(q)') = Cardinality(Others(q)) + 1
    <3>1. IsFiniteSet(Others(q))
      BY AuthAssumption, FS_Subset DEF Others
    <3> QED
      BY <2>1, <3>1, FS_AddElement
  <2> QED
    BY <1>1, <1>2, <2>2
<1> QED
  BY <1>4, <1>5

LEMMA ExecInv ==
    ASSUME IndInv, NEW r \in Requests, Exec(r)
    PROVE  IndInv'
<1> USE DEF IndInv
<1>0. pc[r] = "exec" /\ ~Applied(r) /\ seen[r] = session
  BY ExecFrame
<1>1. TypeOK' /\ OneRefreshToken'
  BY ExecFrame, ExecStore DEF TypeOK
<1>2. TokensWereIssued'
  <2>1. \A j \in Issued : j \in Issued'
    BY <1>0, ExecFrame, Kinds DEF Issued
  <2>2. \A l \in Requests : Applied(l) => pc'[l] \in {"done", "lost"}
    BY ExecFrame DEF Applied
  <2>3. \A q \in Requests : pc'[q] = "idle" <=> pc[q] = "idle"
    BY <1>0, ExecFrame
  <2> QED
    BY <2>1, <2>2, <2>3, ExecFrame, Kinds DEF TokensWereIssued, Applied, Requests
<1>3. SessionWasWritten'
  <2>1. ASSUME NEW l \in Requests, Applied(l) \/ l = r PROVE pc'[l] \in {"done", "lost"}
    BY <2>1, ExecFrame DEF Applied
  <2>2. CASE r \in Logins
    BY <1>0, <2>1, <2>2, ExecFrame, ExecStore, OwnClaims, Records, Kinds
       DEF SessionWasWritten, Applied
  <2>3. CASE r \in Refreshes
    BY <1>0, <2>1, <2>3, ExecFrame, ExecStore, OwnClaims, Records, Kinds
       DEF SessionWasWritten, Applied
  <2>4. CASE r \in Logouts
    <3>1. session # NoSession => session.id \in Requests /\ session.refresh \in Requests
      BY Records, Kinds DEF TypeOK
    <3> QED
      BY <1>0, <2>1, <2>4, <3>1, ExecFrame, ExecStore DEF SessionWasWritten, Applied
  <2> QED
    BY <2>2, <2>3, <2>4, Kinds
<1>4. SnapshotsHold'
  BY <1>0, ExecFrame DEF SnapshotsHold, TypeOK
<1>5. RetriesAreBounded'
  BY <1>0, ExecFrame DEF RetriesAreBounded
<1>6. \A q \in Requests : pc'[q] \in {"done", "lost"} => Applied(q) \/ q = r
  BY ExecFrame DEF Applied
<1>7. ASSUME NEW q \in Refreshes, pc'[q] \in {"done", "lost"}
      PROVE  session'.refresh # token[q]
  <2>1. q \in Requests /\ pc[q] # "idle" /\ (Applied(q) \/ q = r)
    BY <1>0, <1>6, <1>7, Kinds DEF Applied
  <2>2. token[q] \in JTI /\ pc[token[q]] = "done" /\ token[q] # r
    BY <1>0, <2>1 DEF TokensWereIssued, Issued
  <2>3. CASE r \in JTI
    BY <2>2, <2>3, ExecStore, OwnClaims, <1>0, Records, Kinds DEF JTI
  <2>4. CASE r \in Logouts
    <3>1. Applied(q) /\ session.refresh # token[q]
      BY <2>1, <2>4, Kinds DEF SpentTokensAreGone
    <3> QED
      BY <2>2, <2>4, <3>1, ExecStore, Records, Kinds
  <2> QED
    BY <2>3, <2>4, Kinds
<1>8. SpentTokensAreGone'
  BY <1>7, ExecFrame DEF SpentTokensAreGone, Applied
<1>9. RefreshIsSingleUse'
  <2>1. ASSUME NEW q \in Refreshes, q # r, r \in Refreshes, pc'[q] \in {"done", "lost"}
        PROVE  token[q] # token[r]
    <3>1. Applied(q) /\ session.refresh # token[q]
      BY <1>6, <2>1, Kinds DEF SpentTokensAreGone
    <3>2. session.refresh = token[r]
      BY <1>0, <2>1, ExecFrame, OwnClaims, Records, Kinds
    <3> QED
      BY <3>1, <3>2
  <2>2. ASSUME NEW p \in Refreshes, NEW q \in Refreshes, p # q, p # r, q # r,
               pc'[p] \in {"done", "lost"}, pc'[q] \in {"done", "lost"}
        PROVE  token[p] # token[q]
    <3>1. Applied(p) /\ Applied(q)
      BY <1>6, <2>2, Kinds
    <3> QED
      BY <2>2, <3>1 DEF RefreshIsSingleUse
  <2> QED
    BY <2>1, <2>2, ExecFrame DEF RefreshIsSingleUse, Applied
<1>10. LoggedOutSessionsAreGone'
  <2> SUFFICES ASSUME NEW q \in Logouts, pc'[q] \in {"done", "lost"}
               PROVE  session'.id # sid[q]
    BY ExecFrame DEF LoggedOutSessionsAreGone, Applied
  <2>1. q \in Requests /\ pc[q] # "idle" /\ (Applied(q) \/ q = r)
    BY <1>0, <1>6, Kinds DEF Applied, Requests
  <2>2. sid[q] \in Logins /\ Applied(sid[q])
    BY <2>1 DEF TokensWereIssued
  <2>3. CASE r \in Logins
    BY <1>0, <2>2, <2>3, ExecStore, Records, Kinds
  <2>4. CASE r \in Refreshes
    <3>1. Applied(q) /\ session.id # sid[q]
      BY <2>1, <2>4, Kinds DEF LoggedOutSessionsAreGone
    <3> QED
      BY <1>0, <2>4, <3>1, ExecFrame, ExecStore, OwnClaims, Records, Kinds
  <2>5. CASE r \in Logouts
    BY <2>1, <2>2, <2>5, ExecStore, Records, Kinds DEF LoggedOutSessionsAreGone
  <2> QED
    BY <2>3, <2>4, <2>5, Kinds
<1> QED
  BY <1>1, <1>2, <1>3, <1>4, <1>5, <1>8, <1>9, <1>10, ExecLosses

LEMMA ExpireInv ==
    ASSUME IndInv, Expire
    PROVE  IndInv'
<1> USE DEF IndInv
<1>1. /\ session' = NoSession /\ session # NoSession
      /\ UNCHANGED <<blacklist, lastLogin, pc, token, sid, seen, conflicts>>
      /\ touched' = [q \in Requests |-> TRUE]
  BY DEF Expire, TouchWatchers
<1>2. refresh' = [j \in JTI |-> None]
  BY DEF Expire, OneRefreshToken
<1>3. TypeOK'
  BY <1>1, <1>2, Records, AuthAssumption DEF TypeOK, Expire
<1>4. OneRefreshToken'
  BY <1>1, <1>2, Records, Kinds DEF OneRefreshToken
<1>5. RefreshIsSingleUse' /\ RetriesAreBounded'
  BY <1>1 DEF RefreshIsSingleUse, RetriesAreBounded, Applied
<1>6. TokensWereIssued'
  BY <1>1 DEF TokensWereIssued, Issued, Applied
<1>7. SessionWasWritten' /\ SnapshotsHold'
  BY <1>1 DEF SessionWasWritten, SnapshotsHold
<1>8. SpentTokensAreGone' /\ LoggedOutSessionsAreGone'
  <2>1. \A q \in Requests : Applied(q)' <=> Applied(q)
    BY <1>1 DEF Applied
  <2>2. /\ \A q \in Refreshes : Applied(q) => token[q] \in JTI
        /\ \A q \in Logouts : Applied(q) => sid[q] \in Logins
    BY DEF TokensWereIssued, Issued, Applied
  <2> QED
    BY <1>1, <2>1, <2>2, Records, Kinds
       DEF SpentTokensAreGone, LoggedOutSessionsAreGone, Requests, Applied
<1>9. LossesAreOthers'
  <2> SUFFICES ASSUME NEW q \in Requests
               PROVE  conflicts'[q] + (IF Beaten(q)' THEN 1 ELSE 0)
                        <= Cardinality(Others(q)') + expiries'
    BY DEF LossesAreOthers
  <2>1. /\ conflicts[q] \in Nat /\ expiries \in Nat /\ Cardinality(Others(q)) \in Nat
        /\ conflicts[q] + (IF Beaten(q) THEN 1 ELSE 0) <= Cardinality(Others(q)) + expiries
    BY OthersCount, AuthAssumption DEF TypeOK, LossesAreOthers
  <2>2. Others(q)' = Others(q) /\ conflicts'[q] = conflicts[q] /\ expiries' = expiries + 1
    BY <1>1 DEF Others, Applied, Expire
  <2> QED
    BY <2>1, <2>2
<1> QED
  BY <1>3, <1>4, <1>5, <1>6, <1>7, <1>8, <1>9

LEMMA NextInv ==
    ASSUME IndInv, [Next]_vars
    PROVE  IndInv'
<1>1. CASE UNCHANGED vars
  BY <1>1 DEF vars, store, IndInv, TypeOK, OneRefreshToken, RefreshIsSingleUse, Applied,
     TokensWereIssued, Issued, SessionWasWritten, SnapshotsHold, RetriesAreBounded,
     SpentTokensAreGone, LoggedOutSessionsAreGone, LossesAreOthers, Beaten, Others
<1>2. CASE Next
  <2>1. CASE Expire
    BY <2>1, ExpireInv
  <2>2. ASSUME NEW r \in Requests, Exec(r) PROVE IndInv'
    BY <2>2, ExecInv
  <2>3. ASSUME NEW r \in Requests, Quiet(r) PROVE IndInv'
    BY <2>3, QuietInv
  <2> QED
    BY <1>2, <2>1, <2>2, <2>3, Kinds DEF Next, Step, Quiet, Requests
<1> QED
  BY <1>1, <1>2

-----------------------------------------------------------------------------
(* Theorems *)

\* The inductive invariant of the login state in auth_store.go: whatever an
\* operation read in Redis is still there when its EXEC is not refused.
THEOREM IndInvHolds == Spec => []IndInv
<1>1. Init => IndInv
  BY InitInv
<1>2. IndInv /\ [Next]_vars => IndInv'
  BY NextInv
<1> QED
  BY <1>1, <1>2, PTL DEF Spec

\* Type correctness of the login state.
THEOREM TypeCorrect == Spec => []TypeOK
<1>1. IndInv => TypeOK
  BY DEF IndInv
<1> QED
  BY <1>1, IndInvHolds, PTL

\* LoginSession, RotateRefreshToken and LogoutSession leave exactly one refresh
\* state per session, however they interleave.
THEOREM OneRefreshTokenHolds == Spec => []OneRefreshToken
<1>1. IndInv => OneRefreshToken
  BY DEF IndInv
<1> QED
  BY <1>1, IndInvHolds, PTL

\* RotateRefreshToken exchanges a refresh token at most once.
THEOREM RefreshTokensAreSingleUse == Spec => []RefreshIsSingleUse
<1>1. IndInv => RefreshIsSingleUse
  BY DEF IndInv
<1> QED
  BY <1>1, IndInvHolds, PTL

\* After LogoutSession no token of the session is valid again.
THEOREM LogoutHolds == Spec => []LogoutIsFinal
<1>1. IndInv => LogoutIsFinal
  BY DEF IndInv, LogoutIsFinal, LoggedOutSessionsAreGone, AccessValid, RefreshValid
<1> QED
  BY <1>1, IndInvHolds, PTL

\* RetryRedisTx is never in its own way: each EXEC a request loses, another
\* request's write or an expiry won.
THEOREM ConflictsComeFromOthers == Spec => []ConflictsAreOthers
<1>1. IndInv => ConflictsAreOthers
  <2> SUFFICES ASSUME IndInv, NEW r \in Requests
               PROVE  conflicts[r] <= Cardinality(Others(r)) + expiries
    BY DEF ConflictsAreOthers
  <2>1. /\ conflicts[r] \in Nat /\ expiries \in Nat /\ Cardinality(Others(r)) \in Nat
        /\ conflicts[r] + (IF Beaten(r) THEN 1 ELSE 0) <= Cardinality(Others(r)) + expiries
    BY OthersCount, AuthAssumption DEF IndInv, TypeOK, LossesAreOthers
  <2> QED
    BY <2>1
<1> QED
  BY <1>1, IndInvHolds, PTL
=============================================================================
