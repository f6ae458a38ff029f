------------------------- MODULE OutboxWorkerProofs -------------------------
(***************************************************************************)
(* Theorems of OutboxWorker for every set of messages and workers, every   *)
(* retry limit, batch size and number of faults.                           *)
(***************************************************************************)
EXTENDS OutboxWorker, TLAPS

\* The columns the UPDATE statements set keep a row a row.
LEMMA EditedRow ==
    ASSUME NEW r \in Row
    PROVE  /\ [r EXCEPT !.status = "sent", !.lockedBy = None, !.expired = FALSE] \in Row
           /\ [r EXCEPT !.status = "pending", !.lockedBy = None, !.expired = FALSE] \in Row
           /\ [r EXCEPT !.status = "pending", !.retryCount = @ + 1, !.due = FALSE,
                        !.lockedBy = None, !.expired = FALSE] \in Row
           /\ [r EXCEPT !.status = "failed", !.retryCount = @ + 1,
                        !.lockedBy = None, !.expired = FALSE] \in Row
           /\ [r EXCEPT !.status = "pending"] \in Row
           /\ [r EXCEPT !.due = TRUE] \in Row
           /\ [r EXCEPT !.expired = TRUE] \in Row
           /\ \A w \in Workers :
                [r EXCEPT !.status = "processing", !.lockedBy = w,
                          !.expired = FALSE] \in Row
<1>1. [r EXCEPT !.status = "sent", !.lockedBy = None, !.expired = FALSE] \in Row
  BY DEF Row, Status
<1>2. [r EXCEPT !.status = "pending", !.lockedBy = None, !.expired = FALSE] \in Row
  BY DEF Row, Status
<1>3. r.retryCount + 1 \in Nat
  BY DEF Row
<1>4. [r EXCEPT !.status = "pending", !.retryCount = @ + 1, !.due = FALSE,
                !.lockedBy = None, !.expired = FALSE] \in Row
  BY <1>3 DEF Row, Status
<1>5. [r EXCEPT !.status = "failed", !.retryCount = @ + 1,
                !.lockedBy = None, !.expired = FALSE] \in Row
  BY <1>3 DEF Row, Status
<1>0. [r EXCEPT !.status = "pending"] \in Row
  BY DEF Row, Status
<1>6. [r EXCEPT !.due = TRUE] \in Row
  BY DEF Row
<1>7. [r EXCEPT !.expired = TRUE] \in Row
  BY DEF Row
<1>8. ASSUME NEW w \in Workers
      PROVE  [r EXCEPT !.status = "processing", !.lockedBy = w,
                       !.expired = FALSE] \in Row
  BY DEF Row, Status
<1> QED
  BY <1>0, <1>1, <1>2, <1>4, <1>5, <1>6, <1>7, <1>8

LEMMA ResetKeepsRows ==
    ASSUME row \in [Msgs -> Row], ResetTimeoutProcessingMessages
    PROVE  row' \in [Msgs -> Row]
BY EditedRow DEF ResetTimeoutProcessingMessages

LEMMA MarksKeepRows ==
    ASSUME row \in [Msgs -> Row], NEW m \in Msgs,
           MarkAsPublished(m) \/ MarkAsRetry(m) \/ MarkAsFailed(m)
    PROVE  row' \in [Msgs -> Row]
<1>1. ASSUME NEW r \in Row, UpdateProcessing(m, r)
      PROVE  row' \in [Msgs -> Row]
  BY <1>1 DEF UpdateProcessing
<1>2. row[m] \in Row
  OBVIOUS
<1> QED
  BY <1>1, <1>2, EditedRow DEF MarkAsPublished, MarkAsRetry, MarkAsFailed

LEMMA LeasesKeepRows ==
    ASSUME row \in [Msgs -> Row], NEW w \in Workers, TakeLeases(w)
    PROVE  row' \in [Msgs -> Row]
<1>1. \A m \in Msgs : row[m] \in Row
  OBVIOUS
<1> QED
  BY <1>1, EditedRow DEF TakeLeases

LEMMA FaultKeepsType ==
    ASSUME faults \in 0 .. MaxFaults, Fault
    PROVE  faults' \in 0 .. MaxFaults
BY OutboxAssumption DEF Fault

LEMMA InitType == Init => TypeOK
BY OutboxAssumption DEF Init, TypeOK, NoRow, Row, Status, PC

\* Every step of every actor keeps the state well typed.
LEMMA NextType ==
    ASSUME TypeOK, [Next]_vars
    PROVE  TypeOK'
<1> USE DEF TypeOK
<1>1. ASSUME NEW m \in Msgs, CreateWithTx(m) PROVE TypeOK'
  <2>1. [row[m] EXCEPT !.status = "pending"] \in Row
    <3>1. row[m] \in Row
      OBVIOUS
    <3> QED
      BY <3>1, EditedRow
  <2>2. row' = [row EXCEPT ![m] = [row[m] EXCEPT !.status = "pending"]]
    BY <1>1 DEF CreateWithTx
  <2>3. row' \in [Msgs -> Row]
    BY <2>1, <2>2
  <2> QED
    BY <1>1, <2>3 DEF CreateWithTx
<1>2. ASSUME NEW m \in Msgs, BackoffElapses(m) PROVE TypeOK'
  <2>1. [row[m] EXCEPT !.due = TRUE] \in Row
    <3>1. row[m] \in Row
      OBVIOUS
    <3> QED
      BY <3>1, EditedRow
  <2>2. row' = [row EXCEPT ![m] = [row[m] EXCEPT !.due = TRUE]]
    BY <1>2 DEF BackoffElapses
  <2>3. row' \in [Msgs -> Row]
    BY <2>1, <2>2
  <2> QED
    BY <1>2, <2>3 DEF BackoffElapses
<1>3. ASSUME NEW m \in Msgs, LeaseExpires(m) PROVE TypeOK'
  <2>1. [row[m] EXCEPT !.expired = TRUE] \in Row
    <3>1. row[m] \in Row
      OBVIOUS
    <3> QED
      BY <3>1, EditedRow
  <2>2. row' = [row EXCEPT ![m] = [row[m] EXCEPT !.expired = TRUE]]
    BY <1>3 DEF LeaseExpires
  <2>3. row' \in [Msgs -> Row]
    BY <2>1, <2>2
  <2> QED
    BY <1>3, <2>3 DEF LeaseExpires
<1>4. ASSUME NEW w \in Workers, Start(w) \/ Tick(w) PROVE TypeOK'
  <2>1. row' \in [Msgs -> Row] /\ faults' \in 0 .. MaxFaults
    <3>1. CASE ResetTimeoutProcessingMessages /\ UNCHANGED faults
      BY <3>1, ResetKeepsRows
    <3>2. CASE Fault /\ UNCHANGED row
      BY <3>2, FaultKeepsType
    <3> QED
      BY <1>4, <3>1, <3>2 DEF Start, Tick, ResetOrError
  <2> QED
    BY <1>4, <2>1 DEF Start, Tick, Goto, PC
<1>5. ASSUME NEW w \in Workers, ClaimSelect(w) PROVE TypeOK'
  BY <1>5 DEF ClaimSelect, Goto, PC
<1>6. ASSUME NEW w \in Workers, ClaimCommit(w) PROVE TypeOK'
  <2>1. row' \in [Msgs -> Row]
    BY <1>6, LeasesKeepRows DEF ClaimCommit
  <2>2. batch' \in [Workers -> SUBSET Msgs]
    BY <1>6 DEF ClaimCommit, Locked
  <2>3. seen' \in [Workers -> [Msgs -> Nat]]
    BY <1>6 DEF ClaimCommit, Row
  <2> QED
    BY <1>6, <2>1, <2>2, <2>3 DEF ClaimCommit, Unlock, Goto, PC
<1>7. ASSUME NEW w \in Workers, ClaimFails(w) PROVE TypeOK'
  <2>1. row' \in [Msgs -> Row]
    BY <1>7, LeasesKeepRows DEF ClaimFails
  <2> QED
    BY <1>7, <2>1, FaultKeepsType DEF ClaimFails, Unlock, Goto, PC
<1>8. ASSUME NEW w \in Workers, NEW m \in Msgs, PublishSucceeds(w, m) PROVE TypeOK'
  BY <1>8 DEF PublishSucceeds, Goto, PC
<1>9. ASSUME NEW w \in Workers, NEW m \in Msgs, PublishFails(w, m) PROVE TypeOK'
  BY <1>9 DEF PublishFails, Goto, PC
<1>10. ASSUME NEW w \in Workers, NEW m \in Msgs, Mark(w, m) PROVE TypeOK'
  <2>1. row' \in [Msgs -> Row]
    BY <1>10, MarksKeepRows DEF Mark
  <2> QED
    BY <1>10, <2>1 DEF Mark, Finish, Goto, PC
<1>11. ASSUME NEW w \in Workers, NEW m \in Msgs, MarkError(w, m) PROVE TypeOK'
  BY <1>11, FaultKeepsType DEF MarkError, Finish, Goto, PC
<1>12. ASSUME NEW w \in Workers, Crash(w) PROVE TypeOK'
  BY <1>12, FaultKeepsType DEF Crash, Unlock, Goto, PC
<1>13. CASE UNCHANGED vars
  BY <1>13 DEF vars
<1> QED
  BY <1>1, <1>2, <1>3, <1>4, <1>5, <1>6, <1>7, <1>8, <1>9, <1>10, <1>11, <1>12, <1>13
  DEF Next, Work

\* The state stays well typed in every behaviour.
THEOREM TypeCorrect == Spec => []TypeOK
BY InitType, NextType, PTL DEF Spec

-----------------------------------------------------------------------------
(* What each statement does to the columns the invariant speaks of *)

LEMMA ResetEffect ==
    ASSUME TypeOK, ResetTimeoutProcessingMessages, NEW n \in Msgs
    PROVE  /\ row'[n].retryCount = row[n].retryCount
           /\ \/ row'[n].status = row[n].status
              \/ row[n].status = "processing" /\ row'[n].status = "pending"
BY DEF TypeOK, Row, ResetTimeoutProcessingMessages

LEMMA LeaseEffect ==
    ASSUME TypeOK, NEW w \in Workers, TakeLeases(w), NEW n \in Msgs
    PROVE  /\ row'[n].retryCount = row[n].retryCount
           /\ \/ row'[n].status = row[n].status
              \/ /\ rowLock[n] = w
                 /\ row[n].status = "pending"
                 /\ row'[n].status = "processing"
BY DEF TypeOK, Row, TakeLeases, Locked

LEMMA MarkEffect ==
    ASSUME TypeOK, NEW m \in Msgs, NEW n \in Msgs
    PROVE  /\ MarkAsPublished(m) =>
                /\ row'[n].retryCount = row[n].retryCount
                /\ \/ row'[n].status = row[n].status
                   \/ n = m /\ row[n].status = "processing" /\ row'[n].status = "sent"
           /\ MarkAsRetry(m) =>
                \/ row'[n] = row[n]
                \/ /\ row[n].status = "processing" /\ row'[n].status = "pending"
                   /\ row'[n].retryCount = row[n].retryCount + 1
           /\ MarkAsFailed(m) =>
                \/ row'[n] = row[n]
                \/ /\ n = m /\ row[n].status = "processing" /\ row'[n].status = "failed"
                   /\ row'[n].retryCount = row[n].retryCount + 1
<1> USE DEF TypeOK, Row, UpdateProcessing
<1>1. CASE row[m].status # "processing"
  BY <1>1 DEF MarkAsPublished, MarkAsRetry, MarkAsFailed
<1>2. CASE row[m].status = "processing" /\ n # m
  BY <1>2 DEF MarkAsPublished, MarkAsRetry, MarkAsFailed
<1>3. CASE row[m].status = "processing" /\ n = m
  <2> DEFINE r == row[m]
  <2>1. r \in Row
    OBVIOUS
  <2> HIDE DEF r
  <2>2. /\ [r EXCEPT !.status = "sent", !.lockedBy = None, !.expired = FALSE].status = "sent"
        /\ [r EXCEPT !.status = "sent", !.lockedBy = None,
                     !.expired = FALSE].retryCount = r.retryCount
    BY <2>1
  <2>3. LET s == [r EXCEPT !.status = "pending", !.retryCount = @ + 1, !.due = FALSE,
                           !.lockedBy = None, !.expired = FALSE]
        IN  s.status = "pending" /\ s.retryCount = r.retryCount + 1
    BY <2>1
  <2>4. LET s == [r EXCEPT !.status = "failed", !.retryCount = @ + 1,
                           !.lockedBy = None, !.expired = FALSE]
        IN  s.status = "failed" /\ s.retryCount = r.retryCount + 1
    BY <2>1
  <2>5. \A t : UpdateProcessing(m, t) => row'[n] = t
    BY <1>3
  <2> QED
    BY <1>3, <2>2, <2>3, <2>4, <2>5 DEF r, MarkAsPublished, MarkAsRetry, MarkAsFailed
<1> QED
  BY <1>1, <1>2, <1>3

-----------------------------------------------------------------------------
(* The inductive invariant *)

LEMMA InitInd == Init => IndInv
<1> SUFFICES ASSUME Init PROVE IndInv
  OBVIOUS
<1>1. TypeOK
  BY InitType
<1>2. \A m \in Msgs : /\ row[m].status = "none" /\ row[m].retryCount = 0
                      /\ rowLock[m] = None
  BY DEF Init, NoRow
<1>3. \A w \in Workers : batch[w] = {}
  BY DEF Init
<1> QED
  BY <1>1, <1>2, <1>3, OutboxAssumption
  DEF IndInv, SentOnlyIfDelivered, FailedOnlyAtLimit, LocksAreClaims,
      SnapshotsAreOld, MarksAreJustified, Current

\* Only one message of a batch is the current one.
LEMMA CurrentUnique ==
    ASSUME TypeOK, NEW w \in Workers, NEW m \in Msgs, NEW n \in Msgs,
           Current(w, m), Current(w, n)
    PROVE  m = n
BY OutboxAssumption DEF TypeOK, Current

\* Recording a row, the back-off and a lease running out.
LEMMA TableInd ==
    ASSUME IndInv, TypeOK', NEW m \in Msgs,
           CreateWithTx(m) \/ BackoffElapses(m) \/ LeaseExpires(m)
    PROVE  IndInv'
<1> USE DEF IndInv
<1>1. \A n \in Msgs : /\ row'[n].retryCount = row[n].retryCount
                      /\ \/ row'[n].status = row[n].status
                         \/ row[n].status = "none" /\ row'[n].status = "pending"
  <2>1. CASE CreateWithTx(m)
    BY <2>1 DEF CreateWithTx, TypeOK, Row
  <2>2. CASE BackoffElapses(m)
    BY <2>2 DEF BackoffElapses, TypeOK, Row
  <2>3. CASE LeaseExpires(m)
    BY <2>3 DEF LeaseExpires, TypeOK, Row
  <2> QED
    BY <2>1, <2>2, <2>3
<1>2. UNCHANGED <<rowLock, pc, batch, seen, broker>>
  BY DEF CreateWithTx, BackoffElapses, LeaseExpires
<1>3. SentOnlyIfDelivered' /\ FailedOnlyAtLimit'
  BY <1>1, <1>2 DEF SentOnlyIfDelivered, FailedOnlyAtLimit
<1>4. LocksAreClaims'
  BY <1>1, <1>2 DEF LocksAreClaims
<1>5. SnapshotsAreOld'
  BY <1>1, <1>2 DEF SnapshotsAreOld, TypeOK
<1>6. MarksAreJustified'
  BY <1>2 DEF MarksAreJustified, Current, ShouldMarkAsFailed
<1> QED
  BY <1>3, <1>4, <1>5, <1>6

\* The reset of timed-out rows, on startup and on every tick.
LEMMA ResetInd ==
    ASSUME IndInv, TypeOK', NEW w \in Workers, Start(w) \/ Tick(w)
    PROVE  IndInv'
<1> USE DEF IndInv
<1>1. \A n \in Msgs : /\ row'[n].retryCount = row[n].retryCount
                      /\ \/ row'[n].status = row[n].status
                         \/ row[n].status = "processing" /\ row'[n].status = "pending"
  BY ResetEffect DEF Start, Tick, ResetOrError
<1>2. UNCHANGED <<rowLock, batch, seen, broker>>
  BY DEF Start, Tick
<1>3. /\ pc[w] \in {"down", "idle"} /\ pc'[w] \in {"idle", "claim"}
      /\ \A v \in Workers \ {w} : pc'[v] = pc[v]
  BY DEF Start, Tick, Goto, TypeOK
<1>4. SentOnlyIfDelivered' /\ FailedOnlyAtLimit'
  BY <1>1, <1>2 DEF SentOnlyIfDelivered, FailedOnlyAtLimit
<1>5. LocksAreClaims'
  BY <1>1, <1>2, <1>3 DEF LocksAreClaims
<1>6. SnapshotsAreOld'
  BY <1>1, <1>2 DEF SnapshotsAreOld, TypeOK
<1>7. MarksAreJustified'
  BY <1>2, <1>3 DEF MarksAreJustified, Current, ShouldMarkAsFailed
<1> QED
  BY <1>4, <1>5, <1>6, <1>7

\* The claim: its two halves, and the transaction that fails in between.
LEMMA ClaimInd ==
    ASSUME IndInv, TypeOK', NEW w \in Workers,
           ClaimSelect(w) \/ ClaimCommit(w) \/ ClaimFails(w)
    PROVE  IndInv'
<1> USE DEF IndInv
<1>1. CASE ClaimSelect(w)
  <2>1. UNCHANGED <<row, batch, seen, broker>>
    BY <1>1 DEF ClaimSelect
  <2>2. /\ pc[w] = "claim" /\ pc'[w] \in {"idle", "selected"}
        /\ ClaimQuery # {} => pc'[w] = "selected"
        /\ \A v \in Workers \ {w} : pc'[v] = pc[v]
    BY <1>1 DEF ClaimSelect, Goto, TypeOK
  <2>3. LocksAreClaims'
    BY <1>1, <2>1, <2>2 DEF ClaimSelect, LocksAreClaims, ClaimQuery, Claimable
  <2>4. MarksAreJustified'
    BY <2>1, <2>2 DEF MarksAreJustified, Current, ShouldMarkAsFailed
  <2> QED
    BY <2>1, <2>3, <2>4 DEF SentOnlyIfDelivered, FailedOnlyAtLimit, SnapshotsAreOld
<1>2. CASE ClaimCommit(w) \/ ClaimFails(w)
  <2>1. \A n \in Msgs :
           /\ row'[n].retryCount = row[n].retryCount
           /\ \/ row'[n].status = row[n].status
              \/ /\ rowLock[n] = w
                 /\ row[n].status = "pending"
                 /\ row'[n].status = "processing"
    BY <1>2, LeaseEffect DEF ClaimCommit, ClaimFails
  <2>2. /\ pc[w] = "selected" /\ pc'[w] \in {"idle", "publish"}
        /\ \A v \in Workers \ {w} : pc'[v] = pc[v]
        /\ UNCHANGED broker
    BY <1>2 DEF ClaimCommit, ClaimFails, Goto, TypeOK
  <2>3. \A n \in Msgs : rowLock'[n] = IF rowLock[n] = w THEN None ELSE rowLock[n]
    BY <1>2 DEF ClaimCommit, ClaimFails, Unlock
  <2>4. SentOnlyIfDelivered'
    BY <2>1, <2>2 DEF SentOnlyIfDelivered
  <2>5. FailedOnlyAtLimit'
    BY <2>1 DEF FailedOnlyAtLimit, LocksAreClaims
  <2>6. LocksAreClaims'
    <3> SUFFICES ASSUME NEW n \in Msgs, NEW v \in Workers, rowLock'[n] = v
                 PROVE  /\ pc'[v] = "selected"
                        /\ row'[n].status = "pending"
                        /\ row'[n].retryCount < MaxRetryCount
      BY DEF LocksAreClaims
    <3>1. rowLock[n] = v /\ v # w
      BY <2>3, OutboxAssumption
    <3>2. /\ pc[v] = "selected"
          /\ row[n].status = "pending"
          /\ row[n].retryCount < MaxRetryCount
      BY <3>1 DEF LocksAreClaims
    <3> QED
      BY <2>1, <2>2, <3>1, <3>2
  <2>7. SnapshotsAreOld'
    <3> SUFFICES ASSUME NEW v \in Workers, NEW n \in batch'[v]
                 PROVE  row'[n].status # "none" /\ seen'[v][n] <= row'[n].retryCount
      BY DEF SnapshotsAreOld
    <3>1. CASE n \in batch[v] /\ seen'[v] = seen[v]
      BY <2>1, <3>1 DEF SnapshotsAreOld, TypeOK
    <3>2. CASE v = w /\ ClaimCommit(w)
      <4>1. n \in Locked(w) /\ row'[n].status = "processing"
        BY <3>2 DEF ClaimCommit, TypeOK
      <4>2. n \in Msgs /\ seen'[w][n] = row[n].retryCount
        BY <3>2, <4>1 DEF ClaimCommit, TypeOK, Locked
      <4> QED
        BY <2>1, <3>2, <4>1, <4>2 DEF TypeOK, Row
    <3> QED
      BY <1>2, <3>1, <3>2 DEF ClaimCommit, ClaimFails, TypeOK
  <2>8. MarksAreJustified'
    <3>1. \A v \in Workers \ {w} : batch'[v] = batch[v] /\ seen'[v] = seen[v]
      BY <1>2 DEF ClaimCommit, ClaimFails, TypeOK
    <3> QED
      BY <2>2, <3>1 DEF MarksAreJustified, Current, ShouldMarkAsFailed
  <2> QED
    BY <2>4, <2>5, <2>6, <2>7, <2>8
<1> QED
  BY <1>1, <1>2

\* A publish, whether it is confirmed or not.
LEMMA PublishInd ==
    ASSUME IndInv, TypeOK', NEW w \in Workers, NEW m \in Msgs,
           PublishSucceeds(w, m) \/ PublishFails(w, m)
    PROVE  IndInv'
<1> USE DEF IndInv
<1>1. /\ UNCHANGED <<row, rowLock, batch, seen>>
      /\ broker \subseteq broker'
      /\ pc[w] = "publish" /\ Current(w, m)
      /\ \A v \in Workers \ {w} : pc'[v] = pc[v]
  BY DEF PublishSucceeds, PublishFails, Goto, TypeOK
<1>2. /\ pc'[w] \in {"markSent", "markRetry", "markFailed"}
      /\ pc'[w] = "markSent" => m \in broker'
      /\ pc'[w] = "markFailed" => ShouldMarkAsFailed(w, m)
  BY DEF PublishSucceeds, PublishFails, Goto, TypeOK
<1>3. SentOnlyIfDelivered' /\ FailedOnlyAtLimit' /\ SnapshotsAreOld'
  BY <1>1 DEF SentOnlyIfDelivered, FailedOnlyAtLimit, SnapshotsAreOld
<1>4. LocksAreClaims'
  BY <1>1, <1>2 DEF LocksAreClaims
<1>5. MarksAreJustified'
  <2> SUFFICES ASSUME NEW v \in Workers, NEW n \in Msgs, Current(v, n)
               PROVE  /\ pc'[v] = "markSent" => n \in broker'
                      /\ pc'[v] = "markFailed" => ShouldMarkAsFailed(v, n)
    BY <1>1 DEF MarksAreJustified, Current, ShouldMarkAsFailed
  <2>1. CASE v = w
    <3>1. n = m
      BY <1>1, <2>1, CurrentUnique
    <3> QED
      BY <1>2, <2>1, <3>1
  <2>2. CASE v # w
    BY <1>1, <2>2 DEF MarksAreJustified
  <2> QED
    BY <2>1, <2>2
<1> QED
  BY <1>3, <1>4, <1>5

\* Recording the outcome of the current message, by whatever worker, with or
\* without the lease: this is where the retry counts have to add up.
LEMMA MarkInd ==
    ASSUME IndInv, TypeOK', NEW w \in Workers, NEW m \in Msgs,
           Mark(w, m) \/ MarkError(w, m)
    PROVE  IndInv'
<1> USE DEF IndInv
<1>1. /\ UNCHANGED <<rowLock, seen, broker>>
      /\ Current(w, m) /\ m \in batch[w]
      /\ pc[w] \in {"markSent", "markRetry", "markFailed"}
      /\ pc'[w] \in {"idle", "publish"}
      /\ \A v \in Workers \ {w} : pc'[v] = pc[v] /\ batch'[v] = batch[v]
      /\ batch'[w] \subseteq batch[w]
  BY DEF Mark, MarkError, Finish, Goto, TypeOK, Current
<1>2. \A n \in Msgs :
         \/ row'[n].status = row[n].status /\ row'[n].retryCount = row[n].retryCount
         \/ /\ n = m /\ pc[w] = "markSent"
            /\ row[n].status = "processing" /\ row'[n].status = "sent"
            /\ row'[n].retryCount = row[n].retryCount
         \/ /\ row[n].status = "processing" /\ row'[n].status = "pending"
            /\ row'[n].retryCount = row[n].retryCount + 1
         \/ /\ n = m /\ pc[w] = "markFailed"
            /\ row[n].status = "processing" /\ row'[n].status = "failed"
            /\ row'[n].retryCount = row[n].retryCount + 1
  BY MarkEffect DEF Mark, MarkError
<1>3. \A n \in Msgs : /\ row[n].retryCount \in Nat /\ row'[n].retryCount \in Nat
                      /\ \A v \in Workers : seen[v][n] \in Nat
  BY DEF TypeOK, Row
<1>4. SentOnlyIfDelivered'
  BY <1>1, <1>2 DEF SentOnlyIfDelivered, MarksAreJustified
<1>5. FailedOnlyAtLimit'
  <2>1. pc[w] = "markFailed" => row[m].retryCount + 1 >= MaxRetryCount
    BY <1>1, <1>3, OutboxAssumption
    DEF MarksAreJustified, ShouldMarkAsFailed, SnapshotsAreOld
  <2> QED
    BY <1>2, <1>3, <2>1, OutboxAssumption DEF FailedOnlyAtLimit
<1>6. LocksAreClaims'
  BY <1>1, <1>2 DEF LocksAreClaims
<1>7. SnapshotsAreOld'
  <2>1. \A v \in Workers : batch'[v] \subseteq batch[v] /\ batch[v] \subseteq Msgs
    BY <1>1 DEF TypeOK
  <2>2. \A n \in Msgs : row[n].retryCount <= row'[n].retryCount
    BY <1>2, <1>3
  <2>3. \A n \in Msgs : row[n].status # "none" => row'[n].status # "none"
    BY <1>2
  <2> QED
    BY <1>1, <1>3, <2>1, <2>2, <2>3 DEF SnapshotsAreOld
<1>8. MarksAreJustified'
  BY <1>1 DEF MarksAreJustified, Current, ShouldMarkAsFailed
<1> QED
  BY <1>4, <1>5, <1>6, <1>7, <1>8

LEMMA CrashInd ==
    ASSUME IndInv, TypeOK', NEW w \in Workers, Crash(w)
    PROVE  IndInv'
<1> USE DEF IndInv
<1>1. /\ UNCHANGED <<row, seen, broker>>
      /\ batch'[w] = {} /\ pc'[w] = "down"
      /\ \A v \in Workers \ {w} : pc'[v] = pc[v] /\ batch'[v] = batch[v]
      /\ \A n \in Msgs : rowLock'[n] = IF rowLock[n] = w THEN None ELSE rowLock[n]
  BY DEF Crash, Goto, Unlock, TypeOK
<1>2. SentOnlyIfDelivered' /\ FailedOnlyAtLimit'
  BY <1>1 DEF SentOnlyIfDelivered, FailedOnlyAtLimit
<1>3. LocksAreClaims'
  BY <1>1, OutboxAssumption DEF LocksAreClaims
<1>4. SnapshotsAreOld'
  BY <1>1 DEF SnapshotsAreOld
<1>5. MarksAreJustified'
  BY <1>1 DEF MarksAreJustified, Current, ShouldMarkAsFailed
<1> QED
  BY <1>2, <1>3, <1>4, <1>5

LEMMA StutterInd == IndInv /\ UNCHANGED vars => IndInv'
BY DEF vars, IndInv, TypeOK, SentOnlyIfDelivered, FailedOnlyAtLimit, LocksAreClaims,
       SnapshotsAreOld, MarksAreJustified, Current, ShouldMarkAsFailed

LEMMA NextInd == IndInv /\ [Next]_vars => IndInv'
<1> SUFFICES ASSUME IndInv, [Next]_vars PROVE IndInv'
  OBVIOUS
<1>1. TypeOK'
  BY NextType DEF IndInv
<1> QED
  BY <1>1, TableInd, ResetInd, ClaimInd, PublishInd, MarkInd, CrashInd, StutterInd
  DEF Next, Work

\* IndInv holds in every state, so a settled row tells the truth: sent means the
\* broker has the event, failed means exactly max_retry_count failures, with any
\* number of workers, lost leases, crashes and database errors.
THEOREM IndInvHolds == Spec => []IndInv
BY InitInd, NextInd, PTL DEF Spec

\* A row is marked sent only when the broker has the event.
THEOREM SentIsDelivered == Spec => []SentOnlyIfDelivered
<1>1. IndInv => SentOnlyIfDelivered
  BY DEF IndInv
<1> QED
  BY <1>1, IndInvHolds, PTL

\* retry_count is bounded and events are given up only at the bound.
THEOREM FailureIsAtLimit == Spec => []FailedOnlyAtLimit
<1>1. IndInv => FailedOnlyAtLimit
  BY DEF IndInv
<1> QED
  BY <1>1, IndInvHolds, PTL

-----------------------------------------------------------------------------
(* Settled rows are final, and the workers implement the outbox's promise *)

\* Every step but the recording of an outcome leaves settled rows as they are.
LEMMA SettledStep ==
    ASSUME TypeOK, [Next]_vars, NEW m \in Msgs, row[m].status \in {"sent", "failed"}
    PROVE  row'[m] = row[m]
<1> USE DEF TypeOK
<1>1. ASSUME NEW n \in Msgs, CreateWithTx(n) \/ BackoffElapses(n) \/ LeaseExpires(n)
      PROVE  row'[m] = row[m]
  <2>1. n # m
    BY <1>1 DEF CreateWithTx, BackoffElapses, LeaseExpires
  <2> QED
    BY <1>1, <2>1 DEF CreateWithTx, BackoffElapses, LeaseExpires
<1>2. ASSUME ResetTimeoutProcessingMessages PROVE row'[m] = row[m]
  BY <1>2 DEF ResetTimeoutProcessingMessages
<1>3. ASSUME NEW w \in Workers, TakeLeases(w) PROVE row'[m] = row[m]
  BY <1>3 DEF TakeLeases
<1>4. ASSUME NEW n \in Msgs, MarkAsPublished(n) \/ MarkAsRetry(n) \/ MarkAsFailed(n)
      PROVE  row'[m] = row[m]
  <2>1. ASSUME NEW r, UpdateProcessing(n, r) PROVE row'[m] = row[m]
    BY <2>1 DEF UpdateProcessing
  <2> QED
    BY <1>4, <2>1 DEF MarkAsPublished, MarkAsRetry, MarkAsFailed
<1>5. ASSUME NEW w \in Workers, Work(w) \/ Crash(w) PROVE row'[m] = row[m]
  BY <1>2, <1>3, <1>4, <1>5
  DEF Work, Start, Tick, ResetOrError, ClaimSelect, ClaimCommit, ClaimFails,
      PublishSucceeds, PublishFails, Mark, MarkError, Crash
<1> QED
  BY <1>1, <1>5 DEF Next, vars

\* No statement of a stale worker, and no reset, touches a settled row again.
THEOREM SettledRowsAreFinal == Spec => SettledIsFinal
<1>1. TypeOK /\ [Next]_vars
      => [\A m \in Msgs : row[m].status \in {"sent", "failed"} => row'[m] = row[m]]_vars
  BY SettledStep
<1> QED
  BY <1>1, TypeCorrect, PTL DEF Spec, SettledIsFinal

\* How the abstract fate of an event changes with the status of its row.
LEMMA FateStep ==
    ASSUME NEW m \in Msgs,
           \A n \in Msgs \ {m} : FateOf(row'[n].status) = FateOf(row[n].status)
    PROVE  [n \in Msgs |-> FateOf(row[n].status)]'
             = [[n \in Msgs |-> FateOf(row[n].status)] EXCEPT ![m] = FateOf(row'[m].status)]
OBVIOUS

\* Every step of the workers is a step of the promise or leaves it alone.
LEMMA PromiseStep ==
    ASSUME IndInv, [Next]_vars
    PROVE  [Promise!Next]_<<[m \in Msgs |-> FateOf(row[m].status)], broker>>
<1> DEFINE fate == [m \in Msgs |-> FateOf(row[m].status)]
<1> USE DEF IndInv
<1>1. ASSUME NEW m \in Msgs, CreateWithTx(m) PROVE Promise!Record(m)
  <2>1. /\ row[m].status = "none" /\ row'[m].status = "pending" /\ UNCHANGED broker
        /\ \A n \in Msgs \ {m} : row'[n] = row[n]
    BY <1>1 DEF CreateWithTx, TypeOK, Row
  <2> QED
    BY <2>1, FateStep DEF Promise!Record, FateOf
<1>2. ASSUME \A n \in Msgs :
               \/ row'[n].status = row[n].status
               \/ {row[n].status, row'[n].status} \subseteq {"pending", "processing"},
             UNCHANGED broker
      PROVE  UNCHANGED <<fate, broker>>
  BY <1>2 DEF FateOf
<1>3. ASSUME NEW m \in Msgs, BackoffElapses(m) \/ LeaseExpires(m)
      PROVE  UNCHANGED <<fate, broker>>
  <2>1. \A n \in Msgs : row'[n].status = row[n].status
    <3>1. row[m] \in Row
      BY DEF TypeOK
    <3>2. row'[m].status = row[m].status
      BY <1>3, <3>1 DEF BackoffElapses, LeaseExpires, TypeOK, Row
    <3>3. \A n \in Msgs \ {m} : row'[n] = row[n]
      BY <1>3 DEF BackoffElapses, LeaseExpires, TypeOK
    <3> QED
      BY <3>2, <3>3
  <2> QED
    BY <1>2, <1>3, <2>1 DEF BackoffElapses, LeaseExpires
<1>4. ASSUME NEW w \in Workers,
             Start(w) \/ Tick(w) \/ ClaimSelect(w) \/ ClaimCommit(w) \/ ClaimFails(w)
      PROVE  UNCHANGED <<fate, broker>>
  <2>1. CASE ResetTimeoutProcessingMessages
    BY <1>2, <1>4, <2>1, ResetEffect DEF Start, Tick, ClaimSelect, ClaimCommit, ClaimFails
  <2>2. CASE TakeLeases(w)
    BY <1>2, <1>4, <2>2, LeaseEffect DEF Start, Tick, ClaimSelect, ClaimCommit, ClaimFails
  <2>3. CASE UNCHANGED row
    BY <1>2, <1>4, <2>3 DEF Start, Tick, ClaimSelect, ClaimCommit, ClaimFails
  <2> QED
    BY <1>4, <2>1, <2>2, <2>3
    DEF Start, Tick, ResetOrError, ClaimSelect, ClaimCommit, ClaimFails
<1>5. ASSUME NEW w \in Workers, NEW m \in Msgs, PublishSucceeds(w, m) \/ PublishFails(w, m)
      PROVE  Promise!Deliver(m) \/ UNCHANGED <<fate, broker>>
  <2>1. row[m].status # "none" /\ UNCHANGED row
    BY <1>5 DEF PublishSucceeds, PublishFails, Current, SnapshotsAreOld
  <2>2. fate[m] # "unrecorded"
    BY <2>1 DEF FateOf, TypeOK, Row, Status
  <2> QED
    BY <1>5, <2>1, <2>2 DEF Promise!Deliver, PublishSucceeds, PublishFails
<1>6. ASSUME NEW w \in Workers, NEW m \in Msgs, Mark(w, m) \/ MarkError(w, m)
      PROVE  Promise!SettleSent(m) \/ Promise!GiveUp(m) \/ UNCHANGED <<fate, broker>>
  <2>1. CASE \A n \in Msgs :
               \/ row'[n].status = row[n].status
               \/ {row[n].status, row'[n].status} \subseteq {"pending", "processing"}
    BY <1>2, <1>6, <2>1 DEF Mark, MarkError, Finish
  <2>2. CASE pc[w] = "markSent" /\ MarkAsPublished(m) /\ row'[m].status = "sent"
             /\ row[m].status = "processing"
    <3>1. m \in broker /\ UNCHANGED broker
      BY <1>6, <2>2 DEF MarksAreJustified, Mark, MarkError, Finish
    <3>2. \A n \in Msgs \ {m} : row'[n].status = row[n].status
      BY <2>2, MarkEffect
    <3> QED
      BY <2>2, <3>1, <3>2, FateStep DEF Promise!SettleSent, FateOf
  <2>3. CASE MarkAsFailed(m) /\ row'[m].status = "failed" /\ row[m].status = "processing"
    <3>1. UNCHANGED broker
      BY <1>6 DEF Mark, MarkError, Finish
    <3>2. \A n \in Msgs \ {m} : row'[n].status = row[n].status
      BY <2>3, MarkEffect
    <3> QED
      BY <2>3, <3>1, <3>2, FateStep DEF Promise!GiveUp, FateOf
  <2> QED
    BY <1>6, <2>1, <2>2, <2>3, MarkEffect DEF Mark, MarkError
<1>7. ASSUME NEW w \in Workers, Crash(w) PROVE UNCHANGED <<fate, broker>>
  BY <1>7 DEF Crash
<1>8. CASE UNCHANGED vars
  BY <1>8 DEF vars
<1> QED
  BY <1>1, <1>3, <1>4, <1>5, <1>6, <1>7, <1>8 DEF Next, Work, Promise!Next

\* OutboxWorker implements OutboxPromise: what the workers do to the table and
\* the broker is at-least-once delivery with exactly one final verdict per event.
THEOREM WorkersKeepPromise == Spec => KeepsPromise
<1>1. Init => Promise!Init
  BY DEF Init, Promise!Init, NoRow, FateOf
<1>2. IndInv /\ [Next]_vars
      => [Promise!Next]_<<[m \in Msgs |-> FateOf(row[m].status)], broker>>
  BY PromiseStep
<1> QED
  BY <1>1, <1>2, IndInvHolds, PTL DEF Spec, KeepsPromise, Promise!Spec

-----------------------------------------------------------------------------
(* When leases outlive batches *)

LEMMA InitLease == Init => LeaseInv
<1> SUFFICES ASSUME Init PROVE LeaseInv
  OBVIOUS
<1>1. /\ \A m \in Msgs : row[m].status = "none" /\ row[m].retryCount = 0
      /\ \A w \in Workers : batch[w] = {}
  BY DEF Init, NoRow
<1> QED
  BY <1>1 DEF LeaseInv, OneHolder, PendingIsClaimable, LeasesAreLive, RetriesHaveRoom,
              FreshRows, Current

\* The columns of a row after each kind of edit.
LEMMA ExpiredColumns ==
    ASSUME NEW r \in Row, NEW s, s = [r EXCEPT !.expired = TRUE]
    PROVE  s.status = r.status /\ s.retryCount = r.retryCount /\ s.lockedBy = r.lockedBy
BY DEF Row

LEMMA ResetColumns ==
    ASSUME NEW r \in Row, NEW s,
           s = [r EXCEPT !.status = "pending", !.lockedBy = None, !.expired = FALSE]
    PROVE  s.status = "pending" /\ s.retryCount = r.retryCount
BY DEF Row

LEMMA LeasedColumns ==
    ASSUME NEW r \in Row, NEW s, NEW w \in Workers,
           s = [r EXCEPT !.status = "processing", !.lockedBy = w, !.expired = FALSE]
    PROVE  /\ s.status = "processing" /\ s.retryCount = r.retryCount
           /\ s.lockedBy = w /\ ~s.expired
BY DEF Row

\* Recording a row, the back-off, and a lease running out that nobody holds.
LEMMA TableLease ==
    ASSUME LeaseOutlivesBatch, IndInv, TypeOK', LeaseInv, NEW m \in Msgs,
           CreateWithTx(m) \/ BackoffElapses(m) \/ LeaseExpires(m)
    PROVE  LeaseInv'
<1> USE DEF IndInv, LeaseInv
<1>1. \A n \in Msgs :
         /\ row'[n].retryCount = row[n].retryCount
         /\ row'[n].lockedBy = row[n].lockedBy
         /\ row'[n].expired = row[n].expired \/ \A w \in Workers : n \notin batch[w]
         /\ \/ row'[n].status = row[n].status
            \/ row[n].status = "none" /\ row'[n].status = "pending"
  <2>1. CASE CreateWithTx(m)
    BY <2>1 DEF CreateWithTx, TypeOK, Row
  <2>2. CASE BackoffElapses(m)
    BY <2>2 DEF BackoffElapses, TypeOK, Row
  <2>3. CASE LeaseExpires(m)
    <3>1. /\ \A n \in Msgs \ {m} : row'[n] = row[n]
          /\ row'[m] = [row[m] EXCEPT !.expired = TRUE]
          /\ row[m] \in Row /\ \A w \in Workers : m \notin batch[w]
      BY <2>3 DEF LeaseExpires, TypeOK
    <3> QED
      <4>1. /\ row'[m].status = row[m].status
            /\ row'[m].retryCount = row[m].retryCount
            /\ row'[m].lockedBy = row[m].lockedBy
        BY <3>1, ExpiredColumns, Zenon
      <4> QED
        BY <3>1, <4>1
  <2> QED
    BY <2>1, <2>2, <2>3
<1>2. UNCHANGED <<pc, batch, seen>>
  BY DEF CreateWithTx, BackoffElapses, LeaseExpires
<1>3. \A w \in Workers : batch[w] \subseteq Msgs
  BY DEF TypeOK
<1>4. OneHolder' /\ LeasesAreLive'
  BY <1>1, <1>2, <1>3 DEF OneHolder, LeasesAreLive
<1>5. PendingIsClaimable' /\ FreshRows'
  BY <1>1, OutboxAssumption DEF PendingIsClaimable, FreshRows
<1>6. RetriesHaveRoom'
  BY <1>2 DEF RetriesHaveRoom, Current, ShouldMarkAsFailed
<1> QED
  BY <1>4, <1>5, <1>6

\* A reset only touches rows whose lease has run out: no batch holds them.
LEMMA ResetLease ==
    ASSUME IndInv, TypeOK', LeaseInv, NEW w \in Workers, Start(w) \/ Tick(w)
    PROVE  LeaseInv'
<1> USE DEF IndInv, LeaseInv
<1>1. \A n \in Msgs : \/ row'[n] = row[n]
                      \/ /\ row[n].expired /\ row[n].status = "processing"
                         /\ row'[n].status = "pending"
                         /\ row'[n].retryCount = row[n].retryCount
  <2>1. ASSUME ResetTimeoutProcessingMessages, NEW n \in Msgs, row'[n] # row[n]
        PROVE  /\ row[n].expired /\ row[n].status = "processing"
               /\ row'[n].status = "pending" /\ row'[n].retryCount = row[n].retryCount
    <3>1. /\ row[n].expired /\ row[n].status = "processing" /\ row[n] \in Row
          /\ row'[n] = [row[n] EXCEPT !.status = "pending", !.lockedBy = None,
                                     !.expired = FALSE]
      BY <2>1 DEF ResetTimeoutProcessingMessages, TypeOK
    <3>2. row'[n].status = "pending" /\ row'[n].retryCount = row[n].retryCount
      BY <3>1, ResetColumns, Zenon
    <3> QED
      BY <3>1, <3>2
  <2> QED
    BY <2>1 DEF Start, Tick, ResetOrError
<1>2. /\ UNCHANGED <<batch, seen>>
      /\ pc'[w] \in {"idle", "claim"}
      /\ \A v \in Workers \ {w} : pc'[v] = pc[v]
  BY DEF Start, Tick, Goto, TypeOK
<1>3. \A v \in Workers : batch[v] \subseteq Msgs
  BY DEF TypeOK
<1>4. OneHolder' /\ LeasesAreLive'
  BY <1>1, <1>2, <1>3 DEF OneHolder, LeasesAreLive
<1>5. PendingIsClaimable' /\ FreshRows'
  BY <1>1 DEF PendingIsClaimable, FreshRows, FailedOnlyAtLimit
<1>6. RetriesHaveRoom'
  BY <1>2 DEF RetriesHaveRoom, Current, ShouldMarkAsFailed
<1> QED
  BY <1>4, <1>5, <1>6

\* A claim only takes rows that were pending, so no batch held them.
LEMMA ClaimLease ==
    ASSUME IndInv, TypeOK', LeaseInv, NEW w \in Workers,
           ClaimSelect(w) \/ ClaimCommit(w) \/ ClaimFails(w)
    PROVE  LeaseInv'
<1> USE DEF IndInv, LeaseInv
<1>1. \A n \in Msgs : \/ row'[n] = row[n]
                      \/ /\ row[n].status = "pending"
                         /\ row'[n].status = "processing"
                         /\ row'[n].lockedBy = w /\ ~row'[n].expired
                         /\ row'[n].retryCount = row[n].retryCount
  <2>1. ASSUME TakeLeases(w), NEW n \in Msgs, row'[n] # row[n]
        PROVE  /\ row[n].status = "pending" /\ row'[n].status = "processing"
               /\ row'[n].lockedBy = w /\ ~row'[n].expired
               /\ row'[n].retryCount = row[n].retryCount
    <3>1. /\ row[n].status = "pending" /\ row[n] \in Row
          /\ row'[n] = [row[n] EXCEPT !.status = "processing", !.lockedBy = w,
                                     !.expired = FALSE]
      BY <2>1 DEF TakeLeases, TypeOK
    <3>2. /\ row'[n].status = "processing" /\ row'[n].retryCount = row[n].retryCount
          /\ row'[n].lockedBy = w /\ ~row'[n].expired
      BY <3>1, LeasedColumns, Zenon
    <3> QED
      BY <3>1, <3>2
  <2> QED
    BY <2>1 DEF ClaimSelect, ClaimCommit, ClaimFails
<1>2. \A v \in Workers \ {w} : /\ pc'[v] = pc[v] /\ batch'[v] = batch[v]
                               /\ seen'[v] = seen[v]
  BY DEF ClaimSelect, ClaimCommit, ClaimFails, Goto, TypeOK
<1>3. pc'[w] \in {"idle", "selected", "publish"}
  BY DEF ClaimSelect, ClaimCommit, ClaimFails, Goto, TypeOK
<1>4. \A n \in batch'[w] :
         \/ n \in batch[w] /\ seen'[w] = seen[w]
         \/ /\ n \in Msgs /\ row[n].status = "pending" /\ row'[n].status = "processing"
            /\ row'[n].lockedBy = w /\ ~row'[n].expired
            /\ seen'[w][n] = row'[n].retryCount
  <2>1. CASE ClaimCommit(w)
    <3>1. ASSUME NEW n \in batch'[w]
          PROVE  n \in Locked(w) /\ row'[n].status = "processing" /\ n \in Msgs
      BY <2>1, <3>1 DEF ClaimCommit, TypeOK, Locked
    <3>2. \A n \in Locked(w) : row[n].status = "pending" /\ seen'[w][n] = row[n].retryCount
      BY <2>1 DEF ClaimCommit, Locked, LocksAreClaims, TypeOK
    <3> QED
      BY <1>1, <3>1, <3>2
  <2>2. CASE ClaimSelect(w) \/ ClaimFails(w)
    BY <2>2 DEF ClaimSelect, ClaimFails
  <2> QED
    BY <2>1, <2>2
<1>5. \A v \in Workers : batch[v] \subseteq Msgs
  BY DEF TypeOK
<1>6. OneHolder'
  BY <1>1, <1>2, <1>4, <1>5 DEF OneHolder
<1>7. LeasesAreLive'
  BY <1>1, <1>2, <1>4, <1>5 DEF OneHolder, LeasesAreLive
<1>8. PendingIsClaimable' /\ FreshRows'
  BY <1>1 DEF PendingIsClaimable, FreshRows
<1>9. RetriesHaveRoom'
  BY <1>2, <1>3 DEF RetriesHaveRoom, Current, ShouldMarkAsFailed
<1> QED
  BY <1>6, <1>7, <1>8, <1>9

LEMMA PublishLease ==
    ASSUME IndInv, LeaseInv, NEW w \in Workers, NEW m \in Msgs,
           PublishSucceeds(w, m) \/ PublishFails(w, m)
    PROVE  LeaseInv'
<1> USE DEF IndInv, LeaseInv
<1>1. /\ UNCHANGED <<row, batch, seen>> /\ Current(w, m)
      /\ pc'[w] = "markRetry" => ~ShouldMarkAsFailed(w, m)
      /\ \A v \in Workers \ {w} : pc'[v] = pc[v]
  BY DEF PublishSucceeds, PublishFails, Goto, TypeOK
<1>2. OneHolder' /\ PendingIsClaimable' /\ LeasesAreLive' /\ FreshRows'
  BY <1>1 DEF OneHolder, PendingIsClaimable, LeasesAreLive, FreshRows
<1>3. RetriesHaveRoom'
  <2> SUFFICES ASSUME NEW v \in Workers, NEW n \in Msgs, Current(v, n), pc'[v] = "markRetry"
               PROVE  ~ShouldMarkAsFailed(v, n)
    BY <1>1 DEF RetriesHaveRoom, Current, ShouldMarkAsFailed
  <2>1. CASE v = w
    BY <1>1, <2>1, CurrentUnique
  <2>2. CASE v # w
    BY <1>1, <2>2 DEF RetriesHaveRoom
  <2> QED
    BY <2>1, <2>2
<1> QED
  BY <1>2, <1>3

\* Recording an outcome: the row is held by this worker alone, and the count the
\* worker decided on is the row's own.
LEMMA MarkLease ==
    ASSUME IndInv, TypeOK', LeaseInv, NEW w \in Workers, NEW m \in Msgs,
           Mark(w, m) \/ MarkError(w, m)
    PROVE  LeaseInv'
<1> USE DEF IndInv, LeaseInv
<1>1. /\ UNCHANGED seen /\ Current(w, m) /\ m \in batch[w]
      /\ pc'[w] \in {"idle", "publish"}
      /\ batch'[w] = batch[w] \ {m}
      /\ \A v \in Workers \ {w} : pc'[v] = pc[v] /\ batch'[v] = batch[v]
  BY DEF Mark, MarkError, Finish, Goto, TypeOK, Current
<1>2. \A n \in Msgs \ {m} : row'[n] = row[n]
  BY DEF Mark, MarkError, MarkAsPublished, MarkAsRetry, MarkAsFailed, UpdateProcessing, TypeOK
<1>3. \A v \in Workers : batch'[v] \subseteq batch[v] /\ m \notin batch'[v]
  BY <1>1 DEF OneHolder
<1>4. \A v \in Workers : batch[v] \subseteq Msgs
  BY DEF TypeOK
<1>5. \A v \in Workers : \A n \in batch'[v] : row'[n] = row[n] /\ n \in batch[v]
  BY <1>2, <1>3, <1>4
<1>6. OneHolder' /\ LeasesAreLive'
  BY <1>1, <1>3, <1>5 DEF OneHolder, LeasesAreLive
<1>7. PendingIsClaimable'
  <2>1. pc[w] = "markRetry" => row[m].retryCount + 1 < MaxRetryCount
    <3>1. seen[w][m] = row[m].retryCount /\ row[m].retryCount \in Nat
      BY <1>1 DEF LeasesAreLive, TypeOK, Row
    <3> QED
      BY <1>1, <3>1, OutboxAssumption DEF RetriesHaveRoom, ShouldMarkAsFailed
  <2>2. row'[m].status = "pending" => row'[m].retryCount < MaxRetryCount
    <3>1. row[m].status = "processing"
      BY <1>1 DEF OneHolder
    <3>2. CASE MarkError(w, m)
      BY <3>1, <3>2 DEF MarkError
    <3>3. CASE pc[w] = "markRetry" /\ MarkAsRetry(m)
      BY <2>1, <3>1, <3>3, MarkEffect DEF FailedOnlyAtLimit
    <3>4. CASE MarkAsPublished(m)
      <4>1. row'[m] = [row[m] EXCEPT !.status = "sent", !.lockedBy = None, !.expired = FALSE]
        BY <3>1, <3>4 DEF MarkAsPublished, UpdateProcessing, TypeOK
      <4> DEFINE r == row[m]
      <4>2. r \in Row
        BY DEF TypeOK
      <4> HIDE DEF r
      <4>3. [r EXCEPT !.status = "sent", !.lockedBy = None, !.expired = FALSE].status = "sent"
        BY <4>2 DEF Row
      <4> QED
        BY <4>1, <4>3 DEF r
    <3>5. CASE MarkAsFailed(m)
      <4>1. row'[m] = [row[m] EXCEPT !.status = "failed", !.retryCount = @ + 1,
                                     !.lockedBy = None, !.expired = FALSE]
        BY <3>1, <3>5 DEF MarkAsFailed, UpdateProcessing, TypeOK
      <4> DEFINE r == row[m]
      <4>2. r \in Row
        BY DEF TypeOK
      <4> HIDE DEF r
      <4>3. [r EXCEPT !.status = "failed", !.retryCount = @ + 1,
                      !.lockedBy = None, !.expired = FALSE].status = "failed"
        BY <4>2 DEF Row
      <4> QED
        BY <4>1, <4>3 DEF r
    <3> QED
      BY <3>2, <3>3, <3>4, <3>5 DEF Mark
  <2> QED
    BY <1>2, <2>2 DEF PendingIsClaimable
<1>8. FreshRows'
  <2>1. row'[m].status # "none"
    BY <1>1, MarkEffect DEF SnapshotsAreOld, Mark, MarkError
  <2> QED
    BY <1>2, <2>1 DEF FreshRows
<1>9. RetriesHaveRoom'
  BY <1>1 DEF RetriesHaveRoom, Current, ShouldMarkAsFailed
<1> QED
  BY <1>6, <1>7, <1>8, <1>9

LEMMA CrashLease ==
    ASSUME IndInv, LeaseInv, NEW w \in Workers, Crash(w)
    PROVE  LeaseInv'
<1> USE DEF IndInv, LeaseInv
<1>1. /\ UNCHANGED <<row, seen>>
      /\ batch'[w] = {} /\ pc'[w] = "down"
      /\ \A v \in Workers \ {w} : pc'[v] = pc[v] /\ batch'[v] = batch[v]
  BY DEF Crash, Goto, TypeOK
<1>2. OneHolder' /\ PendingIsClaimable' /\ LeasesAreLive' /\ FreshRows'
  BY <1>1 DEF OneHolder, PendingIsClaimable, LeasesAreLive, FreshRows
<1>3. RetriesHaveRoom'
  BY <1>1 DEF RetriesHaveRoom, Current, ShouldMarkAsFailed
<1> QED
  BY <1>2, <1>3

\* When a lease outlives the batch it was taken for, LeaseInv is inductive: the
\* guard status = 'processing' then is as good as one on locked_by would be.
THEOREM LiveLeases ==
    ASSUME LeaseOutlivesBatch
    PROVE  Spec => []LeaseInv
<1>1. IndInv /\ IndInv' /\ [Next]_vars /\ LeaseInv => LeaseInv'
  <2> SUFFICES ASSUME IndInv, IndInv', [Next]_vars, LeaseInv PROVE LeaseInv'
    OBVIOUS
  <2>1. TypeOK'
    BY DEF IndInv
  <2>2. CASE UNCHANGED vars
    BY <2>2 DEF vars, LeaseInv, OneHolder, PendingIsClaimable, LeasesAreLive,
                RetriesHaveRoom, FreshRows, Current, ShouldMarkAsFailed
  <2> QED
    BY <2>1, <2>2, LeaseOutlivesBatch, TableLease, ResetLease, ClaimLease, PublishLease,
       MarkLease, CrashLease DEF Next, Work
<1> QED
  BY <1>1, InitLease, IndInvHolds, PTL DEF Spec

\* No two workers ever hold the same message, if leases outlive batches.
THEOREM OneHolderHolds ==
    ASSUME LeaseOutlivesBatch
    PROVE  Spec => []OneHolder
<1>1. LeaseInv => OneHolder
  BY DEF LeaseInv
<1> QED
  BY <1>1, LiveLeases, PTL

\* No event is stranded in pending, if leases outlive batches.
THEOREM PendingStaysClaimable ==
    ASSUME LeaseOutlivesBatch
    PROVE  Spec => []PendingIsClaimable
<1>1. LeaseInv => PendingIsClaimable
  BY DEF LeaseInv
<1> QED
  BY <1>1, LiveLeases, PTL
=============================================================================
