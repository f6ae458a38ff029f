---------------------------- MODULE OutboxWorker ----------------------------
(***************************************************************************)
(* The producing half of the notification pipeline: the outbox_messages    *)
(* table, the Outbox workers that poll it, and the broker as they see it   *)
(* (internal/service/forwarding_service/worker/outbox_worker.go over       *)
(* internal/repository/outbox_message_repo.go).                            *)
(*                                                                         *)
(* Every database statement is one atomic step; a claim is a transaction   *)
(* of two steps (SELECT .. FOR UPDATE SKIP LOCKED, then UPDATE, SELECT and *)
(* COMMIT); publishing and marking are separate steps, so a worker can     *)
(* crash, lose its lease or lose the database between any two of them.     *)
(*                                                                         *)
(* Time is abstracted to two facts per row, both set by steps of their     *)
(* own: "due" (next_retry_at has passed) and "expired" (locked_at is older *)
(* than processing_timeout).                                               *)
(***************************************************************************)
EXTENDS Naturals, FiniteSets

CONSTANTS
    Msgs,                 \* outbox ids, in the (created_at, id) order of the claim
    Workers,              \* OutboxWorkerManager workers, of one server or several
    None,                 \* SQL NULL in locked_by
    MaxRetryCount,        \* max_retry_count of the rows
    BatchSize,            \* BatchSize of OutboxWorkerConfig
    LeaseOutlivesBatch,   \* whether processing_timeout always exceeds a live batch
    MaxFaults             \* bound on crashes and database errors

ASSUME OutboxAssumption ==
    /\ Msgs \subseteq Nat
    /\ None \notin Workers
    /\ MaxRetryCount \in Nat \ {0}
    /\ BatchSize \in Nat \ {0}
    /\ LeaseOutlivesBatch \in BOOLEAN
    /\ MaxFaults \in Nat

VARIABLES
    row,       \* the outbox_messages table
    rowLock,   \* rowLock[m]: the claim transaction holding the row lock of m
    pc,        \* where each worker is in its poll cycle
    batch,     \* batch[w]: claimed messages w has not finished with
    seen,      \* seen[w][m]: retry_count of m as w read it when it claimed
    broker,    \* events the broker has accepted into the main queue
    faults     \* crashes and database errors so far

vars == <<row, rowLock, pc, batch, seen, broker, faults>>

Status == {"none", "pending", "processing", "sent", "failed"}
Row == [status : Status, retryCount : Nat, lockedBy : Workers \cup {None},
        due : BOOLEAN, expired : BOOLEAN]
PC == {"down", "idle", "claim", "selected", "publish",
       "markSent", "markRetry", "markFailed"}

TypeOK ==
    /\ row \in [Msgs -> Row]
    /\ rowLock \in [Msgs -> Workers \cup {None}]
    /\ pc \in [Workers -> PC]
    /\ batch \in [Workers -> SUBSET Msgs]
    /\ seen \in [Workers -> [Msgs -> Nat]]
    /\ broker \subseteq Msgs
    /\ faults \in 0 .. MaxFaults

NoRow == [status |-> "none", retryCount |-> 0, lockedBy |-> None,
          due |-> TRUE, expired |-> FALSE]

Init ==
    /\ row = [m \in Msgs |-> NoRow]
    /\ rowLock = [m \in Msgs |-> None]
    /\ pc = [w \in Workers |-> "down"]
    /\ batch = [w \in Workers |-> {}]
    /\ seen = [w \in Workers |-> [m \in Msgs |-> 0]]
    /\ broker = {}
    /\ faults = 0

Goto(w, label) == pc' = [pc EXCEPT ![w] = label]

\* A crash or a failed statement; MaxFaults bounds how many happen.
Fault == /\ faults < MaxFaults
         /\ faults' = faults + 1

-----------------------------------------------------------------------------
(* The business transaction and the passing of time *)

\* CreateWithTx: the row commits together with the notification it announces.
CreateWithTx(m) ==
    /\ row[m].status = "none"
    /\ row' = [row EXCEPT ![m].status = "pending"]
    /\ UNCHANGED <<rowLock, pc, batch, seen, broker, faults>>

BackoffElapses(m) ==
    /\ row[m].status = "pending"
    /\ ~row[m].due
    /\ row' = [row EXCEPT ![m].due = TRUE]
    /\ UNCHANGED <<rowLock, pc, batch, seen, broker, faults>>

\* locked_at falls behind now - processing_timeout.  Nothing ties the timeout
\* to the length of a batch, so unless LeaseOutlivesBatch is assumed this may
\* happen while the worker that claimed m is still busy with its batch.
LeaseExpires(m) ==
    /\ row[m].status = "processing"
    /\ ~row[m].expired
    /\ LeaseOutlivesBatch => \A w \in Workers : m \notin batch[w]
    /\ row' = [row EXCEPT ![m].expired = TRUE]
    /\ UNCHANGED <<rowLock, pc, batch, seen, broker, faults>>

-----------------------------------------------------------------------------
(* Repository statements *)

\* As if the reset did not look at locked_at.
ResetWithoutTimeout ==
    row' = [m \in Msgs |->
              IF row[m].status = "processing"
              THEN [row[m] EXCEPT !.status = "pending", !.lockedBy = None,
                                  !.expired = FALSE]
              ELSE row[m]]

\* As if the reset counted the lost lease as an attempt.
ResetCountsAttempt ==
    row' = [m \in Msgs |->
              IF row[m].status = "processing" /\ row[m].expired
              THEN [row[m] EXCEPT !.status = "pending", !.lockedBy = None,
                                  !.expired = FALSE, !.retryCount = @ + 1]
              ELSE row[m]]

\* As if the reset gave the event all its attempts back.
ResetForgetsAttempts ==
    row' = [m \in Msgs |->
              IF row[m].status = "processing" /\ row[m].expired
              THEN [row[m] EXCEPT !.status = "pending", !.lockedBy = None,
                                  !.expired = FALSE, !.retryCount = 0]
              ELSE row[m]]

\* UPDATE .. SET pending WHERE status = processing AND locked_at < before:
\* retry_count and next_retry_at stay as they are.
ResetTimeoutProcessingMessages ==
    row' = [m \in Msgs |->
              IF row[m].status = "processing" /\ row[m].expired
              THEN [row[m] EXCEPT !.status = "pending", !.lockedBy = None,
                                  !.expired = FALSE]
              ELSE row[m]]

\* As if the MarkAs statements did not ask for status = processing.
UpdateAnyStatus(m, newRow) == row' = [row EXCEPT ![m] = newRow]

\* The three MarkAs statements all say WHERE id = ? AND status = processing;
\* with no such row they change nothing and the worker only logs the error.
UpdateProcessing(m, newRow) ==
    row' = IF row[m].status = "processing"
           THEN [row EXCEPT ![m] = newRow]
           ELSE row

MarkAsPublished(m) ==
    UpdateProcessing(m, [row[m] EXCEPT !.status = "sent", !.lockedBy = None,
                                       !.expired = FALSE])

\* As if only MarkAsRetry did not.
MarkAsRetryUnguarded(m) ==
    UpdateAnyStatus(m, [row[m] EXCEPT !.status = "pending", !.retryCount = @ + 1,
                          !.due = FALSE, !.lockedBy = None, !.expired = FALSE])

MarkAsRetry(m) ==
    UpdateProcessing(m, [row[m] EXCEPT !.status = "pending", !.retryCount = @ + 1,
                           !.due = FALSE, !.lockedBy = None, !.expired = FALSE])

MarkAsFailed(m) ==
    UpdateProcessing(m, [row[m] EXCEPT !.status = "failed", !.retryCount = @ + 1,
                           !.lockedBy = None, !.expired = FALSE])

\* As if the claim did not compare retry_count with max_retry_count.
ClaimableWithoutLimit(m) == row[m].status = "pending" /\ row[m].due

Claimable(m) == /\ row[m].status = "pending"
                /\ row[m].retryCount < MaxRetryCount
                /\ row[m].due

\* What SELECT .. FOR UPDATE SKIP LOCKED LIMIT BatchSize returns.
ClaimQuery ==
    LET free == {m \in Msgs : Claimable(m) /\ rowLock[m] = None}
    IN  {m \in free : Cardinality({n \in free : n < m}) < BatchSize}

-----------------------------------------------------------------------------
(* A worker *)

ResetOrError ==
    \/ ResetTimeoutProcessingMessages /\ UNCHANGED faults
    \/ Fault /\ UNCHANGED row

\* Run: the reset on startup (off, or failing, it changes nothing), then the ticker.
Start(w) ==
    /\ pc[w] = "down"
    /\ ResetOrError
    /\ Goto(w, "idle")
    /\ UNCHANGED <<rowLock, batch, seen, broker>>

\* A tick of Run: the timed-out rows are reset first, and a failure to do so
\* does not stop the round.
Tick(w) ==
    /\ pc[w] = "idle"
    /\ ResetOrError
    /\ Goto(w, "claim")
    /\ UNCHANGED <<rowLock, batch, seen, broker>>

\* First half of ClaimPending: lock the rows.  With none the round is over.
ClaimSelect(w) ==
    /\ pc[w] = "claim"
    /\ rowLock' = [m \in Msgs |-> IF m \in ClaimQuery THEN w ELSE rowLock[m]]
    /\ Goto(w, IF ClaimQuery = {} THEN "idle" ELSE "selected")
    /\ UNCHANGED <<row, batch, seen, broker, faults>>

Locked(w) == {m \in Msgs : rowLock[m] = w}

Unlock(w) == rowLock' = [m \in Msgs |-> IF rowLock[m] = w THEN None ELSE rowLock[m]]

\* UPDATE .. SET processing WHERE id IN (locked rows) AND status = pending.
TakeLeases(w) ==
    row' = [m \in Msgs |->
              IF m \in Locked(w) /\ row[m].status = "pending"
              THEN [row[m] EXCEPT !.status = "processing", !.lockedBy = w,
                                  !.expired = FALSE]
              ELSE row[m]]

\* Second half of ClaimPending and COMMIT.  The batch is what the last SELECT
\* of the transaction reads back: locked_by = w AND status = processing.
ClaimCommit(w) ==
    /\ pc[w] = "selected"
    /\ TakeLeases(w)
    /\ Unlock(w)
    /\ batch' = [batch EXCEPT ![w] =
                   {m \in Locked(w) : row'[m].status = "processing"
                                      /\ row'[m].lockedBy = w}]
    /\ seen' = [seen EXCEPT ![w] = [m \in Msgs |->
                  IF m \in Locked(w) THEN row[m].retryCount ELSE 0]]
    /\ Goto(w, "publish")
    /\ UNCHANGED <<broker, faults>>

\* The transaction fails: rolled back, or committed with the reply lost, when
\* the rows stay leased to a worker that does not know it.
ClaimFails(w) ==
    /\ pc[w] = "selected"
    /\ Fault
    /\ UNCHANGED row \/ TakeLeases(w)
    /\ Unlock(w)
    /\ Goto(w, "idle")
    /\ UNCHANGED <<batch, seen, broker>>

\* The batch is handled one message at a time, in the order of the claim.
Current(w, m) == m \in batch[w] /\ \A n \in batch[w] : m <= n

PublishSucceeds(w, m) ==
    /\ pc[w] = "publish"
    /\ Current(w, m)
    /\ broker' = broker \cup {m}
    /\ Goto(w, "markSent")
    /\ UNCHANGED <<row, rowLock, batch, seen, faults>>

\* As if the failed attempt were not counted.
ShouldMarkAsFailedLate(w, m) == seen[w][m] >= MaxRetryCount

\* Decided on the retry_count read at claim time, not on the row's own.
ShouldMarkAsFailed(w, m) == seen[w][m] + 1 >= MaxRetryCount

\* As if an error of Publish were only logged.
PublishErrorTakenForSuccess(w, m) ==
    /\ pc[w] = "publish"
    /\ Current(w, m)
    /\ UNCHANGED broker \/ broker' = broker \cup {m}
    /\ Goto(w, "markSent")
    /\ UNCHANGED <<row, rowLock, batch, seen, faults>>

\* Publish returns an error: the broker may still have taken the message (the
\* confirm was lost or came after the timeout).
PublishFails(w, m) ==
    /\ pc[w] = "publish"
    /\ Current(w, m)
    /\ UNCHANGED broker \/ broker' = broker \cup {m}
    /\ Goto(w, IF ShouldMarkAsFailed(w, m) THEN "markFailed" ELSE "markRetry")
    /\ UNCHANGED <<row, rowLock, batch, seen, faults>>

\* processOnce goes on with the next message whatever handleMessage returned.
Finish(w, m) ==
    /\ batch' = [batch EXCEPT ![w] = @ \ {m}]
    /\ Goto(w, IF batch[w] = {m} THEN "idle" ELSE "publish")
    /\ UNCHANGED <<rowLock, seen, broker>>

Mark(w, m) ==
    /\ Current(w, m)
    /\ \/ pc[w] = "markSent" /\ MarkAsPublished(m)
       \/ pc[w] = "markRetry" /\ MarkAsRetry(m)
       \/ pc[w] = "markFailed" /\ MarkAsFailed(m)
    /\ Finish(w, m)
    /\ UNCHANGED faults

\* The UPDATE fails: the row keeps its lease until the lease expires.
MarkError(w, m) ==
    /\ Current(w, m)
    /\ pc[w] \in {"markSent", "markRetry", "markFailed"}
    /\ Fault
    /\ Finish(w, m)
    /\ UNCHANGED row

\* The server dies, or Close cancels the worker's context: an open transaction
\* is rolled back and the rest of the batch is forgotten with its rows leased.
Crash(w) ==
    /\ pc[w] # "down"
    /\ Fault
    /\ Unlock(w)
    /\ batch' = [batch EXCEPT ![w] = {}]
    /\ Goto(w, "down")
    /\ UNCHANGED <<row, seen, broker>>

Work(w) ==
    \/ Start(w) \/ Tick(w) \/ ClaimSelect(w) \/ ClaimCommit(w) \/ ClaimFails(w)
    \/ \E m \in Msgs : PublishSucceeds(w, m) \/ PublishFails(w, m)
                       \/ Mark(w, m) \/ MarkError(w, m)

Next ==
    \/ \E m \in Msgs : CreateWithTx(m) \/ BackoffElapses(m) \/ LeaseExpires(m)
    \/ \E w \in Workers : Work(w) \/ Crash(w)

Spec == Init /\ [][Next]_vars

\* Goroutines are scheduled, a stopped server is started again and time passes.
\* Nothing forces a business transaction, a crash or a database error.
FairSpec ==
    /\ Spec
    /\ \A w \in Workers : WF_vars(Work(w))
    /\ \A m \in Msgs : WF_vars(BackoffElapses(m)) /\ WF_vars(LeaseExpires(m))
-----------------------------------------------------------------------------
(* Properties *)

\* A row is marked sent only when the broker really has the event: no path,
\* with lost confirms, stale workers and resets, settles an event never sent.
SentOnlyIfDelivered ==
    \A m \in Msgs : row[m].status = "sent" => m \in broker

\* retry_count never exceeds max_retry_count, a leased row always has a try
\* left, and an event is given up only after exactly max_retry_count failures.
FailedOnlyAtLimit ==
    \A m \in Msgs :
        /\ row[m].retryCount <= MaxRetryCount
        /\ row[m].status = "processing" => row[m].retryCount < MaxRetryCount
        /\ row[m].status = "failed" => row[m].retryCount = MaxRetryCount

\* MarkAsRetry puts a row back to pending only below the retry limit, so every
\* pending row is one ClaimPending will eventually return.
PendingIsClaimable ==
    \A m \in Msgs : row[m].status = "pending" => row[m].retryCount < MaxRetryCount

\* The inductive strengthening of SentOnlyIfDelivered and FailedOnlyAtLimit, one
\* part per fact a worker carries from one step of its cycle to a later one.
LocksAreClaims ==
    \A m \in Msgs, w \in Workers :
        rowLock[m] = w => /\ pc[w] = "selected"
                          /\ row[m].status = "pending"
                          /\ row[m].retryCount < MaxRetryCount

SnapshotsAreOld ==
    \A w \in Workers : \A m \in batch[w] : /\ row[m].status # "none"
                                           /\ seen[w][m] <= row[m].retryCount

MarksAreJustified ==
    \A w \in Workers : \A m \in Msgs :
        /\ Current(w, m) /\ pc[w] = "markSent" => m \in broker
        /\ Current(w, m) /\ pc[w] = "markFailed" => ShouldMarkAsFailed(w, m)

\* What a worker remembers of a row across its publish (the lock, the retry_count
\* it read, the outcome it is about to record) still bears on the row when it
\* is used, whatever the reset and the other workers did in between.
IndInv ==
    /\ TypeOK
    /\ SentOnlyIfDelivered
    /\ FailedOnlyAtLimit
    /\ LocksAreClaims
    /\ SnapshotsAreOld
    /\ MarksAreJustified

\* The claim keeps two workers from publishing the same message: a message is
\* in the batch of one worker at most, and that worker holds its lease.
OneHolder ==
    \A w \in Workers : \A m \in batch[w] :
        /\ row[m].status = "processing" /\ row[m].lockedBy = w
        /\ \A v \in Workers \ {w} : m \notin batch[v]

\* The inductive strengthening of OneHolder and PendingIsClaimable, for leases
\* that outlive batches: what a worker read when it claimed is still the row.
LeasesAreLive ==
    \A w \in Workers : \A m \in batch[w] :
        ~row[m].expired /\ seen[w][m] = row[m].retryCount

RetriesHaveRoom ==
    \A w \in Workers : \A m \in Msgs :
        Current(w, m) /\ pc[w] = "markRetry" => ~ShouldMarkAsFailed(w, m)

FreshRows == \A m \in Msgs : row[m].status = "none" => row[m].retryCount = 0

LeaseInv ==
    /\ OneHolder
    /\ PendingIsClaimable
    /\ LeasesAreLive
    /\ RetriesHaveRoom
    /\ FreshRows

\* Sent and failed are final: a worker whose lease was taken over, and the
\* reset of timed-out rows, never reopen or relabel a settled event.
SettledIsFinal ==
    [][\A m \in Msgs : row[m].status \in {"sent", "failed"} => row'[m] = row[m]]_vars

\* Every recorded event is settled in the end, over crashes and lost updates.
EventuallySettled ==
    \A m \in Msgs : row[m].status = "pending" ~> row[m].status \in {"sent", "failed"}

\* The abstract outbox sees a leased row as open.
FateOf(status) ==
    CASE status = "none" -> "unrecorded"
      [] status \in {"pending", "processing"} -> "open"
      [] OTHER -> status

Promise == INSTANCE OutboxPromise
           WITH Events <- Msgs,
                fate <- [m \in Msgs |-> FateOf(row[m].status)],
                delivered <- broker

\* The workers implement what the outbox promises.
KeepsPromise == Promise!Spec
=============================================================================
