# Formal model of smart-task-platform

TLA+ modules, TLC configurations and TLAPS proofs for the smart task platform, a Go
server for shared projects and tasks: HTTP API, MySQL, Redis as cache and login store,
RabbitMQ between a transactional outbox and the WebSocket forwarding of notifications.
Paths below are relative to `src/`. `PROJECT.json` maps every definition of the modules
to the lines it models and lists the components, runs, mutants, findings, hazards and
theorems.

## 1. The system

### Components, their state and their operations

| component | code | state | operations |
| --- | --- | --- | --- |
| Outbox | `repository/outbox_message_repo.go`, `forwarding_service/worker/outbox_worker.go` | table `outbox_messages` (status, retry_count, next_retry_at, locked_by, locked_at); one batch per worker | create with the business transaction, claim under row locks, publish, mark sent / retry / failed, reset timed-out leases |
| Event consumer | `mq/rabbitmq/subscriber.go`, `worker/handle_worker.go`, `handle_worker_manager.go` | main, retry and dead-letter queue; a channel and its consumeLoop; a delivery in each worker's hand | consume, forward, reconnect, handle, ack, publish a retry copy, dead-letter, start, close |
| Login sessions | `pkg/redis/auth_store.go`, `service/auth_service.go`, `middleware` | session hash, refresh states and access-token blacklist in Redis | login, refresh, logout, validation |
| Project members | `service/project_member_service.go`, part of `task_service.go` | member rows with soft delete, `projects.owner_id`, `tasks.assignee_id`, cached roles | add / restore, update, transfer of ownership, remove, assign a task |
| Cache services | `service/cachesvc/*` | cached objects, list pages named by a version, a process-local version registry, singleflight groups | read-through, fill, delete, bump a version |
| Cache store | `internal/cache/redis_store.go`, `internal/cache/worker/*` | two bounded queues of keys to delete, their worker goroutines | Get/Set/MGet/MSet/Del, delayed delete, retry of a failed delete, close |
| Publisher | `mq/rabbitmq/publisher.go` | one channel in confirm mode, its confirms and returns, one mutex | publish and wait for the confirm, reconnect, close |
| Worker managers, forwarding service | `outbox_worker_manager.go`, `handle_worker_manager.go`, `notification_forward_service.go` | started / stopping flags under mutexes, contexts, wait groups | Start, Close, IsStarted |
| WebSocket | `forwarding_service/websocket/*` | map user -> client, send channel and online flag of each client, two pumps | register, replace, unregister, TrySend, push, close |
| Tasks, notifications, comments, activities, projects, users | `service/*` | rows in MySQL, one outbox row per notification | create, change, remove, list; permission checks through the caches |
| HTTP handlers, router, DTOs, bootstrap, config, utilities, SQL, docs | rest | none of their own | parse, call a service, format |

### How they interact

* A service validates, asks the cache services for roles and permissions, opens one MySQL
  transaction that writes the business rows, the activity, the notification and its outbox
  row, commits, and only then deletes or versions away what it cached.
* The outbox workers poll the table and publish through the Publisher; the handle workers
  consume the queue and hand the message to `NotificationForwardService`, which pushes it to
  the WebSocket client of the receiver, if one is connected to this process.
* The JWT middleware asks the login store on every request.
* `NotificationForwardService` owns the life cycle of both worker managers and of the
  WebSocket manager; `main` calls its Start and never its Close.

### What is hard, and what makes each part correct

| component | hard behaviour | what makes it correct |
| --- | --- | --- |
| Outbox | several workers and servers on one table; leases that time out under a live worker; crash between publish and mark; lost replies of commit and confirm | sent only if the broker has the event; given up only after the last allowed try; settled rows stay settled; one worker per message while leases outlive batches; every event is settled in the end |
| Consumer | broken channels with deliveries in hand, acknowledgements on a dead channel, retry copy and ack in two steps, shutdown, crash | no published event is lost; no delivery is left in nobody's hands; one fate per event without faults; a shutdown rejects nothing; consumption resumes |
| Login sessions | WATCH / EXEC conflicts between login, refresh and logout; lost replies; expiry | one refresh state per session; a refresh token is exchanged once; a logout is final |
| Members | roles read from a cache before the transaction; overlapping changes; two deletions after the commit | one owner; bounded number of administrators; cached roles follow the rows; authority is current at the commit; assignees are members |
| Caches | a load that overlaps a write; versions local to a process; deletions that fail, wait, or are dropped | a current list page equals the query; a stale object has a cause and an end |
| Publisher | returns and confirms of one channel matched to one publish; reconnection under the mutex | a publish reported as done was routed; one call makes one copy; nobody waits on the mutex forever |
| Life cycle | early returns under a mutex, Close while Start is on its way | every call returns; after Close nothing runs; a worker never loses its publisher |
| WebSocket | a second connection of a user while the first one's pumps unregister; send on a channel being closed | the newest client stays registered; a lost connection leaves nothing behind |
| Comments, notifications | the assignee comes from a cache, the comment answered from an earlier read; two managers remove one comment | a comment is removed once, nobody hears of it twice, and the assignee of the moment does if it answers nobody else |
| Lists of projects and users | three caches with three lives, most changes tell none of them | what a list shows is bounded in age, by the life of the cache that kept it |

The hazards this comes down to, each at its line and with the properties that cover it, are in
`PROJECT.json` ("hazards").

## 2. Modules

| module | models | status |
| --- | --- | --- |
| `OutboxPromise` | abstract outbox: recorded, open, settled once and for good; what the broker may get | checked, proved to be implemented |
| `OutboxWorker` | table, claim transactions, workers, leases, faults | checked, proved |
| `OutboxWorkerProofs` | theorems about `OutboxWorker` | proved |
| `Consumer` | queues, channel, consumeLoop, handle workers, start, stop, crash | checked, proved |
| `ConsumerProofs` | theorems about `Consumer` | proved |
| `AuthSession` | Redis login store under concurrent requests | checked, proved |
| `AuthSessionProofs` | theorems about `AuthSession` | proved |
| `ProjectMembers` | members, owner, assignee, role cache, four requests | checked, proved |
| `ProjectMembersProofs` | theorems about `ProjectMembers` | proved |
| `TaskService` | one task, its cached objects and list pages, versions, singleflight, every write, the retry queue | checked, proved |
| `TaskServiceProofs` | theorems about `TaskService` | proved |
| `Publisher` | one publisher, its channel, the broker behind it, Close | checked, proved |
| `ForwardLifecycle` | Start and Close of the forwarding service and its two managers | checked, proved |
| `ClientRegistry` | WebSocket clients, their pumps, the registry, the forwarding handler | checked, proved |
| `Forwarding` | `Publisher`, `ForwardLifecycle` and `ClientRegistry` side by side | checked, proved |
| `ForwardingProofs` | theorems about the three | proved |
| `Discussion` | comments, assignments, status changes, and who is told | checked, proved |
| `DiscussionProofs` | theorems about `Discussion` | proved |
| `Directory` | lists of projects and users and the caches they are put together from | checked, proved |
| `DirectoryProofs` | theorems about `Directory` | proved |
| `MC*` | small instances: sets of model values and symmetry | |

Operators whose comment begins with "As if" are faulty variants of the operator that follows
them (a dropped guard, a wrong limit, a missing deletion). No action uses them. `PROJECT.json`
("mutants") pairs each with a property that fails when it takes the place of the real one,
which shows that the property depends on the code it is about.

### OutboxWorker

`row[m]` is a table row, with time reduced to two flags: `due` (next_retry_at has passed) and
`expired` (locked_at is older than processing_timeout), each set by an action of its own.
`rowLock[m]` is the row lock of an open claim transaction. A claim is two steps, because the
locks are held between them: `ClaimSelect` is `SELECT .. FOR UPDATE SKIP LOCKED LIMIT n`,
`ClaimCommit` the UPDATE, the SELECT that reads the batch back, and COMMIT. `seen[w][m]` is the
retry_count a worker read when it claimed: the decision between retry and failure
(`ShouldMarkAsFailed`) is taken on it, not on the row. `PublishSucceeds`, `PublishFails`, `Mark`,
`MarkError` follow `handleMessage`; `PublishFails` may leave the event in the broker, because a
confirm can be lost. The three MarkAs statements share the guard `WHERE status = 'processing'`
(`UpdateProcessing`) and do not ask who holds the lease. `Crash` stands for a killed process and
for Close, which cancels the worker's context.

`LeaseOutlivesBatch` says whether processing_timeout exceeds the time a worker is busy with its
batch. The configuration does not guarantee it, so the runs look at both cases.

### Consumer

`msg[c]` says in which queue a message is, or that it is unacknowledged. The delivery buffer of
the client library, the delivery in `forwardDeliveries`' hand and the channel "out" are one set,
`inbox`; a delivery carries the number of the channel it came on and can be settled only while
that channel is open (`Settleable`). A broken channel returns its unacknowledged messages to the
main queue (`Requeued`). Each round of `consumeLoop` registers a consumer (`Consume`), forwards, and
reconnects when the channel is closed. A connection that breaks while the consumer is being registered may
leave an error that `IsClosedError` does not recognise; consumeLoop then ends (`loop = "gone"`), as it
does after its last reconnect attempt. The retry copy and the acknowledgement of the original are two steps.
`phase` is the manager's start, stop and drain, in the order of `Close`: stop consuming, close the
channel, then cancel the workers. The broker is external and is modelled from the topology
declared in `mq/rabbitmq` and from the calls made.

### AuthSession

One user, since keys of different users do not meet. A store operation is WATCH, reads and EXEC,
each a step; `touched[r]` stands for the comparison EXEC makes. Tokens, the refresh jti and the
session id a request makes are named after the request. An EXEC may take effect with its reply
lost: then the client holds no tokens (`Issued`). `Conflict` is one turn of `RetryRedisTx`.

### ProjectMembers

Three users and one task of one project. A request's handler is a record of its local variables;
roles are read through the cache in the steps of `loadObjectByBundle` (hit, load, fill), the
transaction is one step that may commit, roll back, or commit with its reply lost, and each
deletion of a cached role is a step that may fail. `Init` has every mix of rows that requests
handled one after another can leave. An entry expires at any time, which also stands for a
deletion retried later and for a failed Set.

### TaskService

One row of `tasks`, reduced to what a list filters on and to whether its two times are set, and
everything cached about it: `cache` holds the permission object, the detail and the list item,
`pages` the list pages, each under the version and the parts of its key (`CacheKeyParts`). A page
says whether it lists the task. `req[q]` is what the handler of a request holds: a reader goes
through Get, a join or the second Get, the query and the fill, as `loadObjectByBundleWithSF` and
`loadListPageBundle` do under one singleflight key; a page that was hit then fetches its items. A
writer reads the row, commits what it decided on it, and invalidates: base updates delete item and
detail and then bump the version, the others bump and then delete all three objects. `Del` that
fails puts its keys into the bounded queue of `RetryDeleteWorker`; `logged` is what the error log
says was given up. `escaped` records a committed change that no invalidation follows in the code:
CreateTask, the assignee cleared by the removal of a member, and a commit whose reply was lost.
`overlapped` records that two requests were in flight together. The properties use the two to say
exactly when they hold.

### Publisher, ForwardLifecycle, ClientRegistry

The way from a row of the outbox table to a browser, below `OutboxWorker` and `Consumer`.
`Publisher` is the goroutine that holds `p.mu` through an attempt: `DrainReturns`, `Send`, the wait
for the confirm, `CheckReturn`, and what `Publish` makes of an error (`AttemptFailed`). The broker
handles what is on the `wire` in order; it returns an unroutable message and confirms it all the
same. `Break` closes the channel between any two steps. A returns channel that is closed when
`drainReturnsLocked` reads it never runs dry: that is the state "spin". `ForwardLifecycle` takes a
critical section as one step and a mutex that an early return left locked as the flag `leaked`.
`closer` is where Close is, `starter[m]` the goroutine that runs a manager's Start, which blocks until
the workers are gone. In `ClientRegistry`, Register is a step under the lock and the Close of the
replaced client one after it (`CloseReplaced`); so are Unregister and Close of a pump (`PumpEnds`).
TrySend asks for `online` and then sends: a channel closed in between panics, which the worker
recovers, and the message is retried or dead-lettered.

### Discussion

`req[r]` is a request in the steps between which another may come: what it learns of the task
(`Access`, `Load`, `Fill` for comments, `ReadTask` for the others), the comment it looks up, the
transaction, the eviction. A comment is named after the request that wrote it and remembers the
assignee its author's request saw and the one the table had at the commit. A transaction writes the
change, one activity and the notifications of `Told`, with their outbox rows; it may commit with its
reply lost, in which case the service does not delete what it cached. `Refuse` is a notification that
cannot be written: its actor has no nickname, or it quotes a comment longer than its column.
`overlapped` and `escaped` are as in `TaskService`.

### Directory

One user and what her lists show. Time is relative: a change has an age, a cached entry a life left,
both in ticks, so no clock runs out. `UpdateProject`, `ArchiveProject`, and every change of members
change the tables and tell no list; a profile update deletes the brief object and bumps the version of
the users' list, in two steps that may fail or be cut by a restart. A reader takes ids, page and brief
objects each from its cache or from the table, and every write to the cache may fail. No tick falls
inside a request, which is the abstraction that makes the lives exact: in the code the bounds are
longer by the length of a request.

## 3. What is checked

Deadlock is checked in the outbox runs (the workers poll for ever), `Discussion` and `Directory`. The
other systems may stop for a good reason: all events settled, the bound on requests or faults used up, everybody finished.

| run | bounds | distinct states | shows |
| --- | --- | --- | --- |
| `OutboxLeases` | 2 messages, 2 workers, 2 tries, batches of 1, 1 fault, leases outlive batches | 19,589 | a message is in one batch at most and its holder has the lease; no row is stranded at the limit; every event is settled |
| `OutboxExpiry` | 2 messages, 2 workers, 3 tries, batches of 2, 1 fault, leases expire at any time | 740,977 | the inductive invariant; settled only for a reason, once and for good; the workers implement `OutboxPromise` |
| `OutboxStaleRetry` | 1 message, 2 workers, 3 tries, no fault | violation | see the findings |
| `ConsumerDelivery` | 1 event, up to 3 messages at a time, 2 workers, 1 retry, prefetch 2, 2 faults | 283,292 | nothing lost, nothing orphaned, one fate and no retry beyond the limit, no rejection during shutdown; every event is accepted or dead-lettered unless consumeLoop has returned for good; a dropped channel is replaced |
| `AuthSessions` | 2 logins, 2 refreshes, 1 logout, 3 tries of EXEC, 1 expiry | 721,553 | one refresh state, single use, final logout, conflicts only caused by others |
| `Members` | 3 users, limit of 1 administrator, 3 requests of which 2 may overlap, 1 fault | 1,090,687 | what holds without overlap, and what holds in spite of it |
| `MembersOwnerless` | the same | violation | see the findings |
| `Tasks` | 3 requests of which 2 may overlap, 1 user, 2 titles, 2 queries, queue of 1, 2 attempts, 3 faults | 1,794,812 | current pages are fresh whatever overlaps; without overlap a stale object is on its way out or in the log; deletions are given up late; done tasks have their times |
| `TasksSharedPage` | 2 requests one after the other, no fault, the queries "all" and "unassigned" | violation | see the findings |
| `Forwarding` | publisher: 3 calls, one unroutable, 3 attempts, 2 faults; life cycle: 2 starts, 2 failures; connections: 2 of one user, 2 messages, a send buffer of 1 | 146,124 | a publish says honestly what became of its message, makes one copy and returns; a shutdown is orderly and ends, but for a leaked mutex or a manager it overtook; connections are tracked and leave |
| `Discussion` | 2 requests of any kind, 3 users of which one has no nickname and one manages, 2 tasks, 1 fault | 2,970,280 | a comment is removed once, nobody hears of it twice or without reason; the assignee told is the current one unless requests ran together or a change could not tell the cache |
| `Directory` | 2 projects, 1 user, 2 readers, lives of 2, 1 and 3 ticks, 2 changes or restarts | 2,759,954 | nothing a list shows is older than the life of the one cache responsible for it |

Why these bounds are enough to be interesting. *Outbox*: two workers on one message are what a
takeover needs; the third try lets a stale decision and the row's own count differ by one and
still be below the limit; batches of two make the second message of a batch age while the first is
published; one fault reaches a crash, a failed statement or a lost commit at every step.
*Consumer*: three messages of one event are its original, a duplicate or a redelivery, and a retry copy;
the identity of a settled one is used again; one retry is the boundary of `RetryCount >= MaxRetries`; two faults combine a broken
connection with a crash, a close or a lost confirm; prefetch 2 with two workers lets each hold a
delivery while a third message waits. *AuthSession*: two refreshes of one token is the replay,
two logins make one session replace another in the middle of it, and three tries of EXEC are the
code's own number, which four rivals and an expiry can exhaust. *Members*: actor, target
and bystander; two requests in flight and one before or after them; a limit of 1 (5 in the code) so
that three users can exceed it. *Tasks*: a reader that loads before a commit and stores after the bump
needs two requests, and a third to hit what was stored; three faults fail the DEL and both retries,
or fill the queue of one place while its worker is busy. *Forwarding*: the three parts share no
variable, so a behaviour moves one of them. A call that is given up, the return of it arriving late and
a call that finds it need two calls, a third shows what came of them; three attempts are the code's
number; two connections of a user are a replacement, one slot in the buffer makes it full at once.
*Discussion*: two requests are enough for two removals of one comment, an answer to a comment being
removed, and a comment after an assignment (the cache may know the assignee from the start); a member
may leave at any time. *Directory*: the lives keep the order of the real ones (5, 1 and 20 minutes)
with room for an entry to be written late in the life of another; two changes flip a project and flip
it back, or make and unmake a membership; two readers are needed for one to refill what the other
read. The type invariants the configurations do not name (those of every module but `OutboxWorker`
and `AuthSession`, whose inductive invariants contain them) hold on these instances and are theorems.

### Fairness

Safety runs use `Spec` without fairness. `OutboxWorker!FairSpec` asks for weak fairness of each
worker's loop (its goroutine is scheduled, its select has a ticker, a stopped server is started
again), of the passing of a back-off and of the passing of a lease. Nothing forces a business
transaction, a crash or a failed statement, and the number of faults is bounded by `MaxFaults`.
`Consumer!FairSpec` asks for weak fairness of the workers, of consumeLoop, of the retry
delay (a broker TTL), of the end of an outage, of the restart of a stopped process, and of the steps of
a close; and for strong fairness of delivery, because a reconnecting channel enables and disables
it again and again while the broker serves its queue in order.
The liveness properties make the exceptions the code makes. `EventuallySettled` excepts a consumeLoop that
has returned for good while its manager is up (`Abandoned`), for whatever reason. `SurvivesADrop`, about a
channel that breaks while deliveries are received, excepts only an outage that outlasts the reconnect
attempts (`GaveUp`), a stop, and a further fault before the consumer is back.
`Forwarding` assumes that the publishing goroutine runs and its timers fire (`WF_vars(Step)`: nothing is
asked of the broker), that goroutines of the life cycle that can go on do, with strong fairness for a
worker's exit because its batch or delivery enables and disables it, and that pumps and Register finish what they
began. Nobody has to call Start, Close or Publish.

### Findings

Three runs end in a counterexample, each against a sentence of the repository:

* `OutboxStaleRetry`: a worker whose lease expired still marks a retry, decided on the retry_count
  it read when it claimed. The row becomes pending with retry_count equal to max_retry_count, and
  ClaimPending, which asks for retry_count < max_retry_count, never returns it again. It needs a
  lease that expires under a live worker; `OutboxLeases` and the theorem
  `PendingStaysClaimable` show that this is the only way.
* `MembersOwnerless`: a removal that read its target's role before a transfer of ownership to that
  target committed deletes the project's only owner.
* `TasksSharedPage`: the cache key prints an assignee filter that is not set and the filter for
  unassigned tasks alike, so one of the two lists is answered with the other's page.

Seen and not made a finding, because no sentence of the repository promises otherwise, or because the
run that would show it says nothing else:

* `mq/rabbitmq/subscriber.go:192` says that consumption recovers by itself. A connection lost during
  basic.consume with an error that `IsClosedError` does not recognise (an EOF, a connection closed by force)
  ends consumeLoop without one reconnect attempt, and so does the last failed attempt; nothing restarts
  the consumer (`Consume` and `ReconnectFails` have both steps). The liveness properties except this: they
  do not say that the sentence holds.
* `task_comment_service.go:256` says that the assignee is to hear of every comment but his own, and once if
  it answers him. An answer to a third user returns from the transaction at line 242, before it comes to
  the assignee (`ToldOfComment`). `HeardOnce` asks for nothing that the sentence or the code forbids, so it
  stays true if either gives way.
* `notification_service.go:104-111` builds the query of a list without UserID, which
  `notification_repo.go:62-64` refuses: no list of notifications is ever answered.
* A notification needs the actor's nickname, which is optional, and quotes the comment into a column of
  500 characters: such comments, assignments and status changes are rolled back (`Refuse`).
* A member who was removed stays the cached assignee of a task and goes on being told of comments
  (`escaped`); CreateTask tells its assignee nothing.
* `auth_service.go:205-209` commits `last_login_at` before the session is written to Redis, so a
  login that fails in Redis is recorded as a login. `AuthSession` has the step (`lastLogin`).
* `project_member_service.go:191`: a person added to a project keeps the cached "no role" until it expires
  (`ProjectMembers` has the step).
* `task_repo.go:193`: UpdateTaskByIDWithTx takes zero affected rows for "not found"; MySQL counts
  changed rows, so an update that changes nothing within the second of the last one is refused.
* `task_service.go:1596-1622`: done, cancelled, todo leaves `completed_at` set, because only a step
  directly out of done clears it. `DoneHasTimes` states the direction the code keeps.
* `user_service.go:62`: an empty field means "not changed", and its old value is written back, over
  what a concurrent update of it wrote.
* UpdateProject and ArchiveProject delete no cache and nothing bumps the version of project lists: one
  list can show a project as it is and the next as it was (`Directory` bounds for how long).
* CreateTask, UpdateTaskSortOrder and RemoveProjectMember change what lists show and invalidate no
  task cache. `TaskService` marks such changes as `escaped`.
* The Start of a worker manager is documented as not blocking (`handle_worker_manager.go:96-98`) and blocks
  until its workers are gone; both Starts have returns that keep the mutex (`leaked`); users can connect
  after Close has emptied the registry.

## 4. What is proved

TLAPS proves the following for every set of messages, workers, users and requests and every value
of the limits: each safety invariant and each action property the passing runs check, and the
refinement of `OutboxPromise`.

The assumptions are the named ASSUMEs of the modules, which TLC evaluates in the runs
(`OutboxAssumption`, `ConsumerAssumption`, `AuthAssumption`, `MembersAssumption`, `TaskAssumption`,
`PublisherAssumption`, `ForwardingAssumption`, `DiscussionAssumption`, `DirectoryAssumption`): limits and lives are naturals,
absent values are not members of the sets they stand beside, the queries are queries. Two theorems
count, and ask in addition that what they count is finite: the requests of `AuthSession`, the users and
requests of `ProjectMembers`. `ForwardingAssumption`, about the constants of `ForwardLifecycle` and
`ClientRegistry`, says that bounds are naturals, that every connection and every message is a user's, and
that no connection is None.
`MaxFaults`, `MaxFailures`, `MaxExpiries`, `MaxStarts`, `MaxOverlap` and `MaxChanges` are constants of any
value, so the bounds on faults, requests and changes are no restriction of the theorems.

`OutboxWorkerProofs`:

* `TypeCorrect`, `IndInvHolds`, `SentIsDelivered`, `FailureIsAtLimit`. Neither
  SentOnlyIfDelivered nor FailedOnlyAtLimit is inductive, because a worker acts on what it learnt
  earlier. `IndInv` adds what stays true of that knowledge: a locked row is still pending and below
  the limit (`LocksAreClaims`), a remembered retry_count is never ahead of the row's own
  (`SnapshotsAreOld`), and a worker about to mark sent has delivered, one about to mark failed has
  counted its last try (`MarksAreJustified`).
* `SettledRowsAreFinal`: the action property, from the guard the three marks share and from the
  fact that claims and resets only touch pending and processing rows.
* `WorkersKeepPromise`: `Spec => Promise!Spec`. Initial states map to initial states; a creation
  maps to Record, a publish to Deliver or a stutter, a mark to SettleSent, GiveUp or a stutter
  (a retry of an open event), everything else to a stutter. SettleSent needs
  SentOnlyIfDelivered's strengthening.
* `OneHolderHolds`, `PendingStaysClaimable`: under `LeaseOutlivesBatch`, by the second invariant
  `LeaseInv` (OneHolder, PendingIsClaimable, and that a live worker's lease has not expired, that
  its remembered count is the row's, and that a retry it is about to record has room).

`ConsumerProofs`:

* `TypeCorrect`, `IndInvHolds`: `Typed` (an identity not in use is blank, a worker that is not idle has
  a delivery) and `LinkInv` (what is unacknowledged needs an open channel; no delivery is of a channel still
  to come).
* `NoDeliveryIsOrphaned`: from `HandsInv`, which says for every delivery that can still be settled that it is
  the message it was made from and that no second pair of hands has it. Without it an acknowledgement
  could settle another message under the same identity.
* `NoEventIsLost`: that an acknowledged retry has left a copy is not inductive, because two workers may
  each rely on the copy the other is about to settle. `FateInv` orders copies by their count of retries:
  the acknowledgement of a retried delivery leaves a later try of its event, or its end (`Outlived`).
* `EventsHaveOneFate`: `FatesInv`, as long as there is no fault: every delivery is of the one channel, and a
  published event has exactly one message that can still decide on it, or one outcome.
* `DrainingDeadLettersNothing`: the action property, because the channel is closed before the workers are
  cancelled, so that nothing can be settled while they drain.

`AuthSessionProofs`:

* `ConflictsComeFromOthers`: every conflict of a request was caused by a write of another or by an
  expiry. `LossesAreOthers` counts a write when it touches what the request watches, before the EXEC that
  will fail: `Beaten` is one more conflict on its way. The count is of a finite set that grows by one.
* `TypeCorrect`, `IndInvHolds`, `OneRefreshTokenHolds`, `RefreshTokensAreSingleUse`, `LogoutHolds`.
  The strengthening says that presented tokens were issued by a login that took effect
  (`TokensWereIssued`, `SessionWasWritten`), that what an operation read is still there unless it
  was touched (`SnapshotsHold`), that tries are bounded (`RetriesAreBounded`), and that a spent
  token and a logged-out session are not in the session hash (`SpentTokensAreGone`,
  `LoggedOutSessionsAreGone`).

`ProjectMembersProofs`:

* `TypeCorrect`: with what a request holds at each of its steps, and `PeakInv`, which bounds the requests in
  flight by `peak`.
* `AdminsAreBounded`: the count of administrators is read before the transaction, so the bound is on
  those there are and those about to be made (`AdminsInv`, `Granting`): it may be exceeded by one for each
  request in flight beyond the first, and by no more.
* `RolesChangeByUpdates`: the action property, whatever overlaps.
* `ThereIsOneOwner`, `AssigneesAreMembers`, `CachedRolesAreCurrent`, `AuthorityHolds`: as long as requests do
  not overlap and nothing fails (`Serial`). What a handler decides on was read steps before, through a cache that is deleted after the
  commit. `SerialInv` therefore says of every request that what it has learned is so (`Knows`), and of the
  cache that it is current or about to be deleted by the request under way (`Evicting`).

`TaskServiceProofs`:

* `TypeCorrect`: with `Typed`, which adds what an operation's handler holds at each step (a commit
  has a row it read, a fill belongs to a read), since the change a commit makes is typed only then.
* `PagesAreFresh`: CurrentPageIsFresh is not inductive, because a page is stored long after it was
  loaded. `PagesInv` adds that no page and no request has a version still to come, and that a list
  loaded under the current version shows the row as it is. A commit makes that moot until its bump,
  and the bump begins a version under which nothing was made yet. Most actions are instances of
  `QuietStep`.
* `DoneTasksHaveTimes`: `TimesInv` adds that a start time seen before the transaction is still set
  in it, because nothing clears it.
* `DeletionsGivenUpLate`: `LateInv` charges each deletion that waits in the queue, and each try of one a
  worker has taken, to a fault of its own; what the log gives up has used up its tries or met a full queue.
* `StaleObjectsAreTraceable`: as long as requests do not overlap and no change escapes the code's
  invalidation, a stale object is waiting to be deleted or in the log. `TraceInv` adds the time in
  between: the one request in flight (`Lone`) may still have to delete it, and what it loaded to store
  shows the row (`LoadsShow`).

`DirectoryProofs`, for any projects, users, readers, lives and number of changes:

* `TypeCorrect`: with `Typed`, which counts the bumps of the version against the changes
  (`BumpsCounted`): every bump belongs to an update of a profile that has been counted, so the version
  stays within the keys.
* `ListsAreStaleOnlySoLong`: StaleOnlySoLong is about what a reader shows at its end, put together
  over several steps from entries of different ages. `AgeInv` says the same of every entry on the way
  (`CachesAgree`) and of everything a reader holds at each of its steps (`ReadersAgree`): what has l
  ticks left to live was read TTL − l ticks ago, so it differs from the tables only by what changed
  since. A change is of age 0 and excuses itself (`Fresh`); a tick adds one to every age and takes one
  from every life, which keeps their sum (`Later`); an entry of one tick to live goes with the next.

`DiscussionProofs`:

* `IndInvHolds`, `TypeCorrect`: `StepsInv` and `OneTransaction` say which steps an operation takes and that
  the rows of a request are the work of its one transaction.
* `CommentsAreRemovedOnce`: `RemovalsInv` says that a deleted comment has exactly one activity that tells
  of its removal and one that is not deleted none, so a second remover, who reads the comment before
  the first one's commit, cannot succeed after it.
* `CommentsAreHeardOnce`: `HeardOnce` is about the rows a comment left. `ThreadInv` says that the comment it
  answers, looked up before the transaction, is still of the same task and author, and `AudienceInv` that the
  notifications are one for the person its row is for (`Audience`), and none for anyone else.
* `CommentsReachTheAssignee`: `FreshInv`, as long as no requests overlap and no change escapes the cache:
  the cached assignee is the table's, or about to be deleted, and a comment on its way has seen the
  assignee there is.

`ForwardingProofs`, about three specifications that share no variable:

* `TypeCorrect`, `IndInvHolds`, `MessagesEnterOnce`, `AnswersAreHonest` of `Publisher`. OneCopyPerCall holds
  because a try that left the process is the last of its call (`SentInv`): only errors before that are
  tried again. OutcomeIsHonest needs to know what the broker did with the current attempt when its confirm
  comes (`ConfirmInv`: routed, or returned before) and whose the returns are that lie in the channel
  (`ReturnsInv`: the current message's, or those of a call given up unconfirmed). `LinkInv` says that a
  channel is replaced only when nothing of the old one is on its way.
* `ShutdownIsOrderly` of `ForwardLifecycle`: `LifeInv` says what a manager has by where the goroutine of its
  Start is (`ManagerInv`), and that a stopped service has no such goroutine.
* `RegistryTracksConnections` of `ClientRegistry`: `RegistryInv` adds how far a client has come
  (`ClientInv`): only a client just registered has another to close, so a second Register cannot forget one;
  a pump gives up only a connection that is gone, so what it unregisters is not a user's live one.
* `ConnectionsTyped`, `LifeTyped`: the types of both.

Only model-checked: the liveness properties (`EventuallySettled` of the outbox and of the consumer,
`SurvivesADrop`, `PublishReturns`, `CloseCompletes`, `LostClientsLeave`), because the prover has neither
ENABLED nor a rule for fairness to offer. The three violations are counterexamples and need no proof.

## 5. What is not modelled

* Reads with no cache and one-row writes under a unique index (Register, the lists of comments,
  activities, members and notifications, MarkRead): no step of another actor falls between their steps.
* Sorting: the orders of task lists and UpdateTaskSortOrder with its normalisation.
* HTTP parsing, DTOs, validation, response codes, logging, configuration, bootstrap.
* Order of messages in a queue (no property depends on it), and clocks: time is the set of moments
  at which a deadline may have passed, or ages in ticks.
* Password hashing, token signing: values are model values.
* In `TaskService`: the order and the paging of lists, keywords, priorities and due dates (they are
  filters and columns like those kept), several tasks (a page is judged task by task, keys of
  different tasks do not meet), a stopped or restarted server, the queue strategies that are not the
  default, objects found damaged in the cache, and the users and projects cached along the way.
* In `Publisher`: the declarations of the topology one by one (any may fail), and which error a nack is.
* In `Directory`: pages after the first, keywords and filters other than the status, the singleflight group
  (it makes readers share a load, which only removes behaviours), and the fields of a profile or project
  beyond one that changes.

## 6. Plan

1. An abstract cache (a read returns a value the row had since the last completed invalidation) that the
   list pages of `TaskService` implement.
2. `NotificationPipeline`: outbox and consumer joined at the broker, implementing one abstract
   promise from the business transaction to the handler or the dead-letter queue.
3. `TaskOrder`: the normalisation of sort items, checked against a sort over bounded inputs.
