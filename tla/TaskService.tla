---------------------------- MODULE TaskService ----------------------------
(***************************************************************************)
(* One task in MySQL and everything cached about it: three objects (what   *)
(* permission checks need, the detail, the list item) and the list pages,  *)
(* which are named by a version and hold only ids.  The writers of         *)
(* TaskService and the readers of CacheService interleave at every call to *)
(* Redis and to the database, and deletions that failed are tried again in *)
(* the background by the cache store.                                      *)
(*                                                                         *)
(* A task is reduced to the fields a list filters on and the two times a   *)
(* status change maintains (set or NULL).  The version registry is memory  *)
(* of the one server; a transaction is one step.  The permission checks    *)
(* before a write are the business of ProjectMembers.                      *)
(***************************************************************************)
EXTENDS Naturals, Sequences

CONSTANTS
    Requests,           \* requests the server handles at the same time
    Users,              \* possible assignees
    NoUser,             \* NULL in assignee_id, 0 in a query: unassigned
    Nil,                \* a filter that is not set, a value that is not there
    Titles,
    Queries,            \* list queries that are asked
    DeleteWorkers,      \* goroutines of RetryDeleteWorker
    ChanSize,           \* capacity of its queue
    MaxRetryAttempts,   \* how often it tries
    MaxStarts,          \* bound: requests started in a behaviour
    MaxOverlap,         \* bound: the requests after these many start alone
    MaxFaults           \* bound: failed Redis calls and lost commit replies

Objects == {"permission", "detail", "item"}
Statuses == {"todo", "in_progress", "done", "cancelled"}
Assignees == Users \cup {NoUser}
Query == [title : Titles \cup {Nil}, status : Statuses \cup {Nil},
          assignee : Assignees \cup {Nil}]

ASSUME TaskAssumption ==
    /\ NoUser \notin Users
    /\ Nil \notin Titles \cup Statuses \cup Assignees
    /\ Queries \subseteq Query
    /\ ChanSize \in Nat /\ MaxRetryAttempts \in Nat \ {0}
    /\ MaxStarts \in Nat /\ MaxOverlap \in Nat /\ MaxFaults \in Nat

VARIABLES
    row,         \* the tasks row
    cache,       \* cached object -> what it shows of the task
    pages,       \* key of a cached page -> whether the page lists the task
    version,     \* ListVersionRegistry's version of task lists
    req,         \* request -> what its handler holds
    queue,       \* the retry queue: sets of objects still to delete
    worker,      \* delete worker -> the objects it is deleting and failed tries
    logged,      \* deletions given up on, as the error log names them
    starts, faults,
    overlapped,  \* two requests have been in flight together
    escaped      \* a change was committed that no invalidation follows

invalidation == <<queue, worker, logged>>
vars == <<row, cache, pages, version, req, invalidation, starts, faults, overlapped, escaped>>

Row == [state : {"none", "live", "removed"}, title : Titles, status : Statuses,
        assignee : Assignees, started : BOOLEAN, completed : BOOLEAN]

(* What the database shows of the row; Gone is "not found" and the null marker. *)
Gone == [title |-> Nil, status |-> Nil, assignee |-> Nil]
Views == [title : Titles, status : Statuses, assignee : Assignees] \cup {Gone}
View(r) == IF r.state = "live"
           THEN [title |-> r.title, status |-> r.status, assignee |-> r.assignee]
           ELSE Gone

(* SearchTasks: an unset filter does not filter. *)
Matches(query, view) ==
    view # Gone /\ \A f \in {"title", "status", "assignee"} : query[f] \in {Nil, view[f]}

(* CacheKeyParts: an unset assignee and "unassigned" are both printed as 0. *)
CacheKeyParts(query) ==
    IF query.assignee = Nil THEN [query EXCEPT !.assignee = NoUser] ELSE query

Idle == [pc |-> "idle", op |-> "none", query |-> Gone, wanted |-> Nil,
         version |-> 0, seen |-> Nil, load |-> Gone]

InFlight == {q \in Requests : req[q].pc # "idle"}

Set(q, r, pc) == req' = [req EXCEPT ![q] = [r EXCEPT !.pc = pc]]
Finish(q) == req' = [req EXCEPT ![q] = Idle]

NoFault == UNCHANGED faults
Fault == /\ faults < MaxFaults
         /\ faults' = faults + 1

Init ==
    /\ \E t \in Titles, a \in Assignees, s \in {"none", "live"} :
         row = [state |-> s, title |-> t, status |-> "todo", assignee |-> a,
                started |-> FALSE, completed |-> FALSE]
    /\ cache = << >> /\ pages = << >>
    /\ version = 1
    /\ req = [q \in Requests |-> Idle]
    /\ queue = << >>
    /\ worker = [w \in DeleteWorkers |-> [keys |-> {}, tries |-> 0]]
    /\ logged = {}
    /\ starts = 0 /\ faults = 0
    /\ overlapped = FALSE /\ escaped = FALSE

Start(q, r) ==
    /\ req[q].pc = "idle"
    /\ starts < MaxStarts
    /\ starts < MaxOverlap \/ InFlight = {}
    /\ starts' = starts + 1
    /\ req' = [req EXCEPT ![q] = r]
    /\ overlapped' = (overlapped \/ InFlight # {})
    /\ UNCHANGED <<row, cache, pages, version, invalidation, faults, escaped>>

-----------------------------------------------------------------------------
(* Reading through the cache: loadObjectByBundleWithSF, loadListPageBundle.  *)
(* Of a removed task both say "not found"; a page then lists nothing.        *)

(* GetTaskPermissionInfo and GetTaskDetailInfo. *)
StartGet(q) ==
    \E o \in {"permission", "detail"} :
        Start(q, [Idle EXCEPT !.pc = "get", !.op = o])

(* GetProjectTaskList and GetUserTaskList: the key is made first, with the  *)
(* version of that moment, and used for every later Get and Set.            *)
StartList(q) ==
    \E query \in Queries :
        Start(q, [Idle EXCEPT !.pc = "get", !.op = "list", !.query = query,
                              !.version = version])

Key(r) == [version |-> r.version, query |-> CacheKeyParts(r.query)]

Hit(r) == IF r.op = "list" THEN Key(r) \in DOMAIN pages ELSE r.op \in DOMAIN cache

(* singleflight: one load at a time under a key. *)
InsideFlight == {"second", "load", "fill", "fillItem"}

SameFlight(p, q) ==
    /\ req[p].op = req[q].op
    /\ req[p].op = "list" => Key(req[p]) = Key(req[q])

Followers(q) == {p \in Requests : req[p].pc = "joined" /\ SameFlight(p, q)}

(* The leader and those who waited for it go on with one result. *)
Land(q, r) ==
    req' = [p \in Requests |->
              IF p = q THEN r
              ELSE IF p \in Followers(q)
                   THEN IF r = Idle THEN Idle ELSE [req[p] EXCEPT !.pc = r.pc]
                   ELSE req[p]]

(* A page that is hit holds ids: its tasks are fetched one by one.  An       *)
(* object that is hit is the answer.                                        *)
AfterHit(r) == IF r.op = "list" /\ pages[Key(r)] THEN [r EXCEPT !.pc = "items"] ELSE Idle

readOnly == <<row, version, invalidation, starts, overlapped, escaped>>

(* A Get that fails is a miss. *)
Get(q) ==
    /\ req[q].pc = "get"
    /\ \/ Hit(req[q]) /\ NoFault /\ req' = [req EXCEPT ![q] = AfterHit(req[q])]
       \/ /\ IF Hit(req[q]) THEN Fault ELSE NoFault
          /\ Set(q, req[q], IF \E p \in Requests : /\ req[p].pc \in InsideFlight
                                                   /\ SameFlight(p, q)
                            THEN "joined" ELSE "second")
    /\ UNCHANGED <<readOnly, cache, pages>>

SecondGet(q) ==
    /\ req[q].pc = "second"
    /\ \/ Hit(req[q]) /\ NoFault /\ Land(q, AfterHit(req[q]))
       \/ /\ IF Hit(req[q]) THEN Fault ELSE NoFault
          /\ Set(q, req[q], "load")
    /\ UNCHANGED <<readOnly, cache, pages>>

(* The query; when it fails so do all who wait for it. *)
LoadDB(q) ==
    /\ req[q].pc = "load"
    /\ \/ NoFault /\ req' = [req EXCEPT ![q].load = View(row), ![q].pc = "fill"]
       \/ Fault /\ Land(q, Idle)
    /\ UNCHANGED <<readOnly, cache, pages>>

(* A Set that fails is only logged. *)
StoreObject(o, view) ==
    \/ cache' = [p \in DOMAIN cache \cup {o} |-> IF p = o THEN view ELSE cache[p]]
    \/ UNCHANGED cache

StorePage(k, lists) ==
    \/ pages' = [p \in DOMAIN pages \cup {k} |-> IF p = k THEN lists ELSE pages[p]]
    \/ UNCHANGED pages

(* SetCache or SetNull. *)
FillObject(q) ==
    /\ req[q].pc = "fill" /\ req[q].op # "list"
    /\ StoreObject(req[q].op, req[q].load)
    /\ Land(q, Idle)
    /\ UNCHANGED <<readOnly, pages, faults>>

(* As if the key of the page were made again when it is stored. *)
FillPageUnderNewKey(q) ==
    LET r == req[q]
        k == [Key(r) EXCEPT !.version = version]
    IN  /\ r.pc = "fill" /\ r.op = "list"
        /\ StorePage(k, Matches(r.query, r.load))
        /\ IF Matches(r.query, r.load) THEN Set(q, r, "fillItem") ELSE Land(q, Idle)
        /\ UNCHANGED <<readOnly, cache, faults>>

(* SetListPage; the tasks the page lists are cached as items next. *)
FillPage(q) ==
    LET r == req[q]
    IN  /\ r.pc = "fill" /\ r.op = "list"
        /\ StorePage(Key(r), Matches(r.query, r.load))
        /\ IF Matches(r.query, r.load) THEN Set(q, r, "fillItem") ELSE Land(q, Idle)
        /\ UNCHANGED <<readOnly, cache, faults>>

(* MSetListItem with the rows of the search. *)
FillItem(q) ==
    /\ req[q].pc = "fillItem"
    /\ StoreObject("item", req[q].load)
    /\ Land(q, Idle)
    /\ UNCHANGED <<readOnly, pages, faults>>

(* BuildProjectTaskModelsFromPage: the items of a page that was hit, from    *)
(* the cache (BatchGetListItem) or, as far as they are missing, from the     *)
(* database (BatchGetTasksByIDs, then MSetListItem).                         *)
GetItems(q) ==
    /\ req[q].pc = "items"
    /\ \/ "item" \in DOMAIN cache /\ NoFault /\ Finish(q)
       \/ /\ IF "item" \in DOMAIN cache THEN Fault ELSE NoFault
          /\ Set(q, req[q], "loadItem")
    /\ UNCHANGED <<readOnly, cache, pages>>

LoadItem(q) ==
    /\ req[q].pc = "loadItem"
    /\ IF row.state = "live"
       THEN req' = [req EXCEPT ![q].load = View(row), ![q].pc = "storeItem"]
       ELSE Finish(q)
    /\ UNCHANGED <<readOnly, cache, pages, faults>>

StoreItem(q) ==
    /\ req[q].pc = "storeItem"
    /\ StoreObject("item", req[q].load)
    /\ Finish(q)
    /\ UNCHANGED <<readOnly, pages, faults>>

-----------------------------------------------------------------------------
(* Writing: read the row, decide, commit, invalidate. *)

StartWrite(q) ==
    \E op \in {"base", "status", "assignee", "remove"} :
    \E wanted \in CASE op = "base" -> Titles
                    [] op = "status" -> Statuses
                    [] op = "assignee" -> Assignees
                    [] op = "remove" -> {Nil} :
        Start(q, [Idle EXCEPT !.pc = "read", !.op = op, !.wanted = wanted])

(* A status or an assignee that stays the same is answered without a write. *)
ReadTask(q) ==
    LET r == req[q]
        same == \/ r.op = "status" /\ row.status = r.wanted
                \/ r.op = "assignee" /\ row.assignee = r.wanted
    IN  /\ r.pc = "read"
        /\ IF row.state = "live" /\ ~same
           THEN req' = [req EXCEPT ![q].seen = row, ![q].pc = "commit"]
           ELSE Finish(q)
        /\ UNCHANGED <<readOnly, cache, pages, faults>>

(* As if only in_progress set start_time. *)
StatusUpdateWithoutStart(r) ==
    [row EXCEPT !.status = r.wanted,
       !.started = @ \/ (r.wanted = "in_progress" /\ ~r.seen.started),
       !.completed = CASE r.wanted = "done" -> TRUE
                       [] r.wanted \in {"todo", "in_progress"} /\ r.seen.status = "done" -> FALSE
                       [] OTHER -> @]

(* buildTaskStatusUpdateParam: which times go with the new status is decided *)
(* on the row as it was read.                                                *)
StatusUpdate(r) ==
    [row EXCEPT !.status = r.wanted,
       !.started = @ \/ (r.wanted \in {"in_progress", "done"} /\ ~r.seen.started),
       !.completed = CASE r.wanted = "done" -> TRUE
                       [] r.wanted \in {"todo", "in_progress"} /\ r.seen.status = "done" -> FALSE
                       [] OTHER -> @]

RowAfter(r) ==
    CASE r.op = "base" -> [row EXCEPT !.title = r.wanted]
      [] r.op = "status" -> StatusUpdate(r)
      [] r.op = "assignee" -> [row EXCEPT !.assignee = r.wanted]
      [] r.op = "remove" -> [row EXCEPT !.state = "removed"]

(* A base update deletes two objects and then bumps, the others bump first. *)
AfterCommit(r) == IF r.op = "base" THEN "delItem" ELSE "bump"

(* The transaction.  It fails when the row is gone; it may be rolled back,   *)
(* or be committed with its reply lost: then the handler reports an error    *)
(* and invalidates nothing.                                                  *)
Commit(q) ==
    /\ req[q].pc = "commit"
    /\ row.state = "live"
    /\ row' = RowAfter(req[q])
    /\ \/ NoFault /\ Set(q, req[q], AfterCommit(req[q])) /\ UNCHANGED escaped
       \/ Fault /\ Finish(q) /\ escaped' = TRUE
    /\ UNCHANGED <<cache, pages, version, invalidation, starts, overlapped>>

Rollback(q) ==
    /\ req[q].pc = "commit"
    /\ Finish(q)
    /\ UNCHANGED <<readOnly, cache, pages, faults>>

(* CreateTask commits a row that caches may know as absent; it invalidates nothing. *)
CreateTask ==
    /\ row.state = "none"
    /\ row' = [row EXCEPT !.state = "live"]
    /\ escaped' = TRUE
    /\ UNCHANGED <<cache, pages, version, req, invalidation, starts, faults, overlapped>>

(* RemoveProjectMember clears the assignee in its own transaction, which the *)
(* caches of the task do not hear of.                                        *)
ClearTaskAssignee ==
    /\ row.state = "live"
    /\ row.assignee # NoUser
    /\ row' = [row EXCEPT !.assignee = NoUser]
    /\ escaped' = TRUE
    /\ UNCHANGED <<cache, pages, version, req, invalidation, starts, faults, overlapped>>

-----------------------------------------------------------------------------
(* Invalidation *)

Without(keys) == [o \in DOMAIN cache \ keys |-> cache[o]]

(* RetryDeleteWorker.Enqueue: what does not fit is dropped and logged. *)
Enqueue(keys) ==
    IF Len(queue) < ChanSize
    THEN queue' = Append(queue, keys) /\ UNCHANGED logged
    ELSE logged' = logged \cup {[keys |-> keys, why |-> "full"]} /\ UNCHANGED queue

(* As if a failed Del were only logged by its caller. *)
DelWithoutRetry(keys) ==
    \/ /\ cache' = Without(keys)
       /\ NoFault
       /\ UNCHANGED <<queue, logged>>
    \/ /\ cache' \in {cache, Without(keys)}
       /\ Fault
       /\ UNCHANGED <<queue, logged>>

(* RedisCacheStore.Del: one DEL command; when it fails (its reply may be     *)
(* what was lost) the keys go to the retry queue.                            *)
Del(keys) ==
    \/ /\ cache' = Without(keys)
       /\ NoFault
       /\ UNCHANGED <<queue, logged>>
    \/ /\ cache' \in {cache, Without(keys)}
       /\ Fault
       /\ Enqueue(keys)

Invalidating(q, pc) ==
    /\ req[q].pc = pc
    /\ UNCHANGED <<row, pages, worker, starts, overlapped, escaped>>

DeleteTaskListItemCache(q) ==
    /\ Invalidating(q, "delItem")
    /\ Del({"item"})
    /\ Set(q, req[q], "delDetail")
    /\ UNCHANGED version

DeleteTaskDetailInfoCache(q) ==
    /\ Invalidating(q, "delDetail")
    /\ Del({"detail"})
    /\ Set(q, req[q], "bump")
    /\ UNCHANGED version

(* BumpTaskListPage, or the first half of DeleteAll. *)
Bump(q) ==
    /\ Invalidating(q, "bump")
    /\ version' = version + 1
    /\ IF req[q].op = "base" THEN Finish(q) ELSE Set(q, req[q], "delAll")
    /\ UNCHANGED <<cache, queue, logged, faults>>

(* As if DeleteAll forgot the list item. *)
DeleteAllButItem(q) ==
    /\ Invalidating(q, "delAll")
    /\ Del({"permission", "detail"})
    /\ Finish(q)
    /\ UNCHANGED version

(* The second half of DeleteAll. *)
DeleteAll(q) ==
    /\ Invalidating(q, "delAll")
    /\ Del(Objects)
    /\ Finish(q)
    /\ UNCHANGED version

retrying == <<row, pages, version, req, starts, overlapped, escaped>>

Take(w) ==
    /\ worker[w].keys = {}
    /\ queue # << >>
    /\ worker' = [worker EXCEPT ![w] = [keys |-> Head(queue), tries |-> 0]]
    /\ queue' = Tail(queue)
    /\ UNCHANGED <<retrying, cache, logged, faults>>

(* As if the loop over the attempts ended one too early. *)
RetryDeleteOnceLess(w) ==
    /\ worker[w].keys # {}
    /\ \/ /\ cache' = Without(worker[w].keys)
          /\ worker' = [worker EXCEPT ![w] = [keys |-> {}, tries |-> 0]]
          /\ NoFault
          /\ UNCHANGED logged
       \/ /\ cache' \in {cache, Without(worker[w].keys)}
          /\ Fault
          /\ IF worker[w].tries + 2 >= MaxRetryAttempts
             THEN /\ worker' = [worker EXCEPT ![w] = [keys |-> {}, tries |-> 0]]
                  /\ logged' = logged \cup {[keys |-> worker[w].keys, why |-> "exhausted"]}
             ELSE /\ worker' = [worker EXCEPT ![w].tries = @ + 1]
                  /\ UNCHANGED logged
    /\ UNCHANGED <<retrying, queue>>

(* retryDelete: one attempt after its back-off; the last failure is logged. *)
RetryDelete(w) ==
    /\ worker[w].keys # {}
    /\ \/ /\ cache' = Without(worker[w].keys)
          /\ worker' = [worker EXCEPT ![w] = [keys |-> {}, tries |-> 0]]
          /\ NoFault
          /\ UNCHANGED logged
       \/ /\ cache' \in {cache, Without(worker[w].keys)}
          /\ Fault
          /\ IF worker[w].tries + 1 = MaxRetryAttempts
             THEN /\ worker' = [worker EXCEPT ![w] = [keys |-> {}, tries |-> 0]]
                  /\ logged' = logged \cup {[keys |-> worker[w].keys, why |-> "exhausted"]}
             ELSE /\ worker' = [worker EXCEPT ![w].tries = @ + 1]
                  /\ UNCHANGED logged
    /\ UNCHANGED <<retrying, queue>>

(* An entry reaches its TTL. *)
ExpireObject(o) ==
    /\ o \in DOMAIN cache
    /\ cache' = Without({o})
    /\ UNCHANGED <<retrying, invalidation, faults>>

ExpirePage(k) ==
    /\ pages' = [p \in DOMAIN pages \ {k} |-> pages[p]]
    /\ UNCHANGED <<row, cache, version, req, invalidation, starts, faults, overlapped, escaped>>

-----------------------------------------------------------------------------

Read(q) ==
    \/ StartGet(q) \/ StartList(q) \/ Get(q) \/ SecondGet(q) \/ LoadDB(q)
    \/ FillObject(q) \/ FillPage(q) \/ FillItem(q)
    \/ GetItems(q) \/ LoadItem(q) \/ StoreItem(q)

WriteTask(q) ==
    \/ StartWrite(q) \/ ReadTask(q) \/ Commit(q) \/ Rollback(q)
    \/ DeleteTaskListItemCache(q) \/ DeleteTaskDetailInfoCache(q)
    \/ Bump(q) \/ DeleteAll(q)

Next ==
    \/ \E q \in Requests : Read(q) \/ WriteTask(q)
    \/ CreateTask \/ ClearTaskAssignee
    \/ \E w \in DeleteWorkers : Take(w) \/ RetryDelete(w)
    \/ \E o \in Objects : ExpireObject(o)
    \/ \E k \in DOMAIN pages : ExpirePage(k)

Spec == Init /\ [][Next]_vars
-----------------------------------------------------------------------------
(* Properties *)

Request ==
    [pc : {"idle", "get", "joined", "second", "load", "fill", "fillItem", "items",
           "loadItem", "storeItem", "read", "commit", "delItem", "delDetail", "bump",
           "delAll"},
     op : {"none", "permission", "detail", "list", "base", "status", "assignee", "remove"},
     query : Query,
     wanted : Titles \cup Statuses \cup Assignees \cup {Nil},
     version : Nat, seen : Row \cup {Nil}, load : Views]

PageKey == [version : Nat, query : Query]

TypeOK ==
    /\ row \in Row
    /\ DOMAIN cache \subseteq Objects /\ \A o \in DOMAIN cache : cache[o] \in Views
    /\ DOMAIN pages \subseteq PageKey /\ \A k \in DOMAIN pages : pages[k] \in BOOLEAN
    /\ version \in Nat
    /\ req \in [Requests -> Request]
    /\ queue \in Seq(SUBSET Objects) /\ Len(queue) <= ChanSize
    /\ worker \in [DeleteWorkers -> [keys : SUBSET Objects, tries : 0 .. MaxRetryAttempts - 1]]
    /\ \A l \in logged : l \in [keys : SUBSET Objects, why : {"full", "exhausted"}]
    /\ starts \in 0 .. MaxStarts /\ faults \in 0 .. MaxFaults
    /\ overlapped \in BOOLEAN /\ escaped \in BOOLEAN

(* A committed write whose bump has not happened yet. *)
BumpPending == \E q \in Requests : req[q].pc \in {"delItem", "delDetail", "bump"}

(* Whatever loads and writes overlap, a page that can be hit under the       *)
(* current version shows the row as it is (for some query with that key),    *)
(* unless a writer is between its commit and its bump: a page loaded before  *)
(* the commit was given its key before the bump, however late it is stored.  *)
CurrentPageIsFresh ==
    ~escaped /\ ~BumpPending =>
        \A k \in DOMAIN pages : k.version = version =>
            \E query \in Queries : /\ CacheKeyParts(query) = k.query
                                   /\ pages[k] = Matches(query, View(row))

(* A list is the answer to the query that was asked.  GetTaskListReq says of *)
(* assignee_id: nil lists all tasks, 0 lists the unassigned ones.            *)
PageAnswersQuery ==
    ~escaped /\ ~BumpPending =>
        \A query \in Queries :
            LET k == [version |-> version, query |-> CacheKeyParts(query)]
            IN  k \in DOMAIN pages => pages[k] = Matches(query, View(row))

(* Updates of the base fields leave the permission object, whose title is    *)
(* therefore not held to be current.                                         *)
Stale(o) ==
    /\ o \in DOMAIN cache
    /\ \/ (cache[o] = Gone) # (View(row) = Gone)
       \/ cache[o].status # View(row).status
       \/ cache[o].assignee # View(row).assignee
       \/ o # "permission" /\ cache[o].title # View(row).title

(* What a handler past its commit is still going to delete. *)
StillToDelete(r) ==
    CASE r.pc = "delItem" -> {"item", "detail"}
      [] r.pc = "delDetail" -> {"detail"}
      [] r.pc \in {"bump", "delAll"} /\ r.op # "base" -> Objects
      [] OTHER -> {}

(* Between requests that do not overlap a stale object never goes unnoticed: *)
(* its deletion is still to come, waits in the retry queue, is being tried,  *)
(* or was given up with an entry in the error log.                           *)
StaleIsTraceable ==
    ~overlapped /\ ~escaped => \A o \in Objects : Stale(o) =>
        \/ \E q \in Requests : o \in StillToDelete(req[q])
        \/ \E i \in DOMAIN queue : o \in queue[i]
        \/ \E w \in DeleteWorkers : o \in worker[w].keys
        \/ \E l \in logged : o \in l.keys

(* A deletion is given up only after the first DEL and every retry of it     *)
(* failed, or when more deletions failed than the queue can hold.            *)
DeletionsAreGivenUpLate ==
    \A l \in logged :
        /\ l.why = "exhausted" => faults > MaxRetryAttempts
        /\ l.why = "full" => faults > ChanSize

(* A task that is done has its completion time, and one that is done or in   *)
(* progress its start time, although both are decided on a row read before   *)
(* the transaction and other status changes may commit in between.           *)
DoneHasTimes ==
    row.state = "live" =>
        /\ row.status = "done" => row.completed
        /\ row.status \in {"in_progress", "done"} => row.started
=============================================================================
