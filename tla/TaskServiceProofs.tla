------------------------- MODULE TaskServiceProofs -------------------------
(***************************************************************************)
(* What TaskService keeps for any number of requests, users, queries and   *)
(* faults: its types, that a list page of the current version is fresh,    *)
(* and that a finished task has its times.                                 *)
(***************************************************************************)
EXTENDS TaskService, TLAPS

(* What an operation's handler may hold at each of its steps. *)
OpFits(r) ==
    /\ r.pc \in {"get", "joined", "second", "load", "fill"} =>
           r.op \in {"permission", "detail", "list"}
    /\ r.pc \in {"fillItem", "items", "loadItem", "storeItem"} => r.op = "list"
    /\ r.pc \in {"read", "commit"} => \/ r.op = "base" /\ r.wanted \in Titles
                                      \/ r.op = "status" /\ r.wanted \in Statuses
                                      \/ r.op = "assignee" /\ r.wanted \in Assignees
                                      \/ r.op = "remove"
    /\ r.pc = "commit" => r.seen \in Row
    /\ r.op = "list" => r.query \in Queries

ReqOK ==
    /\ req \in [Requests -> Request]
    /\ \A q \in Requests : OpFits(req[q])

CacheOK == DOMAIN cache \subseteq Objects /\ \A o \in DOMAIN cache : cache[o] \in Views

PagesOK == DOMAIN pages \subseteq PageKey /\ \A k \in DOMAIN pages : pages[k] \in BOOLEAN

QueueOK ==
    /\ queue \in Seq(SUBSET Objects) /\ Len(queue) <= ChanSize
    /\ \A l \in logged : l \in [keys : SUBSET Objects, why : {"full", "exhausted"}]

WorkerOK ==
    worker \in [DeleteWorkers -> [keys : SUBSET Objects, tries : 0 .. MaxRetryAttempts - 1]]

CountsOK ==
    /\ version \in Nat
    /\ starts \in 0 .. MaxStarts /\ faults \in 0 .. MaxFaults
    /\ overlapped \in BOOLEAN /\ escaped \in BOOLEAN

(* TypeOK by parts, and that requests hold what their operation needs. *)
Typed == row \in Row /\ CacheOK /\ PagesOK /\ QueueOK /\ WorkerOK /\ CountsOK /\ ReqOK

(* Nothing was made under a version that is still to come, and what was made *)
(* under the current one shows the row, stored or about to be.               *)
PagesInv ==
    /\ \A k \in DOMAIN pages : k.version <= version
    /\ \A q \in Requests : req[q].op = "list" => req[q].version <= version
    /\ ~escaped /\ ~BumpPending =>
         \A q \in Requests :
             req[q].pc = "fill" /\ req[q].op = "list" /\ req[q].version = version
                 => req[q].load = View(row)
    /\ CurrentPageIsFresh

(* start_time is never cleared, so a decision on an old row still holds. *)
TimesInv ==
    /\ row.status = "done" => row.completed
    /\ row.status \in {"in_progress", "done"} => row.started
    /\ \A q \in Requests : req[q].pc = "commit" /\ req[q].seen.started => row.started

-----------------------------------------------------------------------------
(* Operators *)

(* A page entry is TRUE or FALSE. *)
LEMMA MatchesBoolean == \A query, view : Matches(query, view) \in BOOLEAN
  BY DEF Matches

(* A view of a row is one that caches can hold. *)
LEMMA ViewType == \A r \in Row : View(r) \in Views
  BY DEF Row, View, Views

(* The key of a query is a query. *)
LEMMA KeyType == \A query \in Query : CacheKeyParts(query) \in Query
  BY DEF Query, CacheKeyParts, Assignees

(* An idle request holds nothing. *)
LEMMA IdleFits == Idle \in Request /\ OpFits(Idle)
  BY TaskAssumption DEF Idle, Request, Query, Gone, Views, OpFits

(* One request changes to something its operation may hold. *)
LEMMA OneStep ==
  ASSUME ReqOK, NEW q \in Requests, NEW r \in Request, OpFits(r),
         req' = [req EXCEPT ![q] = r]
  PROVE  ReqOK'
  BY DEF ReqOK, OpFits

(* A request goes to another step of its operation. *)
LEMMA SetStep ==
  ASSUME ReqOK, NEW q \in Requests, NEW pc, Set(q, req[q], pc),
         [req[q] EXCEPT !.pc = pc] \in Request, OpFits([req[q] EXCEPT !.pc = pc])
  PROVE  ReqOK'
  BY OneStep DEF Set

(* A request ends. *)
LEMMA FinishStep ==
  ASSUME ReqOK, NEW q \in Requests, Finish(q)
  PROVE  ReqOK'
  BY OneStep, IdleFits DEF Finish

(* A flight lands: all its requests end, or all go on to the items of a page. *)
LEMMA LandStep ==
  ASSUME ReqOK, NEW q \in Requests, NEW r, Land(q, r),
         \/ r = Idle
         \/ r = [req[q] EXCEPT !.pc = "items"] /\ req[q].op = "list"
  PROVE  ReqOK'
  <1>1. CASE r = Idle
    <2>1. req' \in [Requests -> Request]
      BY <1>1, IdleFits DEF ReqOK, Land
    <2>2. \A p \in Requests : OpFits(req'[p])
      BY <1>1, IdleFits DEF ReqOK, Land
    <2> QED BY <2>1, <2>2 DEF ReqOK, OpFits
  <1>2. CASE r = [req[q] EXCEPT !.pc = "items"] /\ req[q].op = "list" /\ r # Idle
    <2>1. r \in Request /\ OpFits(r) /\ r.pc = "items"
      BY <1>2 DEF ReqOK, Request, OpFits
    <2>2. ASSUME NEW p \in Requests
          PROVE  req'[p] \in Request /\ OpFits(req'[p])
      <3>1. CASE p = q
        BY <2>1, <3>1 DEF Land, ReqOK
      <3>2. CASE p # q /\ p \in Followers(q)
        <4>1. req'[p] = [req[p] EXCEPT !.pc = "items"] /\ req[p].op = "list"
          BY <1>2, <2>1, <3>2 DEF Land, ReqOK, Followers, SameFlight
        <4> QED BY <4>1 DEF ReqOK, Request, OpFits
      <3>3. CASE p # q /\ p \notin Followers(q)
        BY <3>3 DEF Land, ReqOK
      <3> QED BY <3>1, <3>2, <3>3
    <2>3. req' \in [Requests -> Request]
      BY <2>2 DEF Land
    <2> QED BY <2>2, <2>3 DEF ReqOK, OpFits
  <1> QED BY <1>1, <1>2

-----------------------------------------------------------------------------
(* Types of what the actions share *)

(* Storing an object or a page keeps the types of the caches. *)
LEMMA StoreObjectType ==
    ASSUME CacheOK, NEW o \in Objects, NEW view \in Views, StoreObject(o, view)
    PROVE  CacheOK'
  BY DEF CacheOK, StoreObject

LEMMA StorePageType ==
    ASSUME PagesOK, NEW k \in PageKey, NEW lists \in BOOLEAN, StorePage(k, lists)
    PROVE  PagesOK'
  BY DEF PagesOK, StorePage

(* Deleting keeps them, and a fault stays below its bound. *)
LEMMA WithoutType ==
    ASSUME CacheOK, NEW keys, cache' \in {cache, Without(keys)}
    PROVE  CacheOK'
  BY DEF CacheOK, Without

LEMMA FaultType ==
    ASSUME faults \in 0 .. MaxFaults, NoFault \/ Fault
    PROVE  faults' \in 0 .. MaxFaults
  BY TaskAssumption DEF NoFault, Fault

(* A failed deletion enters the queue only if it fits. *)
LEMMA EnqueueType ==
    ASSUME QueueOK, NEW keys \in SUBSET Objects, Enqueue(keys)
    PROVE  QueueOK'
  <1>1. CASE Len(queue) < ChanSize
    BY <1>1, TaskAssumption DEF QueueOK, Enqueue
  <1>2. CASE ~(Len(queue) < ChanSize)
    BY <1>2 DEF QueueOK, Enqueue
  <1> QED BY <1>1, <1>2

LEMMA DelType ==
    ASSUME CacheOK, QueueOK, faults \in 0 .. MaxFaults, NEW keys \in SUBSET Objects, Del(keys)
    PROVE  CacheOK' /\ QueueOK' /\ faults' \in 0 .. MaxFaults
  <1>1. CacheOK'
    BY WithoutType DEF Del
  <1>2. QueueOK'
    BY EnqueueType DEF Del, QueueOK
  <1>3. faults' \in 0 .. MaxFaults
    BY FaultType DEF Del
  <1> QED BY <1>1, <1>2, <1>3

LEMMA KeyOfType ==
    ASSUME NEW r \in Request
    PROVE  Key(r) \in PageKey
  BY KeyType DEF Key, PageKey, Request

(* TypeOK is Typed without what it says of operations. *)
LEMMA TypedIsTypeOK == Typed => TypeOK
  BY DEF Typed, TypeOK, CacheOK, PagesOK, QueueOK, WorkerOK, CountsOK, ReqOK

-----------------------------------------------------------------------------
(* Type correctness, action by action *)

(* Every initial state has the types. *)
LEMMA TypedInit == Init => Typed
  <1> SUFFICES ASSUME Init PROVE Typed
    OBVIOUS
  <1>1. row \in Row
    BY DEF Init, Row, Statuses
  <1>2. CacheOK /\ PagesOK
    BY DEF Init, CacheOK, PagesOK
  <1>3. QueueOK /\ WorkerOK
    BY TaskAssumption DEF Init, QueueOK, WorkerOK
  <1>4. CountsOK
    <2>1. version \in Nat /\ starts \in 0 .. MaxStarts /\ faults \in 0 .. MaxFaults
      BY TaskAssumption DEF Init
    <2> QED BY <2>1 DEF Init, CountsOK
  <1>5. ReqOK
    BY IdleFits DEF Init, ReqOK
  <1> QED BY <1>1, <1>2, <1>3, <1>4, <1>5 DEF Typed

(* A request that starts changes only the requests and their count. *)
LEMMA TypedStart ==
    ASSUME Typed, NEW q \in Requests, NEW r \in Request, OpFits(r), Start(q, r)
    PROVE  Typed'
  <1>1. ReqOK'
    BY OneStep DEF Start, Typed
  <1>2. CountsOK'
    BY TaskAssumption DEF Start, CountsOK, Typed
  <1>3. row' \in Row /\ CacheOK' /\ PagesOK' /\ QueueOK' /\ WorkerOK'
    BY DEF Start, CacheOK, PagesOK, QueueOK, WorkerOK, invalidation, Typed
  <1> QED BY <1>1, <1>2, <1>3 DEF Typed

LEMMA TypedStarts ==
    ASSUME Typed, NEW q \in Requests, StartGet(q) \/ StartList(q) \/ StartWrite(q)
    PROVE  Typed'
  <1>1. CASE StartGet(q)
    <2>1. PICK o \in {"permission", "detail"} :
            Start(q, [Idle EXCEPT !.pc = "get", !.op = o])
      BY <1>1 DEF StartGet
    <2> DEFINE r == [Idle EXCEPT !.pc = "get", !.op = o]
    <2>2. r \in Request /\ OpFits(r)
      BY IdleFits DEF Idle, Request, OpFits
    <2> QED BY <2>1, <2>2, TypedStart
  <1>2. CASE StartList(q)
    <2>1. PICK query \in Queries :
            Start(q, [Idle EXCEPT !.pc = "get", !.op = "list", !.query = query,
                                  !.version = version])
      BY <1>2 DEF StartList
    <2> DEFINE r == [Idle EXCEPT !.pc = "get", !.op = "list", !.query = query,
                                 !.version = version]
    <2>2. r \in Request /\ OpFits(r)
      BY IdleFits, TaskAssumption DEF Idle, Request, OpFits, CountsOK, Typed
    <2> QED BY <2>1, <2>2, TypedStart
  <1>3. CASE StartWrite(q)
    <2>1. PICK op \in {"base", "status", "assignee", "remove"} :
            \E wanted \in CASE op = "base" -> Titles
                            [] op = "status" -> Statuses
                            [] op = "assignee" -> Assignees
                            [] op = "remove" -> {Nil} :
                Start(q, [Idle EXCEPT !.pc = "read", !.op = op, !.wanted = wanted])
      BY <1>3 DEF StartWrite
    <2>2. PICK wanted \in CASE op = "base" -> Titles
                            [] op = "status" -> Statuses
                            [] op = "assignee" -> Assignees
                            [] op = "remove" -> {Nil} :
                Start(q, [Idle EXCEPT !.pc = "read", !.op = op, !.wanted = wanted])
      BY <2>1
    <2> DEFINE r == [Idle EXCEPT !.pc = "read", !.op = op, !.wanted = wanted]
    <2>3. \/ op = "base" /\ wanted \in Titles
          \/ op = "status" /\ wanted \in Statuses
          \/ op = "assignee" /\ wanted \in Assignees
          \/ op = "remove" /\ wanted = Nil
      BY <2>1, <2>2
    <2>4. r \in Request /\ OpFits(r)
      BY <2>3, IdleFits DEF Idle, Request, OpFits
    <2> QED BY <2>2, <2>4, TypedStart
  <1> QED BY <1>1, <1>2, <1>3

(* A step that reads the caches or the row changes requests, caches and the   *)
(* count of faults.                                                          *)
LEMMA TypedReadOnly ==
    ASSUME Typed, UNCHANGED readOnly, ReqOK', CacheOK', PagesOK', NoFault \/ Fault
    PROVE  Typed'
  <1>1. CountsOK'
    BY FaultType DEF readOnly, CountsOK, Typed
  <1>2. row' \in Row /\ QueueOK' /\ WorkerOK'
    BY DEF readOnly, QueueOK, WorkerOK, invalidation, Typed
  <1> QED BY <1>1, <1>2 DEF Typed

LEMMA SameCaches ==
    ASSUME Typed, UNCHANGED <<cache, pages>>
    PROVE  CacheOK' /\ PagesOK'
  BY DEF CacheOK, PagesOK, Typed

LEMMA TypedGet ==
    ASSUME Typed, NEW q \in Requests, Get(q)
    PROVE  Typed'
  <1>1. CacheOK' /\ PagesOK'
    BY SameCaches DEF Get
  <1>2. ReqOK'
    <2>1. CASE Hit(req[q]) /\ req' = [req EXCEPT ![q] = AfterHit(req[q])]
      <3>1. AfterHit(req[q]) \in Request /\ OpFits(AfterHit(req[q]))
        <4>1. req[q] \in Request /\ OpFits(req[q])
          BY DEF Typed, ReqOK
        <4>2. CASE AfterHit(req[q]) = Idle
          BY <4>2, IdleFits
        <4>3. CASE AfterHit(req[q]) = [req[q] EXCEPT !.pc = "items"] /\ req[q].op = "list"
          BY <4>1, <4>3 DEF Request, OpFits
        <4> QED BY <4>2, <4>3 DEF AfterHit
      <3> QED BY <2>1, <3>1, OneStep DEF Typed
    <2>2. CASE \E pc \in {"joined", "second"} : Set(q, req[q], pc)
      <3>1. PICK pc \in {"joined", "second"} : Set(q, req[q], pc)
        BY <2>2
      <3>2. [req[q] EXCEPT !.pc = pc] \in Request /\ OpFits([req[q] EXCEPT !.pc = pc])
        BY <3>1 DEF Get, Typed, ReqOK, Request, OpFits
      <3> QED BY <3>1, <3>2, SetStep DEF Typed
    <2> QED BY <2>1, <2>2 DEF Get
  <1>3. NoFault \/ Fault
    BY DEF Get
  <1> QED BY <1>1, <1>2, <1>3, TypedReadOnly DEF Get

LEMMA TypedSecondGet ==
    ASSUME Typed, NEW q \in Requests, SecondGet(q)
    PROVE  Typed'
  <1>1. CacheOK' /\ PagesOK'
    BY SameCaches DEF SecondGet
  <1>2. ReqOK'
    <2>1. CASE Land(q, AfterHit(req[q]))
      <3>1. \/ AfterHit(req[q]) = Idle
            \/ AfterHit(req[q]) = [req[q] EXCEPT !.pc = "items"] /\ req[q].op = "list"
        BY DEF AfterHit
      <3> QED BY <2>1, <3>1, LandStep DEF Typed
    <2>2. CASE Set(q, req[q], "load")
      <3>1. [req[q] EXCEPT !.pc = "load"] \in Request /\ OpFits([req[q] EXCEPT !.pc = "load"])
        BY DEF SecondGet, Typed, ReqOK, Request, OpFits
      <3> QED BY <2>2, <3>1, SetStep DEF Typed
    <2> QED BY <2>1, <2>2 DEF SecondGet
  <1>3. NoFault \/ Fault
    BY DEF SecondGet
  <1> QED BY <1>1, <1>2, <1>3, TypedReadOnly DEF SecondGet

LEMMA TypedLoadDB ==
    ASSUME Typed, NEW q \in Requests, LoadDB(q)
    PROVE  Typed'
  <1>1. CacheOK' /\ PagesOK'
    BY SameCaches DEF LoadDB
  <1>2. ReqOK'
    <2>1. CASE req' = [req EXCEPT ![q].load = View(row), ![q].pc = "fill"]
      <3> DEFINE r == [req[q] EXCEPT !.load = View(row), !.pc = "fill"]
      <3>1. View(row) \in Views
        BY ViewType DEF Typed
      <3>2. req[q] \in Request /\ OpFits(req[q]) /\ req[q].pc = "load"
        BY DEF LoadDB, Typed, ReqOK
      <3>3. r \in Request
        BY <3>1, <3>2 DEF Request
      <3>4. OpFits(r)
        BY <3>1, <3>2 DEF Request, OpFits
      <3>5. req' = [req EXCEPT ![q] = r]
        BY <2>1 DEF Typed, ReqOK
      <3> QED BY <3>3, <3>4, <3>5, OneStep DEF Typed
    <2>2. CASE Land(q, Idle)
      BY <2>2, LandStep DEF Typed
    <2> QED BY <2>1, <2>2 DEF LoadDB
  <1>3. NoFault \/ Fault
    BY DEF LoadDB
  <1> QED BY <1>1, <1>2, <1>3, TypedReadOnly DEF LoadDB

LEMMA TypedFills ==
    ASSUME Typed, NEW q \in Requests, FillObject(q) \/ FillPage(q) \/ FillItem(q)
    PROVE  Typed'
  <1> DEFINE r == req[q]
  <1>0. r \in Request /\ OpFits(r) /\ r.load \in Views
    BY DEF Typed, ReqOK, Request
  <1>1. CASE FillObject(q)
    <2>1. CacheOK'
      <3>1. r.op \in Objects
        BY <1>0, <1>1 DEF FillObject, OpFits, Objects
      <3> QED BY <1>0, <1>1, <3>1, StoreObjectType DEF FillObject, Typed
    <2>2. PagesOK'
      BY <1>1 DEF FillObject, Typed, PagesOK
    <2>3. ReqOK'
      BY <1>1, LandStep DEF FillObject, Typed
    <2> QED BY <1>1, <2>1, <2>2, <2>3, TypedReadOnly DEF FillObject, NoFault
  <1>2. CASE FillPage(q)
    <2>1. PagesOK'
      BY <1>0, <1>2, KeyOfType, MatchesBoolean, StorePageType DEF FillPage, Typed
    <2>2. CacheOK'
      BY <1>2 DEF FillPage, Typed, CacheOK
    <2>3. ReqOK'
      <3>1. CASE Set(q, r, "fillItem")
        <4>1. [r EXCEPT !.pc = "fillItem"] \in Request /\ OpFits([r EXCEPT !.pc = "fillItem"])
          BY <1>0, <1>2 DEF FillPage, Request, OpFits
        <4> QED BY <3>1, <4>1, SetStep DEF Typed
      <3>2. CASE Land(q, Idle)
        BY <3>2, LandStep DEF Typed
      <3> QED BY <1>2, <3>1, <3>2 DEF FillPage
    <2> QED BY <1>2, <2>1, <2>2, <2>3, TypedReadOnly DEF FillPage, NoFault
  <1>3. CASE FillItem(q)
    <2>1. CacheOK'
      BY <1>0, <1>3, StoreObjectType DEF FillItem, Typed, Objects
    <2>2. PagesOK'
      BY <1>3 DEF FillItem, Typed, PagesOK
    <2>3. ReqOK'
      BY <1>3, LandStep DEF FillItem, Typed
    <2> QED BY <1>3, <2>1, <2>2, <2>3, TypedReadOnly DEF FillItem, NoFault
  <1> QED BY <1>1, <1>2, <1>3

LEMMA TypedItems ==
    ASSUME Typed, NEW q \in Requests, GetItems(q) \/ LoadItem(q) \/ StoreItem(q)
    PROVE  Typed'
  <1> DEFINE r == req[q]
  <1>0. r \in Request /\ OpFits(r) /\ r.load \in Views /\ req \in [Requests -> Request]
    BY DEF Typed, ReqOK, Request
  <1>1. CASE GetItems(q)
    <2>1. ReqOK'
      <3>1. CASE Finish(q)
        BY <3>1, FinishStep DEF Typed
      <3>2. CASE Set(q, r, "loadItem")
        <4>1. [r EXCEPT !.pc = "loadItem"] \in Request /\ OpFits([r EXCEPT !.pc = "loadItem"])
          BY <1>0, <1>1 DEF GetItems, Request, OpFits
        <4> QED BY <3>2, <4>1, SetStep DEF Typed
      <3> QED BY <1>1, <3>1, <3>2 DEF GetItems
    <2>2. CacheOK' /\ PagesOK' /\ (NoFault \/ Fault)
      BY <1>1, SameCaches DEF GetItems
    <2> QED BY <1>1, <2>1, <2>2, TypedReadOnly DEF GetItems
  <1>2. CASE LoadItem(q)
    <2>1. ReqOK'
      <3>1. CASE Finish(q)
        BY <3>1, FinishStep DEF Typed
      <3>2. CASE req' = [req EXCEPT ![q].load = View(row), ![q].pc = "storeItem"]
        <4> DEFINE s == [r EXCEPT !.load = View(row), !.pc = "storeItem"]
        <4>1. View(row) \in Views
          BY ViewType DEF Typed
        <4>2. s \in Request /\ OpFits(s)
          BY <1>0, <1>2, <4>1 DEF LoadItem, Request, OpFits
        <4>3. req' = [req EXCEPT ![q] = s]
          BY <1>0, <3>2
        <4> QED BY <4>2, <4>3, OneStep DEF Typed
      <3> QED BY <1>2, <3>1, <3>2 DEF LoadItem
    <2>2. CacheOK' /\ PagesOK'
      BY <1>2, SameCaches DEF LoadItem
    <2> QED BY <1>2, <2>1, <2>2, TypedReadOnly DEF LoadItem, NoFault
  <1>3. CASE StoreItem(q)
    <2>1. CacheOK'
      BY <1>0, <1>3, StoreObjectType DEF StoreItem, Typed, Objects
    <2>2. PagesOK'
      BY <1>3 DEF StoreItem, Typed, PagesOK
    <2>3. ReqOK'
      BY <1>3, FinishStep DEF StoreItem, Typed
    <2> QED BY <1>3, <2>1, <2>2, <2>3, TypedReadOnly DEF StoreItem, NoFault
  <1> QED BY <1>1, <1>2, <1>3

LEMMA TypedDecides ==
    ASSUME Typed, NEW q \in Requests, ReadTask(q) \/ Rollback(q)
    PROVE  Typed'
  <1>1. ReqOK'
    <2>1. CASE Finish(q)
      BY <2>1, FinishStep DEF Typed
    <2>2. CASE ReadTask(q) /\ req' = [req EXCEPT ![q].seen = row, ![q].pc = "commit"]
      <3> DEFINE r == [req[q] EXCEPT !.seen = row, !.pc = "commit"]
      <3>1. r \in Request /\ OpFits(r)
        BY <2>2 DEF ReadTask, Typed, ReqOK, Request, OpFits
      <3>2. req' = [req EXCEPT ![q] = r]
        BY <2>2 DEF Typed, ReqOK
      <3> QED BY <3>1, <3>2, OneStep DEF Typed
    <2> QED BY <2>1, <2>2 DEF ReadTask, Rollback
  <1>2. CacheOK' /\ PagesOK' /\ UNCHANGED readOnly /\ NoFault
    BY SameCaches DEF ReadTask, Rollback, NoFault
  <1> QED BY <1>1, <1>2, TypedReadOnly

(* A change of the row leaves a row. *)
LEMMA RowAfterType ==
    ASSUME row \in Row, NEW r \in Request, OpFits(r), r.pc = "commit"
    PROVE  RowAfter(r) \in Row
  <1>1. CASE r.op = "base" /\ r.wanted \in Titles
    BY <1>1 DEF RowAfter, Row
  <1>2. CASE r.op = "status" /\ r.wanted \in Statuses
    <2> DEFINE started == row.started \/ (r.wanted \in {"in_progress", "done"} /\ ~r.seen.started)
               completed == CASE r.wanted = "done" -> TRUE
                              [] r.wanted \in {"todo", "in_progress"} /\ r.seen.status = "done" -> FALSE
                              [] OTHER -> row.completed
    <2>1. started \in BOOLEAN /\ completed \in BOOLEAN
      BY DEF Row
    <2>2. StatusUpdate(r) = [row EXCEPT !.status = r.wanted, !.started = started,
                                        !.completed = completed]
      BY DEF StatusUpdate
    <2>3. StatusUpdate(r) \in Row
      <3> HIDE DEF started, completed
      <3> QED BY <1>2, <2>1, <2>2 DEF Row
    <2> QED BY <1>2, <2>3 DEF RowAfter
  <1>3. CASE r.op = "assignee" /\ r.wanted \in Assignees
    BY <1>3 DEF RowAfter, Row
  <1>4. CASE r.op = "remove"
    BY <1>4 DEF RowAfter, Row
  <1> QED BY <1>1, <1>2, <1>3, <1>4 DEF OpFits

LEMMA TypedCommit ==
    ASSUME Typed, NEW q \in Requests, Commit(q)
    PROVE  Typed'
  <1>1. row' \in Row
    BY RowAfterType DEF Commit, Typed, ReqOK
  <1>2. ReqOK'
    <2>1. CASE Finish(q)
      BY <2>1, FinishStep DEF Typed
    <2>2. CASE Set(q, req[q], AfterCommit(req[q]))
      <3> DEFINE r == [req[q] EXCEPT !.pc = AfterCommit(req[q])]
      <3>1. r \in Request /\ OpFits(r)
        BY DEF Commit, AfterCommit, Typed, ReqOK, Request, OpFits
      <3> QED BY <2>2, <3>1, SetStep DEF Typed
    <2> QED BY <2>1, <2>2 DEF Commit
  <1>3. CountsOK'
    <2>1. faults' \in 0 .. MaxFaults
      BY FaultType DEF Commit, Typed, CountsOK
    <2> QED BY <2>1 DEF Commit, Typed, CountsOK
  <1>4. CacheOK' /\ PagesOK' /\ QueueOK' /\ WorkerOK'
    BY DEF Commit, Typed, CacheOK, PagesOK, QueueOK, WorkerOK, invalidation
  <1> QED BY <1>1, <1>2, <1>3, <1>4 DEF Typed

LEMMA TypedSilentWrites ==
    ASSUME Typed, CreateTask \/ ClearTaskAssignee
    PROVE  Typed'
  <1>1. row' \in Row
    BY DEF CreateTask, ClearTaskAssignee, Typed, Row, Assignees
  <1>2. CacheOK' /\ PagesOK' /\ QueueOK' /\ WorkerOK' /\ CountsOK'
    BY DEF CreateTask, ClearTaskAssignee, Typed, CacheOK, PagesOK, QueueOK, WorkerOK,
           CountsOK, invalidation
  <1>3. ReqOK'
    BY DEF CreateTask, ClearTaskAssignee, Typed, ReqOK, OpFits
  <1> QED BY <1>1, <1>2, <1>3 DEF Typed

LEMMA TypedInvalidation ==
    ASSUME Typed, NEW q \in Requests,
           \/ DeleteTaskListItemCache(q) \/ DeleteTaskDetailInfoCache(q)
           \/ Bump(q) \/ DeleteAll(q)
    PROVE  Typed'
  <1>0. \E pc : Invalidating(q, pc)
    BY DEF DeleteTaskListItemCache, DeleteTaskDetailInfoCache, Bump, DeleteAll
  <1>1. row' \in Row /\ PagesOK' /\ WorkerOK'
    BY <1>0 DEF Invalidating, Typed, PagesOK, WorkerOK
  <1>2. CacheOK' /\ QueueOK' /\ faults' \in 0 .. MaxFaults
    <2>1. CASE \E keys \in SUBSET Objects : Del(keys)
      BY <2>1, DelType DEF Typed, CountsOK
    <2>2. CASE Bump(q)
      BY <2>2 DEF Bump, Typed, CacheOK, QueueOK, CountsOK
    <2> QED BY <2>1, <2>2 DEF DeleteTaskListItemCache, DeleteTaskDetailInfoCache, DeleteAll, Objects
  <1>3. CountsOK'
    <2>1. version' \in Nat
      BY DEF DeleteTaskListItemCache, DeleteTaskDetailInfoCache, Bump, DeleteAll, Typed, CountsOK
    <2> QED BY <1>0, <1>2, <2>1 DEF Invalidating, Typed, CountsOK
  <1>4. ReqOK'
    <2>1. CASE Finish(q)
      BY <2>1, FinishStep DEF Typed
    <2>2. CASE \E pc \in {"delDetail", "bump", "delAll"} : Set(q, req[q], pc)
      <3>1. PICK pc \in {"delDetail", "bump", "delAll"} : Set(q, req[q], pc)
        BY <2>2
      <3>2. [req[q] EXCEPT !.pc = pc] \in Request /\ OpFits([req[q] EXCEPT !.pc = pc])
        BY <3>1 DEF Typed, ReqOK, Request, OpFits
      <3> QED BY <3>1, <3>2, SetStep DEF Typed
    <2> QED BY <2>1, <2>2 DEF DeleteTaskListItemCache, DeleteTaskDetailInfoCache, Bump, DeleteAll
  <1> QED BY <1>1, <1>2, <1>3, <1>4 DEF Typed

(* The delete workers and the expiry of entries leave the requests alone. *)
LEMMA TypedRetrying ==
    ASSUME Typed, UNCHANGED retrying, CacheOK', QueueOK', WorkerOK', faults' \in 0 .. MaxFaults
    PROVE  Typed'
  <1>1. row' \in Row /\ PagesOK' /\ CountsOK'
    BY DEF retrying, Typed, PagesOK, CountsOK
  <1>2. ReqOK'
    BY DEF retrying, Typed, ReqOK, OpFits
  <1> QED BY <1>1, <1>2 DEF Typed

LEMMA TypedDeleteWorker ==
    ASSUME Typed, NEW w \in DeleteWorkers, Take(w) \/ RetryDelete(w)
    PROVE  Typed'
  <1>1. CASE Take(w)
    <2>1. /\ Head(queue) \in SUBSET Objects
          /\ Tail(queue) \in Seq(SUBSET Objects)
          /\ Len(Tail(queue)) <= ChanSize
      BY <1>1, TaskAssumption DEF Take, Typed, QueueOK
    <2>2. QueueOK'
      BY <1>1, <2>1 DEF Take, Typed, QueueOK
    <2>3. WorkerOK'
      BY <1>1, <2>1, TaskAssumption DEF Take, Typed, WorkerOK
    <2> QED BY <1>1, <2>2, <2>3, TypedRetrying DEF Take, Typed, CacheOK, CountsOK
  <1>2. CASE RetryDelete(w)
    <2>1. CacheOK'
      BY <1>2, WithoutType DEF RetryDelete, Typed
    <2>2. worker[w].keys \in SUBSET Objects /\ worker[w].tries \in 0 .. MaxRetryAttempts - 1
      BY DEF Typed, WorkerOK
    <2>3. QueueOK'
      BY <1>2, <2>2 DEF RetryDelete, Typed, QueueOK
    <2>4. WorkerOK'
      BY <1>2, <2>2, TaskAssumption DEF RetryDelete, Typed, WorkerOK
    <2>5. faults' \in 0 .. MaxFaults
      BY <1>2, FaultType DEF RetryDelete, Typed, CountsOK
    <2> QED BY <1>2, <2>1, <2>3, <2>4, <2>5, TypedRetrying DEF RetryDelete
  <1> QED BY <1>1, <1>2

LEMMA TypedExpiry ==
    ASSUME Typed, \/ \E o \in Objects : ExpireObject(o)
                  \/ \E k \in DOMAIN pages : ExpirePage(k)
    PROVE  Typed'
  <1>1. CASE \E o \in Objects : ExpireObject(o)
    <2>1. CacheOK' /\ UNCHANGED retrying /\ UNCHANGED invalidation /\ UNCHANGED faults
      BY <1>1, WithoutType DEF ExpireObject, Typed
    <2> QED BY <2>1, TypedRetrying DEF Typed, QueueOK, WorkerOK, CountsOK, invalidation
  <1>2. CASE \E k \in DOMAIN pages : ExpirePage(k)
    <2>1. PagesOK'
      BY <1>2 DEF ExpirePage, Typed, PagesOK
    <2>2. row' \in Row /\ CacheOK' /\ QueueOK' /\ WorkerOK' /\ CountsOK'
      BY <1>2 DEF ExpirePage, Typed, CacheOK, QueueOK, WorkerOK, CountsOK, invalidation
    <2>3. ReqOK'
      BY <1>2 DEF ExpirePage, Typed, ReqOK, OpFits
    <2> QED BY <2>1, <2>2, <2>3 DEF Typed
  <1> QED BY <1>1, <1>2

LEMMA TypedStep == Typed /\ [Next]_vars => Typed'
  <1> SUFFICES ASSUME Typed, [Next]_vars PROVE Typed'
    OBVIOUS
  <1>1. ASSUME NEW q \in Requests, Read(q) PROVE Typed'
    BY <1>1, TypedStarts, TypedGet, TypedSecondGet, TypedLoadDB, TypedFills, TypedItems DEF Read
  <1>2. ASSUME NEW q \in Requests, WriteTask(q) PROVE Typed'
    BY <1>2, TypedStarts, TypedDecides, TypedCommit, TypedInvalidation DEF WriteTask
  <1>3. CASE CreateTask \/ ClearTaskAssignee
    BY <1>3, TypedSilentWrites
  <1>4. CASE \E w \in DeleteWorkers : Take(w) \/ RetryDelete(w)
    BY <1>4, TypedDeleteWorker
  <1>5. CASE \/ \E o \in Objects : ExpireObject(o)
             \/ \E k \in DOMAIN pages : ExpirePage(k)
    BY <1>5, TypedExpiry
  <1>6. CASE UNCHANGED vars
    <2>1. row' \in Row /\ CacheOK' /\ PagesOK' /\ QueueOK' /\ WorkerOK' /\ CountsOK'
      BY <1>6 DEF vars, invalidation, Typed, CacheOK, PagesOK, QueueOK, WorkerOK, CountsOK
    <2>2. ReqOK'
      BY <1>6 DEF vars, Typed, ReqOK, OpFits
    <2> QED BY <2>1, <2>2 DEF Typed
  <1> QED BY <1>1, <1>2, <1>3, <1>4, <1>5, <1>6 DEF Next

(* Whatever requests, faults and expiries come together, every variable keeps *)
(* its type, and the retry queue its capacity.                                *)
THEOREM TypeCorrect == Spec => []TypeOK
  <1>1. Typed /\ [Next]_vars => Typed'
    BY TypedStep
  <1> QED BY TypedInit, <1>1, TypedIsTypeOK, PTL DEF Spec

-----------------------------------------------------------------------------
(* Pages of the current version are fresh *)

Pending == {"delItem", "delDetail", "bump"}

(* What is loaded under the current version is the row as it is. *)
LoadsFresh ==
    ~escaped /\ ~BumpPending =>
        \A q \in Requests :
            req[q].pc = "fill" /\ req[q].op = "list" /\ req[q].version = version
                => req[q].load = View(row)

VersionsPast ==
    /\ \A k \in DOMAIN pages : k.version <= version
    /\ \A q \in Requests : req[q].op = "list" => req[q].version <= version

LEMMA PagesInit == Init => PagesInv
  BY DEF Init, PagesInv, CurrentPageIsFresh, Idle

(* A page after the step was there before it, or is one to be stored now. *)
PagesKept ==
    \A k \in DOMAIN pages' :
        \/ k \in DOMAIN pages /\ pages'[k] = pages[k]
        \/ /\ k.version <= version
           /\ ~escaped /\ ~BumpPending /\ k.version = version =>
                \E query \in Queries : /\ CacheKeyParts(query) = k.query
                                       /\ pages'[k] = Matches(query, View(row))

LEMMA SamePages == UNCHANGED pages => PagesKept
  BY DEF PagesKept

(* A step that neither changes the row or the version, nor loads a list, nor  *)
(* completes a writer's bump.                                                *)
LEMMA QuietStep ==
    ASSUME PagesInv, UNCHANGED <<row, version, escaped>>,
           \A p \in Requests : /\ req'[p].op = "list" => req'[p].version <= version
                               /\ req'[p].pc = "fill" => req'[p] = req[p]
                               /\ req[p].pc \in Pending => req'[p].pc \in Pending,
           PagesKept
    PROVE  PagesInv'
  <1>1. BumpPending => BumpPending'
    BY DEF BumpPending, Pending
  <1>2. VersionsPast' /\ LoadsFresh'
    BY <1>1 DEF PagesInv, PagesKept, VersionsPast, LoadsFresh
  <1>3. CurrentPageIsFresh'
    BY <1>1 DEF PagesInv, PagesKept, CurrentPageIsFresh
  <1> QED BY <1>2, <1>3 DEF PagesInv, VersionsPast, LoadsFresh

(* One request goes on, neither to nor from a step that matters. *)
LEMMA QuietRequest ==
    ASSUME PagesInv, ReqOK, NEW q \in Requests, NEW r, req' = [req EXCEPT ![q] = r],
           r.op = "list" => r.version <= version, r.pc # "fill",
           req[q].pc \in Pending => r.pc \in Pending,
           UNCHANGED <<row, version, escaped>>, PagesKept
    PROVE  PagesInv'
  <1>1. ASSUME NEW p \in Requests
        PROVE  /\ req'[p].op = "list" => req'[p].version <= version
               /\ req'[p].pc = "fill" => req'[p] = req[p]
               /\ req[p].pc \in Pending => req'[p].pc \in Pending
    <2>1. CASE p = q
      BY <2>1 DEF ReqOK
    <2>2. CASE p # q
      BY <2>2 DEF ReqOK, PagesInv
    <2> QED BY <2>1, <2>2
  <1> QED BY <1>1, QuietStep

LEMMA QuietSet ==
    ASSUME PagesInv, ReqOK, NEW q \in Requests, NEW pc, Set(q, req[q], pc), pc # "fill",
           req[q].pc \in Pending => pc \in Pending,
           UNCHANGED <<row, version, escaped>>, PagesKept
    PROVE  PagesInv'
  <1> DEFINE r == [req[q] EXCEPT !.pc = pc]
  <1>1. r.pc = pc /\ (r.op = "list" => r.version <= version)
    BY DEF ReqOK, Request, PagesInv
  <1>2. req' = [req EXCEPT ![q] = r]
    BY DEF Set
  <1> HIDE DEF r
  <1> QED BY <1>1, <1>2, QuietRequest

LEMMA QuietFinish ==
    ASSUME PagesInv, ReqOK, NEW q \in Requests, Finish(q), req[q].pc \notin Pending,
           UNCHANGED <<row, version, escaped>>, PagesKept
    PROVE  PagesInv'
  <1>1. Idle.op # "list" /\ Idle.pc # "fill"
    BY DEF Idle
  <1> QED BY <1>1, QuietRequest DEF Finish

LEMMA QuietStart ==
    ASSUME PagesInv, ReqOK, NEW q \in Requests, NEW r, Start(q, r), r.pc # "fill",
           r.op = "list" => r.version <= version
    PROVE  PagesInv'
  <1>1. req[q].pc \notin Pending /\ PagesKept
    BY SamePages DEF Start, Pending
  <1> QED BY <1>1, QuietRequest DEF Start

(* A flight that lands loads and stores nothing. *)
LEMMA QuietLand ==
    ASSUME PagesInv, ReqOK, NEW q \in Requests, NEW r, Land(q, r),
           req[q].pc \notin Pending,
           r = Idle \/ r = [req[q] EXCEPT !.pc = "items"],
           UNCHANGED <<row, version, escaped>>, PagesKept
    PROVE  PagesInv'
  <1>1. ASSUME NEW p \in Requests
        PROVE  /\ req'[p].op = "list" => req'[p].version <= version
               /\ req'[p].pc = "fill" => req'[p] = req[p]
               /\ req[p].pc \in Pending => req'[p].pc \in Pending
    <2>0. /\ req[p] \in Request /\ req[q] \in Request
          /\ req[p].op = "list" => req[p].version <= version
          /\ req[q].op = "list" => req[q].version <= version
      BY DEF ReqOK, PagesInv
    <2>1. Idle.op # "list" /\ Idle.pc # "fill"
      BY DEF Idle
    <2>2. CASE p = q
      BY <2>0, <2>1, <2>2 DEF Land, Request
    <2>3. CASE p # q /\ p \in Followers(q)
      <3>1. req[p].pc = "joined"
        BY <2>3 DEF Followers
      <3> QED BY <2>0, <2>1, <2>3, <3>1 DEF Land, Request, Pending
    <2>4. CASE p # q /\ p \notin Followers(q)
      BY <2>0, <2>4 DEF Land
    <2> QED BY <2>2, <2>3, <2>4
  <1> QED BY <1>1, QuietStep

(* A reader stores what it loaded under the version its key was made with. *)
LEMMA FillPageKept ==
    ASSUME PagesInv, ReqOK, NEW q \in Requests, FillPage(q)
    PROVE  PagesKept
  <1> DEFINE r == req[q]
             k == Key(r)
  <1>1. r.op = "list" /\ r.pc = "fill" /\ r.query \in Queries /\ r.version <= version
    BY DEF FillPage, ReqOK, OpFits, PagesInv
  <1>2. k.version = r.version /\ k.query = CacheKeyParts(r.query)
    BY DEF Key
  <1>3. ~escaped /\ ~BumpPending /\ r.version = version => r.load = View(row)
    BY <1>1 DEF PagesInv
  <1>4. ASSUME NEW l \in DOMAIN pages', ~(l \in DOMAIN pages /\ pages'[l] = pages[l])
        PROVE  l = k /\ pages'[l] = Matches(r.query, r.load)
    BY <1>4 DEF FillPage, StorePage
  <1> QED BY <1>1, <1>2, <1>3, <1>4 DEF PagesKept

LEMMA PagesRead ==
    ASSUME PagesInv, Typed, NEW q \in Requests, Read(q)
    PROVE  PagesInv'
  <1> DEFINE r == req[q]
  <1>0. ReqOK /\ r \in Request /\ (r.op = "list" => r.version <= version) /\ version \in Nat
    BY DEF Typed, CountsOK, ReqOK, PagesInv
  <1>1. CASE StartGet(q)
    <2>1. PICK o \in {"permission", "detail"} :
            Start(q, [Idle EXCEPT !.pc = "get", !.op = o])
      BY <1>1 DEF StartGet
    <2> DEFINE s == [Idle EXCEPT !.pc = "get", !.op = o]
    <2>2. s.pc # "fill" /\ s.op # "list" /\ Start(q, s)
      BY <2>1 DEF Idle
    <2> HIDE DEF s
    <2> QED BY <1>0, <2>2, QuietStart
  <1>2. CASE StartList(q)
    <2>1. PICK query \in Queries :
            Start(q, [Idle EXCEPT !.pc = "get", !.op = "list", !.query = query,
                                  !.version = version])
      BY <1>2 DEF StartList
    <2> DEFINE s == [Idle EXCEPT !.pc = "get", !.op = "list", !.query = query,
                                 !.version = version]
    <2>2. s.pc # "fill" /\ s.version = version /\ Start(q, s)
      BY <2>1 DEF Idle
    <2> HIDE DEF s
    <2> QED BY <1>0, <2>2, QuietStart
  <1>3. CASE Get(q)
    <2>1. UNCHANGED <<row, version, escaped>> /\ PagesKept /\ r.pc \notin Pending
      BY <1>3, SamePages DEF Get, readOnly, Pending
    <2>2. CASE Set(q, r, "joined") \/ Set(q, r, "second")
      BY <1>0, <2>1, <2>2, QuietSet
    <2>3. CASE req' = [req EXCEPT ![q] = AfterHit(r)]
      <3>1. AfterHit(r).pc # "fill" /\ (AfterHit(r).op = "list" => AfterHit(r).version <= version)
        BY <1>0 DEF AfterHit, Idle, Request
      <3> QED BY <1>0, <2>1, <2>3, <3>1, QuietRequest
    <2> QED BY <1>3, <2>2, <2>3 DEF Get
  <1>4. CASE SecondGet(q)
    <2>1. UNCHANGED <<row, version, escaped>> /\ PagesKept /\ r.pc \notin Pending
      BY <1>4, SamePages DEF SecondGet, readOnly, Pending
    <2>2. CASE Set(q, r, "load")
      BY <1>0, <2>1, <2>2, QuietSet
    <2>3. CASE Land(q, AfterHit(r))
      <3>1. AfterHit(r) = Idle \/ AfterHit(r) = [r EXCEPT !.pc = "items"]
        BY DEF AfterHit
      <3> QED BY <1>0, <2>1, <2>3, <3>1, QuietLand
    <2> QED BY <1>4, <2>2, <2>3 DEF SecondGet
  <1>5. CASE LoadDB(q)
    <2>1. UNCHANGED <<row, version, escaped, pages>> /\ r.pc = "load"
      BY <1>5 DEF LoadDB, readOnly
    <2>2. CASE Land(q, Idle)
      BY <1>0, <2>1, <2>2, SamePages, QuietLand DEF Pending
    <2>3. CASE req' = [req EXCEPT ![q].load = View(row), ![q].pc = "fill"]
      <3>1. ASSUME NEW p \in Requests, p # q
            PROVE  req'[p] = req[p]
        BY <2>3, <3>1 DEF Typed, ReqOK
      <3>2. req'[q] = [r EXCEPT !.load = View(row), !.pc = "fill"]
        BY <2>3 DEF Typed, ReqOK
      <3>3. req'[q].op = r.op /\ req'[q].version = r.version /\ req'[q].load = View(row)
        BY <1>0, <3>2 DEF Request
      <3>4. BumpPending => BumpPending'
        BY <2>1, <3>1 DEF BumpPending
      <3>5. VersionsPast'
        BY <1>0, <2>1, <3>1, <3>3 DEF PagesInv, VersionsPast
      <3>6. LoadsFresh'
        BY <2>1, <3>1, <3>3, <3>4 DEF PagesInv, LoadsFresh
      <3>7. CurrentPageIsFresh'
        BY <2>1, <3>4 DEF PagesInv, CurrentPageIsFresh
      <3> QED BY <3>5, <3>6, <3>7 DEF PagesInv, VersionsPast, LoadsFresh
    <2> QED BY <1>5, <2>2, <2>3 DEF LoadDB
  <1>6. CASE FillObject(q) \/ FillItem(q)
    <2>1. UNCHANGED <<row, version, escaped>> /\ PagesKept /\ r.pc \notin Pending /\ Land(q, Idle)
      BY <1>6, SamePages DEF FillObject, FillItem, readOnly, Pending
    <2> QED BY <1>0, <2>1, QuietLand
  <1>7. CASE FillPage(q)
    <2>1. UNCHANGED <<row, version, escaped>> /\ PagesKept /\ r.pc \notin Pending
      BY <1>0, <1>7, FillPageKept DEF FillPage, readOnly, Pending
    <2>2. CASE Set(q, r, "fillItem")
      BY <1>0, <2>1, <2>2, QuietSet
    <2>3. CASE Land(q, Idle)
      BY <1>0, <2>1, <2>3, QuietLand
    <2> QED BY <1>7, <2>2, <2>3 DEF FillPage
  <1>8. CASE GetItems(q) \/ LoadItem(q) \/ StoreItem(q)
    <2>1. UNCHANGED <<row, version, escaped>> /\ PagesKept /\ r.pc \notin Pending
      BY <1>8, SamePages DEF GetItems, LoadItem, StoreItem, readOnly, Pending
    <2>2. CASE Finish(q)
      BY <1>0, <2>1, <2>2, QuietFinish
    <2>3. CASE Set(q, r, "loadItem")
      BY <1>0, <2>1, <2>3, QuietSet
    <2>4. CASE req' = [req EXCEPT ![q].load = View(row), ![q].pc = "storeItem"]
      <3> DEFINE s == [r EXCEPT !.load = View(row), !.pc = "storeItem"]
      <3>1. req' = [req EXCEPT ![q] = s] /\ s.op = r.op /\ s.version = r.version /\ s.pc = "storeItem"
        BY <1>0, <2>4 DEF Typed, ReqOK, Request
      <3> QED BY <1>0, <2>1, <3>1, QuietRequest
    <2> QED BY <1>8, <2>2, <2>3, <2>4 DEF GetItems, LoadItem, StoreItem
  <1> QED BY <1>1, <1>2, <1>3, <1>4, <1>5, <1>6, <1>7, <1>8 DEF Read

(* A commit is followed by its bump, or escapes. *)
LEMMA PagesCommit ==
    ASSUME PagesInv, Typed, NEW q \in Requests, Commit(q)
    PROVE  PagesInv'
  <1>1. VersionsPast'
    <2>1. ASSUME NEW p \in Requests
          PROVE  req'[p].op = "list" => req'[p].version <= version
      BY DEF Commit, Set, Finish, Idle, Typed, ReqOK, Request, PagesInv
    <2> QED BY <2>1 DEF Commit, PagesInv, VersionsPast
  <1>2. escaped' \/ BumpPending'
    <2>1. CASE Set(q, req[q], AfterCommit(req[q]))
      <3>1. req'[q].pc \in Pending
        BY <2>1 DEF Set, AfterCommit, Pending, Typed, ReqOK, Request
      <3> QED BY <3>1 DEF BumpPending, Pending
    <2> QED BY <2>1 DEF Commit
  <1> QED BY <1>1, <1>2 DEF PagesInv, VersionsPast, CurrentPageIsFresh

(* Nothing was made under the version a bump begins. *)
LEMMA PagesBump ==
    ASSUME PagesInv, Typed, NEW q \in Requests, Bump(q)
    PROVE  PagesInv'
  <1>1. version \in Nat /\ version' = version + 1 /\ UNCHANGED pages
    BY DEF Bump, Invalidating, Typed, CountsOK
  <1>2. ASSUME NEW p \in Requests
        PROVE  req'[p].op = "list" => req'[p].version \in Nat /\ req'[p].version <= version
    BY DEF Bump, Set, Finish, Idle, Typed, ReqOK, Request, PagesInv
  <1>3. \A k \in DOMAIN pages : k.version \in Nat /\ k.version <= version
    BY DEF PagesInv, Typed, PagesOK, PageKey
  <1>4. VersionsPast'
    BY <1>1, <1>2, <1>3 DEF VersionsPast
  <1>5. LoadsFresh'
    BY <1>1, <1>2 DEF LoadsFresh
  <1>6. CurrentPageIsFresh'
    BY <1>1, <1>3 DEF CurrentPageIsFresh
  <1> QED BY <1>4, <1>5, <1>6 DEF PagesInv, VersionsPast, LoadsFresh

LEMMA PagesWrite ==
    ASSUME PagesInv, Typed, NEW q \in Requests, WriteTask(q)
    PROVE  PagesInv'
  <1> DEFINE r == req[q]
  <1>0. ReqOK /\ req \in [Requests -> Request] /\ (r.op = "list" => r.version <= version)
    BY DEF Typed, ReqOK, PagesInv
  <1>1. CASE StartWrite(q)
    <2>1. PICK op, wanted :
            op # "list" /\ Start(q, [Idle EXCEPT !.pc = "read", !.op = op, !.wanted = wanted])
      BY <1>1 DEF StartWrite
    <2> DEFINE s == [Idle EXCEPT !.pc = "read", !.op = op, !.wanted = wanted]
    <2>2. s.pc # "fill" /\ s.op # "list" /\ Start(q, s)
      BY <2>1 DEF Idle
    <2> HIDE DEF s
    <2> QED BY <1>0, <2>2, QuietStart
  <1>2. CASE ReadTask(q) \/ Rollback(q)
    <2>1. UNCHANGED <<row, version, escaped>> /\ PagesKept /\ r.pc \notin Pending
      BY <1>2, SamePages DEF ReadTask, Rollback, readOnly, Pending
    <2>2. CASE Finish(q)
      BY <1>0, <2>1, <2>2, QuietFinish
    <2>3. CASE req' = [req EXCEPT ![q].seen = row, ![q].pc = "commit"]
      <3> DEFINE s == [r EXCEPT !.seen = row, !.pc = "commit"]
      <3>1. req' = [req EXCEPT ![q] = s] /\ s.op = r.op /\ s.version = r.version /\ s.pc = "commit"
        BY <1>0, <2>3 DEF Request
      <3> HIDE DEF s
      <3> QED BY <1>0, <2>1, <3>1, QuietRequest
    <2> QED BY <1>2, <2>2, <2>3 DEF ReadTask, Rollback
  <1>3. CASE DeleteTaskListItemCache(q) \/ DeleteTaskDetailInfoCache(q)
    <2>1. UNCHANGED <<row, version, escaped>> /\ PagesKept
      BY <1>3, SamePages DEF DeleteTaskListItemCache, DeleteTaskDetailInfoCache, Invalidating
    <2>2. PICK pc \in {"delDetail", "bump"} : Set(q, r, pc)
      BY <1>3 DEF DeleteTaskListItemCache, DeleteTaskDetailInfoCache
    <2>3. pc \in Pending /\ pc # "fill"
      BY DEF Pending
    <2> QED BY <1>0, <2>1, <2>2, <2>3, QuietSet
  <1>4. CASE DeleteAll(q)
    <2>1. UNCHANGED <<row, version, escaped>> /\ PagesKept /\ r.pc \notin Pending
      BY <1>4, SamePages DEF DeleteAll, Invalidating, Pending
    <2> QED BY <1>0, <1>4, <2>1, QuietFinish DEF DeleteAll
  <1> QED BY <1>1, <1>2, <1>3, <1>4, PagesCommit, PagesBump DEF WriteTask

(* Steps that leave the requests alone. *)
LEMMA PagesOthers ==
    ASSUME PagesInv,
           \/ CreateTask \/ ClearTaskAssignee
           \/ \E w \in DeleteWorkers : Take(w) \/ RetryDelete(w)
           \/ \E o \in Objects : ExpireObject(o)
           \/ \E k \in DOMAIN pages : ExpirePage(k)
           \/ UNCHANGED vars
    PROVE  PagesInv'
  <1>1. CASE CreateTask \/ ClearTaskAssignee
    <2>1. escaped' /\ UNCHANGED <<pages, version, req>>
      BY <1>1 DEF CreateTask, ClearTaskAssignee
    <2> QED BY <2>1 DEF PagesInv, CurrentPageIsFresh
  <1>2. CASE \/ \E w \in DeleteWorkers : Take(w) \/ RetryDelete(w)
             \/ \E o \in Objects : ExpireObject(o)
             \/ UNCHANGED vars
    <2>1. UNCHANGED <<row, version, escaped, req, pages>>
      BY <1>2 DEF Take, RetryDelete, ExpireObject, retrying, vars
    <2> QED BY <2>1, SamePages, QuietStep DEF PagesInv
  <1>3. CASE \E k \in DOMAIN pages : ExpirePage(k)
    <2>1. UNCHANGED <<row, version, escaped, req>> /\ PagesKept
      BY <1>3 DEF ExpirePage, PagesKept
    <2> QED BY <2>1, QuietStep DEF PagesInv
  <1> QED BY <1>1, <1>2, <1>3

(* A page found under the current version shows the row as it is unless a     *)
(* writer is between its commit and its bump, however requests overlap.       *)
THEOREM PagesAreFresh == Spec => []CurrentPageIsFresh
  <1> DEFINE Inv == Typed /\ PagesInv
  <1>1. Init => Inv
    BY TypedInit, PagesInit
  <1>2. Inv /\ [Next]_vars => Inv'
    <2> SUFFICES ASSUME Inv, [Next]_vars PROVE PagesInv'
      BY TypedStep
    <2> QED BY PagesRead, PagesWrite, PagesOthers DEF Next
  <1>3. Inv => CurrentPageIsFresh
    BY DEF PagesInv
  <1> QED BY <1>1, <1>2, <1>3, PTL DEF Spec

-----------------------------------------------------------------------------
(* A finished task has its times *)

TimesKept ==
    /\ UNCHANGED <<row.status, row.started, row.completed>>
    /\ \A p \in Requests : req'[p].pc = "commit" => req'[p] = req[p]

(* Only ReadTask takes a request to its commit, only Commit changes the times. *)
LEMMA OneKeepsTimes ==
    ASSUME ReqOK, UNCHANGED row, NEW q \in Requests, NEW r,
           req' = [req EXCEPT ![q] = r], r.pc # "commit"
    PROVE  TimesKept
  BY DEF TimesKept, ReqOK

LEMMA SetKeepsTimes ==
    ASSUME ReqOK, UNCHANGED row, NEW q \in Requests,
           Finish(q) \/ \E pc : pc # "commit" /\ Set(q, req[q], pc)
    PROVE  TimesKept
  BY DEF TimesKept, ReqOK, Request, Finish, Set, Idle

LEMMA LandKeepsTimes ==
    ASSUME ReqOK, UNCHANGED row, NEW q \in Requests, NEW r, Land(q, r),
           r = Idle \/ r = [req[q] EXCEPT !.pc = "items"]
    PROVE  TimesKept
  <1>1. r.pc # "commit"
    BY DEF ReqOK, Request, Idle
  <1>2. ASSUME NEW p \in Requests, req'[p].pc = "commit"
        PROVE  req'[p] = req[p]
    <2>1. p # q
      BY <1>1, <1>2 DEF Land
    <2>2. CASE p \in Followers(q)
      BY <1>1, <1>2, <2>1, <2>2 DEF Land, ReqOK, Request, Idle
    <2>3. CASE p \notin Followers(q)
      BY <2>1, <2>3 DEF Land
    <2> QED BY <2>2, <2>3
  <1> QED BY <1>2 DEF TimesKept

LEMMA ReadsKeepTimes ==
    ASSUME Typed, NEW q \in Requests, Read(q)
    PROVE  TimesKept
  <1> DEFINE r == req[q]
  <1>0. ReqOK /\ req \in [Requests -> Request] /\ UNCHANGED row
    BY DEF Typed, ReqOK, Read, StartGet, StartList, Start, Get, SecondGet, LoadDB, FillObject,
           FillPage, FillItem, GetItems, LoadItem, StoreItem, readOnly
  <1>1. CASE StartGet(q) \/ StartList(q)
    <2>1. PICK s : req' = [req EXCEPT ![q] = s] /\ s.pc = "get"
      <3>1. CASE StartGet(q)
        <4>1. PICK o \in {"permission", "detail"} :
                req' = [req EXCEPT ![q] = [Idle EXCEPT !.pc = "get", !.op = o]]
          BY <3>1 DEF StartGet, Start
        <4>2. [Idle EXCEPT !.pc = "get", !.op = o].pc = "get"
          BY DEF Idle
        <4> QED BY <4>1, <4>2
      <3>2. CASE StartList(q)
        <4>1. PICK query \in Queries :
                req' = [req EXCEPT ![q] = [Idle EXCEPT !.pc = "get", !.op = "list",
                                                       !.query = query, !.version = version]]
          BY <3>2 DEF StartList, Start
        <4>2. [Idle EXCEPT !.pc = "get", !.op = "list",
                           !.query = query, !.version = version].pc = "get"
          BY DEF Idle
        <4> QED BY <4>1, <4>2
      <3> QED BY <1>1, <3>1, <3>2
    <2> QED BY <1>0, <2>1, OneKeepsTimes
  <1>2. CASE Get(q)
    <2>1. CASE req' = [req EXCEPT ![q] = AfterHit(r)]
      <3>1. AfterHit(r).pc # "commit"
        BY <1>0 DEF AfterHit, Idle, Request
      <3> QED BY <1>0, <2>1, <3>1, OneKeepsTimes
    <2> QED BY <1>0, <1>2, <2>1, SetKeepsTimes DEF Get
  <1>3. CASE SecondGet(q)
    <2>1. AfterHit(r) = Idle \/ AfterHit(r) = [r EXCEPT !.pc = "items"]
      BY DEF AfterHit
    <2> QED BY <1>0, <1>3, <2>1, SetKeepsTimes, LandKeepsTimes DEF SecondGet
  <1>4. CASE req' = [req EXCEPT ![q].load = View(row), ![q].pc = "fill"]
             \/ req' = [req EXCEPT ![q].load = View(row), ![q].pc = "storeItem"]
    <2>1. PICK pc \in {"fill", "storeItem"} :
            req' = [req EXCEPT ![q].load = View(row), ![q].pc = pc]
      BY <1>4
    <2> DEFINE s == [r EXCEPT !.load = View(row), !.pc = pc]
    <2>2. req' = [req EXCEPT ![q] = s] /\ s.pc # "commit"
      BY <1>0, <2>1 DEF Request
    <2> HIDE DEF s
    <2> QED BY <1>0, <2>2, OneKeepsTimes
  <1>5. CASE Land(q, Idle) \/ Finish(q) \/ \E pc : pc # "commit" /\ Set(q, r, pc)
    BY <1>0, <1>5, LandKeepsTimes, SetKeepsTimes
  <1> QED BY <1>1, <1>2, <1>3, <1>4, <1>5 DEF Read, LoadDB, FillObject, FillPage, FillItem,
                                              GetItems, LoadItem, StoreItem

LEMMA OtherWritesKeepTimes ==
    ASSUME Typed, NEW q \in Requests, WriteTask(q), ~Commit(q), ~ReadTask(q)
    PROVE  TimesKept
  <1>0. ReqOK /\ UNCHANGED row
    BY DEF Typed, WriteTask, StartWrite, Start, Rollback, DeleteTaskListItemCache,
           DeleteTaskDetailInfoCache, Bump, DeleteAll, Invalidating, readOnly
  <1>1. CASE StartWrite(q)
    <2>1. PICK op, wanted :
            req' = [req EXCEPT ![q] = [Idle EXCEPT !.pc = "read", !.op = op, !.wanted = wanted]]
      BY <1>1 DEF StartWrite, Start
    <2>2. [Idle EXCEPT !.pc = "read", !.op = op, !.wanted = wanted].pc = "read"
      BY DEF Idle
    <2> QED BY <1>0, <2>1, <2>2, OneKeepsTimes
  <1>2. CASE Finish(q) \/ \E pc : pc # "commit" /\ Set(q, req[q], pc)
    BY <1>0, <1>2, SetKeepsTimes
  <1> QED BY <1>1, <1>2 DEF WriteTask, Rollback, DeleteTaskListItemCache,
                            DeleteTaskDetailInfoCache, Bump, DeleteAll

(* Whatever happens, the times of the row stay right. *)
LEMMA TimesStep ==
    ASSUME Typed, TimesInv, [Next]_vars
    PROVE  TimesInv'
  <1>1. CASE \E q \in Requests : Commit(q)
    <2>1. PICK q \in Requests : Commit(q)
      BY <1>1
    <2> DEFINE r == req[q]
    <2>2. r \in Request /\ OpFits(r) /\ r.pc = "commit" /\ row \in Row /\ row' = RowAfter(r)
      BY <2>1 DEF Typed, ReqOK, Commit
    <2>3. row.started => row'.started
      BY <2>2 DEF RowAfter, StatusUpdate, OpFits, Row
    <2>4. /\ row'.status = "done" => row'.completed
          /\ row'.status \in {"in_progress", "done"} => row'.started
      <3>1. CASE r.op = "status"
        <4>1. r.seen.started => row.started
          BY <2>2 DEF TimesInv
        <4>2. r.seen \in Row
          BY <2>2 DEF OpFits
        <4> QED BY <2>2, <3>1, <4>1, <4>2 DEF RowAfter, StatusUpdate, Row, OpFits
      <3>2. CASE r.op # "status"
        BY <2>2, <3>2 DEF RowAfter, Row, OpFits, TimesInv
      <3> QED BY <3>1, <3>2
    <2>5. ASSUME NEW p \in Requests, req'[p].pc = "commit"
          PROVE  req[p].pc = "commit" /\ req'[p].seen = req[p].seen
      BY <2>1, <2>5 DEF Commit, Set, Finish, AfterCommit, Idle, Typed, ReqOK, Request
    <2> QED BY <2>3, <2>4, <2>5 DEF TimesInv
  <1>2. CASE \E q \in Requests : ReadTask(q)
    <2>1. PICK q \in Requests : ReadTask(q)
      BY <1>2
    <2>2. UNCHANGED row
      BY <2>1 DEF ReadTask, readOnly
    <2>3. ASSUME NEW p \in Requests, req'[p].pc = "commit"
          PROVE  \/ req'[p].seen = row
                 \/ req[p].pc = "commit" /\ req'[p].seen = req[p].seen
      BY <2>1, <2>3 DEF ReadTask, Finish, Idle, Typed, ReqOK, Request
    <2> QED BY <2>2, <2>3 DEF TimesInv
  <1>3. CASE TimesKept
    BY <1>3 DEF TimesKept, TimesInv
  <1>4. CASE \/ CreateTask \/ ClearTaskAssignee
             \/ \E w \in DeleteWorkers : Take(w) \/ RetryDelete(w)
             \/ \E o \in Objects : ExpireObject(o)
             \/ \E k \in DOMAIN pages : ExpirePage(k)
             \/ UNCHANGED vars
    <2>1. UNCHANGED <<row.status, row.started, row.completed, req>>
      BY <1>4 DEF CreateTask, ClearTaskAssignee, Take, RetryDelete, ExpireObject, ExpirePage,
                  retrying, vars, Typed, Row
    <2> QED BY <1>3, <2>1 DEF TimesKept
  <1> QED BY <1>1, <1>2, <1>3, <1>4, ReadsKeepTimes, OtherWritesKeepTimes DEF Next

(* A task that is done has both its times, one in progress its start time,    *)
(* although they are decided on a row that others may change before the       *)
(* commit.                                                                    *)
THEOREM DoneTasksHaveTimes == Spec => []DoneHasTimes
  <1> DEFINE Inv == Typed /\ TimesInv
  <1>1. ASSUME Init PROVE Inv
    <2>1. row.status = "todo"
      BY <1>1 DEF Init
    <2>2. \A q \in Requests : req[q].pc = "idle"
      BY <1>1 DEF Init, Idle
    <2> QED BY <1>1, <2>1, <2>2, TypedInit DEF TimesInv
  <1>2. Inv /\ [Next]_vars => Inv'
    BY TypedStep, TimesStep
  <1>3. Inv => DoneHasTimes
    BY DEF TimesInv, DoneHasTimes
  <1> QED BY <1>1, <1>2, <1>3, PTL DEF Spec

-----------------------------------------------------------------------------
(* Deletions are given up late *)

(* Every deletion that waits or is tried again stands for a call that failed, every further try *)
(* of it for one more.                                                                          *)
LateInv ==
    /\ faults >= Len(queue)
    /\ \A w \in DeleteWorkers : worker[w].keys # {} => faults > worker[w].tries
    /\ DeletionsAreGivenUpLate

(* What the counts of TypeOK are. *)
LEMMA CountsAreNaturals ==
    ASSUME Typed
    PROVE  faults \in Nat /\ Len(queue) \in Nat /\ queue \in Seq(SUBSET Objects)
           /\ \A w \in DeleteWorkers : worker[w].tries \in Nat
  BY TaskAssumption DEF Typed, CountsOK, QueueOK, WorkerOK

(* Faults only become more. *)
LEMMA FaultsGrow ==
    ASSUME Typed, NoFault \/ Fault
    PROVE  faults' \in Nat /\ faults' >= faults /\ (Fault => faults' = faults + 1)
  BY CountsAreNaturals DEF NoFault, Fault

(* A step that deletes nothing keeps what they stand for. *)
LEMMA LateKept ==
    ASSUME Typed, LateInv, UNCHANGED invalidation, NoFault \/ Fault
    PROVE  LateInv'
  <1>1. faults' \in Nat /\ faults' >= faults /\ UNCHANGED <<queue, worker, logged>>
    BY FaultsGrow DEF invalidation
  <1>2. \A w \in DeleteWorkers : worker[w].keys # {} => faults' > worker[w].tries
    BY <1>1, CountsAreNaturals DEF LateInv
  <1>3. faults' >= Len(queue)
    BY <1>1, CountsAreNaturals DEF LateInv
  <1>4. DeletionsAreGivenUpLate'
    BY <1>1, CountsAreNaturals, TaskAssumption DEF LateInv, DeletionsAreGivenUpLate
  <1> QED BY <1>1, <1>2, <1>3, <1>4 DEF LateInv

(* A deletion that fails for the first time is queued, or given up because the queue is full *)
(* of others.                                                                                *)
LEMMA LateDel ==
    ASSUME Typed, LateInv, NEW keys \in SUBSET Objects, Del(keys), UNCHANGED worker
    PROVE  LateInv'
  <1>n. faults \in Nat /\ Len(queue) \in Nat /\ queue \in Seq(SUBSET Objects) /\ ChanSize \in Nat
        /\ MaxRetryAttempts \in Nat /\ \A w \in DeleteWorkers : worker[w].tries \in Nat
    BY CountsAreNaturals, TaskAssumption
  <1>1. CASE NoFault /\ UNCHANGED <<queue, logged>>
    BY <1>1, LateKept DEF invalidation
  <1>2. CASE Fault /\ Enqueue(keys)
    <2>1. faults' = faults + 1
      BY <1>2, FaultsGrow
    <2>2. Len(queue') <= Len(queue) + 1 /\ Len(queue') \in Nat
      BY <1>n, <1>2 DEF Enqueue
    <2>3. faults' >= Len(queue')
      BY <1>n, <2>1, <2>2 DEF LateInv
    <2>4. \A w \in DeleteWorkers : worker[w].keys # {} => faults' > worker[w].tries
      BY <1>n, <2>1 DEF LateInv
    <2>5. ASSUME NEW l \in logged'
          PROVE  /\ l.why = "exhausted" => faults' > MaxRetryAttempts
                 /\ l.why = "full" => faults' > ChanSize
      <3>1. CASE l \in logged
        BY <1>n, <2>1, <3>1 DEF LateInv, DeletionsAreGivenUpLate
      <3>2. CASE l \notin logged
        <4>1. l = [keys |-> keys, why |-> "full"] /\ ~(Len(queue) < ChanSize)
          BY <1>2, <2>5, <3>2 DEF Enqueue
        <4>2. l.why = "full" /\ faults >= ChanSize
          BY <1>n, <4>1 DEF LateInv
        <4> QED BY <1>n, <2>1, <4>2
      <3> QED BY <3>1, <3>2
    <2> QED BY <2>3, <2>4, <2>5 DEF LateInv, DeletionsAreGivenUpLate
  <1> QED BY <1>1, <1>2 DEF Del

(* What is tried again was queued, what is given up then has failed as often as it was tried. *)
LEMMA LateRetry ==
    ASSUME Typed, LateInv, NEW w \in DeleteWorkers, Take(w) \/ RetryDelete(w)
    PROVE  LateInv'
  <1>n. /\ faults \in Nat /\ Len(queue) \in Nat /\ queue \in Seq(SUBSET Objects) /\ ChanSize \in Nat
        /\ MaxRetryAttempts \in Nat /\ \A v \in DeleteWorkers : worker[v].tries \in Nat
        /\ worker \in [DeleteWorkers -> [keys : SUBSET Objects, tries : 0 .. MaxRetryAttempts - 1]]
    BY CountsAreNaturals, TaskAssumption DEF Typed, WorkerOK
  <1>1. CASE Take(w)
    <2>1. /\ UNCHANGED <<logged, faults>> /\ queue # << >> /\ queue' = Tail(queue)
          /\ worker' = [worker EXCEPT ![w] = [keys |-> Head(queue), tries |-> 0]]
      BY <1>1 DEF Take
    <2>2. Len(queue') = Len(queue) - 1 /\ Len(queue) >= 1
      BY <1>n, <2>1
    <2>3. faults' >= Len(queue') /\ faults' > 0
      BY <1>n, <2>1, <2>2 DEF LateInv
    <2>4. \A v \in DeleteWorkers : worker'[v].keys # {} => faults' > worker'[v].tries
      BY <1>n, <2>1, <2>3 DEF LateInv
    <2> QED BY <2>1, <2>3, <2>4 DEF LateInv, DeletionsAreGivenUpLate
  <1>2. CASE RetryDelete(w)
    <2>1. faults' \in Nat /\ faults' >= faults /\ UNCHANGED queue
      BY <1>2, FaultsGrow DEF RetryDelete
    <2>2. ASSUME NEW v \in DeleteWorkers, worker'[v].keys # {}
          PROVE  faults' > worker'[v].tries
      <3>1. CASE worker'[v] = worker[v]
        BY <1>n, <2>1, <2>2, <3>1 DEF LateInv
      <3>2. CASE worker'[v] # worker[v]
        <4>1. v = w /\ Fault /\ worker' = [worker EXCEPT ![w].tries = @ + 1] /\ worker[w].keys # {}
          BY <1>n, <1>2, <2>2, <3>2 DEF RetryDelete
        <4>2. worker'[v].tries = worker[w].tries + 1 /\ faults' = faults + 1 /\ faults > worker[w].tries
          BY <1>n, <4>1, FaultsGrow DEF LateInv
        <4> QED BY <1>n, <4>2
      <3> QED BY <3>1, <3>2
    <2>3. ASSUME NEW l \in logged'
          PROVE  /\ l.why = "exhausted" => faults' > MaxRetryAttempts
                 /\ l.why = "full" => faults' > ChanSize
      <3>1. CASE l \in logged
        BY <1>n, <2>1, <3>1 DEF LateInv, DeletionsAreGivenUpLate
      <3>2. CASE l \notin logged
        <4>1. /\ l = [keys |-> worker[w].keys, why |-> "exhausted"] /\ Fault
              /\ worker[w].tries + 1 = MaxRetryAttempts /\ worker[w].keys # {}
          BY <1>2, <2>3, <3>2 DEF RetryDelete
        <4>2. l.why = "exhausted" /\ faults' = faults + 1 /\ faults > worker[w].tries
          BY <4>1, FaultsGrow DEF LateInv
        <4> QED BY <1>n, <4>1, <4>2
      <3> QED BY <3>1, <3>2
    <2>4. faults' >= Len(queue')
      BY <1>n, <2>1 DEF LateInv
    <2> QED BY <2>2, <2>3, <2>4 DEF LateInv, DeletionsAreGivenUpLate
  <1> QED BY <1>1, <1>2

(* Every step keeps what faults stand for. *)
LEMMA LateStep ==
    ASSUME Typed, LateInv, [Next]_vars
    PROVE  LateInv'
  <1>1. ASSUME NEW q \in Requests, Read(q)
        PROVE  LateInv'
    <2>1. UNCHANGED invalidation /\ (NoFault \/ Fault)
      BY <1>1 DEF Read, StartGet, StartList, Start, Get, SecondGet, LoadDB, FillObject, FillPage,
                  FillItem, GetItems, LoadItem, StoreItem, readOnly, NoFault
    <2> QED BY <2>1, LateKept
  <1>2. ASSUME NEW q \in Requests, WriteTask(q)
        PROVE  LateInv'
    <2>1. CASE StartWrite(q) \/ ReadTask(q) \/ Commit(q) \/ Rollback(q) \/ Bump(q)
      <3>1. UNCHANGED invalidation /\ (NoFault \/ Fault)
        BY <2>1 DEF StartWrite, Start, ReadTask, Commit, Rollback, Bump, Invalidating, readOnly,
                    invalidation, NoFault
      <3> QED BY <3>1, LateKept
    <2>2. CASE DeleteTaskListItemCache(q) \/ DeleteTaskDetailInfoCache(q) \/ DeleteAll(q)
      <3>1. \E keys \in SUBSET Objects : Del(keys) /\ UNCHANGED worker
        BY <2>2 DEF DeleteTaskListItemCache, DeleteTaskDetailInfoCache, DeleteAll, Invalidating, Objects
      <3> QED BY <3>1, LateDel
    <2> QED BY <1>2, <2>1, <2>2 DEF WriteTask
  <1>3. CASE CreateTask \/ ClearTaskAssignee \/ (\E o \in Objects : ExpireObject(o))
             \/ (\E k \in DOMAIN pages : ExpirePage(k)) \/ UNCHANGED vars
    <2>1. UNCHANGED invalidation /\ NoFault
      BY <1>3 DEF CreateTask, ClearTaskAssignee, ExpireObject, ExpirePage, vars, NoFault
    <2> QED BY <2>1, LateKept
  <1>4. CASE \E w \in DeleteWorkers : Take(w) \/ RetryDelete(w)
    BY <1>4, LateRetry
  <1> QED BY <1>1, <1>2, <1>3, <1>4 DEF Next

(* A deletion is given up only after its first call and every retry failed, or when more    *)
(* deletions have failed than the queue holds, for any size of the queue, number of workers *)
(* and of retries.                                                                          *)
THEOREM DeletionsGivenUpLate == Spec => []DeletionsAreGivenUpLate
  <1> DEFINE Inv == Typed /\ LateInv
  <1>1. ASSUME Init PROVE Inv
    <2>1. faults = 0 /\ queue = << >> /\ logged = {} /\ \A w \in DeleteWorkers : worker[w].keys = {}
      BY <1>1 DEF Init
    <2>2. LateInv
      BY <2>1 DEF LateInv, DeletionsAreGivenUpLate
    <2> QED BY <1>1, <2>2, TypedInit
  <1>2. Inv /\ [Next]_vars => Inv'
    BY TypedStep, LateStep
  <1>3. Inv => DeletionsAreGivenUpLate
    BY DEF LateInv
  <1> QED BY <1>1, <1>2, <1>3, PTL DEF Spec

-----------------------------------------------------------------------------
(* Stale objects leave a trace *)

(* The deletion of an object waits, is being tried, or was given up with an entry in the log. *)
Waits(o) ==
    \/ \E i \in DOMAIN queue : o \in queue[i]
    \/ \E w \in DeleteWorkers : o \in worker[w].keys
    \/ \E l \in logged : o \in l.keys

Traced(o) == Waits(o) \/ \E q \in Requests : o \in StillToDelete(req[q])

(* At most one request is in flight, *)
Lone == \A p, q \in Requests : req[p].pc # "idle" /\ req[q].pc # "idle" => p = q

(* and what it has loaded to store shows the row as it is. *)
LoadsShow == \A q \in Requests : req[q].pc \in {"fill", "fillItem", "storeItem"} => req[q].load = View(row)

TraceInv ==
    ~overlapped /\ ~escaped => /\ Lone /\ LoadsShow
                               /\ \A o \in Objects : Stale(o) => Traced(o)

(* What is cached after the step was cached before it, or shows the row as it is. *)
CacheKept ==
    \A o \in DOMAIN cache' : \/ o \in DOMAIN cache /\ cache'[o] = cache[o]
                             \/ cache'[o] = View(row)

LEMMA StaleBefore ==
    ASSUME UNCHANGED row, CacheKept, NEW o \in Objects, Stale(o)'
    PROVE  Stale(o)
  <1>1. o \in DOMAIN cache' /\ View(row)' = View(row)
    BY DEF Stale, View
  <1>2. CASE o \in DOMAIN cache /\ cache'[o] = cache[o]
    BY <1>1, <1>2 DEF Stale
  <1>3. CASE cache'[o] = View(row)
    BY <1>1, <1>3 DEF Stale
  <1> QED BY <1>1, <1>2, <1>3 DEF CacheKept

LEMMA CacheSame == cache' = cache => CacheKept
  BY DEF CacheKept

LEMMA CacheWithout == \A keys : cache' \in {cache, Without(keys)} => CacheKept
  BY DEF CacheKept, Without

(* A load that is stored shows the row. *)
LEMMA CacheStored ==
    ASSUME NEW o, NEW view, StoreObject(o, view), view = View(row)
    PROVE  CacheKept
  BY DEF CacheKept, StoreObject

(* Waiting is not disturbed by what leaves the deletions alone. *)
LEMMA WaitsOn == UNCHANGED invalidation => \A o : Waits(o) => Waits(o)'
  BY DEF invalidation, Waits

(* A request in flight that goes on alone. *)
LEMMA LoneStep ==
    ASSUME ReqOK, Lone, NEW q \in Requests, NEW r, req' = [req EXCEPT ![q] = r],
           req[q].pc # "idle", r.pc \in {"fill", "fillItem", "storeItem"} => r.load = View(row)'
    PROVE  /\ Lone' /\ LoadsShow'
           /\ \A p \in Requests \ {q} : req[p].pc = "idle"
  <1>1. \A p \in Requests \ {q} : req[p].pc = "idle" /\ req'[p] = req[p]
    BY DEF Lone, ReqOK
  <1>2. req'[q] = r
    BY DEF ReqOK
  <1>3. Lone'
    BY <1>1 DEF Lone
  <1>4. LoadsShow'
    BY <1>1, <1>2 DEF LoadsShow
  <1> QED BY <1>1, <1>3, <1>4

(* Nobody has joined it. *)
LEMMA LandAlone ==
    ASSUME ReqOK, Lone, NEW q \in Requests, NEW r, Land(q, r), req[q].pc # "idle"
    PROVE  req' = [req EXCEPT ![q] = r]
  <1>1. \A p \in Requests : p # q => p \notin Followers(q)
    BY DEF Lone, Followers
  <1> QED BY <1>1 DEF Land, ReqOK

(* Where a request that reads gets to. *)
LEMMA ReadGoesTo ==
    ASSUME Typed, Lone, LoadsShow, NEW q \in Requests, Read(q), ~StartGet(q), ~StartList(q)
    PROVE  /\ UNCHANGED <<row, invalidation, overlapped, escaped>> /\ CacheKept
           /\ req[q].pc # "idle" /\ StillToDelete(req[q]) = {}
           /\ \E r : /\ req' = [req EXCEPT ![q] = r]
                     /\ r.pc \in {"fill", "fillItem", "storeItem"} => r.load = View(row)
  <1> DEFINE r == req[q]
             Goes == \E s : /\ req' = [req EXCEPT ![q] = s]
                            /\ s.pc \in {"fill", "fillItem", "storeItem"} => s.load = View(row)
  <1>r. ReqOK /\ r \in Request /\ req \in [Requests -> Request]
    BY DEF Typed, ReqOK
  <1>1. UNCHANGED <<row, invalidation, overlapped, escaped>>
    BY DEF Read, Get, SecondGet, LoadDB, FillObject, FillPage, FillItem, GetItems, LoadItem,
           StoreItem, readOnly
  <1>2. /\ r.pc \in {"get", "second", "load", "fill", "fillItem", "items", "loadItem", "storeItem"}
        /\ r.pc # "idle" /\ StillToDelete(r) = {}
    BY DEF Read, Get, SecondGet, LoadDB, FillObject, FillPage, FillItem, GetItems, LoadItem,
           StoreItem, StillToDelete
  <1>i. Idle.pc = "idle"
    BY DEF Idle
  <1>3. ASSUME NEW pc, Set(q, r, pc), pc \in {"fill", "fillItem", "storeItem"} => r.load = View(row)
        PROVE  Goes
    <2>1. [r EXCEPT !.pc = pc].pc = pc /\ [r EXCEPT !.pc = pc].load = r.load
      BY <1>r DEF Request
    <2> QED BY <1>3, <2>1 DEF Set
  <1>4. ASSUME Finish(q) PROVE Goes
    BY <1>4, <1>i DEF Finish
  <1>5. ASSUME Land(q, Idle) PROVE Goes
    BY <1>r, <1>2, <1>5, <1>i, LandAlone
  <1>6. AfterHit(r).pc \in {"items", "idle"}
    BY <1>r, <1>i DEF AfterHit, Request
  <1>7. ASSUME NEW pc \in {"fill", "storeItem"}, req' = [req EXCEPT ![q].load = View(row), ![q].pc = pc]
        PROVE  Goes
    <2> DEFINE s == [r EXCEPT !.load = View(row), !.pc = pc]
    <2>1. req' = [req EXCEPT ![q] = s] /\ s.load = View(row)
      BY <1>r, <1>7 DEF Request
    <2> QED BY <2>1
  <1>8. r.pc \in {"fill", "fillItem", "storeItem"} => r.load = View(row)
    BY DEF LoadsShow
  <1>9. Goes /\ CacheKept
    <2>1. CASE Get(q)
      BY <1>3, <1>6, <2>1, CacheSame DEF Get
    <2>2. CASE SecondGet(q)
      BY <1>r, <1>2, <1>3, <1>6, <2>2, LandAlone, CacheSame DEF SecondGet
    <2>3. CASE LoadDB(q)
      BY <1>5, <1>7, <2>3, CacheSame DEF LoadDB
    <2>4. CASE FillObject(q) \/ FillItem(q)
      BY <1>5, <1>8, <2>4, CacheStored DEF FillObject, FillItem
    <2>5. CASE FillPage(q)
      BY <1>3, <1>5, <1>8, <2>5, CacheSame DEF FillPage
    <2>6. CASE GetItems(q)
      BY <1>3, <1>4, <2>6, CacheSame DEF GetItems
    <2>7. CASE LoadItem(q)
      BY <1>4, <1>7, <2>7, CacheSame DEF LoadItem
    <2>8. CASE StoreItem(q)
      BY <1>4, <1>8, <2>8, CacheStored DEF StoreItem
    <2> QED BY <2>1, <2>2, <2>3, <2>4, <2>5, <2>6, <2>7, <2>8 DEF Read
  <1> QED BY <1>1, <1>2, <1>9

(* Nothing has been committed and no request overlapped before, if not after, a step. *)
LEMMA FlagsGrow ==
    ASSUME Typed, [Next]_vars, ~overlapped', ~escaped'
    PROVE  ~overlapped /\ ~escaped
  <1>0. overlapped \in BOOLEAN /\ escaped \in BOOLEAN
    BY DEF Typed, CountsOK
  <1>1. ASSUME NEW q \in Requests, Read(q)
        PROVE  ~overlapped /\ ~escaped
    BY <1>0, <1>1 DEF Read, StartGet, StartList, Start, Get, SecondGet, LoadDB, FillObject, FillPage,
                      FillItem, GetItems, LoadItem, StoreItem, readOnly
  <1>2. ASSUME NEW q \in Requests, WriteTask(q)
        PROVE  ~overlapped /\ ~escaped
    <2>1. CASE StartWrite(q) \/ ReadTask(q) \/ Rollback(q)
      BY <1>0, <2>1 DEF StartWrite, Start, ReadTask, Rollback, readOnly
    <2>2. CASE Commit(q)
      BY <1>0, <2>2 DEF Commit
    <2>3. CASE DeleteTaskListItemCache(q) \/ DeleteTaskDetailInfoCache(q) \/ Bump(q) \/ DeleteAll(q)
      BY <1>0, <2>3 DEF DeleteTaskListItemCache, DeleteTaskDetailInfoCache, Bump, DeleteAll, Invalidating
    <2> QED BY <1>2, <2>1, <2>2, <2>3 DEF WriteTask
  <1>3. CASE CreateTask \/ ClearTaskAssignee
    <2>1. escaped' = TRUE
      BY <1>3 DEF CreateTask, ClearTaskAssignee
    <2> QED BY <2>1
  <1>4. CASE (\E w \in DeleteWorkers : Take(w) \/ RetryDelete(w)) \/ (\E o \in Objects : ExpireObject(o))
             \/ (\E k \in DOMAIN pages : ExpirePage(k)) \/ UNCHANGED vars
    <2>1. UNCHANGED <<overlapped, escaped>>
      BY <1>4 DEF Take, RetryDelete, retrying, ExpireObject, ExpirePage, vars
    <2> QED BY <2>1
  <1> QED BY <1>1, <1>2, <1>3, <1>4 DEF Next

(* What DEL was asked to delete is gone, or waits. *)
LEMMA DelTraces ==
    ASSUME Typed, NEW keys, Del(keys), UNCHANGED worker
    PROVE  /\ CacheKept
           /\ \A o : Waits(o) => Waits(o)'
           /\ \A o \in keys : o \in DOMAIN cache' => Waits(o)'
  <1>1. CacheKept
    BY CacheWithout DEF Del
  <1>2. CASE cache' = Without(keys) /\ UNCHANGED <<queue, logged>>
    <2>1. \A o \in keys : o \notin DOMAIN cache'
      BY <1>2 DEF Without
    <2>2. \A o : Waits(o) => Waits(o)'
      BY <1>2, WaitsOn DEF invalidation
    <2> QED BY <1>1, <2>1, <2>2
  <1>3. CASE Enqueue(keys) /\ queue' = Append(queue, keys) /\ UNCHANGED logged
    <2>1. /\ queue \in Seq(SUBSET Objects) /\ Len(queue) \in Nat
          /\ DOMAIN queue = 1 .. Len(queue)
      BY DEF Typed, QueueOK
    <2>2. /\ DOMAIN queue' = 1 .. (Len(queue) + 1)
          /\ \A i \in DOMAIN queue : queue'[i] = queue[i]
          /\ queue'[Len(queue) + 1] = keys
      BY <1>3, <2>1
    <2>3. Len(queue) + 1 \in DOMAIN queue' /\ DOMAIN queue \subseteq DOMAIN queue'
      BY <2>1, <2>2
    <2>4. \A o \in keys : Waits(o)'
      BY <2>2, <2>3 DEF Waits
    <2>5. \A o : Waits(o) => Waits(o)'
      BY <1>3, <2>2, <2>3 DEF Waits
    <2> QED BY <1>1, <2>4, <2>5
  <1>4. CASE logged' = logged \cup {[keys |-> keys, why |-> "full"]} /\ UNCHANGED queue
    <2>1. \E l \in logged' : l.keys = keys
      <3>1. [keys |-> keys, why |-> "full"] \in logged' /\ [keys |-> keys, why |-> "full"].keys = keys
        BY <1>4
      <3> QED BY <3>1
    <2>2. \A o \in keys : Waits(o)'
      BY <2>1 DEF Waits
    <2>3. \A o : Waits(o) => Waits(o)'
      BY <1>4 DEF Waits
    <2> QED BY <1>1, <2>2, <2>3
  <1> QED BY <1>2, <1>3, <1>4 DEF Del, Enqueue

(* What waits goes on waiting until it is deleted or given up. *)
LEMMA RetryTraces ==
    ASSUME Typed, NEW w \in DeleteWorkers, Take(w) \/ RetryDelete(w), NEW o, Waits(o), o \in DOMAIN cache'
    PROVE  Waits(o)'
  <1>w. worker \in [DeleteWorkers -> [keys : SUBSET Objects, tries : 0 .. MaxRetryAttempts - 1]]
        /\ queue \in Seq(SUBSET Objects)
    BY DEF Typed, WorkerOK, QueueOK
  <1>1. CASE Take(w)
    <2>1. /\ worker[w].keys = {} /\ queue # << >> /\ queue' = Tail(queue) /\ UNCHANGED logged
          /\ worker' = [worker EXCEPT ![w] = [keys |-> Head(queue), tries |-> 0]]
      BY <1>1 DEF Take
    <2>2. CASE \E i \in DOMAIN queue : o \in queue[i]
      <3>1. PICK i \in DOMAIN queue : o \in queue[i]
        BY <2>2
      <3>2. CASE i = 1
        <4>1. o \in worker'[w].keys
          BY <1>w, <2>1, <3>1, <3>2
        <4> QED BY <4>1 DEF Waits
      <3>3. CASE i # 1
        <4>1. i - 1 \in DOMAIN queue' /\ queue'[i - 1] = queue[i]
          BY <1>w, <2>1, <3>3
        <4> QED BY <3>1, <4>1 DEF Waits
      <3> QED BY <3>2, <3>3
    <2>3. CASE \E v \in DeleteWorkers : o \in worker[v].keys
      <3>1. PICK v \in DeleteWorkers : o \in worker[v].keys
        BY <2>3
      <3>2. v # w
        BY <2>1, <3>1
      <3>3. worker'[v] = worker[v]
        BY <1>w, <2>1, <3>2
      <3> QED BY <3>1, <3>3 DEF Waits
    <2>4. CASE \E l \in logged : o \in l.keys
      BY <2>1, <2>4 DEF Waits
    <2> QED BY <2>2, <2>3, <2>4 DEF Waits
  <1>2. CASE RetryDelete(w)
    <2>1. UNCHANGED queue /\ logged \subseteq logged' /\ \A v \in DeleteWorkers \ {w} : worker'[v] = worker[v]
      BY <1>w, <1>2 DEF RetryDelete
    <2>2. CASE o \in worker[w].keys
      <3>1. cache' # Without(worker[w].keys)
        BY <2>2 DEF Without
      <3>2. CASE worker' = [worker EXCEPT ![w].tries = @ + 1]
        <4>1. worker'[w].keys = worker[w].keys
          BY <1>w, <3>2
        <4> QED BY <2>2, <4>1 DEF Waits
      <3>3. CASE logged' = logged \cup {[keys |-> worker[w].keys, why |-> "exhausted"]}
        <4> DEFINE entry == [keys |-> worker[w].keys, why |-> "exhausted"]
        <4>1. entry \in logged' /\ entry.keys = worker[w].keys
          BY <3>3
        <4> HIDE DEF entry
        <4> QED BY <2>2, <4>1 DEF Waits
      <3> QED BY <1>2, <3>1, <3>2, <3>3 DEF RetryDelete
    <2>3. CASE o \notin worker[w].keys
      <3>1. \/ \E i \in DOMAIN queue : o \in queue[i]
            \/ \E v \in DeleteWorkers \ {w} : o \in worker[v].keys
            \/ \E l \in logged : o \in l.keys
        BY <2>3 DEF Waits
      <3> QED BY <2>1, <3>1 DEF Waits
    <2> QED BY <2>2, <2>3
  <1> QED BY <1>1, <1>2

(* A commit, and what it leaves to delete. *)
LEMMA CommitTraces ==
    ASSUME Typed, Lone, NEW q \in Requests, Commit(q), ~escaped', NEW o \in Objects, Stale(o)'
    PROVE  Stale(o) \/ o \in StillToDelete(req'[q])
  <1> DEFINE r == req[q]
             n == req'[q]
  <1>1. /\ r \in Request /\ OpFits(r) /\ r.pc = "commit" /\ row \in Row /\ row.state = "live"
        /\ row' = RowAfter(r) /\ UNCHANGED cache /\ Set(q, r, AfterCommit(r)) /\ req \in [Requests -> Request]
    BY DEF Commit, Typed, ReqOK
  <1>2. n.pc = AfterCommit(r) /\ n.op = r.op
    <2>1. n = [r EXCEPT !.pc = AfterCommit(r)]
      BY <1>1 DEF Set
    <2> QED BY <1>1, <2>1 DEF Request
  <1>3. CASE r.op # "base"
    <2>1. n.pc = "bump" /\ n.op # "base"
      BY <1>2, <1>3 DEF AfterCommit
    <2> QED BY <2>1 DEF StillToDelete
  <1>4. CASE r.op = "base"
    <2>1. n.pc = "delItem"
      BY <1>2, <1>4 DEF AfterCommit
    <2>2. StillToDelete(n) = {"item", "detail"}
      BY <2>1 DEF StillToDelete
    <2>3. CASE o = "permission"
      <3>1. row' = [row EXCEPT !.title = r.wanted] /\ r.wanted \in Titles
        BY <1>1, <1>4 DEF RowAfter, OpFits
      <3>2. /\ row'.state = "live" /\ row'.status = row.status /\ row'.assignee = row.assignee
            /\ row'.title \in Titles
        BY <1>1, <3>1 DEF Row
      <3>3. /\ View(row)' = [title |-> row'.title, status |-> row.status, assignee |-> row.assignee]
            /\ View(row) = [title |-> row.title, status |-> row.status, assignee |-> row.assignee]
        BY <1>1, <3>2 DEF View
      <3>4. View(row) # Gone /\ View(row)' # Gone
        BY <1>1, <3>2, <3>3, TaskAssumption DEF Gone, Row
      <3> QED BY <1>1, <2>3, <3>3, <3>4 DEF Stale
    <2> QED BY <2>2, <2>3 DEF Objects
  <1> QED BY <1>3, <1>4

(* Without overlap and uninvalidated changes, every step leaves a trace of what is stale. *)
LEMMA TraceStep ==
    ASSUME Typed, TraceInv, [Next]_vars
    PROVE  TraceInv'
  <1> SUFFICES ASSUME ~overlapped', ~escaped'
               PROVE  Lone' /\ LoadsShow' /\ \A o \in Objects : Stale(o)' => Traced(o)'
    BY DEF TraceInv
  <1>r. ReqOK /\ req \in [Requests -> Request]
    BY DEF Typed, ReqOK
  <1>0. ~overlapped /\ ~escaped /\ Lone /\ LoadsShow /\ \A o \in Objects : Stale(o) => Traced(o)
    BY FlagsGrow DEF TraceInv
  <1>i. Idle.pc = "idle"
    BY DEF Idle
  <1>s. ASSUME UNCHANGED <<row, invalidation, req>>, CacheKept
        PROVE  Lone' /\ LoadsShow' /\ \A o \in Objects : Stale(o)' => Traced(o)'
    <2>1. Lone' /\ LoadsShow'
      BY <1>0, <1>s DEF Lone, LoadsShow
    <2>2. \A o \in Objects : Stale(o)' => Traced(o)
      BY <1>0, <1>s, StaleBefore
    <2> QED BY <1>s, <2>1, <2>2, WaitsOn DEF Traced
  (* A request that goes on: what it had still to delete, it still has, or it is traced. *)
  <1>g. ASSUME NEW q \in Requests, req[q].pc # "idle", NEW r, req' = [req EXCEPT ![q] = r],
               r.pc \in {"fill", "fillItem", "storeItem"} => r.load = View(row)',
               \A o \in Objects : Stale(o)' => Stale(o) \/ o \in StillToDelete(r),
               \A o \in Objects : Waits(o) => Waits(o)',
               \A o \in StillToDelete(req[q]) : o \in DOMAIN cache' => Waits(o)' \/ o \in StillToDelete(r)
        PROVE  Lone' /\ LoadsShow' /\ \A o \in Objects : Stale(o)' => Traced(o)'
    <2>1. Lone' /\ LoadsShow' /\ \A p \in Requests \ {q} : req[p].pc = "idle"
      BY <1>0, <1>r, <1>g, LoneStep
    <2>2. \A p \in Requests \ {q} : StillToDelete(req[p]) = {}
      BY <2>1 DEF StillToDelete
    <2>3. req'[q] = r
      BY <1>r, <1>g
    <2>4. ASSUME NEW o \in Objects, Stale(o)'
          PROVE  Traced(o)'
      <3>1. CASE o \in StillToDelete(r)
        BY <2>3, <3>1 DEF Traced
      <3>2. CASE Stale(o) /\ Waits(o)
        BY <1>g, <3>2 DEF Traced
      <3>3. CASE Stale(o) /\ o \in StillToDelete(req[q])
        <4>1. o \in DOMAIN cache'
          BY <2>4 DEF Stale
        <4>2. Waits(o)' \/ o \in StillToDelete(r)
          BY <1>g, <3>3, <4>1
        <4> QED BY <2>3, <4>2 DEF Traced
      <3>4. Stale(o) => Traced(o)
        BY <1>0
      <3> QED BY <1>g, <2>2, <2>4, <3>1, <3>2, <3>3, <3>4 DEF Traced
    <2> QED BY <2>1, <2>4
  <1>1. ASSUME NEW q \in Requests, StartGet(q) \/ StartList(q) \/ StartWrite(q)
        PROVE  Lone' /\ LoadsShow' /\ \A o \in Objects : Stale(o)' => Traced(o)'
    <2>1. PICK r : Start(q, r) /\ r.pc \in {"get", "read"}
      <3>1. CASE StartGet(q)
        <4>1. \A o : [Idle EXCEPT !.pc = "get", !.op = o].pc = "get"
          BY DEF Idle
        <4> QED BY <3>1, <4>1 DEF StartGet
      <3>2. CASE StartList(q)
        <4>1. \A query : [Idle EXCEPT !.pc = "get", !.op = "list", !.query = query,
                                      !.version = version].pc = "get"
          BY DEF Idle
        <4> QED BY <3>2, <4>1 DEF StartList
      <3>3. CASE StartWrite(q)
        <4>1. \A op, wanted : [Idle EXCEPT !.pc = "read", !.op = op, !.wanted = wanted].pc = "read"
          BY DEF Idle
        <4>2. PICK op, wanted : Start(q, [Idle EXCEPT !.pc = "read", !.op = op, !.wanted = wanted])
          BY <3>3 DEF StartWrite
        <4> QED BY <4>1, <4>2
      <3> QED BY <1>1, <3>1, <3>2, <3>3
    <2>2. /\ UNCHANGED <<row, cache, invalidation>> /\ req' = [req EXCEPT ![q] = r] /\ InFlight = {}
      BY <2>1 DEF Start
    <2>3. \A p \in Requests : req[p].pc = "idle" /\ (p # q => req'[p] = req[p])
      BY <1>r, <2>2 DEF InFlight
    <2>4. req'[q] = r
      BY <1>r, <2>2
    <2>5. Lone' /\ LoadsShow'
      BY <2>1, <2>3, <2>4 DEF Lone, LoadsShow
    <2>6. \A o \in Objects : Stale(o)' => Traced(o)
      BY <1>0, <2>2, StaleBefore, CacheSame
    <2>7. \A p \in Requests : StillToDelete(req[p]) = {}
      BY <2>3 DEF StillToDelete
    <2> QED BY <2>2, <2>5, <2>6, <2>7, WaitsOn DEF Traced
  <1>2. ASSUME NEW q \in Requests, Read(q), ~StartGet(q), ~StartList(q)
        PROVE  Lone' /\ LoadsShow' /\ \A o \in Objects : Stale(o)' => Traced(o)'
    <2>1. /\ UNCHANGED <<row, invalidation>> /\ CacheKept
          /\ req[q].pc # "idle" /\ StillToDelete(req[q]) = {}
      BY <1>0, <1>2, ReadGoesTo
    <2>2. PICK r : /\ req' = [req EXCEPT ![q] = r]
                   /\ r.pc \in {"fill", "fillItem", "storeItem"} => r.load = View(row)
      BY <1>0, <1>2, ReadGoesTo
    <2>3. View(row)' = View(row)
      BY <2>1 DEF View
    <2> QED BY <1>g, <2>1, <2>2, <2>3, StaleBefore, WaitsOn
  <1>3. ASSUME NEW q \in Requests, WriteTask(q), ~StartWrite(q)
        PROVE  Lone' /\ LoadsShow' /\ \A o \in Objects : Stale(o)' => Traced(o)'
    <2> DEFINE r == req[q]
    <2>r. r \in Request
      BY <1>r
    <2>0. ASSUME NEW pc \in {"commit", "delItem", "delDetail", "bump", "delAll"}, Set(q, r, pc)
          PROVE  \E n : req' = [req EXCEPT ![q] = n] /\ n.pc = pc /\ n.op = r.op
      <3>1. [r EXCEPT !.pc = pc].pc = pc /\ [r EXCEPT !.pc = pc].op = r.op
        BY <2>r DEF Request
      <3> QED BY <2>0, <3>1 DEF Set
    <2>1. CASE ReadTask(q) \/ Rollback(q)
      <3>1. /\ UNCHANGED <<row, invalidation, cache>> /\ r.pc # "idle" /\ StillToDelete(r) = {}
        BY <2>1 DEF ReadTask, Rollback, readOnly, StillToDelete
      <3>2. \E n : req' = [req EXCEPT ![q] = n] /\ n.pc \in {"idle", "commit"}
        <4>1. CASE Finish(q)
          BY <1>i, <4>1 DEF Finish
        <4>2. CASE req' = [req EXCEPT ![q].seen = row, ![q].pc = "commit"]
          <5>1. [r EXCEPT !.seen = row, !.pc = "commit"].pc = "commit"
            BY <2>r DEF Request
          <5>2. req' = [req EXCEPT ![q] = [r EXCEPT !.seen = row, !.pc = "commit"]]
            BY <1>r, <4>2
          <5> QED BY <5>1, <5>2
        <4> QED BY <2>1, <4>1, <4>2 DEF ReadTask, Rollback
      <3> QED BY <1>g, <3>1, <3>2, StaleBefore, CacheSame, WaitsOn
    <2>2. CASE Commit(q)
      <3>1. /\ UNCHANGED invalidation /\ Set(q, r, AfterCommit(r)) /\ r.pc = "commit"
            /\ AfterCommit(r) \in {"delItem", "bump"}
        BY <2>2 DEF Commit, AfterCommit
      <3>2. PICK n : req' = [req EXCEPT ![q] = n] /\ n.pc \in {"delItem", "bump"}
        BY <2>0, <3>1
      <3>3. req'[q] = n
        BY <1>r, <3>2
      <3>4. \A o \in Objects : Stale(o)' => Stale(o) \/ o \in StillToDelete(n)
        BY <1>0, <2>2, <3>3, CommitTraces
      <3>5. StillToDelete(r) = {}
        BY <3>1 DEF StillToDelete
      <3> QED BY <1>g, <3>1, <3>2, <3>4, <3>5, WaitsOn
    <2>3. CASE Bump(q)
      <3>1. /\ UNCHANGED <<row, invalidation, cache>> /\ r.pc = "bump"
        BY <2>3 DEF Bump, Invalidating, invalidation
      <3>2. CASE r.op = "base"
        <4>1. Finish(q) /\ StillToDelete(r) = {}
          BY <2>3, <3>1, <3>2 DEF Bump, StillToDelete
        <4> QED BY <1>g, <1>i, <3>1, <4>1, StaleBefore, CacheSame, WaitsOn DEF Finish
      <3>3. CASE r.op # "base"
        <4>1. PICK n : req' = [req EXCEPT ![q] = n] /\ n.pc = "delAll" /\ n.op = r.op
          BY <2>0, <2>3, <3>3 DEF Bump
        <4>2. StillToDelete(n) = Objects /\ StillToDelete(r) = Objects
          BY <3>1, <3>3, <4>1 DEF StillToDelete
        <4> QED BY <1>g, <3>1, <4>1, <4>2, StaleBefore, CacheSame, WaitsOn
      <3> QED BY <3>2, <3>3
    <2>4. ASSUME NEW keys, Del(keys), UNCHANGED <<row, worker>>, r.pc # "idle",
                 NEW n, req' = [req EXCEPT ![q] = n], n.pc \in {"idle", "delDetail", "bump"},
                 StillToDelete(r) \subseteq keys \cup StillToDelete(n)
          PROVE  Lone' /\ LoadsShow' /\ \A o \in Objects : Stale(o)' => Traced(o)'
      <3>1. CacheKept /\ (\A o : Waits(o) => Waits(o)') /\ \A o \in keys : o \in DOMAIN cache' => Waits(o)'
        BY <2>4, DelTraces
      <3> QED BY <1>g, <2>4, <3>1, StaleBefore
    <2>5. CASE DeleteTaskListItemCache(q)
      <3>1. Del({"item"}) /\ UNCHANGED <<row, worker>> /\ r.pc = "delItem" /\ Set(q, r, "delDetail")
        BY <2>5 DEF DeleteTaskListItemCache, Invalidating
      <3>2. PICK n : req' = [req EXCEPT ![q] = n] /\ n.pc = "delDetail"
        BY <2>0, <3>1
      <3>3. StillToDelete(r) = {"item", "detail"} /\ StillToDelete(n) = {"detail"}
        BY <3>1, <3>2 DEF StillToDelete
      <3> QED BY <2>4, <3>1, <3>2, <3>3
    <2>6. CASE DeleteTaskDetailInfoCache(q)
      <3>1. Del({"detail"}) /\ UNCHANGED <<row, worker>> /\ r.pc = "delDetail" /\ Set(q, r, "bump")
        BY <2>6 DEF DeleteTaskDetailInfoCache, Invalidating
      <3>2. PICK n : req' = [req EXCEPT ![q] = n] /\ n.pc = "bump"
        BY <2>0, <3>1
      <3>3. StillToDelete(r) = {"detail"}
        BY <3>1 DEF StillToDelete
      <3> QED BY <2>4, <3>1, <3>2, <3>3
    <2>7. CASE DeleteAll(q)
      <3>1. Del(Objects) /\ UNCHANGED <<row, worker>> /\ r.pc = "delAll" /\ req' = [req EXCEPT ![q] = Idle]
        BY <2>7 DEF DeleteAll, Invalidating, Finish
      <3>2. StillToDelete(r) \subseteq Objects
        BY <3>1 DEF StillToDelete
      <3> QED BY <1>i, <2>4, <3>1, <3>2
    <2> QED BY <1>3, <2>1, <2>2, <2>3, <2>5, <2>6, <2>7 DEF WriteTask
  <1>4. ASSUME NEW w \in DeleteWorkers, Take(w) \/ RetryDelete(w)
        PROVE  Lone' /\ LoadsShow' /\ \A o \in Objects : Stale(o)' => Traced(o)'
    <2>1. UNCHANGED <<row, req>> /\ CacheKept
      BY <1>4, CacheSame, CacheWithout DEF Take, RetryDelete, retrying
    <2>2. Lone' /\ LoadsShow'
      BY <1>0, <2>1 DEF Lone, LoadsShow
    <2>3. ASSUME NEW o \in Objects, Stale(o)'
          PROVE  Traced(o)'
      <3>1. Traced(o) /\ o \in DOMAIN cache'
        BY <1>0, <2>1, <2>3, StaleBefore DEF Stale
      <3>2. Waits(o) => Waits(o)'
        BY <1>4, <3>1, RetryTraces
      <3> QED BY <2>1, <3>1, <3>2 DEF Traced
    <2> QED BY <2>2, <2>3
  <1>5. CASE CreateTask \/ ClearTaskAssignee
    <2>1. escaped' = TRUE
      BY <1>5 DEF CreateTask, ClearTaskAssignee
    <2> QED BY <2>1
  <1>6. CASE (\E o \in Objects : ExpireObject(o)) \/ (\E k \in DOMAIN pages : ExpirePage(k)) \/ UNCHANGED vars
    <2>1. UNCHANGED <<row, invalidation, req>>
      BY <1>6 DEF ExpireObject, ExpirePage, retrying, vars
    <2>2. CASE UNCHANGED cache
      BY <1>s, <2>1, <2>2, CacheSame
    <2>3. ASSUME NEW o \in Objects, ExpireObject(o)
          PROVE  CacheKept
      <3>1. cache' \in {cache, Without({o})}
        BY <2>3 DEF ExpireObject
      <3> QED BY <3>1, CacheWithout
    <2>4. (\E k \in DOMAIN pages : ExpirePage(k)) \/ UNCHANGED vars => UNCHANGED cache
      BY DEF ExpirePage, vars
    <2> QED BY <1>6, <1>s, <2>1, <2>2, <2>3, <2>4
  <1>7. Next => \/ \E q \in Requests : StartGet(q) \/ StartList(q) \/ StartWrite(q)
                \/ \E q \in Requests : Read(q) /\ ~StartGet(q) /\ ~StartList(q)
                \/ \E q \in Requests : WriteTask(q) /\ ~StartWrite(q)
                \/ \E w \in DeleteWorkers : Take(w) \/ RetryDelete(w)
                \/ CreateTask \/ ClearTaskAssignee
                \/ (\E o \in Objects : ExpireObject(o)) \/ (\E k \in DOMAIN pages : ExpirePage(k))
    BY DEF Next
  <1> QED BY <1>1, <1>2, <1>3, <1>4, <1>5, <1>6, <1>7

(* As long as requests do not overlap and every change is invalidated, a stale object's      *)
(* deletion is still to come, waits, is tried again, or is in the error log, however many    *)
(* calls to Redis fail.                                                                      *)
THEOREM StaleObjectsAreTraceable == Spec => []StaleIsTraceable
  <1> DEFINE Inv == Typed /\ TraceInv
  <1>1. ASSUME Init PROVE Inv
    <2>1. cache = << >> /\ \A q \in Requests : req[q].pc = "idle"
      BY <1>1 DEF Init, Idle
    <2>2. \A o \in Objects : ~Stale(o)
      BY <2>1 DEF Stale
    <2>3. TraceInv
      BY <2>1, <2>2 DEF TraceInv, Lone, LoadsShow
    <2> QED BY <1>1, <2>3, TypedInit
  <1>2. Inv /\ [Next]_vars => Inv'
    BY TypedStep, TraceStep
  <1>3. Inv => StaleIsTraceable
    BY DEF TraceInv, StaleIsTraceable, Traced, Waits
  <1> QED BY <1>1, <1>2, <1>3, PTL DEF Spec
=============================================================================
