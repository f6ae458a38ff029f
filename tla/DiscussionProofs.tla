-------------------------- MODULE DiscussionProofs --------------------------
(***************************************************************************)
(* Theorems of Discussion for any number of requests, users and tasks, and *)
(* any number of failed statements, lost replies and failed cache calls.   *)
(***************************************************************************)
EXTENDS Discussion, FiniteSetTheorems, TLAPS

\* A request knows who asks about which task from its arrival to its answer,
\* and takes the steps of its operation only.
StepsInv ==
    \A r \in Requests : LET q == req[r] IN
        /\ q.pc = "new" <=> q.op = "none"
        /\ q.pc \notin {"new", "done"} =>
              q.actor \in Users /\ q.task \in Tasks /\ q.answer = "none"
        /\ q.pc \in {"access", "load", "fill", "lookup"} => q.op \in {"comment", "remove"}
        /\ q.pc \in {"read", "evict"} => q.op \in {"assign", "status"}
        /\ q.op = "remove" => q.ref \in Comments

\* Rows of a request are the work of its one transaction.
OneTransaction ==
    /\ \A a \in activities : req[a.by].pc \in {"evict", "done"}
    /\ \A n \in notifications : req[n.by].pc \in {"evict", "done"}
    /\ \A c \in Requests : Exists(c) => req[c].pc = "done"

\* The activities that tell of the removal of comment c.
Removals(c) ==
    {a \in activities : a.action = "deleted" /\ req[a.by].op = "remove" /\ req[a.by].ref = c}

\* A deleted comment has its one activity; who was told "ok" wrote one.
RemovalsInv ==
    /\ \A c \in Comments :
          IF Exists(c) /\ comments[c].deleted
          THEN \E a \in activities : Removals(c) = {a}
          ELSE Removals(c) = {}
    /\ \A r \in Requests : req[r].op = "remove" /\ req[r].answer = "ok" =>
          \E a \in activities : a.action = "deleted" /\ a.by = r

\* Row row, or request, answers comment c of its own task and knows its author.
AnswersComment(c, task, replyTo) ==
    IF c = None THEN replyTo = None
    ELSE Exists(c) /\ comments[c].task = task /\ comments[c].author = replyTo

\* A comment stays the answer it was when its request looked the other one up.
ThreadInv ==
    /\ \A r \in Requests : req[r].op = "comment" =>
          /\ req[r].pc \in {"access", "load", "fill", "lookup"} => req[r].reply = None
          /\ req[r].pc = "tx" => AnswersComment(req[r].ref, req[r].task, req[r].reply)
    /\ \A c \in Written :
          AnswersComment(comments[c].parent, comments[c].task, comments[c].replyTo)

\* Who a comment is for, by its row.
Audience(row) ==
    IF row.parent # None /\ row.replyTo # row.author THEN {row.replyTo}
    ELSE {row.seen} \ {None, row.author}

\* One notification for each of them, and none for anyone else.
AudienceInv ==
    \A c \in Written :
        \/ Heard(c) = {} /\ Audience(comments[c]) = {}
        \/ \E n \in notifications : Heard(c) = {n} /\ Audience(comments[c]) = {n.to}

\* As long as requests come one after the other and the cache is told of every
\* change, it knows the assignee, but for a change it is about to be told of.
FreshInv ==
    ~overlapped /\ ~escaped =>
        /\ \A r, s \in InFlight : r = s
        /\ \A t \in Tasks : cached[t] \in {Miss, assignee[t]} \/
              \E r \in Requests : req[r].pc = "evict" /\ req[r].op = "assign" /\ req[r].task = t
        /\ \A r \in Requests :
              req[r].op \in {"comment", "remove"} /\ req[r].pc \in {"fill", "lookup", "tx"} =>
                 req[r].seen = assignee[req[r].task]
        /\ \A c \in Written : comments[c].seen = comments[c].current

IndInv ==
    /\ TypeOK
    /\ StepsInv
    /\ OneTransaction
    /\ RemovalsInv
    /\ ThreadInv
    /\ AudienceInv
    /\ FreshInv
-----------------------------------------------------------------------------
(* Rows and requests *)

LEMMA Kinds ==
    /\ None \notin Users /\ None \notin Tasks /\ None \notin Comments
    /\ First \in Comments /\ First \notin Requests /\ Requests \subseteq Comments
    /\ Miss \notin Assignees
    /\ NewRequest \in Request
BY DiscussionAssumption DEF Comments, Assignees, NewRequest, Request, Answers

LEMMA Rows ==
    ASSUME TypeOK, NEW c \in Comments
    PROVE  /\ NoRow \notin Row
           /\ Exists(c) => comments[c] \in Row
           /\ Exists(c) => /\ comments[c].author \in Users /\ comments[c].task \in Tasks
                           /\ comments[c].parent \in Comments \cup {None}
                           /\ comments[c].deleted \in BOOLEAN
BY Kinds DEF TypeOK, NoRow, Row, Exists

LEMMA Fields ==
    ASSUME TypeOK, NEW r \in Requests
    PROVE  /\ req[r] \in Request
           /\ req[r].actor \in Assignees /\ req[r].task \in Tasks \cup {None}
           /\ req[r].ref \in Comments \cup {None} /\ req[r].whom \in Assignees
           /\ req[r].seen \in Assignees /\ req[r].reply \in Assignees
           /\ req[r].answer \in Answers
BY DEF TypeOK, Request

\* What every step of a request that has begun does to the requests.
Moves(r) ==
    /\ req' \in [Requests -> Request]
    /\ \A s \in Requests : s # r => req'[s] = req[s]
    /\ req'[r].op = req[r].op /\ req'[r].ref = req[r].ref
    /\ req'[r].pc # "done" => /\ req'[r].actor = req[r].actor /\ req'[r].task = req[r].task
                              /\ req'[r].answer = req[r].answer

LEMMA AnswerMakes ==
    ASSUME TypeOK, NEW r \in Requests, NEW a \in Answers, Answer(r, a)
    PROVE  Moves(r) /\ req'[r].pc = "done" /\ req'[r].answer = a
<1> DEFINE x == [NewRequest EXCEPT !.op = req[r].op, !.pc = "done",
                                   !.ref = req[r].ref, !.answer = a]
<1>1. x \in Request
  BY Kinds, Fields DEF NewRequest, Request
<1>2. x.op = req[r].op /\ x.pc = "done" /\ x.ref = req[r].ref /\ x.answer = a
  BY DEF NewRequest
<1>3. req' = [req EXCEPT ![r] = x]
  BY DEF Answer
<1> HIDE DEF x
<1> QED
  BY <1>1, <1>2, <1>3 DEF TypeOK, Moves

LEMMA GotoMakes ==
    ASSUME TypeOK, NEW r \in Requests,
           NEW l \in {"load", "fill", "lookup", "tx", "evict"}, Goto(r, l)
    PROVE  /\ Moves(r) /\ req'[r].pc = l
           /\ req'[r].seen = req[r].seen /\ req'[r].reply = req[r].reply
<1> DEFINE x == [req[r] EXCEPT !.pc = l]
<1>1. /\ x \in Request /\ x.pc = l /\ x.op = req[r].op /\ x.ref = req[r].ref
      /\ x.actor = req[r].actor /\ x.task = req[r].task /\ x.answer = req[r].answer
      /\ x.seen = req[r].seen /\ x.reply = req[r].reply
  BY Fields DEF Request
<1>2. req' = [req EXCEPT ![r] = x]
  BY Fields DEF Goto, Request, TypeOK
<1> HIDE DEF x
<1> QED
  BY <1>1, <1>2 DEF TypeOK, Moves

LEMMA SeeingMakes ==
    ASSUME TypeOK, NEW r \in Requests, NEW l \in {"fill", "lookup", "tx"},
           NEW a \in Assignees, GotoSeeing(r, l, a)
    PROVE  Moves(r) /\ req'[r].pc = l /\ req'[r].seen = a /\ req'[r].reply = req[r].reply
<1> DEFINE x == [req[r] EXCEPT !.pc = l, !.seen = a]
<1>1. /\ x \in Request /\ x.pc = l /\ x.op = req[r].op /\ x.ref = req[r].ref
      /\ x.actor = req[r].actor /\ x.task = req[r].task /\ x.answer = req[r].answer
      /\ x.seen = a /\ x.reply = req[r].reply
  BY Fields DEF Request
<1>2. req' = [req EXCEPT ![r] = x]
  BY Fields DEF GotoSeeing, Request, TypeOK
<1> HIDE DEF x
<1> QED
  BY <1>1, <1>2 DEF TypeOK, Moves

LEMMA ReplyMakes ==
    ASSUME TypeOK, NEW r \in Requests, NEW a \in Users,
           req' = [req EXCEPT ![r].pc = "tx", ![r].reply = a]
    PROVE  Moves(r) /\ req'[r].pc = "tx" /\ req'[r].reply = a /\ req'[r].seen = req[r].seen
<1> DEFINE x == [req[r] EXCEPT !.pc = "tx", !.reply = a]
<1>1. /\ x \in Request /\ x.pc = "tx" /\ x.op = req[r].op /\ x.ref = req[r].ref
      /\ x.actor = req[r].actor /\ x.task = req[r].task /\ x.answer = req[r].answer
      /\ x.seen = req[r].seen /\ x.reply = a
  BY Fields DEF Request, Assignees
<1>2. req' = [req EXCEPT ![r] = x]
  BY Fields DEF Request, TypeOK
<1> HIDE DEF x
<1> QED
  BY <1>1, <1>2 DEF TypeOK, Moves

\* What a request asks for, from its first step on.
Arrives(r) ==
    \/ CreateTaskComment(r) \/ RemoveTaskComment(r)
    \/ UpdateTaskAssignee(r) \/ UpdateTaskStatus(r)

LEMMA ArrivalMakes ==
    ASSUME TypeOK, NEW r \in Requests, Arrives(r)
    PROVE  /\ req[r].pc = "new"
           /\ req' \in [Requests -> Request]
           /\ \A s \in Requests : s # r => req'[s] = req[s]
           /\ req'[r].actor \in Users /\ req'[r].task \in Tasks
           /\ req'[r].reply = None /\ req'[r].answer = "none"
           /\ \/ req'[r].pc = "access" /\ req'[r].op \in {"comment", "remove"}
              \/ req'[r].pc = "read" /\ req'[r].op \in {"assign", "status"}
           /\ req'[r].op = "remove" => req'[r].ref \in Comments
           /\ UNCHANGED <<tables, cached, escaped, faults>>
           /\ overlapped' = (overlapped \/ InFlight # {})
<1>1. ASSUME NEW x \in Request, Begin(r, x),
             x.actor \in Users, x.task \in Tasks, x.reply = None, x.answer = "none",
             \/ x.pc = "access" /\ x.op \in {"comment", "remove"}
             \/ x.pc = "read" /\ x.op \in {"assign", "status"},
             x.op = "remove" => x.ref \in Comments
      PROVE  /\ req[r].pc = "new"
             /\ req' \in [Requests -> Request]
             /\ \A s \in Requests : s # r => req'[s] = req[s]
             /\ req'[r] = x
             /\ UNCHANGED <<tables, cached, escaped, faults>>
             /\ overlapped' = (overlapped \/ InFlight # {})
  BY <1>1 DEF Begin, TypeOK
<1>2. CASE CreateTaskComment(r)
  <2>1. PICK u \in Users, t \in Tasks, c \in (Comments \cup {None}) \ {r} :
          Begin(r, [NewRequest EXCEPT !.op = "comment", !.pc = "access", !.actor = u, !.task = t,
                                      !.ref = c])
    BY <1>2 DEF CreateTaskComment
  <2> DEFINE x == [NewRequest EXCEPT !.op = "comment", !.pc = "access", !.actor = u, !.task = t,
                                     !.ref = c]
  <2>2. /\ x \in Request /\ x.op = "comment" /\ x.pc = "access" /\ x.actor = u /\ x.task = t
        /\ x.ref = c /\ x.reply = None /\ x.answer = "none"
    BY DEF NewRequest, Request, Assignees, Answers
  <2>3. Begin(r, x)
    BY <2>1
  <2> HIDE DEF x
  <2> QED
    BY <1>1, <2>2, <2>3
<1>3. CASE RemoveTaskComment(r)
  <2>1. PICK u \in Users, t \in Tasks, c \in Comments \ {r} :
          Begin(r, [NewRequest EXCEPT !.op = "remove", !.pc = "access", !.actor = u, !.task = t,
                                      !.ref = c])
    BY <1>3 DEF RemoveTaskComment
  <2> DEFINE x == [NewRequest EXCEPT !.op = "remove", !.pc = "access", !.actor = u, !.task = t,
                                     !.ref = c]
  <2>2. /\ x \in Request /\ x.op = "remove" /\ x.pc = "access" /\ x.actor = u /\ x.task = t
        /\ x.ref = c /\ x.reply = None /\ x.answer = "none"
    BY DEF NewRequest, Request, Assignees, Answers
  <2>3. Begin(r, x)
    BY <2>1
  <2> HIDE DEF x
  <2> QED
    BY <1>1, <2>2, <2>3
<1>4. CASE UpdateTaskAssignee(r)
  <2>1. PICK u \in Users, t \in Tasks, a \in Assignees :
          Begin(r, [NewRequest EXCEPT !.op = "assign", !.pc = "read", !.actor = u, !.task = t,
                                      !.whom = a])
    BY <1>4 DEF UpdateTaskAssignee
  <2> DEFINE x == [NewRequest EXCEPT !.op = "assign", !.pc = "read", !.actor = u, !.task = t,
                                     !.whom = a]
  <2>2. /\ x \in Request /\ x.op = "assign" /\ x.pc = "read" /\ x.actor = u /\ x.task = t
        /\ x.reply = None /\ x.answer = "none"
    BY DEF NewRequest, Request, Assignees, Answers
  <2>3. Begin(r, x)
    BY <2>1
  <2> HIDE DEF x
  <2> QED
    BY <1>1, <2>2, <2>3
<1>5. CASE UpdateTaskStatus(r)
  <2>1. PICK u \in Users, t \in Tasks :
          Begin(r, [NewRequest EXCEPT !.op = "status", !.pc = "read", !.actor = u, !.task = t])
    BY <1>5 DEF UpdateTaskStatus
  <2> DEFINE x == [NewRequest EXCEPT !.op = "status", !.pc = "read", !.actor = u, !.task = t]
  <2>2. /\ x \in Request /\ x.op = "status" /\ x.pc = "read" /\ x.actor = u /\ x.task = t
        /\ x.reply = None /\ x.answer = "none"
    BY DEF NewRequest, Request, Assignees, Answers
  <2>3. Begin(r, x)
    BY <2>1
  <2> HIDE DEF x
  <2> QED
    BY <1>1, <2>2, <2>3
<1> QED
  BY <1>2, <1>3, <1>4, <1>5 DEF Arrives
-----------------------------------------------------------------------------
(* The steps of a request, one by one *)

LEMMA Working ==
    ASSUME TypeOK, StepsInv, NEW r \in Requests, req[r].pc \notin {"new", "done"}
    PROVE  /\ req[r].actor \in Users /\ req[r].task \in Tasks /\ req[r].answer = "none"
           /\ assignee[req[r].task] \in Assignees
           /\ cached[req[r].task] \in Assignees \cup {Miss}
BY DEF StepsInv, TypeOK

LEMMA FaultCounts ==
    ASSUME TypeOK, Fault
    PROVE  faults' \in 0 .. MaxFaults
BY DiscussionAssumption DEF TypeOK, Fault

LEMMA AccessStep ==
    ASSUME TypeOK, StepsInv, NEW r \in Requests, Access(r)
    PROVE  /\ req[r].pc = "access" /\ Moves(r) /\ req'[r].reply = req[r].reply
           /\ \/ req'[r].pc = "load"
              \/ /\ req'[r].pc = "lookup" /\ req'[r].seen = cached[req[r].task]
                 /\ cached[req[r].task] # Miss
           /\ UNCHANGED <<tables, cached, overlapped, escaped, faults>>
<1>1. UNCHANGED <<tables, cached, overlapped, escaped, faults>> /\ req[r].pc = "access"
  BY DEF Access
<1>2. CASE cached[req[r].task] = Miss
  <2>1. Goto(r, "load")
    BY <1>2 DEF Access
  <2> QED
    BY <1>1, <2>1, GotoMakes
<1>3. CASE cached[req[r].task] # Miss
  <2>1. GotoSeeing(r, "lookup", cached[req[r].task])
    BY <1>3 DEF Access
  <2>2. cached[req[r].task] \in Assignees
    BY <1>1, <1>3, Working
  <2> QED
    BY <1>1, <1>3, <2>1, <2>2, SeeingMakes
<1> QED
  BY <1>2, <1>3

LEMMA LoadStep ==
    ASSUME TypeOK, StepsInv, NEW r \in Requests, Load(r)
    PROVE  /\ req[r].pc = "load" /\ Moves(r) /\ req'[r].reply = req[r].reply
           /\ req'[r].pc = "fill" /\ req'[r].seen = assignee[req[r].task]
           /\ UNCHANGED <<tables, cached, overlapped, escaped, faults>>
<1>1. /\ req[r].pc = "load" /\ GotoSeeing(r, "fill", assignee[req[r].task])
      /\ UNCHANGED <<tables, cached, overlapped, escaped, faults>>
  BY DEF Load
<1>2. assignee[req[r].task] \in Assignees
  BY <1>1, Working
<1> QED
  BY <1>1, <1>2, SeeingMakes

LEMMA FillStep ==
    ASSUME TypeOK, StepsInv, NEW r \in Requests, Fill(r)
    PROVE  /\ req[r].pc = "fill" /\ Moves(r) /\ req'[r].reply = req[r].reply
           /\ req'[r].pc = "lookup" /\ req'[r].seen = req[r].seen
           /\ cached' = [cached EXCEPT ![req[r].task] = req[r].seen] \/ cached' = cached
           /\ UNCHANGED <<tables, overlapped, escaped>>
           /\ faults' \in 0 .. MaxFaults
<1>1. /\ req[r].pc = "fill" /\ Goto(r, "lookup")
      /\ UNCHANGED <<tables, overlapped, escaped>>
      /\ cached' = [cached EXCEPT ![req[r].task] = req[r].seen] \/ cached' = cached
  BY DEF Fill
<1>2. faults' \in 0 .. MaxFaults
  BY FaultCounts DEF Fill, TypeOK
<1> QED
  BY <1>1, <1>2, GotoMakes

LEMMA LookUpStep ==
    ASSUME TypeOK, StepsInv, NEW r \in Requests, LookUp(r)
    PROVE  /\ req[r].pc = "lookup" /\ Moves(r)
           /\ \/ req'[r].pc = "done" /\ req'[r].answer # "ok"
              \/ /\ req'[r].pc = "tx" /\ req'[r].seen = req[r].seen
                 /\ req[r].op = "comment" =>
                      IF req[r].ref = None THEN req'[r].reply = req[r].reply
                      ELSE AnswersComment(req[r].ref, req[r].task, req'[r].reply)
           /\ UNCHANGED <<tables, cached, overlapped, escaped, faults>>
<1>1. req[r].pc = "lookup" /\ UNCHANGED <<tables, cached, overlapped, escaped, faults>>
  BY DEF LookUp
<1>2. CASE Answer(r, "forbidden")
  <2>1. "forbidden" \in Answers
    BY DEF Answers
  <2> QED
    BY <1>1, <1>2, <2>1, AnswerMakes
<1>3. CASE Answer(r, Lookup(req[r])) /\ Lookup(req[r]) # "ok"
  <2>1. Lookup(req[r]) \in Answers
    BY DEF Lookup, Answers
  <2>2. req'[r].answer # "ok"
    BY <1>3, <2>1, AnswerMakes
  <2> QED
    BY <1>1, <1>3, <2>1, <2>2, AnswerMakes
<1>4. CASE Goto(r, "tx") /\ req[r].ref = None
  BY <1>1, <1>4, GotoMakes
<1>5. CASE /\ req' = [req EXCEPT ![r].pc = "tx", ![r].reply = comments[req[r].ref].author]
           /\ req[r].ref # None /\ Lookup(req[r]) = "ok"
  <2>1. req[r].ref \in Comments /\ Exists(req[r].ref) /\ comments[req[r].ref].task = req[r].task
    BY <1>5, Fields DEF Lookup, Visible
  <2>2. comments[req[r].ref].author \in Users
    BY <2>1, Rows
  <2>3. AnswersComment(req[r].ref, req[r].task, comments[req[r].ref].author)
    BY <2>1, <1>5 DEF AnswersComment
  <2> QED
    BY <1>1, <1>5, <2>2, <2>3, ReplyMakes
<1>6. CASE Goto(r, "tx") /\ req[r].op # "comment"
  BY <1>1, <1>6, GotoMakes
<1> QED
  BY <1>2, <1>3, <1>4, <1>5, <1>6 DEF LookUp

LEMMA ReadStep ==
    ASSUME TypeOK, StepsInv, NEW r \in Requests, ReadTask(r) \/ StatusAsIs(r)
    PROVE  /\ req[r].pc = "read" /\ Moves(r)
           /\ req'[r].pc \in {"done", "tx"}
           /\ UNCHANGED <<tables, cached, overlapped, escaped, faults>>
<1>1. req[r].pc = "read" /\ UNCHANGED <<tables, cached, overlapped, escaped, faults>>
  BY DEF ReadTask, StatusAsIs
<1>2. ASSUME NEW a \in {"forbidden", "invalid", "ok"}, Answer(r, a)
      PROVE  Moves(r) /\ req'[r].pc \in {"done", "tx"}
  <2>1. a \in Answers
    BY DEF Answers
  <2> QED
    BY <1>2, <2>1, AnswerMakes
<1>3. CASE GotoSeeing(r, "tx", assignee[req[r].task])
  <2>1. assignee[req[r].task] \in Assignees
    BY <1>1, Working
  <2> QED
    BY <1>1, <1>3, <2>1, SeeingMakes
<1> QED
  BY <1>1, <1>2, <1>3 DEF ReadTask, StatusAsIs

LEMMA RefusalStep ==
    ASSUME TypeOK, StepsInv, NEW r \in Requests, Refuse(r) \/ Rollback(r)
    PROVE  /\ req[r].pc = "tx" /\ Moves(r)
           /\ req'[r].pc = "done" /\ req'[r].answer # "ok"
           /\ UNCHANGED <<tables, cached, overlapped, escaped>>
           /\ faults' \in 0 .. MaxFaults
<1>1. "error" \in Answers /\ "failed" \in Answers
  BY DEF Answers
<1>2. CASE Refuse(r)
  BY <1>1, <1>2, AnswerMakes DEF Refuse, TypeOK
<1>3. CASE Rollback(r)
  BY <1>1, <1>3, AnswerMakes, FaultCounts DEF Rollback
<1> QED
  BY <1>2, <1>3

LEMMA CommittedMakes ==
    ASSUME TypeOK, StepsInv, NEW r \in Requests, NEW action, NEW l \in {"done", "evict"},
           Committed(r, action, l)
    PROVE  /\ Moves(r)
           /\ \/ req'[r].pc = l /\ escaped' = escaped
              \/ req'[r].pc = "done" /\ escaped' = (escaped \/ action = "assigned")
           /\ activities' = activities \cup
                {[by |-> r, operator |-> req[r].actor, action |-> action]}
           /\ notifications' = notifications \cup Told(r)
           /\ UNCHANGED <<members, cached, overlapped>>
           /\ faults' \in 0 .. MaxFaults
<1>1. /\ activities' = activities \cup
           {[by |-> r, operator |-> req[r].actor, action |-> action]}
      /\ notifications' = notifications \cup Told(r)
      /\ UNCHANGED <<members, cached, overlapped>>
  BY DEF Committed
<1>2. "ok" \in Answers /\ "failed" \in Answers
  BY DEF Answers
<1>3. CASE Goto(r, l) /\ l = "evict" /\ UNCHANGED <<escaped, faults>>
  BY <1>1, <1>3, GotoMakes DEF TypeOK
<1>4. CASE Answer(r, "ok") /\ l = "done" /\ UNCHANGED <<escaped, faults>>
  BY <1>1, <1>2, <1>4, AnswerMakes DEF TypeOK
<1>5. CASE Answer(r, "failed") /\ Fault /\ escaped' = (escaped \/ action = "assigned")
  BY <1>1, <1>2, <1>5, AnswerMakes, FaultCounts
<1> QED
  BY <1>3, <1>4, <1>5 DEF Committed

LEMMA EvictStep ==
    ASSUME TypeOK, StepsInv, NEW r \in Requests, Evict(r)
    PROVE  /\ req[r].pc = "evict" /\ Moves(r) /\ req'[r].pc = "done"
           /\ \/ cached' = [cached EXCEPT ![req[r].task] = Miss] /\ escaped' = escaped
              \/ cached' = cached /\ escaped' = (escaped \/ req[r].op = "assign")
           /\ UNCHANGED <<tables, overlapped>>
           /\ faults' \in 0 .. MaxFaults
<1>1. "ok" \in Answers
  BY DEF Answers
<1>2. /\ req[r].pc = "evict" /\ Answer(r, "ok") /\ UNCHANGED <<tables, overlapped>>
      /\ \/ cached' = [cached EXCEPT ![req[r].task] = Miss] /\ escaped' = escaped
         \/ cached' = cached /\ escaped' = (escaped \/ req[r].op = "assign")
  BY DEF Evict, Uncached
<1>3. faults' \in 0 .. MaxFaults
  BY FaultCounts DEF Evict, TypeOK
<1> QED
  BY <1>1, <1>2, <1>3, AnswerMakes

\* The steps before and after the transaction, and the one that finds nothing
\* to remove.
Waits(r) ==
    \/ Access(r) \/ Load(r) \/ Fill(r) \/ LookUp(r) \/ ReadTask(r) \/ StatusAsIs(r)
    \/ Refuse(r) \/ Rollback(r) \/ (CommitRemove(r) /\ ~SoftDelete(req[r].ref)) \/ Evict(r)

\* The transactions that change the tables.
Commits(r) ==
    \/ CommitComment(r) \/ (CommitRemove(r) /\ SoftDelete(req[r].ref))
    \/ CommitAssignment(r) \/ CommitStatus(r)

LEMMA NothingToRemove ==
    ASSUME TypeOK, StepsInv, NEW r \in Requests, CommitRemove(r), ~SoftDelete(req[r].ref)
    PROVE  /\ req[r].pc = "tx" /\ Moves(r)
           /\ req'[r].pc = "done" /\ req'[r].answer # "ok"
           /\ UNCHANGED <<tables, cached, overlapped, escaped, faults>>
<1>1. "not found" \in Answers
  BY DEF Answers
<1> QED
  BY <1>1, AnswerMakes DEF CommitRemove

LEMMA WaitsFrame ==
    ASSUME TypeOK, StepsInv, NEW r \in Requests, Waits(r)
    PROVE  /\ Moves(r) /\ UNCHANGED <<tables, overlapped>>
           /\ req[r].pc \notin {"new", "done"}
           /\ req'[r].pc \in {"load", "fill", "lookup", "tx", "done"}
           /\ req'[r].pc \in {"load", "fill", "lookup"} =>
                req[r].pc \in {"access", "load", "fill", "lookup"}
           /\ req'[r].pc = "done" /\ req'[r].answer = "ok" => req[r].pc \in {"read", "evict"}
<1>1. CASE Access(r)
  BY <1>1, AccessStep
<1>2. CASE Load(r)
  BY <1>2, LoadStep
<1>3. CASE Fill(r)
  BY <1>3, FillStep
<1>4. CASE LookUp(r)
  BY <1>4, LookUpStep
<1>5. CASE ReadTask(r) \/ StatusAsIs(r)
  BY <1>5, ReadStep
<1>6. CASE Refuse(r) \/ Rollback(r)
  BY <1>6, RefusalStep
<1>7. CASE CommitRemove(r) /\ ~SoftDelete(req[r].ref)
  BY <1>7, NothingToRemove
<1>8. CASE Evict(r)
  BY <1>8, EvictStep
<1> QED
  BY <1>1, <1>2, <1>3, <1>4, <1>5, <1>6, <1>7, <1>8 DEF Waits

LEMMA WaitsCache ==
    ASSUME TypeOK, StepsInv, NEW r \in Requests, Waits(r)
    PROVE  /\ cached' \in [Tasks -> Assignees \cup {Miss}]
           /\ escaped' \in BOOLEAN /\ (escaped => escaped')
           /\ faults' \in 0 .. MaxFaults
<1> USE DEF TypeOK
<1>1. CASE Access(r)
  BY <1>1, AccessStep
<1>2. CASE Load(r)
  BY <1>2, LoadStep
<1>3. CASE Fill(r)
  <2>1. req[r].seen \in Assignees
    BY Fields
  <2> QED
    BY <1>3, <2>1, FillStep
<1>4. CASE LookUp(r)
  BY <1>4, LookUpStep
<1>5. CASE ReadTask(r) \/ StatusAsIs(r)
  BY <1>5, ReadStep
<1>6. CASE Refuse(r) \/ Rollback(r)
  BY <1>6, RefusalStep
<1>7. CASE CommitRemove(r) /\ ~SoftDelete(req[r].ref)
  BY <1>7, NothingToRemove
<1>8. CASE Evict(r)
  BY <1>8, EvictStep
<1> QED
  BY <1>1, <1>2, <1>3, <1>4, <1>5, <1>6, <1>7, <1>8 DEF Waits

\* What a transaction does, whichever it is.
Action(r) == CASE req[r].op = "comment" -> "added"
               [] req[r].op = "remove" -> "deleted"
               [] req[r].op = "assign" -> "assigned"
               [] OTHER -> "status"

LEMMA CommitsFrame ==
    ASSUME TypeOK, StepsInv, NEW r \in Requests, Commits(r)
    PROVE  /\ req[r].pc = "tx" /\ Moves(r)
           /\ \/ /\ req'[r].pc = "done" /\ req[r].op \in {"comment", "remove"}
                 /\ escaped' = escaped
              \/ /\ req'[r].pc = "evict" /\ req[r].op \in {"assign", "status"}
                 /\ escaped' = escaped
              \/ req'[r].pc = "done" /\ escaped' = (escaped \/ req[r].op = "assign")
           /\ activities' = activities \cup
                {[by |-> r, operator |-> req[r].actor, action |-> Action(r)]}
           /\ notifications' = notifications \cup Told(r)
           /\ UNCHANGED <<members, cached, overlapped>>
           /\ faults' \in 0 .. MaxFaults
<1>1. CASE CommitComment(r)
  <2>1. req[r].pc = "tx" /\ Action(r) = "added" /\ Committed(r, "added", "done")
        /\ req[r].op = "comment"
    BY <1>1 DEF CommitComment, Action
  <2> QED
    BY <2>1, CommittedMakes
<1>2. CASE CommitRemove(r) /\ SoftDelete(req[r].ref)
  <2>1. req[r].pc = "tx" /\ Action(r) = "deleted" /\ Committed(r, "deleted", "done")
        /\ req[r].op = "remove"
    BY <1>2 DEF CommitRemove, Action
  <2> QED
    BY <2>1, CommittedMakes
<1>3. CASE CommitAssignment(r)
  <2>1. req[r].pc = "tx" /\ Action(r) = "assigned" /\ Committed(r, "assigned", "evict")
        /\ req[r].op = "assign"
    BY <1>3 DEF CommitAssignment, Action
  <2> QED
    BY <2>1, CommittedMakes
<1>4. CASE CommitStatus(r)
  <2>1. req[r].pc = "tx" /\ Action(r) = "status" /\ Committed(r, "status", "evict")
        /\ req[r].op = "status"
    BY <1>4 DEF CommitStatus, Action
  <2> QED
    BY <2>1, CommittedMakes
<1> QED
  BY <1>1, <1>2, <1>3, <1>4 DEF Commits

LEMMA ServeCases ==
    ASSUME NEW r \in Requests, Serve(r)
    PROVE  Arrives(r) \/ Waits(r) \/ Commits(r)
BY DEF Serve, Arrives, Waits, Commits

-----------------------------------------------------------------------------
(* The comments after a transaction *)

NewRow(r) == [task |-> req[r].task, author |-> req[r].actor, parent |-> req[r].ref,
              replyTo |-> req[r].reply, deleted |-> FALSE, seen |-> req[r].seen,
              current |-> assignee[req[r].task]]

LEMMA NewRowType ==
    ASSUME TypeOK, StepsInv, NEW r \in Requests, req[r].pc = "tx"
    PROVE  NewRow(r) \in Row
BY Fields, Working DEF NewRow, Row

\* A row, but for the mark of its removal.
SameRow(c) ==
    /\ Exists(c)' <=> Exists(c)
    /\ Exists(c) => /\ comments'[c].task = comments[c].task
                    /\ comments'[c].author = comments[c].author
                    /\ comments'[c].parent = comments[c].parent
                    /\ comments'[c].replyTo = comments[c].replyTo
                    /\ comments'[c].seen = comments[c].seen
                    /\ comments'[c].current = comments[c].current

LEMMA CommitsRows ==
    ASSUME TypeOK, StepsInv, NEW r \in Requests, Commits(r)
    PROVE  /\ comments' \in [Comments -> Row \cup {NoRow}]
           /\ \A c \in Comments : c # r \/ req[r].op # "comment" => SameRow(c)
           /\ \A c \in Comments : ~(req[r].op = "comment" /\ c = r)
                               /\ ~(req[r].op = "remove" /\ c = req[r].ref) =>
                comments'[c] = comments[c]
           /\ req[r].op = "comment" => comments'[r] = NewRow(r)
           /\ req[r].op = "remove" =>
                /\ req[r].ref \in Comments /\ Exists(req[r].ref) /\ ~comments[req[r].ref].deleted
                /\ comments'[req[r].ref].deleted
           /\ req[r].op # "assign" => assignee' = assignee
           /\ req[r].op = "assign" =>
                assignee' = [assignee EXCEPT ![req[r].task] = req[r].whom]
<1>0. r \in Comments
  BY Kinds
<1>1. CASE CommitComment(r)
  <2>1. /\ req[r].op = "comment" /\ req[r].pc = "tx" /\ assignee' = assignee
        /\ comments' = [comments EXCEPT ![r] = NewRow(r)]
    BY <1>1 DEF CommitComment, NewRow
  <2>2. NewRow(r) \in Row
    BY <2>1, NewRowType
  <2>3. \A c \in Comments : c # r => comments'[c] = comments[c]
    BY <2>1 DEF TypeOK
  <2>4. comments'[r] = NewRow(r) /\ comments' \in [Comments -> Row \cup {NoRow}]
    BY <1>0, <2>1, <2>2 DEF TypeOK
  <2> QED
    BY <2>1, <2>3, <2>4 DEF SameRow, Exists
<1>2. CASE CommitRemove(r) /\ SoftDelete(req[r].ref)
  <2> DEFINE c == req[r].ref
             x == [comments[c] EXCEPT !.deleted = TRUE]
  <2>1. /\ req[r].op = "remove" /\ assignee' = assignee
        /\ Exists(c) /\ ~comments[c].deleted
        /\ comments' = [comments EXCEPT ![c].deleted = TRUE]
    BY <1>2 DEF CommitRemove, SoftDelete, Visible
  <2>2. c \in Comments
    BY <2>1 DEF StepsInv
  <2>3. comments[c] \in Row /\ NoRow \notin Row
    BY <2>1, <2>2, Rows
  <2>4. /\ x \in Row /\ x.deleted /\ x.task = comments[c].task /\ x.author = comments[c].author
        /\ x.parent = comments[c].parent /\ x.replyTo = comments[c].replyTo
        /\ x.seen = comments[c].seen /\ x.current = comments[c].current
    BY <2>3 DEF Row
  <2>5. comments' = [comments EXCEPT ![c] = x]
    BY <2>1, <2>2 DEF TypeOK
  <2> HIDE DEF c, x
  <2>6. /\ comments' \in [Comments -> Row \cup {NoRow}] /\ comments'[c] = x
        /\ \A d \in Comments : d # c => comments'[d] = comments[d]
    BY <2>2, <2>4, <2>5 DEF TypeOK
  <2>7. \A d \in Comments : SameRow(d)
    BY <2>1, <2>3, <2>4, <2>6 DEF SameRow, Exists
  <2>8. comments'[c].deleted
    BY <2>4, <2>6
  <2> QED
    BY <2>1, <2>2, <2>6, <2>7, <2>8 DEF c
<1>3. CASE CommitAssignment(r)
  BY <1>3 DEF CommitAssignment, SameRow, Exists, TypeOK
<1>4. CASE CommitStatus(r)
  BY <1>4 DEF CommitStatus, SameRow, Exists, TypeOK
<1> QED
  BY <1>1, <1>2, <1>3, <1>4 DEF Commits
-----------------------------------------------------------------------------
(* The inductive invariant, part by part *)

LEMMA InitInv == Init => IndInv
<1> SUFFICES ASSUME Init PROVE IndInv
  OBVIOUS
<1>1. /\ NewRequest.pc = "new" /\ NewRequest.op = "none" /\ NewRequest.answer = "none"
      /\ \A r \in Requests : req[r] = NewRequest
  BY DEF Init, NewRequest
<1> DEFINE x == [task |-> FirstTask, author |-> FirstAuthor, parent |-> None,
                 replyTo |-> None, deleted |-> FALSE, seen |-> None, current |-> None]
<1>2. x \in Row /\ x.deleted = FALSE
  BY DiscussionAssumption DEF Row, Assignees
<1>3. /\ comments = [c \in Comments |-> IF c = First THEN x ELSE NoRow]
      /\ activities = {} /\ notifications = {}
  BY DEF Init
<1>4. TypeOK
  <2>1. comments \in [Comments -> Row \cup {NoRow}]
    <3> HIDE DEF x
    <3> QED
      BY <1>2, <1>3
  <2>2. assignee \in [Tasks -> Assignees]
    BY DEF Init, Assignees
  <2>3. cached \in [Tasks -> Assignees \cup {Miss}]
    BY <2>2 DEF Init
  <2>4. req \in [Requests -> Request]
    BY Kinds DEF Init
  <2>5. faults \in 0 .. MaxFaults
    BY DiscussionAssumption DEF Init
  <2> QED
    BY <2>1, <2>2, <2>3, <2>4, <2>5 DEF Init, TypeOK
<1>5. StepsInv
  BY <1>1 DEF StepsInv
<1>6. \A c \in Requests : ~Exists(c)
  BY <1>3, Kinds DEF Exists
<1>7. OneTransaction /\ ThreadInv /\ AudienceInv
  BY <1>1, <1>3, <1>6 DEF OneTransaction, ThreadInv, AudienceInv, Written
<1>8. RemovalsInv
  <2>1. \A c \in Comments : ~(Exists(c) /\ comments[c].deleted)
    <3> HIDE DEF x
    <3> QED
      BY <1>2, <1>3 DEF Exists
  <2>2. \A c \in Comments : Removals(c) = {}
    BY <1>3 DEF Removals
  <2> QED
    BY <1>1, <2>1, <2>2 DEF RemovalsInv
<1>9. FreshInv
  <2>1. InFlight = {}
    BY <1>1 DEF InFlight
  <2>2. \A t \in Tasks : cached[t] \in {Miss, assignee[t]}
    BY DEF Init
  <2> QED
    BY <1>1, <1>6, <2>1, <2>2 DEF FreshInv, Written
<1> QED
  BY <1>4, <1>5, <1>7, <1>8, <1>9 DEF IndInv

LEMMA ServeSteps ==
    ASSUME TypeOK, StepsInv, NEW r \in Requests, Serve(r)
    PROVE  StepsInv'
<1> SUFFICES ASSUME NEW s \in Requests
             PROVE  LET q == req'[s] IN
        /\ q.pc = "new" <=> q.op = "none"
        /\ q.pc \notin {"new", "done"} =>
              q.actor \in Users /\ q.task \in Tasks /\ q.answer = "none"
        /\ q.pc \in {"access", "load", "fill", "lookup"} => q.op \in {"comment", "remove"}
        /\ q.pc \in {"read", "evict"} => q.op \in {"assign", "status"}
        /\ q.op = "remove" => q.ref \in Comments
  BY DEF StepsInv
<1>1. CASE Arrives(r)
  <2>1. CASE s = r
    BY <1>1, <2>1, ArrivalMakes
  <2>2. CASE s # r
    BY <1>1, <2>2, ArrivalMakes DEF StepsInv
  <2> QED
    BY <2>1, <2>2
<1>2. CASE Waits(r)
  <2>1. CASE s = r
    BY <1>2, <2>1, WaitsFrame DEF StepsInv, Moves
  <2>2. CASE s # r
    BY <1>2, <2>2, WaitsFrame DEF StepsInv, Moves
  <2> QED
    BY <2>1, <2>2
<1>3. CASE Commits(r)
  <2>1. CASE s = r
    <3>1. Moves(r) /\ req[r].pc = "tx" /\ req'[r].pc \in {"done", "evict"}
          /\ (req'[r].pc = "evict" => req[r].op \in {"assign", "status"})
      BY <1>3, CommitsFrame
    <3> QED
      BY <2>1, <3>1 DEF StepsInv, Moves
  <2>2. CASE s # r
    BY <1>3, <2>2, CommitsFrame DEF StepsInv, Moves
  <2> QED
    BY <2>1, <2>2
<1> QED
  BY <1>1, <1>2, <1>3, ServeCases

\* Whom a transaction tells is a user, and it tells in its own name.
LEMMA ToldType ==
    ASSUME TypeOK, StepsInv, ThreadInv, NEW r \in Requests, req[r].pc = "tx"
    PROVE  Told(r) \subseteq Notification /\ \A n \in Told(r) : n.by = r
<1>1. req[r].actor \in Users
  BY Working
<1>2. ASSUME NEW u \in Users, NEW e \in Events
      PROVE  Notice(r, u, e) \subseteq Notification /\ \A n \in Notice(r, u, e) : n.by = r
  BY <1>1 DEF Notice, Notification
<1>3. CASE req[r].op = "comment"
  <2>1. Told(r) = ToldOfComment(r)
    BY <1>3 DEF Told
  <2>2. CASE IsReply(req[r])
    <3>1. req[r].ref \in Comments /\ Exists(req[r].ref)
          /\ comments[req[r].ref].author = req[r].reply
      BY <1>3, <2>2, Fields DEF IsReply, ThreadInv, AnswersComment
    <3>2. req[r].reply \in Users
      BY <3>1, Rows
    <3>3. Told(r) = Notice(r, req[r].reply, "comment_reply")
      BY <2>1, <2>2 DEF ToldOfComment
    <3> QED
      BY <1>2, <3>2, <3>3 DEF Events
  <2>3. CASE ~IsReply(req[r])
    <3>1. \/ Told(r) = {}
          \/ req[r].seen # None /\ Told(r) = Notice(r, req[r].seen, "comment_created")
      BY <2>1, <2>3 DEF ToldOfComment
    <3>2. req[r].seen # None => req[r].seen \in Users
      BY Fields DEF Assignees
    <3>3. "comment_created" \in Events
      BY DEF Events
    <3> QED
      BY <1>2, <3>1, <3>2, <3>3
  <2> QED
    BY <2>2, <2>3
<1>4. CASE req[r].op = "assign"
  <2>1. \/ Told(r) = {}
        \/ req[r].whom # None /\ Told(r) = Notice(r, req[r].whom, "task_assigned")
    BY <1>4 DEF Told, ToldOfAssignment
  <2>2. req[r].whom # None => req[r].whom \in Users
    BY Fields DEF Assignees
  <2>3. "task_assigned" \in Events
    BY DEF Events
  <2> QED
    BY <1>2, <2>1, <2>2, <2>3
<1>5. CASE req[r].op = "status"
  <2>1. \/ Told(r) = {}
        \/ req[r].seen # None /\ Told(r) = Notice(r, req[r].seen, "task_status_changed")
    BY <1>5 DEF Told, ToldOfStatus
  <2>2. req[r].seen # None => req[r].seen \in Users
    BY Fields DEF Assignees
  <2>3. "task_status_changed" \in Events
    BY DEF Events
  <2> QED
    BY <1>2, <2>1, <2>2, <2>3
<1>6. CASE req[r].op \notin {"comment", "assign", "status"}
  BY <1>6 DEF Told
<1> QED
  BY <1>3, <1>4, <1>5, <1>6

LEMMA ServeType ==
    ASSUME TypeOK, StepsInv, ThreadInv, NEW r \in Requests, Serve(r)
    PROVE  TypeOK'
<1>1. CASE Arrives(r)
  <2>1. /\ req' \in [Requests -> Request] /\ overlapped' \in BOOLEAN
        /\ UNCHANGED <<tables, cached, escaped, faults>>
    BY <1>1, ArrivalMakes DEF TypeOK
  <2> QED
    BY <2>1 DEF TypeOK, tables
<1>2. CASE Waits(r)
  <2>1. req' \in [Requests -> Request] /\ UNCHANGED <<tables, overlapped>>
    BY <1>2, WaitsFrame DEF Moves
  <2> QED
    BY <1>2, <2>1, WaitsCache DEF TypeOK, tables
<1>3. CASE Commits(r)
  <2>0. req[r].pc = "tx" /\ req' \in [Requests -> Request]
    BY <1>3, CommitsFrame DEF Moves
  <2>1. comments' \in [Comments -> Row \cup {NoRow}]
    BY <1>3, CommitsRows
  <2>2. assignee' \in [Tasks -> Assignees]
    <3>1. assignee' = assignee \/ assignee' = [assignee EXCEPT ![req[r].task] = req[r].whom]
      BY <1>3, CommitsRows
    <3> QED
      BY <3>1, Fields DEF TypeOK
  <2>3. notifications' \subseteq Notification
    BY <1>3, <2>0, ToldType, CommitsFrame DEF TypeOK
  <2>4. activities' \subseteq Activity
    <3>1. [by |-> r, operator |-> req[r].actor, action |-> Action(r)] \in Activity
      BY <2>0, Working DEF Action, Activity
    <3> QED
      BY <1>3, <3>1, CommitsFrame DEF TypeOK
  <2>5. escaped' \in BOOLEAN
    <3>1. escaped' = escaped \/ escaped' = (escaped \/ req[r].op = "assign")
      BY <1>3, CommitsFrame
    <3> QED
      BY <3>1 DEF TypeOK
  <2>6. UNCHANGED <<members, cached, overlapped>> /\ faults' \in 0 .. MaxFaults
    BY <1>3, CommitsFrame
  <2> QED
    BY <2>0, <2>1, <2>2, <2>3, <2>4, <2>5, <2>6 DEF TypeOK
<1> QED
  BY <1>1, <1>2, <1>3, ServeCases

\* Arriving and waiting change no table.
LEMMA QuietFrame ==
    ASSUME TypeOK, StepsInv, NEW r \in Requests, Arrives(r) \/ Waits(r)
    PROVE  /\ UNCHANGED tables /\ req[r].pc # "done"
           /\ \A s \in Requests : s # r => req'[s] = req[s]
           /\ req[r].pc = "evict" => req'[r].pc = "done"
           /\ req[r].pc # "new" => req'[r].op = req[r].op /\ req'[r].ref = req[r].ref
<1>1. CASE Arrives(r)
  BY <1>1, ArrivalMakes
<1>2. CASE Waits(r)
  <2>1. req[r].pc = "evict" => req'[r].pc = "done"
    <3> SUFFICES ASSUME req[r].pc = "evict" PROVE req'[r].pc = "done"
      OBVIOUS
    <3>1. Evict(r)
      BY <1>2 DEF Waits, Access, Load, Fill, LookUp, ReadTask, StatusAsIs, Refuse, Rollback,
                  CommitRemove
    <3> QED
      BY <3>1, EvictStep
  <2> QED
    BY <1>2, <2>1, WaitsFrame DEF Moves
<1> QED
  BY <1>1, <1>2

LEMMA ServeOnce ==
    ASSUME TypeOK, StepsInv, ThreadInv, OneTransaction, NEW r \in Requests, Serve(r)
    PROVE  OneTransaction'
<1>1. CASE Arrives(r) \/ Waits(r)
  <2>1. /\ activities' = activities /\ notifications' = notifications /\ comments' = comments
        /\ \A s \in Requests : s # r => req'[s] = req[s]
        /\ req[r].pc # "done" /\ (req[r].pc = "evict" => req'[r].pc = "done")
    BY <1>1, QuietFrame DEF tables
  <2>2. /\ \A a \in activities : a.by \in Requests
        /\ \A n \in notifications : n.by \in Requests
    BY DEF TypeOK, Activity, Notification
  <2>3. \A s \in Requests : req[s].pc \in {"evict", "done"} => req'[s].pc \in {"evict", "done"}
    BY <2>1
  <2>4. \A s \in Requests : req[s].pc = "done" => req'[s].pc = "done"
    BY <2>1
  <2> QED
    BY <2>1, <2>2, <2>3, <2>4 DEF OneTransaction, Exists
<1>2. CASE Commits(r)
  <2>1. /\ req[r].pc = "tx" /\ req'[r].pc \in {"evict", "done"}
        /\ (req[r].op = "comment" => req'[r].pc = "done")
    BY <1>2, CommitsFrame
  <2>2. \A s \in Requests : s # r => req'[s] = req[s]
    BY <1>2, CommitsFrame DEF Moves
  <2>3. ASSUME NEW a \in activities' PROVE req'[a.by].pc \in {"evict", "done"}
    <3>1. a \in activities \/ a.by = r
      BY <1>2, CommitsFrame
    <3>2. CASE a \in activities
      <4>1. a.by \in Requests /\ req[a.by].pc \in {"evict", "done"}
        BY <3>2 DEF TypeOK, Activity, OneTransaction
      <4> QED
        BY <2>1, <2>2, <4>1
    <3> QED
      BY <2>1, <3>1, <3>2
  <2>4. ASSUME NEW n \in notifications' PROVE req'[n.by].pc \in {"evict", "done"}
    <3>1. n \in notifications \/ n.by = r
      BY <1>2, <2>1, ToldType, CommitsFrame
    <3>2. CASE n \in notifications
      <4>1. n.by \in Requests /\ req[n.by].pc \in {"evict", "done"}
        BY <3>2 DEF TypeOK, Notification, OneTransaction
      <4> QED
        BY <2>1, <2>2, <4>1
    <3> QED
      BY <2>1, <3>1, <3>2
  <2>5. ASSUME NEW c \in Requests, Exists(c)' PROVE req'[c].pc = "done"
    <3>1. CASE c = r /\ req[r].op = "comment"
      BY <2>1, <3>1
    <3>2. CASE ~(c = r /\ req[r].op = "comment")
      <4>1. Exists(c)
        BY <1>2, <2>5, <3>2, CommitsRows, Kinds DEF SameRow
      <4> QED
        BY <2>1, <2>2, <4>1 DEF OneTransaction
    <3> QED
      BY <3>1, <3>2
  <2> QED
    BY <2>3, <2>4, <2>5 DEF OneTransaction
<1> QED
  BY <1>1, <1>2, ServeCases

\* What an activity says of a removal stands: its request keeps what it asked for.
LEMMA RemovalsStand ==
    ASSUME TypeOK, StepsInv, OneTransaction, NEW r \in Requests, Serve(r),
           NEW a \in activities
    PROVE  a.by \in Requests /\ req'[a.by].op = req[a.by].op /\ req'[a.by].ref = req[a.by].ref
<1>1. a.by \in Requests /\ req[a.by].pc \in {"evict", "done"}
  BY DEF TypeOK, Activity, OneTransaction
<1>2. CASE Arrives(r) \/ Waits(r)
  BY <1>1, <1>2, QuietFrame
<1>3. CASE Commits(r)
  BY <1>1, <1>3, CommitsFrame DEF Moves
<1> QED
  BY <1>2, <1>3, ServeCases

LEMMA ServeRemovals ==
    ASSUME TypeOK, StepsInv, OneTransaction, RemovalsInv, NEW r \in Requests, Serve(r)
    PROVE  RemovalsInv'
<1>1. CASE Arrives(r) \/ Waits(r)
  <2>1. activities' = activities /\ comments' = comments
    BY <1>1, QuietFrame DEF tables
  <2>2. \A c \in Comments : Removals(c)' = Removals(c)
    BY <2>1, RemovalsStand DEF Removals
  <2>3. ASSUME NEW s \in Requests, req'[s].op = "remove", req'[s].answer = "ok"
        PROVE  req[s].op = "remove" /\ req[s].answer = "ok"
    <3>1. CASE s # r
      BY <1>1, <2>3, <3>1, QuietFrame
    <3>2. CASE s = r /\ Arrives(r)
      BY <2>3, <3>2, ArrivalMakes
    <3>3. CASE s = r /\ Waits(r)
      <4>1. req[r].op = "remove" /\ req[r].answer = "none" /\ req'[r].pc = "done"
        BY <2>3, <3>3, WaitsFrame DEF StepsInv, Moves
      <4>2. req[r].pc \in {"read", "evict"}
        BY <2>3, <3>3, <4>1, WaitsFrame
      <4> QED
        BY <4>1, <4>2 DEF StepsInv
    <3> QED
      BY <1>1, <3>1, <3>2, <3>3
  <2> QED
    BY <2>1, <2>2, <2>3 DEF RemovalsInv, Exists
<1>2. CASE Commits(r)
  <2> DEFINE b == [by |-> r, operator |-> req[r].actor, action |-> Action(r)]
  <2>1. b.by = r /\ b.action = Action(r) /\ (Action(r) = "deleted" <=> req[r].op = "remove")
    BY DEF Action
  <2>2. activities' = activities \cup {b}
    BY <1>2, CommitsFrame
  <2>3. /\ req[r].pc = "tx" /\ req'[r].op = req[r].op /\ req'[r].ref = req[r].ref
        /\ \A s \in Requests : s # r => req'[s] = req[s]
    BY <1>2, CommitsFrame DEF Moves
  <2> HIDE DEF b
  <2>4. ASSUME NEW c \in Comments
        PROVE  Removals(c)' = Removals(c) \cup
                 {x \in {b} : req[r].op = "remove" /\ req[r].ref = c}
    <3>1. \A a \in activities :
            a.by \in Requests /\ req'[a.by].op = req[a.by].op /\ req'[a.by].ref = req[a.by].ref
      BY RemovalsStand
    <3>2. ASSUME NEW a
          PROVE  a \in Removals(c)' <=>
                   a \in Removals(c) \/ (a = b /\ req[r].op = "remove" /\ req[r].ref = c)
      <4>1. CASE a \in activities
        <5>1. a # b
          BY <4>1, <2>1, <2>3 DEF OneTransaction
        <5> QED
          BY <2>2, <3>1, <4>1, <5>1 DEF Removals
      <4>2. CASE a \notin activities
        BY <2>1, <2>2, <2>3, <4>2 DEF Removals
      <4> QED
        BY <4>1, <4>2
    <3> QED
      BY <3>2
  <2>5. ASSUME NEW c \in Comments
        PROVE  IF Exists(c)' /\ comments'[c].deleted
               THEN \E a \in activities' : Removals(c)' = {a}
               ELSE Removals(c)' = {}
    <3>0. IF Exists(c) /\ comments[c].deleted
          THEN \E a \in activities : Removals(c) = {a}
          ELSE Removals(c) = {}
      BY DEF RemovalsInv
    <3>1. CASE req[r].op = "remove" /\ c = req[r].ref
      <4>1. Exists(c) /\ ~comments[c].deleted /\ comments'[c].deleted /\ Exists(c)'
        BY <1>2, <3>1, CommitsRows DEF SameRow
      <4>2. Removals(c)' = {b}
        BY <2>4, <3>0, <3>1, <4>1
      <4> QED
        BY <2>2, <4>1, <4>2
    <3>2. CASE req[r].op = "comment" /\ c = r
      <4>1. ~Exists(c)
        BY <2>3, <3>2 DEF OneTransaction
      <4>2. ~comments'[c].deleted
        <5>1. comments'[c] = NewRow(r)
          BY <1>2, <3>2, CommitsRows
        <5> QED
          BY <5>1 DEF NewRow
      <4> QED
        BY <2>4, <3>0, <3>2, <4>1, <4>2
    <3>3. CASE ~(req[r].op = "remove" /\ c = req[r].ref) /\ ~(req[r].op = "comment" /\ c = r)
      <4>1. Removals(c)' = Removals(c)
        BY <2>4, <3>3
      <4>2. comments'[c] = comments[c]
        BY <1>2, <3>3, CommitsRows
      <4> QED
        BY <2>2, <3>0, <4>1, <4>2 DEF Exists
    <3> QED
      BY <3>1, <3>2, <3>3
  <2>6. ASSUME NEW s \in Requests, req'[s].op = "remove", req'[s].answer = "ok"
        PROVE  \E a \in activities' : a.action = "deleted" /\ a.by = s
    <3>1. CASE s = r
      BY <2>1, <2>2, <2>3, <2>6, <3>1
    <3>2. CASE s # r
      BY <2>2, <2>3, <2>6, <3>2 DEF RemovalsInv
    <3> QED
      BY <3>1, <3>2
  <2> QED
    BY <2>5, <2>6 DEF RemovalsInv
<1> QED
  BY <1>1, <1>2, ServeCases

\* What a comment answers is still there after any step, and still by the same
\* author on the same task.
LEMMA AnswersStand ==
    ASSUME TypeOK, StepsInv, OneTransaction, NEW r \in Requests, Serve(r),
           NEW c \in Comments \cup {None}, NEW t, NEW u, AnswersComment(c, t, u)
    PROVE  AnswersComment(c, t, u)'
<1>1. CASE Arrives(r) \/ Waits(r)
  BY <1>1, QuietFrame DEF AnswersComment, Exists, tables
<1>2. CASE Commits(r)
  <2>1. CASE c = None
    BY <2>1 DEF AnswersComment
  <2>2. CASE c # None
    <3>1. c \in Comments /\ Exists(c) /\ comments[c].task = t /\ comments[c].author = u
      BY <2>2 DEF AnswersComment
    <3>2. c # r
      BY <1>2, <3>1, CommitsFrame DEF OneTransaction
    <3>3. SameRow(c)
      BY <1>2, <3>1, <3>2, CommitsRows
    <3> QED
      BY <2>2, <3>1, <3>3 DEF AnswersComment, SameRow
  <2> QED
    BY <2>1, <2>2
<1> QED
  BY <1>1, <1>2, ServeCases

\* What a step makes a request know of the comment it answers.
LEMMA LookUpAnswers ==
    ASSUME TypeOK, StepsInv, OneTransaction, ThreadInv, NEW r \in Requests, Serve(r),
           req'[r].op = "comment"
    PROVE  /\ req'[r].pc \in {"access", "load", "fill", "lookup"} => req'[r].reply = None
           /\ req'[r].pc = "tx" => AnswersComment(req[r].ref, req[r].task, req'[r].reply)
                                   /\ req'[r].ref = req[r].ref /\ req'[r].task = req[r].task
<1>1. CASE Arrives(r)
  BY <1>1, ArrivalMakes
<1>2. CASE Commits(r)
  BY <1>2, CommitsFrame
<1>3. CASE Waits(r)
  <2>0. req[r].op = "comment"
    BY <1>3, WaitsFrame DEF Moves
  <2>1. CASE Access(r) \/ Load(r) \/ Fill(r)
    <3>1. /\ req[r].pc \in {"access", "load", "fill"} /\ req'[r].reply = req[r].reply
          /\ req'[r].pc \in {"load", "fill", "lookup"}
      BY <2>1, AccessStep, LoadStep, FillStep
    <3> QED
      BY <2>0, <3>1 DEF ThreadInv
  <2>2. CASE LookUp(r)
    <3>1. req[r].pc = "lookup" /\ req[r].reply = None
      BY <2>0, <2>2, LookUpStep DEF ThreadInv
    <3>2. CASE req'[r].pc = "done"
      BY <3>2
    <3>3. CASE req'[r].pc # "done"
      <4>1. /\ req'[r].pc = "tx" /\ Moves(r)
            /\ IF req[r].ref = None THEN req'[r].reply = req[r].reply
               ELSE AnswersComment(req[r].ref, req[r].task, req'[r].reply)
        BY <2>0, <2>2, <3>3, LookUpStep
      <4>2. AnswersComment(req[r].ref, req[r].task, req'[r].reply)
        BY <3>1, <4>1 DEF AnswersComment
      <4> QED
        BY <4>1, <4>2 DEF Moves
    <3> QED
      BY <3>2, <3>3
  <2>3. CASE ~(Access(r) \/ Load(r) \/ Fill(r) \/ LookUp(r))
    <3>1. req'[r].pc = "done"
      <4>1. CASE ReadTask(r) \/ StatusAsIs(r)
        BY <2>0, <4>1, ReadStep DEF StepsInv
      <4>2. CASE Refuse(r) \/ Rollback(r)
        BY <4>2, RefusalStep
      <4>3. CASE CommitRemove(r) /\ ~SoftDelete(req[r].ref)
        BY <4>3, NothingToRemove
      <4>4. CASE Evict(r)
        BY <4>4, EvictStep
      <4> QED
        BY <1>3, <2>3, <4>1, <4>2, <4>3, <4>4 DEF Waits
    <3> QED
      BY <3>1
  <2> QED
    BY <2>1, <2>2, <2>3
<1> QED
  BY <1>1, <1>2, <1>3, ServeCases

LEMMA ServeOthers ==
    ASSUME TypeOK, StepsInv, NEW r \in Requests, Serve(r), NEW s \in Requests, s # r
    PROVE  req'[s] = req[s]
BY ServeCases, QuietFrame, CommitsFrame DEF Moves

LEMMA ServeThreads ==
    ASSUME TypeOK, StepsInv, OneTransaction, ThreadInv, NEW r \in Requests, Serve(r)
    PROVE  ThreadInv'
<1>1. ASSUME NEW s \in Requests, req'[s].op = "comment"
      PROVE  /\ req'[s].pc \in {"access", "load", "fill", "lookup"} => req'[s].reply = None
             /\ req'[s].pc = "tx" =>
                  AnswersComment(req[s].ref, req[s].task, req'[s].reply)
                  /\ req'[s].ref = req[s].ref /\ req'[s].task = req[s].task
  <2>1. CASE s = r
    BY <1>1, <2>1, LookUpAnswers
  <2>2. CASE s # r
    <3>1. req'[s] = req[s]
      BY <2>2, ServeOthers
    <3> QED
      BY <1>1, <3>1 DEF ThreadInv
  <2> QED
    BY <2>1, <2>2
<1>2. ASSUME NEW s \in Requests, req'[s].op = "comment", req'[s].pc = "tx"
      PROVE  LET c == req'[s].ref IN
             IF c = None THEN req'[s].reply = None
             ELSE /\ comments'[c] # NoRow /\ comments'[c].task = req'[s].task
                  /\ comments'[c].author = req'[s].reply
  <2>1. PICK c \in Comments \cup {None}, t \in Tasks \cup {None}, u \in Assignees :
          c = req'[s].ref /\ t = req'[s].task /\ u = req'[s].reply
    <3>1. TypeOK'
      BY ServeType
    <3> QED
      BY <3>1 DEF TypeOK, Request
  <2>2. AnswersComment(c, t, u)
    BY <1>1, <1>2, <2>1
  <2>3. AnswersComment(c, t, u)'
    BY <2>2, AnswersStand
  <2> QED
    BY <2>1, <2>3 DEF AnswersComment, Exists
<1>3. ASSUME NEW c \in Requests, Exists(c)'
      PROVE  LET p == comments'[c].parent IN
             IF p = None THEN comments'[c].replyTo = None
             ELSE /\ comments'[p] # NoRow /\ comments'[p].task = comments'[c].task
                  /\ comments'[p].author = comments'[c].replyTo
  <2>0. c \in Comments
    BY Kinds
  <2>1. PICK p, t, u :
          p = comments'[c].parent /\ t = comments'[c].task /\ u = comments'[c].replyTo
    OBVIOUS
  <2>2. p \in Comments \cup {None} /\ AnswersComment(p, t, u)
    <3>1. CASE Commits(r) /\ c = r /\ req[r].op = "comment"
      <4>1. comments'[c] = NewRow(r) /\ req[r].pc = "tx"
        BY <3>1, CommitsRows, CommitsFrame
      <4>2. p = req[r].ref /\ t = req[r].task /\ u = req[r].reply
        BY <2>1, <4>1 DEF NewRow
      <4> QED
        BY <3>1, <4>1, <4>2, Fields DEF ThreadInv
    <3>2. CASE ~(Commits(r) /\ c = r /\ req[r].op = "comment")
      <4>1. /\ Exists(c) /\ p = comments[c].parent /\ t = comments[c].task
            /\ u = comments[c].replyTo
        <5>1. CASE Commits(r)
          BY <1>3, <2>0, <2>1, <3>2, <5>1, CommitsRows DEF SameRow
        <5>2. CASE Arrives(r) \/ Waits(r)
          BY <1>3, <2>1, <5>2, QuietFrame DEF tables, Exists
        <5> QED
          BY <5>1, <5>2, ServeCases
      <4>2. AnswersComment(p, t, u)
        BY <4>1 DEF ThreadInv, Written
      <4> QED
        BY <2>0, <4>1, <4>2, Rows
    <3> QED
      BY <3>1, <3>2
  <2>3. AnswersComment(p, t, u)'
    BY <2>2, AnswersStand
  <2> QED
    BY <2>1, <2>3 DEF AnswersComment, Exists
<1> QED
  BY <1>1, <1>2, <1>3 DEF ThreadInv, AnswersComment, Written, Exists

\* The one a transaction tells of a comment is the one its row is for.
LEMMA ToldAudience ==
    ASSUME TypeOK, StepsInv, ThreadInv, NEW r \in Requests,
           req[r].pc = "tx", req[r].op = "comment"
    PROVE  \/ Told(r) = {} /\ Audience(NewRow(r)) = {}
           \/ \E n \in Told(r) : Told(r) = {n} /\ Audience(NewRow(r)) = {n.to}
<1>1. /\ NewRow(r).parent = req[r].ref /\ NewRow(r).replyTo = req[r].reply
      /\ NewRow(r).author = req[r].actor /\ NewRow(r).seen = req[r].seen
  BY DEF NewRow
<1>2. Told(r) = ToldOfComment(r)
  BY DEF Told
<1>3. ASSUME NEW u, NEW e, Told(r) = Notice(r, u, e), Audience(NewRow(r)) = {u}
      PROVE  \E n \in Told(r) : Told(r) = {n} /\ Audience(NewRow(r)) = {n.to}
  <2> DEFINE n == [by |-> r, from |-> req[r].actor, to |-> u, event |-> e]
  <2>1. Told(r) = {n} /\ n.to = u
    BY <1>3 DEF Notice
  <2> HIDE DEF n
  <2> QED
    BY <1>3, <2>1
<1>4. CASE IsReply(req[r])
  <2>1. Told(r) = Notice(r, req[r].reply, "comment_reply")
    BY <1>2, <1>4 DEF ToldOfComment
  <2>2. Audience(NewRow(r)) = {req[r].reply}
    BY <1>1, <1>4 DEF Audience, IsReply
  <2> QED
    BY <1>3, <2>1, <2>2
<1>5. CASE ~IsReply(req[r])
  <2>1. Audience(NewRow(r)) = {req[r].seen} \ {None, req[r].actor}
    BY <1>1, <1>5 DEF Audience, IsReply
  <2>2. CASE req[r].seen \in {None, req[r].actor}
    BY <1>2, <1>5, <2>1, <2>2 DEF ToldOfComment
  <2>3. CASE req[r].seen \notin {None, req[r].actor}
    <3>1. Told(r) = Notice(r, req[r].seen, "comment_created")
      BY <1>2, <1>5, <2>3 DEF ToldOfComment
    <3>2. Audience(NewRow(r)) = {req[r].seen}
      BY <2>1, <2>3
    <3> QED
      BY <1>3, <3>1, <3>2
  <2> QED
    BY <2>2, <2>3
<1> QED
  BY <1>4, <1>5

LEMMA ServeAudience ==
    ASSUME TypeOK, StepsInv, OneTransaction, ThreadInv, AudienceInv, NEW r \in Requests, Serve(r)
    PROVE  AudienceInv'
<1>1. CASE Arrives(r) \/ Waits(r)
  <2>1. comments' = comments /\ notifications' = notifications
    BY <1>1, QuietFrame DEF tables
  <2> QED
    BY <2>1 DEF AudienceInv, Written, Exists, Heard, Audience
<1>2. CASE Commits(r)
  <2>1. req[r].pc = "tx" /\ notifications' = notifications \cup Told(r)
    BY <1>2, CommitsFrame
  <2>2. \A n \in Told(r) : n.by = r
    BY <2>1, ToldType
  <2>3. Heard(r) = {} /\ Heard(r)' = Told(r)
    BY <2>1, <2>2 DEF Heard, OneTransaction
  <2> SUFFICES ASSUME NEW c \in Requests, Exists(c)'
               PROVE  \/ Heard(c)' = {} /\ Audience(comments'[c]) = {}
                      \/ \E n \in notifications' :
                           Heard(c)' = {n} /\ Audience(comments'[c]) = {n.to}
    BY DEF AudienceInv, Written, Exists, Audience
  <2>4. CASE c = r /\ req[r].op = "comment"
    <3>1. comments'[c] = NewRow(r)
      BY <1>2, <2>4, CommitsRows
    <3> QED
      BY <2>1, <2>3, <2>4, <3>1, ToldAudience
  <2>5. CASE ~(c = r /\ req[r].op = "comment")
    <3>1. Exists(c) /\ SameRow(c)
      BY <1>2, <2>5, CommitsRows, Kinds DEF SameRow
    <3>2. c # r
      BY <2>1, <3>1 DEF OneTransaction
    <3>3. Heard(c)' = Heard(c)
      BY <2>1, <2>2, <3>2 DEF Heard
    <3>4. Audience(comments'[c]) = Audience(comments[c])
      BY <3>1 DEF SameRow, Audience
    <3> QED
      BY <2>1, <3>1, <3>3, <3>4 DEF AudienceInv, Written
  <2> QED
    BY <2>4, <2>5
<1> QED
  BY <1>1, <1>2, ServeCases

-----------------------------------------------------------------------------
(* What the cache knows *)

\* While a request works and no two overlapped, it works alone.
LEMMA Alone ==
    ASSUME FreshInv, ~overlapped, ~escaped, NEW r \in Requests, req[r].pc \notin {"new", "done"},
           NEW s \in Requests, s # r
    PROVE  req[s].pc \in {"new", "done"}
BY DEF FreshInv, InFlight

LEMMA ArrivalFresh ==
    ASSUME TypeOK, StepsInv, FreshInv, NEW r \in Requests, Arrives(r)
    PROVE  FreshInv'
<1> SUFFICES ASSUME ~overlapped', ~escaped' PROVE FreshInv'
  BY DEF FreshInv
<1>1. /\ ~overlapped /\ ~escaped /\ InFlight = {}
      /\ UNCHANGED <<tables, cached>>
      /\ req'[r].pc \in {"access", "read"}
      /\ \A s \in Requests : s # r => req'[s] = req[s]
  BY ArrivalMakes DEF TypeOK
<1>2. \A s \in Requests : req[s].pc \in {"new", "done"}
  BY <1>1 DEF InFlight
<1>3. \A s \in Requests : s # r => req'[s].pc \in {"new", "done"}
  BY <1>1, <1>2
<1>4. \A s, t \in InFlight' : s = t
  BY <1>3 DEF InFlight
<1>5. \A t \in Tasks : cached'[t] \in {Miss, assignee'[t]}
  BY <1>1, <1>2 DEF FreshInv, tables
<1>6. \A s \in Requests : req'[s].pc \notin {"fill", "lookup", "tx"}
  BY <1>1, <1>3
<1>7. \A c \in Written' : comments'[c].seen = comments'[c].current
  BY <1>1 DEF FreshInv, tables, Written, Exists
<1> QED
  BY <1>4, <1>5, <1>6, <1>7 DEF FreshInv

\* What a request of comments learns of the assignee is true, and what it
\* writes into the cache.
LEMMA LearnsFresh ==
    ASSUME TypeOK, StepsInv, FreshInv, ~overlapped, ~escaped, NEW r \in Requests, Waits(r),
           req[r].pc # "evict"
    PROVE  /\ \A t \in Tasks : cached'[t] \in {Miss, assignee[t]}
           /\ req'[r].op \in {"comment", "remove"} /\ req'[r].pc \in {"fill", "lookup", "tx"} =>
                req'[r].seen = assignee[req[r].task]
<1>0. Moves(r) /\ req[r].pc \notin {"new", "done"}
  BY WaitsFrame
<1>1. \A s \in Requests : req[s].pc # "evict"
  BY <1>0, Alone
<1>2. \A t \in Tasks : cached[t] \in {Miss, assignee[t]}
  BY <1>1 DEF FreshInv
<1>3. req[r].task \in Tasks
  BY <1>0, Working
<1>4. req[r].op \in {"comment", "remove"} /\ req[r].pc \in {"fill", "lookup", "tx"} =>
        req[r].seen = assignee[req[r].task]
  BY DEF FreshInv
<1>5. req'[r].op = req[r].op
  BY <1>0 DEF Moves
<1>6. CASE Access(r)
  <2>1. /\ cached' = cached
        /\ \/ req'[r].pc = "load"
           \/ req'[r].seen = cached[req[r].task] /\ cached[req[r].task] # Miss
    BY <1>6, AccessStep
  <2> QED
    BY <1>2, <1>3, <2>1
<1>7. CASE Load(r)
  BY <1>2, <1>7, LoadStep
<1>8. CASE Fill(r)
  <2>1. /\ req[r].pc = "fill" /\ req'[r].seen = req[r].seen
        /\ cached' = [cached EXCEPT ![req[r].task] = req[r].seen] \/ cached' = cached
    BY <1>8, FillStep
  <2>2. req[r].seen = assignee[req[r].task]
    BY <1>4, <2>1 DEF StepsInv
  <2> QED
    BY <1>2, <1>3, <2>1, <2>2 DEF TypeOK
<1>9. CASE LookUp(r)
  <2>1. /\ req[r].pc = "lookup" /\ cached' = cached
        /\ req'[r].pc = "done" \/ req'[r].seen = req[r].seen
    BY <1>9, LookUpStep
  <2> QED
    BY <1>2, <1>4, <1>5, <2>1
<1>10. CASE ReadTask(r) \/ StatusAsIs(r)
  BY <1>2, <1>5, <1>10, ReadStep DEF StepsInv
<1>11. CASE Refuse(r) \/ Rollback(r)
  BY <1>2, <1>11, RefusalStep
<1>12. CASE CommitRemove(r) /\ ~SoftDelete(req[r].ref)
  BY <1>2, <1>12, NothingToRemove
<1> QED
  BY <1>6, <1>7, <1>8, <1>9, <1>10, <1>11, <1>12 DEF Waits, Evict

LEMMA WaitsFresh ==
    ASSUME TypeOK, StepsInv, FreshInv, NEW r \in Requests, Waits(r)
    PROVE  FreshInv'
<1> SUFFICES ASSUME ~overlapped', ~escaped' PROVE FreshInv'
  BY DEF FreshInv
<1>1. /\ ~overlapped /\ ~escaped /\ UNCHANGED tables /\ Moves(r)
      /\ req[r].pc \notin {"new", "done"} /\ req'[r].pc # "evict"
  BY WaitsFrame, WaitsCache
<1>2. \A s \in Requests : s # r => req'[s] = req[s] /\ req[s].pc \in {"new", "done"}
  BY <1>1, Alone DEF Moves
<1>3. \A s, t \in InFlight' : s = t
  BY <1>2 DEF InFlight
<1>4. \A c \in Written' : comments'[c].seen = comments'[c].current
  BY <1>1 DEF FreshInv, tables, Written, Exists
<1>5. /\ \A t \in Tasks : cached'[t] \in {Miss, assignee[t]}
      /\ req'[r].op \in {"comment", "remove"} /\ req'[r].pc \in {"fill", "lookup", "tx"} =>
           req'[r].seen = assignee'[req'[r].task]
  <2>1. CASE req[r].pc # "evict"
    <3>1. req'[r].pc # "done" => req'[r].task = req[r].task
      BY <1>1 DEF Moves
    <3>2. assignee' = assignee
      BY <1>1 DEF tables
    <3> QED
      BY <1>1, <2>1, <3>1, <3>2, LearnsFresh
  <2>2. CASE req[r].pc = "evict"
    <3>1. Evict(r)
      BY <2>2 DEF Waits, Access, Load, Fill, LookUp, ReadTask, StatusAsIs, Refuse, Rollback,
                  CommitRemove
    <3>2. /\ req'[r].pc = "done"
          /\ \/ cached' = [cached EXCEPT ![req[r].task] = Miss] /\ escaped' = escaped
             \/ cached' = cached /\ escaped' = (escaped \/ req[r].op = "assign")
      BY <3>1, EvictStep
    <3>3. ASSUME NEW t \in Tasks
          PROVE  cached[t] \in {Miss, assignee[t]} \/ (req[r].op = "assign" /\ req[r].task = t)
      BY <1>1, <1>2 DEF FreshInv
    <3>4. ASSUME NEW t \in Tasks PROVE cached'[t] \in {Miss, assignee[t]}
      <4>1. CASE cached' = [cached EXCEPT ![req[r].task] = Miss]
        BY <3>3, <4>1 DEF TypeOK
      <4>2. CASE cached' = cached /\ req[r].op # "assign"
        BY <3>3, <4>2
      <4> QED
        BY <3>2, <4>1, <4>2
    <3> QED
      BY <3>2, <3>4
  <2> QED
    BY <2>1, <2>2
<1> QED
  <2>1. \A t \in Tasks : cached'[t] \in {Miss, assignee'[t]}
    BY <1>1, <1>5 DEF tables
  <2>2. \A s \in Requests : s # r => req'[s].pc \in {"new", "done"}
    BY <1>2
  <2> QED
    BY <1>3, <1>4, <1>5, <2>1, <2>2 DEF FreshInv

LEMMA CommitsFresh ==
    ASSUME TypeOK, StepsInv, FreshInv, NEW r \in Requests, Commits(r)
    PROVE  FreshInv'
<1> SUFFICES ASSUME ~overlapped', ~escaped' PROVE FreshInv'
  BY DEF FreshInv
<1>1. /\ ~overlapped /\ ~escaped /\ cached' = cached /\ Moves(r)
      /\ req[r].pc = "tx" /\ req'[r].pc \in {"done", "evict"}
  BY CommitsFrame DEF TypeOK
<1>2. req[r].op = "assign" => req'[r].pc = "evict" /\ req'[r].op = "assign"
                              /\ req'[r].task = req[r].task
  BY <1>1, CommitsFrame DEF Moves
<1>3. \A s \in Requests : s # r => req'[s] = req[s] /\ req[s].pc \in {"new", "done"}
  BY <1>1, Alone DEF Moves
<1>4. \A s, t \in InFlight' : s = t
  BY <1>3 DEF InFlight
<1>5. ASSUME NEW t \in Tasks
      PROVE  cached'[t] \in {Miss, assignee'[t]} \/
             \E s \in Requests : req'[s].pc = "evict" /\ req'[s].op = "assign" /\ req'[s].task = t
  <2>1. cached[t] \in {Miss, assignee[t]}
    BY <1>1, <1>3 DEF FreshInv
  <2>2. CASE req[r].op = "assign" /\ req[r].task = t
    BY <1>2, <2>2
  <2>3. CASE ~(req[r].op = "assign" /\ req[r].task = t)
    <3>1. assignee' = assignee \/
          (assignee' = [assignee EXCEPT ![req[r].task] = req[r].whom] /\ req[r].task # t)
      BY <2>3, CommitsRows
    <3>2. assignee'[t] = assignee[t]
      BY <3>1 DEF TypeOK
    <3> QED
      BY <1>1, <2>1, <3>2
  <2> QED
    BY <2>2, <2>3
<1>6. \A s \in Requests : req'[s].pc \notin {"fill", "lookup", "tx"}
  BY <1>1, <1>3
<1>7. ASSUME NEW c \in Requests, Exists(c)'
      PROVE  comments'[c].seen = comments'[c].current
  <2>1. CASE c = r /\ req[r].op = "comment"
    <3>1. comments'[c] = NewRow(r)
      BY <2>1, CommitsRows
    <3>2. req[r].seen = assignee[req[r].task]
      BY <1>1, <2>1 DEF FreshInv
    <3> QED
      BY <3>1, <3>2 DEF NewRow
  <2>2. CASE ~(c = r /\ req[r].op = "comment")
    <3>1. Exists(c) /\ SameRow(c)
      BY <1>7, <2>2, CommitsRows, Kinds DEF SameRow
    <3> QED
      BY <1>1, <3>1 DEF SameRow, FreshInv, Written
  <2> QED
    BY <2>1, <2>2
<1> QED
  BY <1>4, <1>5, <1>6, <1>7 DEF FreshInv, Written

-----------------------------------------------------------------------------
(* The rest of the world, and the theorems *)

\* Steps of nobody's request.
LEMMA NobodysStep ==
    ASSUME IndInv, UNCHANGED <<comments, activities, notifications, req>>
    PROVE  StepsInv' /\ OneTransaction' /\ RemovalsInv' /\ ThreadInv' /\ AudienceInv'
<1> USE DEF IndInv
<1>1. StepsInv' /\ OneTransaction'
  BY DEF StepsInv, OneTransaction, Exists
<1>2. RemovalsInv'
  BY DEF RemovalsInv, Removals, Exists
<1>3. ThreadInv'
  BY DEF ThreadInv, AnswersComment, Written, Exists
<1>4. AudienceInv'
  BY DEF AudienceInv, Audience, Heard, Written, Exists
<1> QED
  BY <1>1, <1>2, <1>3, <1>4

LEMMA ExpireInv ==
    ASSUME IndInv, NEW t \in Tasks, Expire(t)
    PROVE  IndInv'
<1> USE DEF IndInv
<1>1. /\ cached' = [cached EXCEPT ![t] = Miss]
      /\ UNCHANGED <<tables, req, overlapped, escaped, faults>>
  BY DEF Expire
<1>2. TypeOK'
  BY <1>1 DEF TypeOK, tables
<1>3. StepsInv' /\ OneTransaction' /\ RemovalsInv' /\ ThreadInv' /\ AudienceInv'
  BY <1>1, NobodysStep DEF tables
<1>4. FreshInv'
  BY <1>1 DEF FreshInv, TypeOK, tables, InFlight, Written, Exists
<1> QED
  BY <1>2, <1>3, <1>4

LEMMA RemoveMemberInv ==
    ASSUME IndInv, NEW u \in Users, RemoveMember(u)
    PROVE  IndInv'
<1> USE DEF IndInv
<1>1. /\ members' = members \ {u}
      /\ assignee' = [t \in Tasks |-> IF assignee[t] = u THEN None ELSE assignee[t]]
      /\ escaped' = (escaped \/ assignee' # assignee)
      /\ overlapped' = (overlapped \/ InFlight # {})
      /\ UNCHANGED <<cached, comments, activities, notifications, req, faults>>
  BY DEF RemoveMember
<1>2. TypeOK'
  <2>1. assignee' \in [Tasks -> Assignees]
    BY <1>1 DEF TypeOK, Assignees
  <2>2. escaped' \in BOOLEAN
    <3> DEFINE changed == assignee' # assignee
    <3>1. escaped' = (escaped \/ changed) /\ changed \in BOOLEAN
      BY <1>1
    <3> HIDE DEF changed
    <3> QED
      BY <3>1 DEF TypeOK
  <2>3. overlapped' \in BOOLEAN
    BY <1>1 DEF TypeOK
  <2> QED
    BY <1>1, <2>1, <2>2, <2>3 DEF TypeOK
<1>3. StepsInv' /\ OneTransaction' /\ RemovalsInv' /\ ThreadInv' /\ AudienceInv'
  BY <1>1, NobodysStep
<1>4. FreshInv'
  <2> SUFFICES ASSUME ~overlapped', ~escaped' PROVE FreshInv'
    BY DEF FreshInv
  <2>1. ~overlapped /\ ~escaped /\ assignee' = assignee
    BY <1>1
  <2> QED
    BY <1>1, <2>1 DEF FreshInv, InFlight, Written, Exists
<1> QED
  BY <1>2, <1>3, <1>4

LEMMA NextInv ==
    ASSUME IndInv, [Next]_vars
    PROVE  IndInv'
<1>1. CASE UNCHANGED vars
  <2>1. TypeOK' /\ FreshInv'
    BY <1>1 DEF vars, IndInv, TypeOK, FreshInv, InFlight, Written, Exists
  <2>2. StepsInv' /\ OneTransaction' /\ RemovalsInv' /\ ThreadInv' /\ AudienceInv'
    BY <1>1, NobodysStep DEF vars
  <2> QED
    BY <2>1, <2>2 DEF IndInv
<1>2. ASSUME NEW r \in Requests, Serve(r) PROVE IndInv'
  <2> USE <1>2 DEF IndInv
  <2>1. TypeOK' /\ StepsInv' /\ OneTransaction'
    BY ServeType, ServeSteps, ServeOnce
  <2>2. RemovalsInv' /\ ThreadInv' /\ AudienceInv'
    BY ServeRemovals, ServeThreads, ServeAudience
  <2>3. FreshInv'
    BY ServeCases, ArrivalFresh, WaitsFresh, CommitsFresh
  <2> QED
    BY <2>1, <2>2, <2>3
<1>3. ASSUME NEW t \in Tasks, Expire(t) PROVE IndInv'
  BY <1>3, ExpireInv
<1>4. ASSUME NEW u \in Users, RemoveMember(u) PROVE IndInv'
  BY <1>4, RemoveMemberInv
<1> QED
  BY <1>1, <1>2, <1>3, <1>4 DEF Next, Finished

\* The inductive invariant of task_comment_service.go, task_service.go and their
\* notifications: one transaction per request, one activity per removal, one
\* notification per audience, and a cache that lags behind known changes only.
THEOREM IndInvHolds == Spec => []IndInv
<1>1. Init => IndInv
  BY InitInv
<1>2. IndInv /\ [Next]_vars => IndInv'
  BY NextInv
<1> QED
  BY <1>1, <1>2, PTL DEF Spec

\* Type correctness of comments, activities, notifications and requests.
THEOREM TypeCorrect == Spec => []TypeOK
<1>1. IndInv => TypeOK
  BY DEF IndInv
<1> QED
  BY <1>1, IndInvHolds, PTL

\* RemoveTaskComment and SoftDeleteCommentWithTx: however many ask for it, a
\* comment is removed once, and one request at most may say it did it.
THEOREM CommentsAreRemovedOnce == Spec => []RemovedOnce
<1>1. IndInv => RemovedOnce
  <2> SUFFICES ASSUME IndInv, NEW c \in Comments, Exists(c)
               PROVE  LET removals == {r \in Requests : req[r].op = "remove" /\ req[r].ref = c}
                          done == {a \in activities : a.action = "deleted" /\ a.by \in removals}
                      IN  /\ Cardinality(done) = IF comments[c].deleted THEN 1 ELSE 0
                          /\ \A r \in removals : req[r].answer = "ok" => \E a \in done : a.by = r
    BY DEF RemovedOnce
  <2> DEFINE removals == {r \in Requests : req[r].op = "remove" /\ req[r].ref = c}
             done == {a \in activities : a.action = "deleted" /\ a.by \in removals}
  <2>1. done = Removals(c)
    BY DEF IndInv, TypeOK, Activity, Removals
  <2>2. Cardinality(done) = IF comments[c].deleted THEN 1 ELSE 0
    <3>1. CASE comments[c].deleted
      <4>1. PICK a \in activities : done = {a}
        BY <2>1, <3>1 DEF IndInv, RemovalsInv
      <4> QED
        BY <3>1, <4>1, FS_Singleton
    <3>2. CASE ~comments[c].deleted
      <4>1. done = {}
        BY <2>1, <3>2 DEF IndInv, RemovalsInv
      <4> QED
        BY <3>2, <4>1, FS_EmptySet
    <3> QED
      BY <3>1, <3>2
  <2>3. ASSUME NEW r \in removals, req[r].answer = "ok" PROVE \E a \in done : a.by = r
    BY <2>3 DEF IndInv, RemovalsInv
  <2> QED
    BY <2>2, <2>3
<1> QED
  BY <1>1, IndInvHolds, PTL

\* CreateTaskComment: nobody is notified twice of a comment, nor its author at all,
\* and an answer is heard of by the author of the comment it answers.
THEOREM CommentsAreHeardOnce == Spec => []HeardOnce
<1>1. IndInv => HeardOnce
  <2> SUFFICES ASSUME IndInv, NEW c \in Written
               PROVE  LET row == comments[c] IN
        /\ \A n, m \in Heard(c) : n.to = m.to => n = m
        /\ \A n \in Heard(c) : n.to \in {row.replyTo, row.seen} \ {None, row.author}
        /\ row.parent # None =>
              /\ Exists(row.parent) /\ comments[row.parent].task = row.task
              /\ row.replyTo = comments[row.parent].author
        /\ row.replyTo \notin {None, row.author} => \E n \in Heard(c) : n.to = row.replyTo
    BY DEF HeardOnce
  <2>1. \/ Heard(c) = {} /\ Audience(comments[c]) = {}
        \/ \E n \in notifications : Heard(c) = {n} /\ Audience(comments[c]) = {n.to}
    BY DEF IndInv, AudienceInv
  <2>2. AnswersComment(comments[c].parent, comments[c].task, comments[c].replyTo)
    BY DEF IndInv, ThreadInv
  <2>3. \A n, m \in Heard(c) : n.to = m.to => n = m
    BY <2>1
  <2>4. \A n \in Heard(c) :
          n.to \in {comments[c].replyTo, comments[c].seen} \ {None, comments[c].author}
    <3>1. comments[c].parent # None =>
             /\ comments[c].parent \in Comments /\ Exists(comments[c].parent)
             /\ comments[c].replyTo = comments[comments[c].parent].author
      BY <2>2, Rows, Kinds DEF AnswersComment, IndInv, Written, Exists
    <3>2. comments[c].parent # None => comments[c].replyTo # None
      BY <3>1, Rows, Kinds DEF IndInv
    <3>3. Audience(comments[c]) \subseteq
             {comments[c].replyTo, comments[c].seen} \ {None, comments[c].author}
      BY <3>2 DEF Audience
    <3> QED
      BY <2>1, <3>3
  <2>5. comments[c].replyTo \notin {None, comments[c].author} =>
          \E n \in Heard(c) : n.to = comments[c].replyTo
    <3> SUFFICES ASSUME comments[c].replyTo \notin {None, comments[c].author}
                 PROVE  \E n \in Heard(c) : n.to = comments[c].replyTo
      OBVIOUS
    <3>1. Audience(comments[c]) = {comments[c].replyTo}
      BY <2>2 DEF AnswersComment, Audience
    <3> QED
      BY <2>1, <3>1
  <2> QED
    BY <2>2, <2>3, <2>4, <2>5 DEF AnswersComment
<1> QED
  BY <1>1, IndInvHolds, PTL

\* As long as requests come one after the other and the cache is told of each
\* change, GetTaskPermissionInfo names the assignee a comment has to reach.
THEOREM CommentsReachTheAssignee == Spec => []ToldIsCurrent
<1>1. IndInv => ToldIsCurrent
  <2> SUFFICES ASSUME IndInv, NEW c \in Written, ~overlapped, ~escaped,
                      comments[c].replyTo \in {None, comments[c].author}
               PROVE  {n.to : n \in Heard(c)} = {comments[c].current} \ {None, comments[c].author}
    BY DEF ToldIsCurrent
  <2>1. comments[c].seen = comments[c].current
    BY DEF IndInv, FreshInv
  <2>2. AnswersComment(comments[c].parent, comments[c].task, comments[c].replyTo)
    BY DEF IndInv, ThreadInv
  <2>3. comments[c].parent # None => comments[c].replyTo # None
    <3>1. c \in Comments /\ Exists(c)
      BY Kinds DEF Written
    <3>2. comments[c].parent # None => comments[c].parent \in Comments /\ Exists(comments[c].parent)
      BY <2>2, <3>1, Rows DEF IndInv, AnswersComment
    <3>3. comments[c].parent # None => comments[comments[c].parent].author \in Users
      BY <3>2, Rows DEF IndInv
    <3> QED
      BY <2>2, <3>3, Kinds DEF AnswersComment
  <2>4. Audience(comments[c]) = {comments[c].current} \ {None, comments[c].author}
    BY <2>1, <2>3 DEF Audience
  <2>5. {n.to : n \in Heard(c)} = Audience(comments[c])
    <3>1. \/ Heard(c) = {} /\ Audience(comments[c]) = {}
          \/ \E n \in notifications : Heard(c) = {n} /\ Audience(comments[c]) = {n.to}
      BY DEF IndInv, AudienceInv
    <3> QED
      BY <3>1
  <2> QED
    BY <2>4, <2>5
<1> QED
  BY <1>1, IndInvHolds, PTL
=============================================================================
