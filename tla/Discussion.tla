----------------------------- MODULE Discussion -----------------------------
(***************************************************************************)
(* What happens to a task and who is told of it: comments and replies      *)
(* (task_comment_service.go), the notifications that go with a comment, an *)
(* assignment or a change of status (notification_service.go and the       *)
(* transactions of task_service.go).                                       *)
(*                                                                         *)
(* A request runs in the steps between which another can come: it learns   *)
(* the task's assignee (comments from the permission cache, the others     *)
(* from the table), looks up the comment it answers or removes, and writes *)
(* everything in one transaction. A comment bears the name of the request  *)
(* that wrote it.                                                          *)
(***************************************************************************)
EXTENDS Naturals, FiniteSets

CONSTANTS
    Requests,
    Users,
    Tasks,
    None,
    Miss,           \* the cache has no entry
    First,          \* a comment that is there from the start,
    FirstTask,      \* on this task,
    FirstAuthor,    \* by this user
    CreatorOf,      \* who created a task
    Managers,       \* owners and administrators of the project
    Nameless,       \* users without a nickname, which is optional
    MaxFaults       \* bound: failed statements, lost replies, failed cache calls

ASSUME DiscussionAssumption ==
    /\ None \notin Users \cup Tasks \cup Requests
    /\ Miss \notin Users \cup {None}
    /\ First \notin Requests \cup {None} /\ FirstTask \in Tasks /\ FirstAuthor \in Users
    /\ CreatorOf \in [Tasks -> Users]
    /\ Managers \subseteq Users /\ Nameless \subseteq Users
    /\ MaxFaults \in Nat

Comments == Requests \cup {First}
Assignees == Users \cup {None}

VARIABLES
    members,        \* of the project
    assignee,       \* of each task
    cached,         \* what the permission cache says the assignee is
    comments,
    activities,     \* who did what, by which request
    notifications,  \* each with its row for the outbox workers
    req,            \* requests: operation, step, arguments, what they learned, answer
    overlapped,     \* two requests were in flight together
    escaped,        \* an assignee changed, and the cache was not told
    faults

tables == <<members, assignee, comments, activities, notifications>>
vars == <<members, assignee, cached, comments, activities, notifications, req,
          overlapped, escaped, faults>>

Row == [task : Tasks, author : Users, parent : Comments \cup {None}, replyTo : Assignees,
        deleted : BOOLEAN, seen : Assignees, current : Assignees]
NoRow == [task |-> None]
Exists(c) == comments[c] # NoRow

Events == {"comment_created", "comment_reply", "task_assigned", "task_status_changed"}
Notification == [by : Requests, from : Users, to : Users, event : Events]
Activity == [by : Requests, operator : Users, action : {"added", "deleted", "assigned", "status"}]

Answers == {"none", "ok", "not found", "invalid", "forbidden", "error", "failed"}
Request == [op : {"none", "comment", "remove", "assign", "status"},
            pc : {"new", "access", "load", "fill", "lookup", "read", "tx", "evict", "done"},
            actor : Assignees, task : Tasks \cup {None}, ref : Comments \cup {None},
            whom : Assignees, seen : Assignees, reply : Assignees, answer : Answers]
NewRequest == [op |-> "none", pc |-> "new", actor |-> None, task |-> None, ref |-> None,
               whom |-> None, seen |-> None, reply |-> None, answer |-> "none"]

TypeOK ==
    /\ members \subseteq Users
    /\ assignee \in [Tasks -> Assignees]
    /\ cached \in [Tasks -> Assignees \cup {Miss}]
    /\ comments \in [Comments -> Row \cup {NoRow}]
    /\ activities \subseteq Activity
    /\ notifications \subseteq Notification
    /\ req \in [Requests -> Request]
    /\ overlapped \in BOOLEAN /\ escaped \in BOOLEAN
    /\ faults \in 0 .. MaxFaults

Init ==
    /\ members = Users
    /\ \E a \in Assignees : assignee = [t \in Tasks |-> IF t = FirstTask THEN a ELSE None]
    /\ cached \in {assignee, [t \in Tasks |-> Miss]}
    /\ comments = [c \in Comments |->
          IF c = First THEN [task |-> FirstTask, author |-> FirstAuthor, parent |-> None,
                             replyTo |-> None, deleted |-> FALSE, seen |-> None,
                             current |-> None]
                       ELSE NoRow]
    /\ activities = {} /\ notifications = {}
    /\ req = [r \in Requests |-> NewRequest]
    /\ overlapped = FALSE /\ escaped = FALSE
    /\ faults = 0

Fault == faults < MaxFaults /\ faults' = faults + 1

-----------------------------------------------------------------------------
(* Requests arrive *)

InFlight == {r \in Requests : req[r].pc \notin {"new", "done"}}

Begin(r, request) ==
    /\ req[r].pc = "new"
    /\ req' = [req EXCEPT ![r] = request]
    /\ overlapped' = (overlapped \/ InFlight # {})
    /\ UNCHANGED <<tables, cached, escaped, faults>>

CreateTaskComment(r) ==
    \E u \in Users, t \in Tasks, c \in (Comments \cup {None}) \ {r} :
        Begin(r, [NewRequest EXCEPT !.op = "comment", !.pc = "access", !.actor = u, !.task = t,
                                    !.ref = c])

RemoveTaskComment(r) ==
    \E u \in Users, t \in Tasks, c \in Comments \ {r} :
        Begin(r, [NewRequest EXCEPT !.op = "remove", !.pc = "access", !.actor = u, !.task = t,
                                    !.ref = c])

UpdateTaskAssignee(r) ==
    \E u \in Users, t \in Tasks, a \in Assignees :
        Begin(r, [NewRequest EXCEPT !.op = "assign", !.pc = "read", !.actor = u, !.task = t,
                                    !.whom = a])

UpdateTaskStatus(r) ==
    \E u \in Users, t \in Tasks :
        Begin(r, [NewRequest EXCEPT !.op = "status", !.pc = "read", !.actor = u, !.task = t])

Goto(r, pc) == req' = [req EXCEPT ![r].pc = pc]
(* The answer ends a request: only what it asked for is remembered. *)
Answer(r, a) ==
    req' = [req EXCEPT ![r] = [NewRequest EXCEPT !.op = req[r].op, !.pc = "done",
                                                 !.ref = req[r].ref, !.answer = a]]
GotoSeeing(r, pc, a) == req' = [req EXCEPT ![r].pc = pc, ![r].seen = a]

-----------------------------------------------------------------------------
(* Comments: validTaskAccess, and the comment that is answered or removed *)

(* The cached permission info, *)
Access(r) ==
    /\ req[r].pc = "access"
    /\ IF cached[req[r].task] = Miss THEN Goto(r, "load")
       ELSE GotoSeeing(r, "lookup", cached[req[r].task])
    /\ UNCHANGED <<tables, cached, overlapped, escaped, faults>>

(* or the row, which is then cached. *)
Load(r) ==
    /\ req[r].pc = "load"
    /\ GotoSeeing(r, "fill", assignee[req[r].task])
    /\ UNCHANGED <<tables, cached, overlapped, escaped, faults>>

Fill(r) ==
    /\ req[r].pc = "fill"
    /\ \/ cached' = [cached EXCEPT ![req[r].task] = req[r].seen] /\ UNCHANGED faults
       \/ Fault /\ UNCHANGED cached
    /\ Goto(r, "lookup")
    /\ UNCHANGED <<tables, overlapped, escaped>>

Visible(c) == Exists(c) /\ ~comments[c].deleted

MayManage(u, t) == CreatorOf[t] = u \/ u \in Managers \cap members

(* A comment must be there and belong to the task. *)
Lookup(q) ==
    IF ~Visible(q.ref) THEN "not found"
    ELSE IF comments[q.ref].task # q.task
         THEN IF q.op = "comment" THEN "invalid" ELSE "not found"
         ELSE "ok"

LookUp(r) ==
    /\ req[r].pc = "lookup"
    /\ LET q == req[r] IN
       IF q.actor \notin members THEN Answer(r, "forbidden")
       ELSE IF q.ref = None THEN Goto(r, "tx")
       ELSE IF Lookup(q) # "ok" THEN Answer(r, Lookup(q))
       ELSE IF q.op = "comment"
            THEN req' = [req EXCEPT ![r].pc = "tx", ![r].reply = comments[q.ref].author]
       ELSE IF MayManage(q.actor, q.task) THEN Goto(r, "tx")
       ELSE Answer(r, "forbidden")
    /\ UNCHANGED <<tables, cached, overlapped, escaped, faults>>

(* Assignment and status read the task's row and check who asks and whom they ask for. *)
MayUpdate(q) ==
    \/ MayManage(q.actor, q.task)
    \/ q.op = "status" /\ assignee[q.task] = q.actor

ReadTask(r) ==
    /\ req[r].pc = "read"
    /\ LET q == req[r] IN
       IF ~MayUpdate(q) THEN Answer(r, "forbidden")
       ELSE IF q.op = "assign" /\ q.whom \notin members \cup {None} THEN Answer(r, "invalid")
       ELSE IF q.op = "assign" /\ q.whom = assignee[q.task] THEN Answer(r, "ok")
       ELSE GotoSeeing(r, "tx", assignee[q.task])
    /\ UNCHANGED <<tables, cached, overlapped, escaped, faults>>

(* The status asked for is the one the task has. (Which changes are legal: TaskService.) *)
StatusAsIs(r) ==
    /\ req[r].pc = "read" /\ req[r].op = "status" /\ MayUpdate(req[r])
    /\ Answer(r, "ok")
    /\ UNCHANGED <<tables, cached, overlapped, escaped, faults>>

-----------------------------------------------------------------------------
(* The transactions: the change, the activity, the notification and its outbox row *)

Notice(r, u, e) == {[by |-> r, from |-> req[r].actor, to |-> u, event |-> e]}

IsReply(q) == q.ref # None /\ q.reply # q.actor

(* As if the assignee were told as well, and whether it is the one answered not asked. *)
ToldEachForItself(r) ==
    LET q == req[r] IN
    (IF IsReply(q) THEN Notice(r, q.reply, "comment_reply") ELSE {}) \cup
    (IF q.seen \in {None, q.actor} THEN {} ELSE Notice(r, q.seen, "comment_created"))

ToldOfComment(r) ==
    LET q == req[r] IN
    IF IsReply(q) THEN Notice(r, q.reply, "comment_reply")
    ELSE IF q.seen \notin {None, q.actor} THEN Notice(r, q.seen, "comment_created")
    ELSE {}

ToldOfAssignment(r) == IF req[r].whom = None THEN {} ELSE Notice(r, req[r].whom, "task_assigned")

ToldOfStatus(r) ==
    IF req[r].seen \in {None, req[r].actor} THEN {}
    ELSE Notice(r, req[r].seen, "task_status_changed")

Told(r) ==
    CASE req[r].op = "comment" -> ToldOfComment(r)
      [] req[r].op = "assign" -> ToldOfAssignment(r)
      [] req[r].op = "status" -> ToldOfStatus(r)
      [] OTHER -> {}

(* A notification needs the actor's name; and it quotes a comment, some legal ones of which *)
(* are too long for its column.                                                             *)
HasName(r) == Told(r) # {} => req[r].actor \notin Nameless

Refuse(r) ==
    /\ req[r].pc = "tx" /\ Told(r) # {}
    /\ ~HasName(r) \/ req[r].op = "comment"
    /\ Answer(r, "error")
    /\ UNCHANGED <<tables, cached, overlapped, escaped, faults>>

(* A statement of the transaction fails. *)
Rollback(r) ==
    /\ req[r].pc = "tx"
    /\ Fault
    /\ Answer(r, "failed")
    /\ UNCHANGED <<tables, cached, overlapped, escaped>>

(* The transaction is committed, and the service goes on to pc; or the reply is lost, *)
(* and the service takes the transaction for failed.                                  *)
Committed(r, action, pc) ==
    /\ activities' = activities \cup
          {[by |-> r, operator |-> req[r].actor, action |-> action]}
    /\ notifications' = notifications \cup Told(r)
    /\ \/ /\ IF pc = "done" THEN Answer(r, "ok") ELSE Goto(r, pc)
          /\ UNCHANGED <<escaped, faults>>
       \/ /\ Fault
          /\ Answer(r, "failed")
          /\ escaped' = (escaped \/ action = "assigned")
    /\ UNCHANGED <<members, cached, overlapped>>

CommitComment(r) ==
    /\ req[r].pc = "tx" /\ req[r].op = "comment" /\ HasName(r)
    /\ comments' = [comments EXCEPT ![r] =
          [task |-> req[r].task, author |-> req[r].actor, parent |-> req[r].ref,
           replyTo |-> req[r].reply, deleted |-> FALSE, seen |-> req[r].seen,
           current |-> assignee[req[r].task]]]
    /\ Committed(r, "added", "done")
    /\ UNCHANGED assignee

(* As if the statement did not ask whether it is deleted. *)
SoftDeleteAgain(c) == Exists(c)

(* UPDATE ... WHERE deleted_at IS NULL: whether there was something to delete. *)
SoftDelete(c) == Visible(c)

CommitRemove(r) ==
    /\ req[r].pc = "tx" /\ req[r].op = "remove"
    /\ IF SoftDelete(req[r].ref)
       THEN /\ comments' = [comments EXCEPT ![req[r].ref].deleted = TRUE]
            /\ Committed(r, "deleted", "done")
            /\ UNCHANGED assignee
       ELSE /\ Answer(r, "not found")
            /\ UNCHANGED <<tables, cached, overlapped, escaped, faults>>

CommitAssignment(r) ==
    /\ req[r].pc = "tx" /\ req[r].op = "assign" /\ HasName(r)
    /\ assignee' = [assignee EXCEPT ![req[r].task] = req[r].whom]
    /\ Committed(r, "assigned", "evict")
    /\ UNCHANGED comments

CommitStatus(r) ==
    /\ req[r].pc = "tx" /\ req[r].op = "status" /\ HasName(r)
    /\ Committed(r, "status", "evict")
    /\ UNCHANGED <<comments, assignee>>

(* As UpdateTaskBaseInfo does: the details go, the permission info stays. *)
KeepPermissionInfo(t) == cached

(* DeleteTaskAllCache; a deletion that fails is left to a later retry. *)
Uncached(t) == [cached EXCEPT ![t] = Miss]

Evict(r) ==
    /\ req[r].pc = "evict"
    /\ \/ cached' = Uncached(req[r].task) /\ UNCHANGED <<escaped, faults>>
       \/ Fault /\ escaped' = (escaped \/ req[r].op = "assign") /\ UNCHANGED cached
    /\ Answer(r, "ok")
    /\ UNCHANGED <<tables, overlapped>>

-----------------------------------------------------------------------------
(* The rest of the world *)

(* An entry expires, or a deletion is retried. *)
Expire(t) ==
    /\ cached[t] # Miss
    /\ cached' = [cached EXCEPT ![t] = Miss]
    /\ UNCHANGED <<tables, req, overlapped, escaped, faults>>

(* RemoveProjectMember, in one step (ProjectMembers has the steps): the member's tasks   *)
(* lose their assignee, and no task's cache is told. Owner and administrators stay here. *)
RemoveMember(u) ==
    /\ u \in members \ Managers
    /\ members' = members \ {u}
    /\ assignee' = [t \in Tasks |-> IF assignee[t] = u THEN None ELSE assignee[t]]
    /\ escaped' = (escaped \/ assignee' # assignee)
    /\ overlapped' = (overlapped \/ InFlight # {})
    /\ UNCHANGED <<cached, comments, activities, notifications, req, faults>>

Finished ==
    /\ \A r \in Requests : req[r].pc = "done"
    /\ UNCHANGED vars

Serve(r) ==
    \/ CreateTaskComment(r) \/ RemoveTaskComment(r)
    \/ UpdateTaskAssignee(r) \/ UpdateTaskStatus(r)
    \/ Access(r) \/ Load(r) \/ Fill(r) \/ LookUp(r) \/ ReadTask(r) \/ StatusAsIs(r)
    \/ Refuse(r) \/ Rollback(r)
    \/ CommitComment(r) \/ CommitRemove(r) \/ CommitAssignment(r) \/ CommitStatus(r)
    \/ Evict(r)

Next ==
    \/ \E r \in Requests : Serve(r)
    \/ \E t \in Tasks : Expire(t)
    \/ \E u \in Users : RemoveMember(u)
    \/ Finished

Spec == Init /\ [][Next]_vars

-----------------------------------------------------------------------------
(* Properties *)

Written == {c \in Requests : Exists(c)}
Heard(c) == {n \in notifications : n.by = c}

(* A comment is removed once, however many ask for it: a comment is deleted exactly when *)
(* one activity says so, one request may take the credit for it, and the others are told *)
(* there is nothing to remove (RemoveTaskComment, SoftDeleteCommentWithTx).              *)
RemovedOnce ==
    \A c \in {c \in Comments : Exists(c)} :
        LET removals == {r \in Requests : req[r].op = "remove" /\ req[r].ref = c}
            done == {a \in activities : a.action = "deleted" /\ a.by \in removals}
        IN  /\ Cardinality(done) = IF comments[c].deleted THEN 1 ELSE 0
            /\ \A r \in removals : req[r].answer = "ok" => \E a \in done : a.by = r

(* Nobody hears of a comment twice, its author never, and nobody who is neither answered  *)
(* nor, for what CreateTaskComment knows, the assignee. An answer is heard of by who wrote *)
(* the comment it answers, in the same discussion, also when that comment was removed      *)
(* meanwhile (the transaction of CreateTaskComment).                                       *)
HeardOnce ==
    \A c \in Written :
        LET row == comments[c] IN
        /\ \A n, m \in Heard(c) : n.to = m.to => n = m
        /\ \A n \in Heard(c) : n.to \in {row.replyTo, row.seen} \ {None, row.author}
        /\ row.parent # None =>
              /\ Exists(row.parent) /\ comments[row.parent].task = row.task
              /\ row.replyTo = comments[row.parent].author
        /\ row.replyTo \notin {None, row.author} => \E n \in Heard(c) : n.to = row.replyTo

(* The assignee CreateTaskComment knows comes from a cache, which a change of assignee    *)
(* deletes. Unless requests ran together, or a change could not tell the cache, a comment *)
(* that answers nobody else is heard of by the assignee of the moment, by nobody when     *)
(* there is none.                                                                         *)
ToldIsCurrent ==
    \A c \in Written :
        LET row == comments[c] IN
        ~overlapped /\ ~escaped /\ row.replyTo \in {None, row.author} =>
            {n.to : n \in Heard(c)} = {row.current} \ {None, row.author}
=============================================================================
