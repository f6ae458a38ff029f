--------------------------- MODULE ProjectMembers ---------------------------
(***************************************************************************)
(* The members of one project, their roles and the assignee of one task    *)
(* (ProjectMemberService and TaskService.UpdateTaskAssignee).              *)
(*                                                                         *)
(* Every request decides on roles it reads through the Redis role cache,   *)
(* before its transaction and under no lock; the transaction then updates  *)
(* the rows by key, and the cached roles are deleted after the commit.     *)
(* The model keeps those reads, the load and the fill of the cache, the    *)
(* transaction and each deletion as steps of their own, so that requests   *)
(* interleave at every one of them.  A request that joins another one's    *)
(* singleflight gets the value that one loads, which is the same as having *)
(* started its own load then.  Users and the project exist throughout, so  *)
(* the lookups that check this are left out.                               *)
(*                                                                         *)
(* A transaction is one step: its statements lock the rows they write until *)
(* the commit and write constants.  It may fail and roll back, or commit    *)
(* and have its reply lost.                                                 *)
(***************************************************************************)
EXTENDS Integers, FiniteSets

CONSTANTS
    Users,       \* users of the platform
    Requests,    \* requests the servers handle at the same time
    NoUser,      \* the NULL of assignee_id
    AdminCount,  \* most administrators a project may have
    MaxStarts,   \* bound: requests started in a behaviour
    MaxOverlap,  \* bound: the requests after these many start alone
    MaxFaults    \* bound: lost replies, failed reads and deletions of the cache

ASSUME MembersAssumption ==
    /\ IsFiniteSet(Users)
    /\ IsFiniteSet(Requests)
    /\ NoUser \notin Users
    /\ AdminCount \in Nat
    /\ MaxStarts \in Nat
    /\ MaxOverlap \in Nat
    /\ MaxFaults \in Nat

Roles == {"owner", "admin", "member"}

(* Privilege levels: 0 is the highest. *)
RoleLevel == [owner |-> 0, admin |-> 1, member |-> 2]

(* A (project, user) row: none, soft-deleted, or live with its role. *)
Rows == Roles \cup {"none", "deleted"}

(* A cached role: absent, the null marker of "not a member", or a role. *)
CachedRoles == Roles \cup {"absent", "null"}

VARIABLES
    row,       \* user -> project_members row
    ownerID,   \* projects.owner_id
    assignee,  \* tasks.assignee_id
    creator,   \* tasks.creator_id
    cached,    \* user -> entry of the role cache
    req,       \* request -> what its handler holds
    starts,    \* requests started so far
    faults,    \* lost replies and failed cache calls so far
    peak       \* most requests in flight at once so far

vars == <<row, ownerID, assignee, creator, cached, req, starts, faults, peak>>

-----------------------------------------------------------------------------

Members == {u \in Users : row[u] \in Roles}

Admins == {u \in Users : row[u] = "admin"}

Owners == {u \in Users : row[u] = "owner"}

(* What a role query returns for a row: a role, or not found. *)
RoleOf(r) == IF r \in Roles THEN r ELSE "null"

(* The handler's locals.  load is what it read from the database and has  *)
(* not cached yet; seen is the soft-deleted row AddProjectMember found, or *)
(* the assignee UpdateTaskAssignee found.                                  *)
Idle == [pc |-> "idle", op |-> "none", actor |-> NoUser, target |-> NoUser,
         wanted |-> "none", actorRole |-> "null", targetRole |-> "null",
         load |-> "absent", seen |-> "none", ok |-> FALSE]

InFlight == {q \in Requests : req[q].pc # "idle"}

Finish(q) == req' = [req EXCEPT ![q] = Idle]

Goto(q, r, pc) == req' = [req EXCEPT ![q] = [r EXCEPT !.pc = pc]]

NoFault == UNCHANGED faults

Fault ==
    /\ faults < MaxFaults
    /\ faults' = faults + 1

-----------------------------------------------------------------------------
(* Starting a request.  CreateProject has made its creator the owner; the  *)
(* other rows are what one request after another can have left.            *)

Init ==
    /\ \E founder \in Users :
        /\ row \in [Users -> Rows \ {"owner"}] \cup
                   {[r EXCEPT ![founder] = "owner"] :
                        r \in [Users -> Rows \ {"owner"}]}
        /\ Owners = {founder}
        /\ ownerID = founder
        /\ creator = founder
    /\ Cardinality(Admins) <= AdminCount
    /\ assignee = NoUser
    /\ cached = [u \in Users |-> "absent"]
    /\ req = [q \in Requests |-> Idle]
    /\ starts = 0
    /\ faults = 0
    /\ peak = 0

Start(q, r) ==
    /\ req[q].pc = "idle"
    /\ starts < MaxStarts
    /\ starts < MaxOverlap \/ InFlight = {}
    /\ starts' = starts + 1
    /\ req' = [req EXCEPT ![q] = r]
    /\ peak' = IF Cardinality(InFlight) + 1 > peak
               THEN Cardinality(InFlight) + 1 ELSE peak
    /\ UNCHANGED <<row, ownerID, assignee, creator, cached, faults>>

(* AddProjectMember: owner is not a role one can be added with. *)
StartAdd(q) ==
    \E a, t \in Users, w \in Roles \ {"owner"} :
        Start(q, [Idle EXCEPT !.pc = "actor", !.op = "add", !.actor = a,
                              !.target = t, !.wanted = w])

(* UpdateProjectMember. *)
StartUpdate(q) ==
    \E a, t \in Users, w \in Roles :
        Start(q, [Idle EXCEPT !.pc = "actor", !.op = "update", !.actor = a,
                              !.target = t, !.wanted = w])

(* RemoveProjectMember. *)
StartRemove(q) ==
    \E a, t \in Users :
        Start(q, [Idle EXCEPT !.pc = "actor", !.op = "remove", !.actor = a,
                              !.target = t])

(* UpdateTaskAssignee: the task is read first; its creator needs no role,  *)
(* clearing the assignee needs no member, and an assignee who stays the    *)
(* same is not written (answered at once when nothing is left to check).   *)
StartAssign(q) ==
    \E a \in Users, t \in Users \cup {NoUser} :
        /\ a = creator /\ t = NoUser => assignee # NoUser
        /\ Start(q, [Idle EXCEPT
              !.pc = CASE a # creator -> "actor"
                       [] a = creator /\ t = NoUser -> "commit"
                       [] OTHER -> "target",
              !.op = "assign", !.actor = a, !.target = t,
              !.seen = IF assignee = t THEN "same" ELSE "other"])

-----------------------------------------------------------------------------
(* GetProjectMemberRole: the cache, then the database, then the cache again. *)

(* Whose role the handler is after. *)
Sought(r) == IF r.pc = "actor" THEN r.actor ELSE r.target

(* hasProjectManagePermission, the invitor's level, or plain membership:   *)
(* what the actor's role alone already decides.                            *)
ActorMay(r, role) ==
    /\ role \in Roles
    /\ r.op = "add" => RoleLevel[role] < RoleLevel[r.wanted]
    /\ r.op = "assign" => role \in {"owner", "admin"}

AfterActor(r, role) ==
    LET clears == r.op = "assign" /\ r.target = NoUser
    IN  IF ~ActorMay(r, role) \/ (clears /\ r.seen = "same") THEN Idle
        ELSE [r EXCEPT !.actorRole = role, !.load = "absent",
                       !.pc = IF clears THEN "commit" ELSE "target"]


(* As if administrators could set roles as well. *)
UpdateAllowedToAdmins(r, role) ==
    /\ role \in Roles
    /\ r.actorRole \in {"owner", "admin"}
    /\ r.wanted # role
    /\ ~(r.actor = r.target /\ r.wanted # "owner")
    /\ ~(r.wanted = "member" /\ role = "owner")

(* The checks of UpdateProjectMember once both roles are known. *)
UpdateAllowed(r, role) ==
    /\ role \in Roles
    /\ r.actorRole = "owner"
    /\ r.wanted # role
    /\ ~(r.actor = r.target /\ r.wanted # "owner")
    /\ ~(r.wanted = "member" /\ role = "owner")

(* The checks of RemoveProjectMember once both roles are known. *)
RemoveAllowed(r, role) ==
    /\ role \in Roles
    /\ r.actor # r.target
    /\ role # "owner"
    /\ RoleLevel[r.actorRole] < RoleLevel[role]

TargetAllowed(r, role) ==
    CASE r.op = "add"    -> role = "null"
      [] r.op = "update" -> UpdateAllowed(r, role)
      [] r.op = "remove" -> RemoveAllowed(r, role)
      [] r.op = "assign" -> role \in Roles /\ r.seen = "other"

AfterTarget(r, role) ==
    IF ~TargetAllowed(r, role) THEN Idle
    ELSE [r EXCEPT !.targetRole = role, !.load = "absent",
                   !.pc = CASE r.op = "add" -> "lookup"
                            [] r.op = "update" /\ r.wanted = "admin" -> "count"
                            [] OTHER -> "commit"]

Learn(q, role) ==
    LET r == req[q]
    IN  req' = [req EXCEPT ![q] = IF r.pc = "actor" THEN AfterActor(r, role)
                                  ELSE AfterTarget(r, role)]

Seeking(q) == req[q].pc \in {"actor", "target"}

ReadCached(q) ==
    /\ Seeking(q)
    /\ req[q].load = "absent"
    /\ cached[Sought(req[q])] # "absent"
    /\ Learn(q, cached[Sought(req[q])])
    /\ UNCHANGED <<row, ownerID, assignee, creator, cached, starts, faults, peak>>

(* A Get that fails is a miss. *)
LoadRole(q) ==
    /\ Seeking(q)
    /\ req[q].load = "absent"
    /\ IF cached[Sought(req[q])] = "absent" THEN NoFault ELSE Fault
    /\ req' = [req EXCEPT ![q].load = RoleOf(row[Sought(req[q])])]
    /\ UNCHANGED <<row, ownerID, assignee, creator, cached, starts, peak>>

(* SetRole or SetRoleNull, whatever has happened to the row since. *)
FillCache(q) ==
    /\ Seeking(q)
    /\ req[q].load # "absent"
    /\ cached' = [cached EXCEPT ![Sought(req[q])] = req[q].load]
    /\ Learn(q, req[q].load)
    /\ UNCHANGED <<row, ownerID, assignee, creator, starts, faults, peak>>

-----------------------------------------------------------------------------
(* Reads that bypass the cache. *)

(* AddProjectMember looks for a soft-deleted row of the invited user. *)
LookupRow(q) ==
    /\ req[q].pc = "lookup"
    /\ IF row[req[q].target] \in Roles THEN Finish(q)
       ELSE Goto(q, [req[q] EXCEPT !.seen = row[req[q].target]],
                 IF req[q].wanted = "admin" THEN "count" ELSE "commit")
    /\ UNCHANGED <<row, ownerID, assignee, creator, cached, starts, faults, peak>>


(* As if the limit were compared with > . *)
CountAdminsOneMore(q) ==
    /\ req[q].pc = "count"
    /\ IF Cardinality(Admins) > AdminCount THEN Finish(q)
       ELSE Goto(q, req[q], "commit")
    /\ UNCHANGED <<row, ownerID, assignee, creator, cached, starts, faults, peak>>

(* The limit on administrators, counted before the transaction. *)
CountAdmins(q) ==
    /\ req[q].pc = "count"
    /\ IF Cardinality(Admins) >= AdminCount THEN Finish(q)
       ELSE Goto(q, req[q], "commit")
    /\ UNCHANGED <<row, ownerID, assignee, creator, cached, starts, faults, peak>>

-----------------------------------------------------------------------------
(* The transactions: what each would leave, and whether its statements      *)
(* accept the rows they find.                                               *)

(* UpdateProjectMemberRole touches a live row only and does not mind none. *)
WithRole(rows, u, role) ==
    IF rows[u] \in Roles THEN [rows EXCEPT ![u] = role] ELSE rows

TransferOwner(r) ==
    LET promoted == WithRole(row, r.target, "owner")
    IN  IF r.actor = r.target THEN promoted
        ELSE WithRole(promoted, r.actor, "member")


(* As if the restore did not ask for deleted_at to be set. *)
TxAcceptsAnyRow(r) ==
    CASE r.op = "add"    -> r.seen = "deleted" \/ row[r.target] = "none"
      [] r.op = "remove" -> row[r.target] \in Roles
      [] OTHER           -> TRUE

(* RestoreProjectMemberWithTx wants the row deleted, CreateWithTx no row. *)
TxAccepts(r) ==
    CASE r.op = "add"    -> row[r.target] = r.seen
      [] r.op = "remove" -> row[r.target] \in Roles
      [] OTHER           -> TRUE

RowsAfter(r) ==
    CASE r.op = "add"    -> [row EXCEPT ![r.target] = r.wanted]
      [] r.op = "remove" -> [row EXCEPT ![r.target] = "deleted"]
      [] r.op = "update" -> IF r.wanted = "owner" THEN TransferOwner(r)
                            ELSE WithRole(row, r.target, r.wanted)
      [] r.op = "assign" -> row


(* As if a removal left the tasks of the removed member alone. *)
AssigneeAfterKeeping(r) == IF r.op = "assign" THEN r.target ELSE assignee

(* ClearTaskAssigneeByProjectIDAndAssigneeIDWithTx goes with a removal. *)
AssigneeAfter(r) ==
    CASE r.op = "assign" -> r.target
      [] r.op = "remove" /\ assignee = r.target -> NoUser
      [] OTHER -> assignee

Write(r) ==
    /\ TxAccepts(r)
    /\ row' = RowsAfter(r)
    /\ ownerID' = IF r.op = "update" /\ r.wanted = "owner"
                  THEN r.target ELSE ownerID
    /\ assignee' = AssigneeAfter(r)


(* As if a transfer left the modifier's cached role alone. *)
AfterTxKeepingModifier(r, ok) ==
    IF ok /\ r.op \in {"update", "remove"}
    THEN [r EXCEPT !.pc = "evictTarget", !.ok = ok]
    ELSE Idle

(* As if only updates deleted the target's cached role. *)
AfterTxKeepingRemoved(r, ok) ==
    IF r.op = "update" /\ r.wanted = "owner"
    THEN [r EXCEPT !.pc = "evictActor", !.ok = ok]
    ELSE IF ok /\ r.op = "update"
         THEN [r EXCEPT !.pc = "evictTarget", !.ok = ok]
         ELSE Idle

(* Where the handler goes once the transaction returned: a transfer deletes *)
(* the modifier's cached role whether it worked or not, an addition deletes *)
(* none.                                                                    *)
AfterTx(r, ok) ==
    IF r.op = "update" /\ r.wanted = "owner"
    THEN [r EXCEPT !.pc = "evictActor", !.ok = ok]
    ELSE IF ok /\ r.op \in {"update", "remove"}
         THEN [r EXCEPT !.pc = "evictTarget", !.ok = ok]
         ELSE Idle

Commit(q) ==
    /\ req[q].pc = "commit"
    /\ Write(req[q])
    /\ req' = [req EXCEPT ![q] = AfterTx(req[q], TRUE)]
    /\ UNCHANGED <<creator, cached, starts, faults, peak>>

CommitReplyLost(q) ==
    /\ req[q].pc = "commit"
    /\ Write(req[q])
    /\ Fault
    /\ req' = [req EXCEPT ![q] = AfterTx(req[q], FALSE)]
    /\ UNCHANGED <<creator, cached, starts, peak>>

Rollback(q) ==
    /\ req[q].pc = "commit"
    /\ req' = [req EXCEPT ![q] = AfterTx(req[q], FALSE)]
    /\ UNCHANGED <<row, ownerID, assignee, creator, cached, starts, faults, peak>>

-----------------------------------------------------------------------------
(* Deleting cached roles after the transaction. *)

EvictActor(q) ==
    /\ req[q].pc = "evictActor"
    /\ \/ NoFault /\ cached' = [cached EXCEPT ![req[q].actor] = "absent"]
       \/ Fault /\ UNCHANGED cached
    /\ IF req[q].ok THEN Goto(q, req[q], "evictTarget") ELSE Finish(q)
    /\ UNCHANGED <<row, ownerID, assignee, creator, starts, peak>>

EvictTarget(q) ==
    /\ req[q].pc = "evictTarget"
    /\ \/ NoFault /\ cached' = [cached EXCEPT ![req[q].target] = "absent"]
       \/ Fault /\ UNCHANGED cached
    /\ Finish(q)
    /\ UNCHANGED <<row, ownerID, assignee, creator, starts, peak>>

(* An entry reaches its TTL, a retried deletion removes it late, or the Set *)
(* that should have stored it failed.                                      *)
Expire(u) ==
    /\ cached[u] # "absent"
    /\ cached' = [cached EXCEPT ![u] = "absent"]
    /\ UNCHANGED <<row, ownerID, assignee, creator, req, starts, faults, peak>>

-----------------------------------------------------------------------------

Next ==
    \/ \E q \in Requests :
        \/ StartAdd(q) \/ StartUpdate(q) \/ StartRemove(q) \/ StartAssign(q)
        \/ ReadCached(q) \/ LoadRole(q) \/ FillCache(q)
        \/ LookupRow(q) \/ CountAdmins(q)
        \/ Commit(q) \/ CommitReplyLost(q) \/ Rollback(q)
        \/ EvictActor(q) \/ EvictTarget(q)
    \/ \E u \in Users : Expire(u)

Spec == Init /\ [][Next]_vars
-----------------------------------------------------------------------------
(* Properties *)

Request == [pc : {"idle", "actor", "target", "lookup", "count", "commit",
                  "evictActor", "evictTarget"},
            op : {"none", "add", "update", "remove", "assign"},
            actor : Users \cup {NoUser}, target : Users \cup {NoUser},
            wanted : Roles \cup {"none"},
            actorRole : CachedRoles, targetRole : CachedRoles,
            load : CachedRoles,
            seen : Rows \cup {"same", "other"}, ok : BOOLEAN]

(* The variables have their types. *)
TypeOK ==
    /\ row \in [Users -> Rows]
    /\ ownerID \in Users
    /\ assignee \in Users \cup {NoUser}
    /\ creator \in Users
    /\ cached \in [Users -> CachedRoles]
    /\ req \in [Requests -> Request]
    /\ starts \in 0 .. MaxStarts
    /\ faults \in 0 .. MaxFaults
    /\ peak \in 0 .. Cardinality(Requests)

(* No two requests have overlapped, no reply was lost, no cache call failed. *)
Serial == peak <= 1 /\ faults = 0

(* As long as requests do not overlap and every cached role is deleted when *)
(* it changes, the project has exactly one owner, the one projects.owner_id *)
(* names.  Ownership is transferred on a role read from the cache, so a     *)
(* stale entry for the former owner would be enough to make a second one.   *)
OneOwner == Serial => Owners = {ownerID}

(* Overlapping requests exceed the limit on administrators by at most one   *)
(* for every request that ran beside the others: each of them counted       *)
(* before it wrote.  Without overlap the limit is exact.                    *)
AdminsBounded ==
    peak >= 1 => Cardinality(Admins) <= AdminCount + peak - 1

(* Without overlap a cached role is the role of the row, except between the *)
(* commit that changed it and the deletion that follows.                    *)
CachedRoleIsCurrent ==
    Serial => \A u \in Users :
        cached[u] \in Roles =>
            \/ cached[u] = row[u]
            \/ \E q \in Requests : req[q].pc \in {"evictActor", "evictTarget"}

(* Without overlap the task is never assigned to somebody who is not a      *)
(* member: the removal clears the assignee in its transaction and makes     *)
(* later assignments see that the member has left.                          *)
AssigneeIsMember ==
    Serial => assignee \in Members \cup {NoUser}

(* An invitation never changes the role of somebody who is a member already, *)
(* whatever requests overlap: a member's role changes by an update only, or  *)
(* ends with a removal.  AddProjectMember decides on rows it read earlier;   *)
(* the unique index and the condition on deleted_at must catch what happened *)
(* since.                                                                    *)
OnlyUpdatesChangeRoles ==
    [][\A u \in Users :
          (row[u] \in Roles /\ row'[u] # row[u]) =>
             \E q \in Requests :
                /\ req[q].pc = "commit"
                /\ req'[q].pc # "commit"
                /\ \/ req[q].op = "remove" /\ req[q].target = u
                   \/ /\ req[q].op = "update"
                      /\ row'[u] \in Roles
                      /\ u \in {req[q].actor, req[q].target}]_vars

(* Without overlap every transaction is written on the authority its actor   *)
(* has when it commits: an update by the owner, a removal by somebody above  *)
(* the removed member, an invitation by somebody above the role it grants.   *)
AuthorityIsCurrent ==
    [][\A q \in Requests :
          (/\ Serial
           /\ req[q].pc = "commit"
           /\ row' # row) =>
             LET actor == row[req[q].actor]
             IN  /\ actor \in Roles
                 /\ req[q].op = "update" => actor = "owner"
                 /\ req[q].op = "remove" =>
                        RoleLevel[actor] < RoleLevel[row[req[q].target]]
                 /\ req[q].op = "add" =>
                        RoleLevel[actor] < RoleLevel[req[q].wanted]]_vars

(* A removal never takes the last owner away.  RemoveProjectMember says of   *)
(* its checks of the two roles: "this also guarantees that one owner is      *)
(* always left".                                                             *)
RemovalKeepsAnOwner ==
    [][\A q \in Requests :
          (/\ req[q].op = "remove" /\ req[q].pc = "commit"
           /\ row' # row
           /\ Owners # {}) => Owners' # {}]_vars
=============================================================================
