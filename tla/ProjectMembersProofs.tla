------------------------ MODULE ProjectMembersProofs ------------------------
(***************************************************************************)
(* What holds of the members of a project for any users and any number of  *)
(* requests at a time: types, the bound on administrators, what may change *)
(* a member's role, and, as long as requests do not overlap, that there is *)
(* one owner, that cached roles are current, that the assignee is a member *)
(* and that every change is made on the authority its actor has.           *)
(***************************************************************************)
EXTENDS ProjectMembers, FiniteSetTheorems, TLAPS

Ops == {"add", "update", "remove", "assign"}

(* What a request can hold, given where it is. *)
Shaped(r) ==
    /\ r \in Request
    /\ r.pc # "idle" => r.op \in Ops /\ r.actor \in Users
    /\ r.pc # "idle" /\ r.op # "assign" => r.target \in Users
    /\ r.pc = "target" => r.target \in Users
    /\ r.op = "add" => r.wanted \in {"admin", "member"}
    /\ r.op = "update" => r.wanted \in Roles
    /\ r.op \in {"remove", "assign"} => r.wanted = "none"
    /\ r.pc = "lookup" => r.op = "add"
    /\ r.pc = "count" => r.op \in {"add", "update"}
    /\ r.pc \in {"count", "commit"} /\ r.op = "add" => r.seen \in {"none", "deleted"}
    /\ r.pc = "evictActor" => r.op = "update" /\ r.wanted = "owner"
    /\ r.pc = "evictTarget" => r.op \in {"update", "remove"}

ReqTyped == req \in [Requests -> Request] /\ \A q \in Requests : Shaped(req[q])

RowsTyped ==
    /\ row \in [Users -> Rows]
    /\ ownerID \in Users
    /\ assignee \in Users \cup {NoUser}
    /\ creator \in Users

CacheTyped == cached \in [Users -> CachedRoles]

CountsTyped == starts \in 0 .. MaxStarts /\ faults \in 0 .. MaxFaults

(* peak counts the requests in flight. *)
PeakInv ==
    /\ peak \in 0 .. Cardinality(Requests)
    /\ Cardinality(InFlight) <= peak

Typed == ReqTyped /\ RowsTyped /\ CacheTyped /\ CountsTyped /\ PeakInv

-----------------------------------------------------------------------------
(* Requests *)

(* No request holds nothing. *)
LEMMA IdleShaped == Shaped(Idle) /\ Idle.pc = "idle"
  BY DEF Shaped, Request, Idle, Roles, CachedRoles, Rows, Ops

(* What a request is about does not change. *)
Kept(n, r) ==
    /\ n \in Request
    /\ n.op = r.op /\ n.actor = r.actor /\ n.target = r.target /\ n.wanted = r.wanted

(* What a request learns of its actor, *)
LEMMA AfterActorIs ==
  ASSUME NEW r \in Request, NEW role \in Roles \cup {"null"}, AfterActor(r, role) # Idle
  PROVE  LET n == AfterActor(r, role)
         IN  /\ Kept(n, r) /\ n.seen = r.seen
             /\ ActorMay(r, role) /\ n.actorRole = role /\ n.load = "absent"
             /\ IF r.op = "assign" /\ r.target = NoUser THEN n.pc = "commit" ELSE n.pc = "target"
  <1>1. ASSUME NEW pc \in {"commit", "target"},
               AfterActor(r, role) = [r EXCEPT !.actorRole = role, !.load = "absent", !.pc = pc]
        PROVE  LET n == AfterActor(r, role)
               IN  Kept(n, r) /\ n.seen = r.seen /\ n.actorRole = role /\ n.load = "absent" /\ n.pc = pc
    <2>1. role \in CachedRoles /\ "absent" \in CachedRoles
      BY DEF CachedRoles
    <2>2. QED
      BY <1>1, <2>1 DEF Request, Kept
  <1>2. QED
    BY <1>1 DEF AfterActor

(* and of its target. *)
LEMMA AfterTargetIs ==
  ASSUME NEW r \in Request, NEW role \in Roles \cup {"null"}, AfterTarget(r, role) # Idle
  PROVE  LET n == AfterTarget(r, role)
         IN  /\ Kept(n, r) /\ n.seen = r.seen /\ n.actorRole = r.actorRole
             /\ TargetAllowed(r, role) /\ n.targetRole = role /\ n.load = "absent"
             /\ n.pc = CASE r.op = "add" -> "lookup"
                         [] r.op = "update" /\ r.wanted = "admin" -> "count"
                         [] OTHER -> "commit"
  <1>1. ASSUME NEW pc \in {"lookup", "count", "commit"},
               AfterTarget(r, role) = [r EXCEPT !.targetRole = role, !.load = "absent", !.pc = pc]
        PROVE  LET n == AfterTarget(r, role)
               IN  /\ Kept(n, r) /\ n.seen = r.seen /\ n.actorRole = r.actorRole
                   /\ n.targetRole = role /\ n.load = "absent" /\ n.pc = pc
    <2>1. role \in CachedRoles /\ "absent" \in CachedRoles
      BY DEF CachedRoles
    <2>2. QED
      BY <1>1, <2>1 DEF Request, Kept
  <1>2. QED
    BY <1>1 DEF AfterTarget

(* Where it goes after its transaction. *)
LEMMA AfterTxIs ==
  ASSUME NEW r \in Request, NEW ok \in BOOLEAN, AfterTx(r, ok) # Idle
  PROVE  LET n == AfterTx(r, ok)
         IN  /\ Kept(n, r) /\ n.ok = ok
             /\ IF r.op = "update" /\ r.wanted = "owner" THEN n.pc = "evictActor"
                ELSE ok /\ r.op \in {"update", "remove"} /\ n.pc = "evictTarget"
  <1>1. ASSUME NEW pc \in {"evictActor", "evictTarget"}, AfterTx(r, ok) = [r EXCEPT !.pc = pc, !.ok = ok]
        PROVE  LET n == AfterTx(r, ok)
               IN  Kept(n, r) /\ n.ok = ok /\ n.pc = pc
    BY <1>1 DEF Request, Kept
  <1>2. QED
    BY <1>1 DEF AfterTx

(* A request starts with what it was asked. *)
LEMMA StartIs ==
  ASSUME NEW q \in Requests, StartAdd(q) \/ StartUpdate(q) \/ StartRemove(q) \/ StartAssign(q)
  PROVE  \E r \in Request :
            /\ Start(q, r) /\ Shaped(r) /\ r.load = "absent"
            /\ \/ r.pc = "actor"
               \/ r.pc = "target" /\ r.op = "assign"
               \/ r.pc = "commit" /\ r.op = "assign" /\ r.target = NoUser
  <1>i. Idle \in Request
    BY IdleShaped DEF Shaped
  <1>1. ASSUME NEW a \in Users, NEW t \in Users, NEW op \in {"add", "update"}, NEW w \in Roles,
               op = "add" => w \in {"admin", "member"},
               Start(q, [Idle EXCEPT !.pc = "actor", !.op = op, !.actor = a, !.target = t, !.wanted = w])
        PROVE  \E r \in Request : Start(q, r) /\ Shaped(r) /\ r.load = "absent" /\ r.pc = "actor"
    <2> DEFINE r == [Idle EXCEPT !.pc = "actor", !.op = op, !.actor = a, !.target = t, !.wanted = w]
    <2>1. /\ r \in Request /\ r.pc = "actor" /\ r.op = op /\ r.actor = a /\ r.target = t /\ r.wanted = w
          /\ r.load = "absent"
      BY <1>i DEF Request, Idle
    <2>2. Shaped(r)
      BY <1>1, <2>1 DEF Shaped, Ops
    <2>3. QED
      BY <1>1, <2>1, <2>2
  <1>2. ASSUME NEW a \in Users, NEW t \in Users \cup {NoUser}, NEW pc \in {"actor", "commit", "target"},
               NEW seen \in {"same", "other"},
               pc = "target" => t \in Users, pc = "commit" => t = NoUser,
               Start(q, [Idle EXCEPT !.pc = pc, !.op = "assign", !.actor = a, !.target = t, !.seen = seen])
        PROVE  \E r \in Request : /\ Start(q, r) /\ Shaped(r) /\ r.load = "absent" /\ r.op = "assign"
                                  /\ r.pc \in {"actor", "target"} \/ (r.pc = "commit" /\ r.target = NoUser)
    <2> DEFINE r == [Idle EXCEPT !.pc = pc, !.op = "assign", !.actor = a, !.target = t, !.seen = seen]
    <2>1. /\ r \in Request /\ r.pc = pc /\ r.op = "assign" /\ r.actor = a /\ r.target = t
          /\ r.wanted = "none" /\ r.load = "absent"
      BY <1>i DEF Request, Idle
    <2>2. Shaped(r)
      BY <1>2, <2>1 DEF Shaped, Ops
    <2>3. QED
      BY <1>2, <2>1, <2>2
  <1>3. CASE StartAdd(q)
    <2>1. Roles \ {"owner"} = {"admin", "member"}
      BY DEF Roles
    <2>2. PICK a, t \in Users, w \in {"admin", "member"} :
             Start(q, [Idle EXCEPT !.pc = "actor", !.op = "add", !.actor = a, !.target = t, !.wanted = w])
      BY <1>3, <2>1 DEF StartAdd
    <2>3. w \in Roles
      BY DEF Roles
    <2>4. QED
      BY <1>1, <2>2, <2>3
  <1>4. CASE StartUpdate(q)
    <2>1. PICK a, t \in Users, w \in Roles :
             Start(q, [Idle EXCEPT !.pc = "actor", !.op = "update", !.actor = a, !.target = t, !.wanted = w])
      BY <1>4 DEF StartUpdate
    <2>2. QED
      BY <1>1, <2>1
  <1>5. CASE StartRemove(q)
    <2>1. PICK a, t \in Users :
             Start(q, [Idle EXCEPT !.pc = "actor", !.op = "remove", !.actor = a, !.target = t])
      BY <1>5 DEF StartRemove
    <2> DEFINE r == [Idle EXCEPT !.pc = "actor", !.op = "remove", !.actor = a, !.target = t]
    <2>2. /\ r \in Request /\ r.pc = "actor" /\ r.op = "remove" /\ r.actor = a /\ r.target = t
          /\ r.wanted = "none" /\ r.load = "absent"
      BY <1>i DEF Request, Idle
    <2>3. Shaped(r)
      BY <2>2 DEF Shaped, Ops
    <2>4. QED
      BY <2>1, <2>2, <2>3
  <1>6. CASE StartAssign(q)
    BY <1>2, <1>6 DEF StartAssign
  <1>7. QED
    BY <1>3, <1>4, <1>5, <1>6

(* Whose role is sought. *)
LEMMA SoughtIsUser ==
  ASSUME NEW r, Shaped(r), r.pc \in {"actor", "target"}
  PROVE  Sought(r) \in Users
  BY DEF Shaped, Sought

(* What is learned keeps the request in shape. *)
LEMMA LearnShaped ==
  ASSUME NEW r, Shaped(r), r.pc \in {"actor", "target"}, NEW role \in Roles \cup {"null"}
  PROVE  Shaped(IF r.pc = "actor" THEN AfterActor(r, role) ELSE AfterTarget(r, role))
  <1>r. r \in Request /\ r.target \in Users \cup {NoUser} /\ r.op \in Ops /\ r.actor \in Users
    BY DEF Shaped, Request
  <1>1. CASE r.pc = "actor" /\ AfterActor(r, role) # Idle
    <2> DEFINE n == AfterActor(r, role)
    <2>1. /\ Kept(n, r) /\ n.seen = r.seen
          /\ IF r.op = "assign" /\ r.target = NoUser THEN n.pc = "commit" ELSE n.pc = "target"
      BY <1>r, <1>1, AfterActorIs
    <2> HIDE DEF n
    <2>2. Shaped(n)
      BY <1>r, <1>1, <2>1 DEF Shaped, Kept, Ops
    <2>3. QED
      BY <1>1, <2>2 DEF n
  <1>2. CASE r.pc = "target" /\ AfterTarget(r, role) # Idle
    <2> DEFINE n == AfterTarget(r, role)
    <2>1. /\ Kept(n, r) /\ n.seen = r.seen
          /\ n.pc = CASE r.op = "add" -> "lookup"
                      [] r.op = "update" /\ r.wanted = "admin" -> "count"
                      [] OTHER -> "commit"
      BY <1>r, <1>2, AfterTargetIs
    <2> HIDE DEF n
    <2>2. Shaped(n)
      BY <1>r, <1>2, <2>1 DEF Shaped, Kept, Ops
    <2>3. QED
      BY <1>2, <2>2 DEF n
  <1>3. QED
    BY <1>1, <1>2, IdleShaped

(* So does the end of its transaction. *)
LEMMA AfterTxShaped ==
  ASSUME NEW r, Shaped(r), r.pc = "commit", NEW ok \in BOOLEAN
  PROVE  Shaped(AfterTx(r, ok))
  <1>1. CASE AfterTx(r, ok) # Idle
    <2> DEFINE n == AfterTx(r, ok)
    <2>1. /\ Kept(n, r)
          /\ IF r.op = "update" /\ r.wanted = "owner" THEN n.pc = "evictActor"
             ELSE r.op \in {"update", "remove"} /\ n.pc = "evictTarget"
      BY <1>1, AfterTxIs DEF Shaped
    <2> HIDE DEF n
    <2>2. Shaped(n)
      BY <2>1 DEF Shaped, Kept, Ops
    <2>3. QED
      BY <2>2 DEF n
  <1>2. QED
    BY <1>1, IdleShaped

(* A cached role that is there. *)
LEMMA CachedRoleIs == \A c \in CachedRoles : c # "absent" => c \in Roles \cup {"null"}
  BY DEF CachedRoles

(* What every step but a start does to its own request, and to no other. *)
LEMMA StepShaped ==
  ASSUME ReqTyped, CacheTyped, RowsTyped, NEW q \in Requests,
         \/ ReadCached(q) \/ LoadRole(q) \/ FillCache(q) \/ LookupRow(q) \/ CountAdmins(q)
         \/ Commit(q) \/ CommitReplyLost(q) \/ Rollback(q) \/ EvictActor(q) \/ EvictTarget(q)
  PROVE  \E r \in Request : Shaped(r) /\ req' = [req EXCEPT ![q] = r]
  <1> DEFINE old == req[q]
  <1>r. old \in Request /\ Shaped(old) /\ Idle \in Request /\ Shaped(Idle)
    BY IdleShaped DEF ReqTyped, Shaped
  <1>s. \A r : Shaped(r) => r \in Request
    BY DEF Shaped
  <1>1. ASSUME NEW role \in Roles \cup {"null"}, Learn(q, role), Seeking(q)
        PROVE  \E r \in Request : Shaped(r) /\ req' = [req EXCEPT ![q] = r]
    BY <1>1, <1>r, <1>s, LearnShaped DEF Learn, Seeking
  <1>2. CASE ReadCached(q)
    <2>1. Seeking(q) /\ Learn(q, cached[Sought(old)]) /\ cached[Sought(old)] # "absent"
      BY <1>2 DEF ReadCached
    <2>2. cached[Sought(old)] \in Roles \cup {"null"}
      BY <1>r, <2>1, SoughtIsUser, CachedRoleIs DEF Seeking, CacheTyped
    <2>3. QED
      BY <1>1, <2>1, <2>2
  <1>3. CASE FillCache(q)
    <2>1. Seeking(q) /\ Learn(q, old.load) /\ old.load # "absent" /\ old.load \in CachedRoles
      BY <1>3, <1>r DEF FillCache, Request
    <2>2. QED
      BY <1>1, <2>1, CachedRoleIs
  <1>4. CASE LoadRole(q)
    <2> DEFINE n == [old EXCEPT !.load = RoleOf(row[Sought(old)])]
    <2>1. RoleOf(row[Sought(old)]) \in CachedRoles
      BY DEF RoleOf, CachedRoles
    <2>2. /\ Kept(n, old) /\ n.pc = old.pc /\ n.seen = old.seen
      BY <1>r, <2>1 DEF Request, Kept
    <2>3. req' = [req EXCEPT ![q] = n]
      BY <1>4 DEF LoadRole
    <2> HIDE DEF n
    <2>4. Shaped(n)
      BY <1>r, <2>2 DEF Shaped, Kept
    <2>5. QED
      BY <2>3, <2>4, <1>s
  <1>5. ASSUME NEW seen \in Rows \cup {"same", "other"}, NEW pc \in {"count", "commit", "evictTarget"},
               req' = [req EXCEPT ![q] = [[old EXCEPT !.seen = seen] EXCEPT !.pc = pc]],
               old.pc \in {"lookup", "count", "evictActor"},
               pc # "evictTarget" /\ old.op = "add" => seen \in {"none", "deleted"},
               pc = "count" => old.op = "add",
               pc = "evictTarget" => old.pc = "evictActor"
        PROVE  \E r \in Request : Shaped(r) /\ req' = [req EXCEPT ![q] = r]
    <2> DEFINE n == [[old EXCEPT !.seen = seen] EXCEPT !.pc = pc]
    <2>1. Kept(n, old) /\ n.pc = pc /\ n.seen = seen
      <3> DEFINE m == [old EXCEPT !.seen = seen]
      <3>1. Kept(m, old) /\ m.seen = seen
        BY <1>r DEF Request, Kept
      <3>2. ASSUME NEW x \in Request
            PROVE  Kept([x EXCEPT !.pc = pc], x) /\ [x EXCEPT !.pc = pc].pc = pc /\ [x EXCEPT !.pc = pc].seen = x.seen
        BY DEF Request, Kept
      <3> HIDE DEF m
      <3>3. Kept([m EXCEPT !.pc = pc], m) /\ [m EXCEPT !.pc = pc].pc = pc /\ [m EXCEPT !.pc = pc].seen = m.seen
        BY <3>1, <3>2 DEF Kept
      <3>4. Kept([m EXCEPT !.pc = pc], old)
        BY <3>1, <3>3 DEF Kept
      <3>5. QED
        BY <3>1, <3>3, <3>4 DEF m
    <2>2. req' = [req EXCEPT ![q] = n]
      BY <1>5
    <2> HIDE DEF n
    <2>3. Shaped(n)
      BY <1>r, <1>5, <2>1 DEF Shaped, Kept
    <2>4. QED
      BY <2>2, <2>3, <1>s
  <1>o. \A pc : [old EXCEPT !.pc = pc] = [[old EXCEPT !.seen = old.seen] EXCEPT !.pc = pc]
    BY <1>r DEF Request
  <1>6. CASE LookupRow(q)
    <2>1. CASE Finish(q)
      BY <1>r, <2>1 DEF Finish
    <2>2. CASE ~(row[old.target] \in Roles)
      <3>1. old.target \in Users /\ old.op = "add" /\ old.pc = "lookup"
        BY <1>6, <1>r DEF LookupRow, Shaped
      <3>2. row[old.target] \in {"none", "deleted"}
        BY <2>2, <3>1 DEF RowsTyped, Rows
      <3>3. row[old.target] \in Rows \cup {"same", "other"}
        BY <3>2 DEF Rows
      <3>4. \E pc \in {"count", "commit"} :
              req' = [req EXCEPT ![q] = [[old EXCEPT !.seen = row[old.target]] EXCEPT !.pc = pc]]
        BY <1>6, <2>2 DEF LookupRow, Goto
      <3>5. QED
        BY <1>5, <3>1, <3>2, <3>3, <3>4
    <2>3. QED
      BY <1>6, <2>1, <2>2 DEF LookupRow
  <1>7. CASE CountAdmins(q)
    <2>1. CASE Finish(q)
      BY <1>r, <2>1 DEF Finish
    <2>2. CASE Goto(q, old, "commit")
      <3>1. old.pc = "count" /\ old.seen \in Rows \cup {"same", "other"}
            /\ (old.op = "add" => old.seen \in {"none", "deleted"})
        BY <1>7, <1>r DEF CountAdmins, Shaped, Request
      <3>2. req' = [req EXCEPT ![q] = [[old EXCEPT !.seen = old.seen] EXCEPT !.pc = "commit"]]
        BY <2>2, <1>o DEF Goto
      <3>3. QED
        BY <1>5, <3>1, <3>2
    <2>3. QED
      BY <1>7, <2>1, <2>2 DEF CountAdmins
  <1>8. CASE Commit(q) \/ CommitReplyLost(q) \/ Rollback(q)
    BY <1>8, <1>r, <1>s, AfterTxShaped DEF Commit, CommitReplyLost, Rollback
  <1>9. CASE EvictActor(q)
    <2>1. CASE Finish(q)
      BY <1>r, <2>1 DEF Finish
    <2>2. CASE Goto(q, old, "evictTarget")
      <3>1. old.pc = "evictActor" /\ old.op = "update" /\ old.seen \in Rows \cup {"same", "other"}
        BY <1>9, <1>r DEF EvictActor, Shaped, Request
      <3>2. req' = [req EXCEPT ![q] = [[old EXCEPT !.seen = old.seen] EXCEPT !.pc = "evictTarget"]]
        BY <2>2, <1>o DEF Goto
      <3>3. QED
        BY <1>5, <3>1, <3>2
    <2>3. QED
      BY <1>9, <2>1, <2>2 DEF EvictActor
  <1>10. CASE EvictTarget(q)
    BY <1>10, <1>r DEF EvictTarget, Finish
  <1>11. QED
    BY <1>2, <1>3, <1>4, <1>6, <1>7, <1>8, <1>9, <1>10

-----------------------------------------------------------------------------
(* Types *)

Starts(q) == StartAdd(q) \/ StartUpdate(q) \/ StartRemove(q) \/ StartAssign(q)

Onward(q) ==
    \/ ReadCached(q) \/ LoadRole(q) \/ FillCache(q) \/ LookupRow(q) \/ CountAdmins(q)
    \/ Commit(q) \/ CommitReplyLost(q) \/ Rollback(q) \/ EvictActor(q) \/ EvictTarget(q)

(* The steps, by what they do to requests. *)
LEMMA Steps == [Next]_vars => \/ \E q \in Requests : Starts(q)
                              \/ \E q \in Requests : Onward(q)
                              \/ \E u \in Users : Expire(u)
                              \/ UNCHANGED vars
  BY DEF Next, Starts, Onward

(* Only a request under way goes on. *)
LEMMA OnwardInFlight ==
  ASSUME NEW q \in Requests, Onward(q)
  PROVE  q \in InFlight
  BY DEF Onward, InFlight, ReadCached, LoadRole, FillCache, LookupRow, CountAdmins, Commit,
         CommitReplyLost, Rollback, EvictActor, EvictTarget, Seeking

(* Requests keep their shape. *)
LEMMA ReqStepTyped == Typed /\ [Next]_vars => ReqTyped'
  <1> SUFFICES ASSUME Typed, [Next]_vars PROVE ReqTyped'
    OBVIOUS
  <1>1. ASSUME NEW q \in Requests, NEW r \in Request, Shaped(r), req' = [req EXCEPT ![q] = r] PROVE ReqTyped'
    BY <1>1 DEF Typed, ReqTyped
  <1>2. ASSUME NEW q \in Requests, Starts(q) PROVE ReqTyped'
    BY <1>1, <1>2, StartIs DEF Starts, Start
  <1>3. ASSUME NEW q \in Requests, Onward(q) PROVE ReqTyped'
    BY <1>1, <1>3, StepShaped DEF Onward, Typed
  <1>4. CASE (\E u \in Users : Expire(u)) \/ UNCHANGED vars
    BY <1>4 DEF Expire, vars, Typed, ReqTyped
  <1>5. QED
    BY <1>2, <1>3, <1>4, Steps

(* What a request that commits is about. *)
LEMMA CommitShape ==
  ASSUME ReqTyped, NEW q \in Requests, req[q].pc = "commit"
  PROVE  /\ req[q].op \in Ops /\ req[q].actor \in Users /\ req[q].target \in Users \cup {NoUser}
         /\ req[q].op # "assign" => req[q].target \in Users
         /\ req[q].op = "add" => req[q].wanted \in {"admin", "member"} /\ req[q].seen \in {"none", "deleted"}
         /\ req[q].op = "update" => req[q].wanted \in Roles
         /\ req[q].op \in {"remove", "assign"} => req[q].wanted = "none"
  BY DEF ReqTyped, Shaped, Request

(* What a transaction writes. *)
LEMMA WriteTyped ==
  ASSUME ReqTyped, RowsTyped, NEW q \in Requests, req[q].pc = "commit", Write(req[q]), UNCHANGED creator
  PROVE  RowsTyped'
  <1> DEFINE r == req[q]
  <1>1. row' \in [Users -> Rows]
    <2>1. row' = RowsAfter(r)
      BY DEF Write
    <2>2. "deleted" \in Rows /\ Roles \subseteq Rows /\ "owner" \in Roles /\ "member" \in Roles
          /\ "admin" \in Roles
      BY DEF Rows, Roles
    <2>3. CASE r.op = "add" \/ r.op = "remove" \/ r.op = "assign"
      BY <2>1, <2>2, <2>3, CommitShape DEF RowsAfter, RowsTyped
    <2>4. ASSUME NEW rows \in [Users -> Rows], NEW u, NEW role \in Roles
          PROVE  WithRole(rows, u, role) \in [Users -> Rows]
      BY <2>2 DEF WithRole
    <2>5. CASE r.op = "update"
      BY <2>1, <2>2, <2>4, <2>5, CommitShape DEF RowsAfter, RowsTyped, TransferOwner
    <2>6. QED
      BY <2>3, <2>5, CommitShape DEF Ops
  <1>2. ownerID' \in Users /\ assignee' \in Users \cup {NoUser}
    BY CommitShape DEF Write, AssigneeAfter, RowsTyped
  <1>3. QED
    BY <1>1, <1>2 DEF RowsTyped

(* Rows keep their types. *)
LEMMA RowsStepTyped == Typed /\ [Next]_vars => RowsTyped'
  <1> SUFFICES ASSUME Typed, [Next]_vars PROVE RowsTyped'
    OBVIOUS
  <1>0. UNCHANGED <<row, ownerID, assignee, creator>> => RowsTyped'
    BY DEF Typed, RowsTyped
  <1>1. ASSUME NEW q \in Requests, Starts(q) PROVE RowsTyped'
    BY <1>0, <1>1, StartIs DEF Starts, Start
  <1>2. ASSUME NEW q \in Requests, Commit(q) \/ CommitReplyLost(q) PROVE RowsTyped'
    BY <1>2, WriteTyped DEF Commit, CommitReplyLost, Typed
  <1>3. ASSUME NEW q \in Requests, Onward(q), ~(Commit(q) \/ CommitReplyLost(q)) PROVE RowsTyped'
    BY <1>0, <1>3 DEF Onward, ReadCached, LoadRole, FillCache, LookupRow, CountAdmins, Rollback,
                      EvictActor, EvictTarget
  <1>4. CASE (\E u \in Users : Expire(u)) \/ UNCHANGED vars
    BY <1>0, <1>4 DEF Expire, vars
  <1>5. QED
    BY <1>1, <1>2, <1>3, <1>4, Steps

(* The cache keeps its types. *)
LEMMA CacheStepTyped == Typed /\ [Next]_vars => CacheTyped'
  <1> SUFFICES ASSUME Typed, [Next]_vars PROVE CacheTyped'
    OBVIOUS
  <1>a. "absent" \in CachedRoles
    BY DEF CachedRoles
  <1>0. ASSUME NEW u, NEW c \in CachedRoles, cached' = [cached EXCEPT ![u] = c] PROVE CacheTyped'
    BY <1>0 DEF Typed, CacheTyped
  <1>s. UNCHANGED cached => CacheTyped'
    BY DEF Typed, CacheTyped
  <1>1. ASSUME NEW q \in Requests, Starts(q) PROVE CacheTyped'
    BY <1>s, <1>1, StartIs DEF Starts, Start
  <1>2. ASSUME NEW q \in Requests, FillCache(q) PROVE CacheTyped'
    <2>1. req[q].load \in CachedRoles
      BY DEF Typed, ReqTyped, Request
    <2>2. QED
      BY <1>0, <1>2, <2>1 DEF FillCache
  <1>3. ASSUME NEW q \in Requests, EvictActor(q) \/ EvictTarget(q) PROVE CacheTyped'
    BY <1>0, <1>a, <1>s, <1>3 DEF EvictActor, EvictTarget
  <1>4. ASSUME NEW q \in Requests, Onward(q), ~(FillCache(q) \/ EvictActor(q) \/ EvictTarget(q)) PROVE CacheTyped'
    BY <1>s, <1>4 DEF Onward, ReadCached, LoadRole, LookupRow, CountAdmins, Commit, CommitReplyLost, Rollback
  <1>5. CASE (\E u \in Users : Expire(u)) \/ UNCHANGED vars
    BY <1>0, <1>a, <1>s, <1>5 DEF Expire, vars
  <1>6. QED
    BY <1>1, <1>2, <1>3, <1>4, <1>5, Steps

(* The bounds bound. *)
LEMMA CountsStepTyped == Typed /\ [Next]_vars => CountsTyped'
  <1> SUFFICES ASSUME Typed, [Next]_vars PROVE CountsTyped'
    OBVIOUS
  <1>t. CountsTyped
    BY DEF Typed
  <1>1. ASSUME NEW q \in Requests, Starts(q) PROVE CountsTyped'
    BY <1>t, <1>1, StartIs, MembersAssumption DEF Starts, Start, CountsTyped
  <1>2. ASSUME NEW q \in Requests, Onward(q) PROVE CountsTyped'
    <2>1. UNCHANGED starts /\ (UNCHANGED faults \/ Fault)
      BY <1>2 DEF Onward, ReadCached, LoadRole, FillCache, LookupRow, CountAdmins, Commit, CommitReplyLost,
                  Rollback, EvictActor, EvictTarget, NoFault
    <2>2. QED
      BY <1>t, <2>1, MembersAssumption DEF CountsTyped, Fault
  <1>3. CASE (\E u \in Users : Expire(u)) \/ UNCHANGED vars
    BY <1>t, <1>3 DEF Expire, vars, CountsTyped
  <1>4. QED
    BY <1>1, <1>2, <1>3, Steps

(* There are finitely many requests under way. *)
LEMMA InFlightFinite ==
  /\ IsFiniteSet(InFlight) /\ Cardinality(InFlight) \in Nat
  /\ Cardinality(InFlight) <= Cardinality(Requests) /\ Cardinality(Requests) \in Nat
  <1>1. InFlight \subseteq Requests
    BY DEF InFlight
  <1>2. QED
    BY <1>1, MembersAssumption, FS_Subset, FS_CardinalityType

(* A start is one more request under way. *)
LEMMA StartInFlight ==
  ASSUME ReqTyped, NEW q \in Requests, Starts(q)
  PROVE  /\ q \notin InFlight /\ InFlight' = InFlight \cup {q}
         /\ Cardinality(InFlight') = Cardinality(InFlight) + 1
         /\ peak' = IF Cardinality(InFlight) + 1 > peak THEN Cardinality(InFlight) + 1 ELSE peak
         /\ UNCHANGED <<row, ownerID, assignee, creator, cached, faults>>
  <1>1. PICK r \in Request : Start(q, r) /\ r.pc # "idle"
    BY StartIs DEF Starts
  <1>2. q \notin InFlight /\ req' = [req EXCEPT ![q] = r]
    BY <1>1 DEF Start, InFlight
  <1>3. InFlight' = InFlight \cup {q}
    BY <1>1, <1>2 DEF InFlight, ReqTyped
  <1>4. Cardinality(InFlight \cup {q}) = Cardinality(InFlight) + 1
    BY <1>2, InFlightFinite, FS_AddElement
  <1>5. QED
    BY <1>1, <1>2, <1>3, <1>4 DEF Start

(* No other step adds one. *)
LEMMA OnwardInFlightStays ==
  ASSUME Typed, NEW q \in Requests, Onward(q)
  PROVE  InFlight' \subseteq InFlight /\ UNCHANGED peak /\ \A p \in Requests \ {q} : req'[p] = req[p]
  <1>1. PICK r \in Request : req' = [req EXCEPT ![q] = r]
    BY StepShaped DEF Onward, Typed
  <1>2. q \in InFlight
    BY OnwardInFlight
  <1>3. InFlight' \subseteq InFlight /\ \A p \in Requests \ {q} : req'[p] = req[p]
    BY <1>1, <1>2 DEF InFlight, Typed, ReqTyped
  <1>4. UNCHANGED peak
    BY DEF Onward, ReadCached, LoadRole, FillCache, LookupRow, CountAdmins, Commit, CommitReplyLost,
           Rollback, EvictActor, EvictTarget
  <1>5. QED
    BY <1>3, <1>4

(* The peak is never passed. *)
LEMMA PeakStep == Typed /\ [Next]_vars => PeakInv'
  <1> SUFFICES ASSUME Typed, [Next]_vars PROVE PeakInv'
    OBVIOUS
  <1>t. ReqTyped /\ PeakInv /\ peak \in Nat
    BY InFlightFinite DEF Typed, PeakInv
  <1>1. ASSUME NEW q \in Requests, Starts(q) PROVE PeakInv'
    <2>1. InFlight' \subseteq Requests
      BY DEF InFlight
    <2>2. Cardinality(InFlight') <= Cardinality(Requests)
      BY <2>1, MembersAssumption, FS_Subset
    <2>3. QED
      BY <1>t, <1>1, <2>2, StartInFlight, InFlightFinite DEF PeakInv
  <1>2. ASSUME InFlight' \subseteq InFlight, UNCHANGED peak PROVE PeakInv'
    <2>1. Cardinality(InFlight') <= Cardinality(InFlight) /\ Cardinality(InFlight') \in Nat
      BY <1>2, InFlightFinite, FS_Subset, FS_CardinalityType
    <2>2. QED
      BY <1>t, <1>2, <2>1, InFlightFinite DEF PeakInv
  <1>3. CASE (\E u \in Users : Expire(u)) \/ UNCHANGED vars
    <2>1. UNCHANGED <<req, peak>>
      BY <1>3 DEF Expire, vars
    <2>2. QED
      BY <1>2, <2>1 DEF InFlight
  <1>4. QED
    BY <1>1, <1>2, <1>3, Steps, OnwardInFlightStays

(* Every step keeps the types. *)
LEMMA StepTyped == Typed /\ [Next]_vars => Typed'
  BY ReqStepTyped, RowsStepTyped, CacheStepTyped, CountsStepTyped, PeakStep DEF Typed

(* At the start nothing is under way. *)
LEMMA InitTyped == Init => Typed
  <1> SUFFICES ASSUME Init PROVE Typed
    OBVIOUS
  <1>1. ReqTyped
    BY IdleShaped DEF Init, ReqTyped, Shaped
  <1>2. RowsTyped
    <2>1. PICK founder \in Users :
             /\ row \in [Users -> Rows \ {"owner"}] \cup
                        {[r EXCEPT ![founder] = "owner"] : r \in [Users -> Rows \ {"owner"}]}
             /\ ownerID = founder /\ creator = founder
      BY DEF Init
    <2>2. \A r \in [Users -> Rows \ {"owner"}] : /\ r \in [Users -> Rows]
                                               /\ [r EXCEPT ![founder] = "owner"] \in [Users -> Rows]
      BY DEF Rows, Roles
    <2>3. row \in [Users -> Rows]
      BY <2>1, <2>2
    <2>4. QED
      BY <2>1, <2>3 DEF Init, RowsTyped
  <1>3. CacheTyped /\ CountsTyped
    BY MembersAssumption DEF Init, CacheTyped, CountsTyped, CachedRoles
  <1>4. InFlight = {}
    BY DEF Init, InFlight, Idle
  <1>5. PeakInv
    BY <1>4, FS_EmptySet, InFlightFinite DEF Init, PeakInv
  <1>6. QED
    BY <1>1, <1>2, <1>3, <1>5 DEF Typed

(* Whatever requests overlap and fail, the variables keep their types, and peak counts the *)
(* requests that overlapped.                                                               *)
THEOREM TypeCorrect == Spec => []TypeOK
  <1>1. Typed => TypeOK
    BY DEF Typed, TypeOK, ReqTyped, RowsTyped, CacheTyped, CountsTyped, PeakInv
  <1>2. QED
    BY <1>1, InitTyped, StepTyped, PTL DEF Spec

-----------------------------------------------------------------------------
(* The limit on administrators *)

(* Requests that have counted and are about to make an administrator. *)
Granting == {q \in Requests : req[q].pc = "commit" /\ req[q].wanted = "admin"}

(* Each of them will add one to the administrators there are. *)
AdminsInv ==
    /\ peak = 0 => Cardinality(Admins) <= AdminCount
    /\ peak >= 1 => Cardinality(Admins) + Cardinality(Granting) <= AdminCount + peak - 1

(* What is learned makes nobody about to write an administrator: who is to be one is counted first. *)
LEMMA LearnIsNoGrant ==
  ASSUME NEW r, Shaped(r), r.pc \in {"actor", "target"}, NEW role \in Roles \cup {"null"},
         NEW n, n = IF r.pc = "actor" THEN AfterActor(r, role) ELSE AfterTarget(r, role)
  PROVE  ~(n.pc = "commit" /\ n.wanted = "admin")
  <1>r. r \in Request /\ r.op \in Ops
    BY DEF Shaped
  <1>1. CASE n = Idle
    BY <1>1, IdleShaped
  <1>2. CASE n # Idle /\ r.pc = "actor"
    <2>1. Kept(n, r) /\ (n.pc = "commit" => r.op = "assign")
      BY <1>r, <1>2, AfterActorIs
    <2>2. QED
      BY <2>1 DEF Kept, Shaped
  <1>3. CASE n # Idle /\ r.pc = "target"
    <2>1. Kept(n, r) /\ n.pc = CASE r.op = "add" -> "lookup"
                                [] r.op = "update" /\ r.wanted = "admin" -> "count"
                                [] OTHER -> "commit"
      BY <1>r, <1>3, AfterTargetIs
    <2>2. n.pc = "commit" => r.op # "add" /\ ~(r.op = "update" /\ r.wanted = "admin")
      BY <2>1
    <2>3. r.op \in {"remove", "assign"} => n.wanted # "admin"
      BY <2>1 DEF Kept, Shaped
    <2>4. QED
      BY <1>r, <2>1, <2>2, <2>3 DEF Kept, Ops
  <1>4. QED
    BY <1>1, <1>2, <1>3

(* Only a count leads to such a request, only its commit or rollback ends it. *)
LEMMA StepGranting ==
  ASSUME Typed, NEW q \in Requests, Onward(q)
  PROVE  /\ CountAdmins(q) \/ Granting' \subseteq Granting
         /\ CountAdmins(q) \/ q \notin Granting'
         /\ CountAdmins(q) /\ ~(Granting' \subseteq Granting) => Cardinality(Admins) < AdminCount
  <1> DEFINE r == req[q]
  <1> DEFINE n == req'[q]
  <1>r. Shaped(r) /\ r \in Request /\ req \in [Requests -> Request]
    BY DEF Typed, ReqTyped
  <1>o. \A p \in Requests \ {q} : req'[p] = req[p]
    BY OnwardInFlightStays
  <1>1. ~(n.pc = "commit" /\ n.wanted = "admin") => q \notin Granting' /\ Granting' \subseteq Granting
    BY <1>o DEF Granting
  <1>2. ASSUME Finish(q) PROVE n.pc # "commit"
    BY <1>2, <1>r, IdleShaped DEF Finish
  <1>3. ASSUME NEW role \in Roles \cup {"null"}, Learn(q, role), Seeking(q)
        PROVE  ~(n.pc = "commit" /\ n.wanted = "admin")
    <2>1. r.pc \in {"actor", "target"} /\ n = IF r.pc = "actor" THEN AfterActor(r, role) ELSE AfterTarget(r, role)
      BY <1>3, <1>r DEF Learn, Seeking
    <2>2. QED
      BY <1>r, <2>1, LearnIsNoGrant
  <1>4. CASE ReadCached(q)
    <2>1. Seeking(q) /\ Learn(q, cached[Sought(r)]) /\ cached[Sought(r)] # "absent"
      BY <1>4 DEF ReadCached
    <2>2. cached[Sought(r)] \in Roles \cup {"null"}
      BY <1>r, <2>1, SoughtIsUser, CachedRoleIs DEF Seeking, CacheTyped, Typed
    <2>3. QED
      BY <1>1, <1>3, <2>1, <2>2
  <1>5. CASE FillCache(q)
    <2>1. Seeking(q) /\ Learn(q, r.load) /\ r.load # "absent" /\ r.load \in CachedRoles
      BY <1>5, <1>r DEF FillCache, Request
    <2>2. QED
      BY <1>1, <1>3, <2>1, CachedRoleIs
  <1>6. CASE LoadRole(q)
    <2>1. n.pc \in {"actor", "target"}
      BY <1>6, <1>r DEF LoadRole, Seeking, Request
    <2>2. QED
      BY <1>1, <2>1
  <1>7. CASE LookupRow(q)
    <2>1. CASE Finish(q)
      BY <1>1, <1>2, <2>1
    <2>2. CASE ~Finish(q)
      <3> DEFINE m == [r EXCEPT !.seen = row[r.target]]
      <3>1. Goto(q, m, IF r.wanted = "admin" THEN "count" ELSE "commit")
        BY <1>7, <2>2 DEF LookupRow
      <3>2. m.wanted = r.wanted /\ m = [pc |-> m.pc, op |-> m.op, actor |-> m.actor, target |-> m.target,
              wanted |-> m.wanted, actorRole |-> m.actorRole, targetRole |-> m.targetRole,
              load |-> m.load, seen |-> m.seen, ok |-> m.ok]
        BY <1>r DEF Request
      <3> HIDE DEF m
      <3>3. n = [m EXCEPT !.pc = IF r.wanted = "admin" THEN "count" ELSE "commit"]
        BY <1>r, <3>1 DEF Goto
      <3>4. n.pc = (IF r.wanted = "admin" THEN "count" ELSE "commit") /\ n.wanted = r.wanted
        BY <3>2, <3>3
      <3>5. QED
        BY <1>1, <3>4
    <2>3. QED
      BY <2>1, <2>2
  <1>8. CASE CountAdmins(q)
    <2>1. CASE Cardinality(Admins) >= AdminCount
      <3>1. Finish(q)
        BY <1>8, <2>1 DEF CountAdmins
      <3>2. Granting' \subseteq Granting
        BY <1>1, <1>2, <3>1
      <3>3. QED
        BY <1>8, <3>2
    <2>2. CASE ~(Cardinality(Admins) >= AdminCount)
      <3>1. Admins \subseteq Users /\ IsFiniteSet(Users)
        BY MembersAssumption DEF Admins
      <3>2. Cardinality(Admins) \in Nat
        BY <3>1, FS_Subset, FS_CardinalityType
      <3>3. Cardinality(Admins) < AdminCount
        BY <2>2, <3>2, MembersAssumption
      <3>4. QED
        BY <1>8, <3>3
    <2>3. QED
      BY <2>1, <2>2
  <1>9. CASE Commit(q) \/ CommitReplyLost(q) \/ Rollback(q)
    <2>1. PICK ok \in BOOLEAN : n = AfterTx(r, ok)
      BY <1>9, <1>r DEF Commit, CommitReplyLost, Rollback
    <2>2. n = Idle \/ n.pc \in {"evictActor", "evictTarget"}
      BY <1>r, <2>1, AfterTxIs
    <2>3. QED
      BY <1>1, <2>2, IdleShaped
  <1>10. CASE EvictActor(q) \/ EvictTarget(q)
    <2>1. Finish(q) \/ n.pc = "evictTarget"
      BY <1>10, <1>r DEF EvictActor, EvictTarget, Goto, Request
    <2>2. QED
      BY <1>1, <1>2, <2>1
  <1>11. QED
    BY <1>4, <1>5, <1>6, <1>7, <1>8, <1>9, <1>10 DEF Onward

(* A transaction makes an administrator of its target at most. *)
LEMMA WriteAdmins ==
  ASSUME ReqTyped, RowsTyped, NEW q \in Requests, req[q].pc = "commit", Write(req[q])
  PROVE  Admins' \subseteq IF req[q].wanted = "admin" THEN Admins \cup {req[q].target} ELSE Admins
  <1> DEFINE r == req[q]
  <1>1. row' = RowsAfter(r) /\ row \in [Users -> Rows]
    BY DEF Write, RowsTyped
  <1>2. CASE r.op = "add" \/ r.op = "remove" \/ r.op = "assign"
    BY <1>1, <1>2, CommitShape DEF RowsAfter, Admins
  <1>3. ASSUME NEW rows \in [Users -> Rows], NEW u \in Users, NEW role \in Roles
        PROVE  /\ WithRole(rows, u, role) \in [Users -> Rows]
               /\ \A v \in Users : WithRole(rows, u, role)[v] = "admin" =>
                      rows[v] = "admin" \/ (v = u /\ role = "admin")
    BY DEF WithRole, Rows
  <1>4. CASE r.op = "update" /\ r.wanted # "owner"
    <2>1. row' = WithRole(row, r.target, r.wanted)
      BY <1>1, <1>4 DEF RowsAfter
    <2>2. QED
      BY <1>1, <1>3, <1>4, <2>1, CommitShape DEF Admins
  <1>5. CASE r.op = "update" /\ r.wanted = "owner"
    <2> DEFINE promoted == WithRole(row, r.target, "owner")
    <2>1. row' = IF r.actor = r.target THEN promoted ELSE WithRole(promoted, r.actor, "member")
      BY <1>1, <1>5 DEF RowsAfter, TransferOwner
    <2>2. "owner" \in Roles /\ "member" \in Roles /\ r.target \in Users /\ r.actor \in Users
      BY <1>5, CommitShape DEF Roles
    <2>3. promoted \in [Users -> Rows] /\ \A v \in Users : promoted[v] = "admin" => row[v] = "admin"
      BY <1>1, <1>3, <2>2
    <2> HIDE DEF promoted
    <2>4. \A v \in Users : WithRole(promoted, r.actor, "member")[v] = "admin" => promoted[v] = "admin"
      BY <1>3, <2>2, <2>3
    <2>5. QED
      BY <1>5, <2>1, <2>3, <2>4 DEF Admins
  <1>6. QED
    BY <1>2, <1>4, <1>5, CommitShape DEF Ops

(* Finitely many users and requests. *)
LEMMA GrantingFinite ==
  /\ IsFiniteSet(Admins) /\ Cardinality(Admins) \in Nat
  /\ IsFiniteSet(Granting) /\ Cardinality(Granting) \in Nat
  /\ Cardinality(Granting) <= Cardinality(InFlight)
  <1>1. Admins \subseteq Users /\ Granting \subseteq InFlight
    BY DEF Admins, Granting, InFlight
  <1>2. QED
    BY <1>1, MembersAssumption, InFlightFinite, FS_Subset, FS_CardinalityType

(* Those about to make one are among those that overlap. *)
LEMMA AdminsStep == Typed /\ AdminsInv /\ [Next]_vars => AdminsInv'
  <1> SUFFICES ASSUME Typed, AdminsInv, [Next]_vars PROVE AdminsInv'
    OBVIOUS
  <1>t. /\ ReqTyped /\ RowsTyped /\ peak \in Nat /\ AdminCount \in Nat
        /\ Cardinality(InFlight) \in Nat /\ Cardinality(InFlight) <= peak
    BY InFlightFinite, MembersAssumption DEF Typed, PeakInv
  <1>a. Cardinality(Admins) \in Nat /\ IsFiniteSet(Admins)
        /\ Cardinality(Granting) \in Nat /\ IsFiniteSet(Granting)
        /\ Cardinality(Granting) <= Cardinality(InFlight)
    BY GrantingFinite
  <1>g. /\ IsFiniteSet(Granting') /\ Cardinality(Granting') \in Nat
        /\ Cardinality(Granting') <= Cardinality(InFlight') /\ Cardinality(InFlight') \in Nat
    <2>1. Granting' \subseteq InFlight' /\ InFlight' \subseteq Requests
      BY DEF Granting, InFlight
    <2>2. QED
      BY <2>1, MembersAssumption, FS_Subset, FS_CardinalityType
  <1>u. ASSUME UNCHANGED peak, Cardinality(Admins') + Cardinality(Granting') <= Cardinality(Admins) + Cardinality(Granting),
               Cardinality(Admins') <= Cardinality(Admins) \/ peak # 0
        PROVE  AdminsInv'
    <2>1. Cardinality(Admins') \in Nat
      <3>1. Admins' \subseteq Users
        BY DEF Admins
      <3>2. QED
        BY <3>1, MembersAssumption, FS_Subset, FS_CardinalityType
    <2>2. QED
      BY <1>t, <1>a, <1>g, <1>u, <2>1 DEF AdminsInv
  <1>1. ASSUME NEW q \in Requests, Starts(q) PROVE AdminsInv'
    <2>1. PICK r \in Request : Start(q, r) /\ Shaped(r) /\ ~(r.pc = "commit" /\ r.op # "assign")
      BY <1>1, StartIs DEF Starts
    <2>2. req' = [req EXCEPT ![q] = r] /\ (r.op = "assign" => r.wanted = "none") /\ req[q].pc = "idle"
      BY <2>1 DEF Start, Shaped
    <2>3. Granting' = Granting
      BY <1>t, <2>1, <2>2 DEF Granting, ReqTyped
    <2>4. UNCHANGED row /\ peak' \in Nat /\ peak' >= peak /\ peak' >= 1
      BY <1>1, <1>t, StartInFlight
    <2>5. Admins' = Admins
      BY <2>4 DEF Admins
    <2>6. peak = 0 => Cardinality(Granting) = 0
      BY <1>t, <1>a
    <2>7. QED
      BY <1>t, <1>a, <2>3, <2>4, <2>5, <2>6 DEF AdminsInv
  <1>2. ASSUME NEW q \in Requests, Commit(q) \/ CommitReplyLost(q) PROVE AdminsInv'
    <2>1. Onward(q) /\ ~CountAdmins(q)
      BY <1>2 DEF Onward, Commit, CommitReplyLost, CountAdmins
    <2>2. Granting' \subseteq Granting \ {q}
      BY <2>1, StepGranting
    <2>3. Cardinality(Granting \ {q}) \in Nat /\ Cardinality(Granting') <= Cardinality(Granting \ {q})
          /\ (q \in Granting => Cardinality(Granting \ {q}) = Cardinality(Granting) - 1)
          /\ Cardinality(Granting \ {q}) <= Cardinality(Granting)
      BY <2>2, <1>a, FS_Subset, FS_RemoveElement, FS_CardinalityType
    <2>4. Write(req[q]) /\ req[q].pc = "commit"
      BY <1>2 DEF Commit, CommitReplyLost
    <2>5. UNCHANGED peak /\ peak >= 1
      <3>1. q \in InFlight
        BY <2>4 DEF InFlight
      <3>2. Cardinality(InFlight) # 0
        BY <3>1, InFlightFinite, FS_EmptySet
      <3>3. QED
        BY <1>t, <2>1, <3>2, OnwardInFlightStays
    <2>6. CASE req[q].wanted = "admin"
      <3>1. Admins' \subseteq Admins \cup {req[q].target} /\ q \in Granting
        BY <1>t, <2>4, <2>6, WriteAdmins DEF Granting
      <3>2. IsFiniteSet(Admins \cup {req[q].target})
            /\ Cardinality(Admins \cup {req[q].target}) \in Nat
            /\ Cardinality(Admins \cup {req[q].target}) <= Cardinality(Admins) + 1
        <4>1. ASSUME NEW x
              PROVE  /\ IsFiniteSet(Admins \cup {x}) /\ Cardinality(Admins \cup {x}) \in Nat
                     /\ Cardinality(Admins \cup {x}) <= Cardinality(Admins) + 1
          <5>1. /\ IsFiniteSet(Admins \cup {x})
                /\ Cardinality(Admins \cup {x}) = IF x \in Admins THEN Cardinality(Admins) ELSE Cardinality(Admins) + 1
            BY <1>a, FS_AddElement
          <5>2. QED
            BY <1>a, <5>1
        <4>2. QED
          BY <4>1
      <3>3. Cardinality(Admins') \in Nat /\ Cardinality(Admins') <= Cardinality(Admins) + 1
        BY <1>a, <3>1, <3>2, FS_Subset, FS_CardinalityType
      <3>4. QED
        BY <1>a, <1>g, <1>t, <1>u, <2>3, <2>5, <3>1, <3>3
    <2>7. CASE req[q].wanted # "admin"
      <3>1. Admins' \subseteq Admins
        BY <1>t, <2>4, <2>7, WriteAdmins
      <3>2. Cardinality(Admins') <= Cardinality(Admins) /\ Cardinality(Admins') \in Nat
        BY <1>a, <3>1, FS_Subset, FS_CardinalityType
      <3>3. QED
        BY <1>a, <1>g, <1>u, <2>3, <2>5, <3>2
    <2>8. QED
      BY <2>6, <2>7
  <1>3. ASSUME NEW q \in Requests, Onward(q), ~(Commit(q) \/ CommitReplyLost(q)) PROVE AdminsInv'
    <2>1. UNCHANGED <<row, peak>> /\ Admins' = Admins
      BY <1>3 DEF Onward, ReadCached, LoadRole, FillCache, LookupRow, CountAdmins, Rollback,
                  EvictActor, EvictTarget, Admins
    <2>2. CASE Granting' \subseteq Granting
      <3>1. Cardinality(Granting') <= Cardinality(Granting)
        BY <1>a, <2>2, FS_Subset
      <3>2. QED
        BY <1>a, <1>g, <1>u, <2>1, <3>1
    <2>3. CASE ~(Granting' \subseteq Granting)
      <3>1. Cardinality(Admins) < AdminCount /\ InFlight' \subseteq InFlight
        BY <1>3, <2>3, StepGranting, OnwardInFlightStays
      <3>2. Cardinality(InFlight') <= Cardinality(InFlight)
        BY <3>1, InFlightFinite, FS_Subset
      <3>3. QED
        BY <1>a, <1>g, <1>t, <2>1, <3>1, <3>2 DEF AdminsInv
    <2>4. QED
      BY <2>2, <2>3
  <1>4. CASE (\E u \in Users : Expire(u)) \/ UNCHANGED vars
    BY <1>4 DEF Expire, vars, AdminsInv, Admins, Granting
  <1>5. QED
    BY <1>1, <1>2, <1>3, <1>4, Steps

(* However many requests overlap, each of them may have counted before the others wrote: the *)
(* limit is passed by at most one for each that ran beside the first.                        *)
THEOREM AdminsAreBounded == Spec => []AdminsBounded
  <1>1. Init => AdminsInv
    <2> SUFFICES ASSUME Init PROVE AdminsInv
      OBVIOUS
    <2>1. peak = 0 /\ Cardinality(Admins) <= AdminCount
      BY DEF Init
    <2>2. QED
      BY <2>1 DEF AdminsInv
  <1>2. Typed /\ AdminsInv => AdminsBounded
    <2> SUFFICES ASSUME Typed, AdminsInv, peak >= 1 PROVE Cardinality(Admins) <= AdminCount + peak - 1
      BY DEF AdminsBounded
    <2>1. peak \in Nat
      BY InFlightFinite DEF Typed, PeakInv
    <2>2. QED
      BY <2>1, GrantingFinite, MembersAssumption DEF AdminsInv
  <1>3. QED
    BY <1>1, <1>2, InitTyped, StepTyped, AdminsStep, PTL DEF Spec

-----------------------------------------------------------------------------
(* Rows and transactions *)

(* Rows are written by transactions only. *)
LEMMA OnlyCommitsWrite ==
  ASSUME Typed, [Next]_vars
  PROVE  \/ \E q \in Requests : Commit(q) \/ CommitReplyLost(q)
         \/ UNCHANGED <<row, ownerID, assignee>>
  <1>1. ASSUME NEW q \in Requests, Starts(q) PROVE UNCHANGED <<row, ownerID, assignee>>
    BY <1>1, StartInFlight DEF Typed
  <1>2. ASSUME NEW q \in Requests, Onward(q), ~(Commit(q) \/ CommitReplyLost(q))
        PROVE  UNCHANGED <<row, ownerID, assignee>>
    BY <1>2 DEF Onward, ReadCached, LoadRole, FillCache, LookupRow, CountAdmins, Rollback,
                EvictActor, EvictTarget
  <1>3. CASE (\E u \in Users : Expire(u)) \/ UNCHANGED vars
    BY <1>3 DEF Expire, vars
  <1>4. QED
    BY <1>1, <1>2, <1>3, Steps

(* What a transaction leaves, row by row. *)
LEMMA WriteIs ==
  ASSUME ReqTyped, RowsTyped, NEW q \in Requests, req[q].pc = "commit", Write(req[q]), NEW v \in Users
  PROVE  LET r == req[q]
         IN  /\ r.op = "add" =>
                  row[r.target] \notin Roles /\ row'[v] = IF v = r.target THEN r.wanted ELSE row[v]
             /\ r.op = "remove" =>
                  row[r.target] \in Roles /\ row'[v] = IF v = r.target THEN "deleted" ELSE row[v]
             /\ r.op = "assign" => row' = row
             /\ r.op = "update" /\ r.wanted # "owner" =>
                  row'[v] = IF v = r.target /\ row[v] \in Roles THEN r.wanted ELSE row[v]
             /\ r.op = "update" /\ r.wanted = "owner" =>
                  row'[v] = IF row[v] \notin Roles THEN row[v]
                            ELSE IF v = r.actor /\ v # r.target THEN "member"
                            ELSE IF v = r.target THEN "owner" ELSE row[v]
  <1> DEFINE r == req[q]
  <1>1. row' = RowsAfter(r) /\ row \in [Users -> Rows] /\ TxAccepts(r)
    BY DEF Write, RowsTyped
  <1>2. r.op = "add" => row[r.target] \notin Roles /\ row'[v] = IF v = r.target THEN r.wanted ELSE row[v]
    BY <1>1, CommitShape DEF RowsAfter, TxAccepts, Roles
  <1>3. r.op = "remove" => row[r.target] \in Roles /\ row'[v] = IF v = r.target THEN "deleted" ELSE row[v]
    BY <1>1, CommitShape DEF RowsAfter, TxAccepts
  <1>4. r.op = "assign" => row' = row
    BY <1>1 DEF RowsAfter
  <1>5. ASSUME NEW rows \in [Users -> Rows], NEW u \in Users, NEW role \in Roles
        PROVE  /\ WithRole(rows, u, role) \in [Users -> Rows]
               /\ \A w \in Users : WithRole(rows, u, role)[w] = IF w = u /\ rows[w] \in Roles THEN role ELSE rows[w]
    BY DEF WithRole, Rows
  <1>6. ASSUME r.op = "update", r.wanted # "owner"
        PROVE  row'[v] = IF v = r.target /\ row[v] \in Roles THEN r.wanted ELSE row[v]
    <2>1. row' = WithRole(row, r.target, r.wanted) /\ r.target \in Users /\ r.wanted \in Roles
      BY <1>1, <1>6, CommitShape DEF RowsAfter
    <2>2. QED
      BY <1>1, <1>5, <2>1
  <1>7. ASSUME r.op = "update", r.wanted = "owner"
        PROVE  row'[v] = IF row[v] \notin Roles THEN row[v]
                         ELSE IF v = r.actor /\ v # r.target THEN "member"
                         ELSE IF v = r.target THEN "owner" ELSE row[v]
    <2> DEFINE promoted == WithRole(row, r.target, "owner")
    <2>1. row' = IF r.actor = r.target THEN promoted ELSE WithRole(promoted, r.actor, "member")
      BY <1>1, <1>7 DEF RowsAfter, TransferOwner
    <2>2. "owner" \in Roles /\ "member" \in Roles /\ r.target \in Users /\ r.actor \in Users
      BY <1>7, CommitShape DEF Roles
    <2>3. /\ promoted \in [Users -> Rows]
          /\ promoted[v] = IF v = r.target /\ row[v] \in Roles THEN "owner" ELSE row[v]
      BY <1>1, <1>5, <2>2
    <2> HIDE DEF promoted
    <2>4. WithRole(promoted, r.actor, "member")[v] =
            IF v = r.actor /\ promoted[v] \in Roles THEN "member" ELSE promoted[v]
      BY <1>5, <2>2, <2>3
    <2>5. QED
      BY <2>1, <2>2, <2>3, <2>4
  <1>8. QED
    BY <1>2, <1>3, <1>4, <1>6, <1>7

(* A transaction that has returned is over. *)
LEMMA CommitMoves ==
  ASSUME ReqTyped, NEW q \in Requests, Commit(q) \/ CommitReplyLost(q) \/ Rollback(q)
  PROVE  /\ req[q].pc = "commit"
         /\ req'[q].pc \in {"idle", "evictActor", "evictTarget"}
  <1> DEFINE r == req[q]
  <1>1. PICK ok \in BOOLEAN : req'[q] = AfterTx(r, ok)
    BY DEF Commit, CommitReplyLost, Rollback, ReqTyped
  <1>2. AfterTx(r, ok) = Idle \/ AfterTx(r, ok).pc \in {"evictActor", "evictTarget"}
    BY AfterTxIs DEF ReqTyped
  <1>3. QED
    BY <1>1, <1>2, IdleShaped DEF Commit, CommitReplyLost, Rollback

(* A member's role changes by an update of it, or ends with a removal. *)
LEMMA RolesStep ==
  ASSUME Typed, [Next]_vars, NEW u \in Users, row[u] \in Roles, row'[u] # row[u]
  PROVE  \E q \in Requests :
            /\ req[q].pc = "commit"
            /\ req'[q].pc # "commit"
            /\ \/ req[q].op = "remove" /\ req[q].target = u
               \/ /\ req[q].op = "update"
                  /\ row'[u] \in Roles
                  /\ u \in {req[q].actor, req[q].target}
  <1>1. PICK q \in Requests : Commit(q) \/ CommitReplyLost(q)
    BY OnlyCommitsWrite
  <1>2. req[q].pc = "commit" /\ req'[q].pc # "commit" /\ Write(req[q])
    BY <1>1, CommitMoves DEF Commit, CommitReplyLost, Typed
  <1>3. req[q].op \in Ops /\ (req[q].op = "update" => req[q].wanted \in Roles)
    BY <1>2, CommitShape DEF Typed
  <1>4. \/ req[q].op = "remove" /\ req[q].target = u
        \/ req[q].op = "update" /\ row'[u] \in Roles /\ u \in {req[q].actor, req[q].target}
    BY <1>2, <1>3, WriteIs DEF Ops, Roles, Typed
  <1>5. QED
    BY <1>2, <1>4

(* Whatever requests overlap, an invitation never changes the role of a member: what changes it *)
(* is an update of it, or its removal.                                                          *)
THEOREM RolesChangeByUpdates == Spec => OnlyUpdatesChangeRoles
  <1>1. Typed /\ [Next]_vars =>
          [\A u \in Users :
             (row[u] \in Roles /\ row'[u] # row[u]) =>
                \E q \in Requests :
                   /\ req[q].pc = "commit"
                   /\ req'[q].pc # "commit"
                   /\ \/ req[q].op = "remove" /\ req[q].target = u
                      \/ /\ req[q].op = "update"
                         /\ row'[u] \in Roles
                         /\ u \in {req[q].actor, req[q].target}]_vars
    BY RolesStep
  <1>2. QED
    BY <1>1, InitTyped, StepTyped, PTL DEF Spec, OnlyUpdatesChangeRoles

-----------------------------------------------------------------------------
(* Requests that do not overlap *)

(* Whose cached role a transaction under way will delete. *)
Evicting(u) ==
    \E q \in Requests :
        \/ req[q].pc = "evictActor" /\ (u = req[q].actor \/ (req[q].ok /\ u = req[q].target))
        \/ req[q].pc = "evictTarget" /\ u = req[q].target

(* What a request has learned is so. *)
Knows(r) ==
    /\ r.pc \in {"target", "lookup", "count", "commit"} /\ r.op # "assign" =>
          r.actorRole = row[r.actor] /\ ActorMay(r, r.actorRole)
    /\ r.pc \in {"count", "commit"} /\ r.op = "update" =>
          r.targetRole = row[r.target] /\ UpdateAllowed(r, r.targetRole)
    /\ r.pc = "commit" /\ r.op = "remove" =>
          r.targetRole = row[r.target] /\ RemoveAllowed(r, r.targetRole)
    /\ r.pc = "commit" /\ r.op = "assign" => r.target \in Members \cup {NoUser}
    /\ r.pc \in {"actor", "target"} /\ r.load # "absent" => r.load = RoleOf(row[Sought(r)])

(* A cached role is current, or about to be deleted. *)
CacheInv == \A u \in Users : cached[u] \in Roles => cached[u] = row[u] \/ Evicting(u)

SerialInv ==
    Serial => /\ OneOwner /\ AssigneeIsMember
              /\ CacheInv
              /\ \A q \in Requests : Knows(req[q])

(* A request that is over, or that only deletes cached roles, need know nothing. *)
LEMMA DoneKnows ==
  ASSUME NEW q \in Requests, req'[q].pc \in {"idle", "evictActor", "evictTarget"}
  PROVE  Knows(req[q])'
  BY DEF Knows

(* As long as requests do not overlap, one starts when there is no other, *)
LEMMA StartsAlone ==
  ASSUME Typed, NEW q \in Requests, Starts(q), Serial'
  PROVE  Serial /\ \A p \in Requests : req[p].pc = "idle"
  <1>1. peak' \in Nat /\ peak \in Nat /\ Cardinality(InFlight) \in Nat /\ faults' = faults
        /\ peak' = IF Cardinality(InFlight) + 1 > peak THEN Cardinality(InFlight) + 1 ELSE peak
    BY StartInFlight, InFlightFinite DEF Typed, PeakInv
  <1>2. Cardinality(InFlight) = 0 /\ peak <= 1
    BY <1>1 DEF Serial
  <1>3. InFlight = {}
    BY <1>2, InFlightFinite, FS_EmptySet
  <1>4. QED
    BY <1>1, <1>2, <1>3 DEF Serial, InFlight

(* no two are under way at once, *)
LEMMA OneAtATime ==
  ASSUME Typed, Serial, NEW q \in InFlight
  PROVE  \A p \in Requests \ {q} : req[p].pc = "idle"
  <1>1. Cardinality(InFlight) <= 1
    BY InFlightFinite DEF Serial, Typed, PeakInv
  <1>2. Cardinality(InFlight \ {q}) = Cardinality(InFlight) - 1 /\ Cardinality(InFlight \ {q}) \in Nat
    BY InFlightFinite, FS_RemoveElement, FS_CardinalityType
  <1>3. Cardinality(InFlight \ {q}) = 0
    BY <1>1, <1>2, InFlightFinite
  <1>4. InFlight \ {q} = {}
    BY <1>3, InFlightFinite, FS_RemoveElement, FS_EmptySet
  <1>5. QED
    BY <1>4 DEF InFlight

(* and goes on while no other is under way. *)
LEMMA GoesOnAlone ==
  ASSUME Typed, NEW q \in Requests, Onward(q), Serial'
  PROVE  /\ Serial /\ UNCHANGED faults
         /\ \A p \in Requests \ {q} : req[p].pc = "idle" /\ req'[p] = req[p]
  <1>1. UNCHANGED peak /\ \A p \in Requests \ {q} : req'[p] = req[p]
    BY OnwardInFlightStays
  <1>2. faults \in Nat /\ (UNCHANGED faults \/ Fault)
    <2>1. faults \in Nat
      BY MembersAssumption DEF Typed, CountsTyped
    <2>2. QED
      BY <2>1 DEF Onward, ReadCached, LoadRole, FillCache, LookupRow, CountAdmins, Commit, CommitReplyLost,
                  Rollback, EvictActor, EvictTarget, NoFault
  <1>3. Serial /\ UNCHANGED faults
    BY <1>1, <1>2 DEF Serial, Fault
  <1>4. q \in InFlight
    BY OnwardInFlight
  <1>5. QED
    BY <1>1, <1>3, <1>4, OneAtATime

(* A role that is so when it is learned is known. *)
LEMMA LearnKnows ==
  ASSUME Typed, NEW q \in Requests, Seeking(q), NEW role \in Roles \cup {"null"}, Learn(q, role),
         role \in Roles => role = row[Sought(req[q])], Knows(req[q]), UNCHANGED row
  PROVE  Knows(req[q])'
  <1> DEFINE r == req[q]
  <1> DEFINE n == req'[q]
  <1>r. r \in Request /\ Shaped(r) /\ r.pc \in {"actor", "target"}
        /\ n = IF r.pc = "actor" THEN AfterActor(r, role) ELSE AfterTarget(r, role)
    BY DEF Typed, ReqTyped, Seeking, Learn
  <1>1. CASE n = Idle
    <2>1. req'[q].pc = "idle"
      BY <1>1, IdleShaped
    <2>2. QED
      BY <2>1 DEF Knows
  <1>2. CASE n # Idle /\ r.pc = "actor"
    <2>1. /\ Kept(n, r) /\ ActorMay(r, role) /\ n.actorRole = role /\ n.load = "absent"
          /\ IF r.op = "assign" /\ r.target = NoUser THEN n.pc = "commit" ELSE n.pc = "target"
      BY <1>r, <1>2, AfterActorIs
    <2>2. role = row[r.actor]
      BY <1>2, <2>1 DEF ActorMay, Sought
    <2>3. ActorMay(n, n.actorRole)
      BY <2>1 DEF ActorMay, Kept
    <2>4. n.pc = "commit" => n.op = "assign" /\ n.target = NoUser
      BY <2>1 DEF Kept
    <2>5. n.pc \in {"target", "commit"} /\ n.actorRole = row'[n.actor]
      BY <2>1, <2>2 DEF Kept
    <2>6. QED
      BY <2>1, <2>3, <2>4, <2>5 DEF Knows
  <1>3. CASE n # Idle /\ r.pc = "target"
    <2>1. /\ Kept(n, r) /\ n.actorRole = r.actorRole
          /\ TargetAllowed(r, role) /\ n.targetRole = role /\ n.load = "absent"
          /\ n.pc = CASE r.op = "add" -> "lookup"
                      [] r.op = "update" /\ r.wanted = "admin" -> "count"
                      [] OTHER -> "commit"
      BY <1>r, <1>3, AfterTargetIs
    <2>2. n.pc \in {"lookup", "count", "commit"} /\ (n.op = "add" => n.pc = "lookup")
      BY <2>1 DEF Kept
    <2>3. n.op # "assign" => n.actorRole = row'[n.actor] /\ ActorMay(n, n.actorRole)
      BY <1>3, <2>1 DEF Knows, Kept, ActorMay
    <2>4. r.op \in Ops /\ r.target \in Users /\ Sought(r) = r.target
      BY <1>r, <1>3 DEF Shaped, Sought
    <2>5. n.op = "update" => n.targetRole = row'[n.target] /\ UpdateAllowed(n, n.targetRole)
      BY <2>1, <2>4 DEF Kept, TargetAllowed, UpdateAllowed
    <2>6. n.op = "remove" => n.targetRole = row'[n.target] /\ RemoveAllowed(n, n.targetRole)
      BY <2>1, <2>4 DEF Kept, TargetAllowed, RemoveAllowed
    <2>7. n.op = "assign" => n.target \in Members'
      BY <2>1, <2>4 DEF Kept, TargetAllowed, Members
    <2>8. QED
      BY <2>1, <2>2, <2>3, <2>5, <2>6, <2>7 DEF Knows
  <1>4. QED
    BY <1>r, <1>1, <1>2, <1>3

(* What reads and checks do to their request. *)
LEMMA ChecksKnow ==
  ASSUME Typed, NEW q \in Requests, LookupRow(q) \/ CountAdmins(q), Knows(req[q])
  PROVE  Knows(req[q])'
  <1> DEFINE r == req[q]
  <1> DEFINE n == req'[q]
  <1>r. r \in Request /\ Shaped(r) /\ req \in [Requests -> Request] /\ UNCHANGED row
    BY DEF Typed, ReqTyped, LookupRow, CountAdmins
  <1>1. CASE Finish(q)
    <2>1. req'[q].pc = "idle"
      BY <1>1, <1>r, IdleShaped DEF Finish
    <2>2. QED
      BY <2>1 DEF Knows
  <1>2. ASSUME NEW seen, NEW pc \in {"count", "commit"}, req' = [req EXCEPT ![q] = [[r EXCEPT !.seen = seen] EXCEPT !.pc = pc]]
        PROVE  /\ n.pc = pc /\ n.op = r.op /\ n.actor = r.actor /\ n.target = r.target
               /\ n.wanted = r.wanted /\ n.actorRole = r.actorRole /\ n.targetRole = r.targetRole
    <2>1. n = [[r EXCEPT !.seen = seen] EXCEPT !.pc = pc]
      BY <1>r, <1>2
    <2> DEFINE m == [r EXCEPT !.seen = seen]
    <2>2. /\ m.op = r.op /\ m.actor = r.actor /\ m.target = r.target /\ m.wanted = r.wanted
          /\ m.actorRole = r.actorRole /\ m.targetRole = r.targetRole
          /\ m = [pc |-> m.pc, op |-> m.op, actor |-> m.actor, target |-> m.target,
                  wanted |-> m.wanted, actorRole |-> m.actorRole, targetRole |-> m.targetRole,
                  load |-> m.load, seen |-> m.seen, ok |-> m.ok]
      BY <1>r DEF Request
    <2>3. n = [m EXCEPT !.pc = pc]
      BY <2>1
    <2> HIDE DEF m, n
    <2>4. QED
      BY <2>2, <2>3
  <1>3. CASE LookupRow(q) /\ ~Finish(q)
    <2>1. r.pc = "lookup" /\ r.op = "add"
          /\ req' = [req EXCEPT ![q] = [[r EXCEPT !.seen = row[r.target]] EXCEPT
                                           !.pc = IF r.wanted = "admin" THEN "count" ELSE "commit"]]
      BY <1>3, <1>r DEF LookupRow, Goto, Shaped
    <2>2. /\ n.pc \in {"count", "commit"} /\ n.op = "add" /\ n.actor = r.actor
          /\ n.wanted = r.wanted /\ n.actorRole = r.actorRole
      BY <1>2, <2>1
    <2>3. n.actorRole = row'[n.actor] /\ ActorMay(n, n.actorRole)
      BY <1>r, <2>1, <2>2 DEF Knows, ActorMay
    <2>4. QED
      BY <2>2, <2>3 DEF Knows
  <1>4. CASE CountAdmins(q) /\ ~Finish(q)
    <2>1. r.pc = "count" /\ r.op \in {"add", "update"} /\ req' = [req EXCEPT ![q] = [r EXCEPT !.pc = "commit"]]
      BY <1>4, <1>r DEF CountAdmins, Goto, Shaped
    <2>2. [r EXCEPT !.pc = "commit"] = [[r EXCEPT !.seen = r.seen] EXCEPT !.pc = "commit"]
      BY <1>r DEF Request
    <2>3. /\ n.pc = "commit" /\ n.op = r.op /\ n.actor = r.actor /\ n.target = r.target
          /\ n.wanted = r.wanted /\ n.actorRole = r.actorRole /\ n.targetRole = r.targetRole
      BY <1>2, <2>1, <2>2
    <2>4. n.actorRole = row'[n.actor] /\ ActorMay(n, n.actorRole)
      BY <1>r, <2>1, <2>3 DEF Knows, ActorMay
    <2>5. n.op = "update" => n.targetRole = row'[n.target] /\ UpdateAllowed(n, n.targetRole)
      BY <1>r, <2>1, <2>3 DEF Knows, UpdateAllowed
    <2>6. QED
      BY <2>1, <2>3, <2>4, <2>5 DEF Knows
  <1>5. QED
    BY <1>1, <1>3, <1>4

(* What a cached role says is so while nothing is about to delete it. *)
LEMMA CacheIsCurrent ==
  ASSUME CacheInv, NEW u \in Users, cached[u] \in Roles, ~Evicting(u)
  PROVE  cached[u] = row[u]
  BY DEF CacheInv

(* Every step of a request that writes no row keeps what it knows. *)
LEMMA QuietKnows ==
  ASSUME Typed, CacheInv, NEW q \in Requests, Onward(q), ~(Commit(q) \/ CommitReplyLost(q)),
         Knows(req[q]), \A p \in Requests \ {q} : req[p].pc = "idle"
  PROVE  Knows(req[q])'
  <1> DEFINE r == req[q]
  <1>r. r \in Request /\ Shaped(r) /\ req \in [Requests -> Request]
    BY DEF Typed, ReqTyped
  <1>1. CASE ReadCached(q)
    <2>1. Seeking(q) /\ Learn(q, cached[Sought(r)]) /\ cached[Sought(r)] # "absent" /\ UNCHANGED row
      BY <1>1 DEF ReadCached
    <2>2. Sought(r) \in Users /\ cached[Sought(r)] \in Roles \cup {"null"}
      BY <1>r, <2>1, SoughtIsUser, CachedRoleIs DEF Seeking, CacheTyped, Typed
    <2>3. ~Evicting(Sought(r))
      BY <2>1 DEF Evicting, Seeking
    <2>4. cached[Sought(r)] \in Roles => cached[Sought(r)] = row[Sought(r)]
      BY <2>2, <2>3, CacheIsCurrent
    <2>5. QED
      BY <2>1, <2>2, <2>4, LearnKnows
  <1>2. CASE LoadRole(q)
    <2> DEFINE n == req'[q]
    <2>1. n = [r EXCEPT !.load = RoleOf(row[Sought(r)])] /\ UNCHANGED row /\ r.pc \in {"actor", "target"}
      BY <1>2, <1>r DEF LoadRole, Seeking
    <2>2. /\ n.pc = r.pc /\ n.op = r.op /\ n.actor = r.actor /\ n.target = r.target /\ n.wanted = r.wanted
          /\ n.actorRole = r.actorRole /\ n.load = RoleOf(row[Sought(r)])
      BY <1>r, <2>1 DEF Request
    <2>3. n.load = RoleOf(row'[Sought(n)])
      BY <2>1, <2>2 DEF Sought
    <2>4. n.pc = "target" /\ n.op # "assign" => n.actorRole = row'[n.actor] /\ ActorMay(n, n.actorRole)
      BY <2>1, <2>2 DEF Knows, ActorMay
    <2>5. QED
      BY <2>1, <2>2, <2>3, <2>4 DEF Knows
  <1>3. CASE FillCache(q)
    <2>1. Seeking(q) /\ Learn(q, r.load) /\ r.load # "absent" /\ r.load \in CachedRoles /\ UNCHANGED row
      BY <1>3, <1>r DEF FillCache, Request
    <2>2. r.load \in Roles \cup {"null"} /\ "null" \notin Roles
      BY <2>1, CachedRoleIs DEF Roles
    <2>3. r.load = RoleOf(row[Sought(r)])
      BY <2>1 DEF Knows, Seeking
    <2>4. r.load \in Roles => r.load = row[Sought(r)]
      BY <2>2, <2>3 DEF RoleOf
    <2>5. QED
      BY <2>1, <2>2, <2>4, LearnKnows
  <1>4. CASE LookupRow(q) \/ CountAdmins(q)
    BY <1>4, ChecksKnow
  <1>5. CASE Rollback(q)
    <2>1. req'[q].pc \in {"idle", "evictActor", "evictTarget"}
      BY <1>5, CommitMoves DEF Typed
    <2>2. QED
      BY <2>1 DEF Knows
  <1>6. CASE EvictActor(q) \/ EvictTarget(q)
    <2>1. req'[q].pc \in {"idle", "evictTarget"}
      BY <1>6, <1>r, IdleShaped DEF EvictActor, EvictTarget, Goto, Finish, Request
    <2>2. QED
      BY <2>1 DEF Knows
  <1>7. QED
    BY <1>1, <1>2, <1>3, <1>4, <1>5, <1>6 DEF Onward

(* Steps that write no row leave cached roles current, or about to be deleted. *)
LEMMA QuietCache ==
  ASSUME Typed, CacheInv, NEW q \in Requests, Onward(q), ~(Commit(q) \/ CommitReplyLost(q)),
         Knows(req[q]), UNCHANGED faults, \A p \in Requests \ {q} : req[p].pc = "idle"
  PROVE  CacheInv'
  <1> DEFINE r == req[q]
  <1>r. r \in Request /\ Shaped(r) /\ req \in [Requests -> Request] /\ cached \in [Users -> CachedRoles]
    BY DEF Typed, ReqTyped, CacheTyped
  <1>f. ~Fault
    BY MembersAssumption DEF Fault, Typed, CountsTyped
  <1>n. UNCHANGED row /\ "absent" \notin Roles
    BY DEF Onward, ReadCached, LoadRole, FillCache, LookupRow, CountAdmins, Rollback, EvictActor,
           EvictTarget, Roles
  <1>1. ASSUME r.pc \notin {"evictActor", "evictTarget"},
               \A u \in Users : cached'[u] \in Roles => cached'[u] = cached[u] \/ cached'[u] = row[u]
        PROVE  CacheInv'
    <2>1. \A u \in Users : ~Evicting(u)
      BY <1>1 DEF Evicting
    <2>2. QED
      BY <1>1, <1>n, <2>1 DEF CacheInv
  <1>2. CASE ReadCached(q) \/ LoadRole(q) \/ LookupRow(q) \/ CountAdmins(q) \/ Rollback(q)
    BY <1>1, <1>2 DEF ReadCached, LoadRole, LookupRow, CountAdmins, Rollback, Seeking
  <1>3. CASE FillCache(q)
    <2>1. r.load = RoleOf(row[Sought(r)]) /\ "null" \notin Roles /\ r.pc \in {"actor", "target"}
      BY <1>3 DEF FillCache, Seeking, Knows, Roles
    <2>2. cached' = [cached EXCEPT ![Sought(r)] = r.load]
      BY <1>3 DEF FillCache
    <2>3. QED
      BY <1>1, <1>r, <2>1, <2>2 DEF RoleOf
  <1>4. CASE EvictActor(q)
    <2>1. /\ r.pc = "evictActor" /\ cached' = [cached EXCEPT ![r.actor] = "absent"]
          /\ (r.ok => Goto(q, r, "evictTarget"))
      BY <1>4, <1>f DEF EvictActor
    <2>2. \A u \in Users : cached[u] \in Roles =>
            cached[u] = row[u] \/ u = r.actor \/ (r.ok /\ u = r.target)
      BY <2>1 DEF CacheInv, Evicting
    <2>3. r.ok => req'[q].pc = "evictTarget" /\ req'[q].target = r.target
      BY <1>r, <2>1 DEF Goto, Request
    <2>4. QED
      BY <1>r, <1>n, <2>1, <2>2, <2>3 DEF CacheInv, Evicting
  <1>5. CASE EvictTarget(q)
    <2>1. r.pc = "evictTarget" /\ cached' = [cached EXCEPT ![r.target] = "absent"]
      BY <1>5, <1>f DEF EvictTarget
    <2>2. \A u \in Users : cached[u] \in Roles => cached[u] = row[u] \/ u = r.target
      BY <2>1 DEF CacheInv, Evicting
    <2>3. QED
      BY <1>r, <1>n, <2>1, <2>2 DEF CacheInv
  <1>6. QED
    BY <1>2, <1>3, <1>4, <1>5 DEF Onward

(* The requests whose transaction may move ownership: a transfer by the owner, to somebody else. *)
LEMMA TransferMoves ==
  ASSUME ReqTyped, NEW q \in Requests, req[q].pc = "commit", Knows(req[q]),
         req[q].op = "update", Owners = {ownerID}
  PROVE  LET r == req[q]
         IN  /\ r.actor \in Users /\ r.target \in Users /\ r.actor = ownerID
             /\ row[r.actor] = "owner" /\ row[r.target] \in Roles
             /\ r.wanted = "owner" => r.actor # r.target
             /\ r.wanted # "owner" => r.target # ownerID
  <1> DEFINE r == req[q]
  <1>1. r.actor \in Users /\ r.target \in Users /\ r.wanted \in Roles
    BY CommitShape
  <1>2. row[r.actor] = "owner" /\ r.targetRole = row[r.target] /\ UpdateAllowed(r, r.targetRole)
    BY DEF Knows, UpdateAllowed
  <1>3. r.actor = ownerID
    BY <1>1, <1>2 DEF Owners
  <1>4. QED
    BY <1>1, <1>2, <1>3 DEF UpdateAllowed

(* A transaction made on what its request knows leaves one owner. *)
LEMMA CommitOwner ==
  ASSUME ReqTyped, RowsTyped, NEW q \in Requests, req[q].pc = "commit", Write(req[q]), Knows(req[q]),
         Owners = {ownerID}
  PROVE  Owners' = {ownerID'}
  <1> DEFINE r == req[q]
  <1>s. r.op \in Ops
    BY CommitShape
  <1>o. /\ ownerID \in Users /\ \A v \in Users : row[v] = "owner" <=> v = ownerID
        /\ ownerID' = IF r.op = "update" /\ r.wanted = "owner" THEN r.target ELSE ownerID
    BY DEF RowsTyped, Owners, Write
  <1>1. CASE r.op = "add"
    <2>1. /\ row[r.target] \notin Roles /\ r.wanted \in {"admin", "member"}
          /\ \A v \in Users : row'[v] = IF v = r.target THEN r.wanted ELSE row[v]
      BY <1>1, WriteIs, CommitShape
    <2>2. r.target # ownerID
      BY <1>o, <2>1 DEF Roles
    <2>3. QED
      BY <1>1, <1>o, <2>1, <2>2 DEF Owners
  <1>2. CASE r.op = "remove"
    <2>1. \A v \in Users : row'[v] = IF v = r.target THEN "deleted" ELSE row[v]
      BY <1>2, WriteIs
    <2>2. row[r.target] # "owner"
      BY <1>2 DEF Knows, RemoveAllowed
    <2>3. r.target # ownerID
      BY <1>o, <2>2
    <2>4. QED
      BY <1>2, <1>o, <2>1, <2>3 DEF Owners
  <1>3. CASE r.op = "assign"
    BY <1>3, <1>o, WriteIs DEF Owners
  <1>4. CASE r.op = "update" /\ r.wanted # "owner"
    <2>1. \A v \in Users : row'[v] = IF v = r.target /\ row[v] \in Roles THEN r.wanted ELSE row[v]
      BY <1>4, WriteIs
    <2>2. r.target # ownerID
      BY <1>4, TransferMoves
    <2>3. QED
      BY <1>4, <1>o, <2>1, <2>2 DEF Owners
  <1>5. CASE r.op = "update" /\ r.wanted = "owner"
    <2>1. \A v \in Users : row'[v] = IF row[v] \notin Roles THEN row[v]
                                     ELSE IF v = r.actor /\ v # r.target THEN "member"
                                     ELSE IF v = r.target THEN "owner" ELSE row[v]
      BY <1>5, WriteIs
    <2>2. r.actor # r.target /\ r.actor = ownerID /\ r.target \in Users /\ row[r.target] \in Roles
      BY <1>5, TransferMoves
    <2>3. \A v \in Users : row'[v] = "owner" <=> v = r.target
      BY <1>o, <2>1, <2>2 DEF Roles
    <2>4. QED
      BY <1>5, <1>o, <2>2, <2>3 DEF Owners
  <1>6. QED
    BY <1>s, <1>1, <1>2, <1>3, <1>4, <1>5 DEF Ops

(* It leaves the task to a member, or to nobody. *)
LEMMA CommitAssignee ==
  ASSUME ReqTyped, RowsTyped, NEW q \in Requests, req[q].pc = "commit", Write(req[q]), Knows(req[q]),
         assignee \in Members \cup {NoUser}
  PROVE  (assignee \in Members \cup {NoUser})'
  <1> DEFINE r == req[q]
  <1>s. r.op \in Ops
    BY CommitShape
  <1>a. assignee' = AssigneeAfter(r)
    BY DEF Write
  <1>1. CASE r.op = "add"
    <2>1. assignee' = assignee /\ r.wanted \in Roles
          /\ \A v \in Users : row'[v] = IF v = r.target THEN r.wanted ELSE row[v]
      BY <1>a, <1>1, WriteIs, CommitShape DEF AssigneeAfter, Roles
    <2>2. QED
      BY <2>1 DEF Members
  <1>2. CASE r.op = "remove"
    <2>1. assignee' = (IF assignee = r.target THEN NoUser ELSE assignee)
          /\ \A v \in Users : row'[v] = IF v = r.target THEN "deleted" ELSE row[v]
      BY <1>a, <1>2, WriteIs DEF AssigneeAfter
    <2>2. QED
      BY <2>1 DEF Members
  <1>3. CASE r.op = "assign"
    <2>1. assignee' = r.target
      BY <1>a, <1>3 DEF AssigneeAfter
    <2>2. row' = RowsAfter(r)
      BY DEF Write
    <2>3. row' = row
      BY <1>3, <2>2 DEF RowsAfter
    <2>4. r.target \in Members \cup {NoUser}
      BY <1>3 DEF Knows
    <2>5. QED
      BY <2>1, <2>3, <2>4 DEF Members
  <1>4. CASE r.op = "update"
    <2>1. assignee' = assignee
      BY <1>a, <1>4 DEF AssigneeAfter
    <2>2. r.wanted \in Roles /\ "owner" \in Roles /\ "member" \in Roles
      BY <1>4, CommitShape DEF Roles
    <2>3. \A v \in Users : row[v] \in Roles => row'[v] \in Roles
      BY <1>4, <2>2, WriteIs
    <2>4. QED
      BY <2>1, <2>3 DEF Members
  <1>5. QED
    BY <1>s, <1>1, <1>2, <1>3, <1>4 DEF Ops

(* It goes on to delete the cached roles it has changed. *)
LEMMA CommitCache ==
  ASSUME ReqTyped, RowsTyped, NEW q \in Requests, Commit(q), Knows(req[q]), Owners = {ownerID},
         CacheInv, \A p \in Requests \ {q} : req[p].pc = "idle"
  PROVE  CacheInv'
  <1> DEFINE r == req[q]
  <1> DEFINE n == req'[q]
  <1>r. r.pc = "commit" /\ Write(r) /\ n = AfterTx(r, TRUE) /\ UNCHANGED cached /\ r.op \in Ops /\ r \in Request
    BY CommitShape DEF Commit, ReqTyped
  <1>c. \A v \in Users : cached[v] \in Roles => cached[v] = row[v]
    BY <1>r DEF CacheInv, Evicting
  <1>1. ASSUME \A v \in Users : row[v] \in Roles /\ row'[v] # row[v] => Evicting(v)' PROVE CacheInv'
    BY <1>1, <1>c, <1>r DEF CacheInv
  <1>2. CASE r.op = "add"
    BY <1>1, <1>2, <1>r, WriteIs
  <1>3. CASE r.op = "assign"
    BY <1>1, <1>3, <1>r, WriteIs
  <1>4. CASE r.op = "remove" \/ (r.op = "update" /\ r.wanted # "owner")
    <2>1. n = [r EXCEPT !.pc = "evictTarget", !.ok = TRUE]
      BY <1>r, <1>4 DEF AfterTx
    <2>2. n.pc = "evictTarget" /\ n.target = r.target
      BY <1>r, <2>1 DEF Request
    <2>3. \A v \in Users : row'[v] # row[v] => v = r.target
      BY <1>r, <1>4, WriteIs
    <2>4. QED
      BY <1>1, <2>2, <2>3 DEF Evicting
  <1>5. CASE r.op = "update" /\ r.wanted = "owner"
    <2>1. n = [r EXCEPT !.pc = "evictActor", !.ok = TRUE]
      BY <1>r, <1>5 DEF AfterTx
    <2>2. n.pc = "evictActor" /\ n.target = r.target /\ n.actor = r.actor /\ n.ok
      BY <1>r, <2>1 DEF Request
    <2>3. \A v \in Users : row'[v] # row[v] => v = r.target \/ v = r.actor
      BY <1>r, <1>5, WriteIs
    <2>4. ASSUME NEW v \in Users, v = r.target \/ v = r.actor PROVE Evicting(v)'
      <3>1. req'[q].pc = "evictActor" /\ req'[q].ok /\ (v = req'[q].target \/ v = req'[q].actor)
        BY <2>2, <2>4
      <3>2. QED
        BY <3>1 DEF Evicting
    <2>5. QED
      BY <1>1, <2>3, <2>4
  <1>6. QED
    BY <1>r, <1>2, <1>3, <1>4, <1>5 DEF Ops

(* Without overlap there is one owner, the assignee is a member, cached roles are current but *)
(* for those a transaction is about to delete, and what a request has learned stays so until  *)
(* it commits.                                                                                *)
LEMMA SerialStep == Typed /\ SerialInv /\ [Next]_vars => SerialInv'
  <1> SUFFICES ASSUME Typed, SerialInv, [Next]_vars, Serial'
               PROVE  (Owners = {ownerID} /\ assignee \in Members \cup {NoUser} /\ CacheInv)'
                      /\ \A q \in Requests : Knows(req[q])'
    BY DEF SerialInv, OneOwner, AssigneeIsMember
  <1>t. ReqTyped /\ RowsTyped
    BY DEF Typed
  <1>s. Serial => /\ Owners = {ownerID} /\ assignee \in Members \cup {NoUser} /\ CacheInv
                  /\ \A q \in Requests : Knows(req[q])
    BY DEF SerialInv, OneOwner, AssigneeIsMember
  <1>r. UNCHANGED <<row, ownerID, assignee>> =>
          /\ UNCHANGED Owners /\ UNCHANGED Members /\ UNCHANGED <<ownerID, assignee>>
    BY DEF Owners, Members
  <1>1. ASSUME NEW q \in Requests, Starts(q)
        PROVE  (Owners = {ownerID} /\ assignee \in Members \cup {NoUser} /\ CacheInv)'
               /\ \A p \in Requests : Knows(req[p])'
    <2>1. Serial /\ \A p \in Requests : req[p].pc = "idle"
      BY <1>1, StartsAlone
    <2>2. UNCHANGED <<row, ownerID, assignee, cached>>
      BY <1>t, <1>1, StartInFlight
    <2>3. PICK r \in Request :
             /\ req' = [req EXCEPT ![q] = r] /\ r.load = "absent"
             /\ \/ r.pc = "actor"
                \/ r.pc = "target" /\ r.op = "assign"
                \/ r.pc = "commit" /\ r.op = "assign" /\ r.target = NoUser
      BY <1>1, StartIs DEF Starts, Start
    <2>4. req'[q] = r /\ \A p \in Requests \ {q} : req'[p].pc = "idle"
      BY <1>t, <2>1, <2>3 DEF ReqTyped
    <2>5. Knows(req[q])' /\ \A p \in Requests \ {q} : Knows(req[p])'
      BY <2>3, <2>4 DEF Knows
    <2>6. \A u \in Users : ~Evicting(u)
      BY <2>1 DEF Evicting
    <2>7. CacheInv'
      BY <1>s, <2>1, <2>2, <2>6 DEF CacheInv
    <2>8. QED
      BY <1>r, <1>s, <2>1, <2>2, <2>5, <2>7
  <1>2. ASSUME NEW q \in Requests, Onward(q)
        PROVE  (Owners = {ownerID} /\ assignee \in Members \cup {NoUser} /\ CacheInv)'
               /\ \A p \in Requests : Knows(req[p])'
    <2>1. Serial /\ UNCHANGED faults /\ \A p \in Requests \ {q} : req[p].pc = "idle" /\ req'[p] = req[p]
      BY <1>2, GoesOnAlone
    <2>2. /\ Owners = {ownerID} /\ assignee \in Members \cup {NoUser} /\ CacheInv
          /\ Knows(req[q])
      BY <1>s, <2>1
    <2>3. \A p \in Requests \ {q} : Knows(req[p])'
      <3>1. SUFFICES ASSUME NEW p \in Requests \ {q} PROVE Knows(req[p])'
        OBVIOUS
      <3>2. req'[p].pc = "idle"
        BY <2>1
      <3>3. QED
        BY <3>2, DoneKnows
    <2>4. ~CommitReplyLost(q)
      <3>1. ~Fault
        BY <2>1, MembersAssumption DEF Fault, Typed, CountsTyped
      <3>2. QED
        BY <3>1 DEF CommitReplyLost
    <2>5. CASE Commit(q)
      <3>1. req[q].pc = "commit" /\ Write(req[q]) /\ Knows(req[q])'
        BY <1>t, <2>5, CommitMoves DEF Commit, Knows
      <3>2. Owners' = {ownerID'} /\ (assignee \in Members \cup {NoUser})'
        BY <1>t, <2>2, <3>1, CommitOwner, CommitAssignee
      <3>3. CacheInv'
        BY <1>t, <2>1, <2>2, <2>5, CommitCache
      <3>4. QED
        BY <2>3, <3>1, <3>2, <3>3
    <2>6. CASE ~Commit(q)
      <3>1. Knows(req[q])' /\ CacheInv'
        BY <1>2, <2>1, <2>2, <2>4, <2>6, QuietKnows, QuietCache
      <3>2. UNCHANGED <<row, ownerID, assignee>>
        BY <1>2, <2>4, <2>6 DEF Onward, ReadCached, LoadRole, FillCache, LookupRow, CountAdmins, Rollback,
                                EvictActor, EvictTarget
      <3>3. QED
        BY <1>r, <2>2, <2>3, <3>1, <3>2
    <2>7. QED
      BY <2>5, <2>6
  <1>3. CASE (\E u \in Users : Expire(u)) \/ UNCHANGED vars
    <2>1. UNCHANGED <<row, ownerID, assignee, req, faults, peak>>
      BY <1>3 DEF Expire, vars
    <2>2. Serial
      BY <2>1 DEF Serial
    <2>3. \A v \in Users : cached'[v] \in Roles => cached'[v] = cached[v]
      <3>1. "absent" \notin Roles /\ cached \in [Users -> CachedRoles]
        BY DEF Roles, Typed, CacheTyped
      <3>2. UNCHANGED cached \/ \E u \in Users : cached' = [cached EXCEPT ![u] = "absent"]
        BY <1>3 DEF Expire, vars
      <3>3. QED
        BY <3>1, <3>2
    <2>4. CacheInv'
      BY <1>s, <2>1, <2>2, <2>3 DEF CacheInv, Evicting
    <2>5. \A p \in Requests : Knows(req[p])'
      BY <1>s, <2>1, <2>2 DEF Knows, Members
    <2>6. QED
      BY <1>r, <1>s, <2>1, <2>2, <2>4, <2>5
  <1>4. QED
    BY <1>1, <1>2, <1>3, Steps

(* At the start the founder is the owner and nothing is cached. *)
LEMMA InitSerial == Init => SerialInv
  <1> SUFFICES ASSUME Init PROVE SerialInv
    OBVIOUS
  <1>1. Owners = {ownerID} /\ assignee = NoUser
    BY DEF Init
  <1>2. CacheInv
    BY DEF Init, CacheInv, Roles
  <1>3. \A q \in Requests : Knows(req[q])
    BY IdleShaped DEF Init, Knows
  <1>4. QED
    BY <1>1, <1>2, <1>3 DEF SerialInv, OneOwner, AssigneeIsMember

(* The types and what holds without overlap are invariants together. *)
LEMMA SerialHolds == Spec => [](Typed /\ SerialInv)
  <1>1. Typed /\ SerialInv /\ [Next]_vars => (Typed /\ SerialInv)'
    BY StepTyped, SerialStep
  <1>2. QED
    BY <1>1, InitTyped, InitSerial, PTL DEF Spec

(* As long as requests do not overlap, however many run and however ownership is handed on, *)
(* the project has the one owner projects.owner_id names.                                   *)
THEOREM ThereIsOneOwner == Spec => []OneOwner
  <1>1. SerialInv => OneOwner
    BY DEF SerialInv, OneOwner
  <1>2. QED
    BY <1>1, SerialHolds, PTL

(* As long as requests do not overlap, the task is assigned to a member or to nobody. *)
THEOREM AssigneesAreMembers == Spec => []AssigneeIsMember
  <1>1. SerialInv => AssigneeIsMember
    BY DEF SerialInv, AssigneeIsMember
  <1>2. QED
    BY <1>1, SerialHolds, PTL

(* As long as requests do not overlap, a cached role is the role of the row, except while the *)
(* transaction that changed it has not deleted it yet.                                        *)
THEOREM CachedRolesAreCurrent == Spec => []CachedRoleIsCurrent
  <1>1. SerialInv => CachedRoleIsCurrent
    BY DEF SerialInv, CachedRoleIsCurrent, CacheInv, Evicting
  <1>2. QED
    BY <1>1, SerialHolds, PTL

(* What the actor of a transaction was allowed on, it has when the transaction is written. *)
LEMMA AuthorityStep ==
  ASSUME Typed, SerialInv, [Next]_vars, Serial, NEW q \in Requests, req[q].pc = "commit", row' # row
  PROVE  LET actor == row[req[q].actor]
         IN  /\ actor \in Roles
             /\ req[q].op = "update" => actor = "owner"
             /\ req[q].op = "remove" => RoleLevel[actor] < RoleLevel[row[req[q].target]]
             /\ req[q].op = "add" => RoleLevel[actor] < RoleLevel[req[q].wanted]
  <1> DEFINE r == req[q]
  <1>1. PICK p \in Requests : req[p].pc = "commit" /\ Write(req[p])
    BY OnlyCommitsWrite DEF Commit, CommitReplyLost
  <1>2. p = q
    <2>1. q \in InFlight
      BY DEF InFlight
    <2>2. QED
      BY <1>1, <2>1, OneAtATime
  <1>3. r.op # "assign"
    BY <1>1, <1>2 DEF Write, RowsAfter
  <1>4. r.actorRole = row[r.actor] /\ ActorMay(r, r.actorRole)
        /\ (r.op = "update" => UpdateAllowed(r, r.targetRole))
        /\ (r.op = "remove" => r.targetRole = row[r.target] /\ RemoveAllowed(r, r.targetRole))
    BY <1>3 DEF SerialInv, Knows
  <1>5. QED
    BY <1>4 DEF ActorMay, UpdateAllowed, RemoveAllowed

(* As long as requests do not overlap, every transaction that changes a role is written on the *)
(* authority its actor has then, though the roles were read through the cache long before.     *)
THEOREM AuthorityHolds == Spec => AuthorityIsCurrent
  <1>1. Typed /\ SerialInv /\ [Next]_vars =>
          [\A q \in Requests :
             (/\ Serial
              /\ req[q].pc = "commit"
              /\ row' # row) =>
                LET actor == row[req[q].actor]
                IN  /\ actor \in Roles
                    /\ req[q].op = "update" => actor = "owner"
                    /\ req[q].op = "remove" =>
                           RoleLevel[actor] < RoleLevel[row[req[q].target]]
                    /\ req[q].op = "add" =>
                           RoleLevel[actor] < RoleLevel[req[q].wanted]]_vars
    BY AuthorityStep
  <1>2. QED
    BY <1>1, SerialHolds, PTL DEF Spec, AuthorityIsCurrent
=============================================================================
