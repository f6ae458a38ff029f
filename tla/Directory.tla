------------------------------ MODULE Directory ------------------------------
(***************************************************************************)
(* The lists of a user's projects and of found users, and how old they may *)
(* be: ListProjects (project_service.go), ListUsers (user_service.go), the *)
(* cached ids, pages and brief objects they are put together from          *)
(* (cache_service.go, cache_util.go), and the changes of projects, members *)
(* and profiles, of which only the last tells the cache.                   *)
(*                                                                         *)
(* One user looks: at the projects she is in and that are active, and at   *)
(* the users one keyword finds. An item is a project or a user. It has one *)
(* property that may change: a project is active, a user has the nickname  *)
(* he came with. A request takes no time: the clock ticks between requests.*)
(* Times are ages and lives left, so that time has no end: an entry of the *)
(* cache has ticks to live, a change is some ticks old.                    *)
(***************************************************************************)
EXTENDS Naturals

CONSTANTS
    Projects,
    Users,
    Readers,
    NoEntry,
    IDsTTL,         \* UserProjectIDsTTL: 5 minutes
    PageTTL,        \* UserProjectListTTL, UserListTTL: 1 minute
    BriefTTL,       \* ProjectBriefInfoTTL, UserBriefInfoTTL: 20 minutes
    Old,            \* an age beyond every TTL: older is not told apart
    MaxChanges      \* bound: changes of projects, members and profiles, and restarts

Items == Projects \cup Users

ASSUME DirectoryAssumption ==
    /\ Projects \cap Users = {}
    /\ IDsTTL \in Nat \ {0} /\ PageTTL \in Nat \ {0} /\ BriefTTL \in Nat \ {0}
    /\ Old \in Nat /\ Old >= IDsTTL /\ Old >= PageTTL /\ Old >= BriefTTL
    /\ MaxChanges \in Nat
    /\ NoEntry \notin [ids : SUBSET Projects, life : 1 .. IDsTTL]
    /\ NoEntry \notin [list : SUBSET Items, life : 1 .. PageTTL]
    /\ NoEntry \notin [attr : BOOLEAN, life : 1 .. BriefTTL]

VARIABLES
    listed,         \* projects she is a member of, users who registered
    listedAge,      \* how long ago an item came to be, or ceased to be, listed
    attr,           \* whether the item is as it was
    attrAge,        \* how long ago that changed
    ids,            \* cache: the ids of her projects
    pages,          \* cache: by key, the items of a page
    briefs,         \* cache: by item
    version,        \* of the users' list, in the memory of the process
    profile,        \* updates of profiles: what is left to do
    reader,
    changes

tables == <<listed, listedAge, attr, attrAge>>
caches == <<ids, pages, briefs>>
vars == <<listed, listedAge, attr, attrAge, ids, pages, briefs, version, profile, reader,
          changes>>

Ages == 0 .. Old
Versions == 1 .. MaxChanges + 1

(* A page of projects is kept under the ids it was looked for among, a page of users under *)
(* the version of the list.                                                                *)
ProjectKeys == [ids : SUBSET Projects]
UserKeys == [version : Versions]
Keys == ProjectKeys \cup UserKeys

Idle == [pc |-> "idle", ids |-> {}, key |-> [ids |-> {}], list |-> {}, shown |-> {}]

TypeOK ==
    /\ listed \subseteq Items
    /\ listedAge \in [Items -> Ages]
    /\ attr \in [Items -> BOOLEAN]
    /\ attrAge \in [Items -> Ages]
    /\ ids \in [ids : SUBSET Projects, life : 1 .. IDsTTL] \cup {NoEntry}
    /\ pages \in [Keys -> [list : SUBSET Items, life : 1 .. PageTTL] \cup {NoEntry}]
    /\ briefs \in [Items -> [attr : BOOLEAN, life : 1 .. BriefTTL] \cup {NoEntry}]
    /\ version \in Versions
    /\ profile \in [Users -> {"idle", "delete", "bump"}]
    /\ reader \in [Readers ->
          [pc : {"idle", "ids", "load ids", "set ids", "page", "search", "set page", "keep users",
                 "briefs", "load briefs", "set briefs", "done"},
           ids : SUBSET Projects, key : Keys, list : SUBSET Items,
           shown : SUBSET [item : Items, attr : BOOLEAN]]]
    /\ changes \in 0 .. MaxChanges

Init ==
    /\ listed \in SUBSET Items
    /\ listedAge = [i \in Items |-> Old]
    /\ attr = [i \in Items |-> TRUE]
    /\ attrAge = [i \in Items |-> Old]
    /\ ids = NoEntry
    /\ pages = [k \in Keys |-> NoEntry]
    /\ briefs = [i \in Items |-> NoEntry]
    /\ version = 1
    /\ profile = [u \in Users |-> "idle"]
    /\ reader = [r \in Readers |-> Idle]
    /\ changes = 0

-----------------------------------------------------------------------------
(* Time, changes, restarts *)

Older(age) == IF age = Old THEN Old ELSE age + 1
Aged(entry) ==
    IF entry = NoEntry THEN NoEntry
    ELSE IF entry.life = 1 THEN NoEntry
    ELSE [entry EXCEPT !.life = @ - 1]

(* What was answered is looked at within the unit of time of the answer. *)
Tick ==
    /\ \A r \in Readers : reader[r].pc \in {"idle", "done"}
    /\ \A u \in Users : profile[u] = "idle"
    /\ listedAge' = [i \in Items |-> Older(listedAge[i])]
    /\ attrAge' = [i \in Items |-> Older(attrAge[i])]
    /\ ids' = Aged(ids)
    /\ pages' = [k \in Keys |-> Aged(pages[k])]
    /\ briefs' = [i \in Items |-> Aged(briefs[i])]
    /\ reader' = [r \in Readers |-> Idle]
    /\ UNCHANGED <<listed, attr, version, profile, changes>>

Change == changes < MaxChanges /\ changes' = changes + 1

(* CreateProject, AddProjectMember; registration: the item is listed from now on. *)
Enlist(i) ==
    /\ i \notin listed
    /\ Change
    /\ listed' = listed \cup {i}
    /\ listedAge' = [listedAge EXCEPT ![i] = 0]
    /\ UNCHANGED <<attr, attrAge, caches, version, profile, reader>>

RemoveProjectMember(p) ==
    /\ p \in listed
    /\ Change
    /\ listed' = listed \ {p}
    /\ listedAge' = [listedAge EXCEPT ![p] = 0]
    /\ UNCHANGED <<attr, attrAge, caches, version, profile, reader>>

Alter(i) ==
    /\ Change
    /\ attr' = [attr EXCEPT ![i] = ~@]
    /\ attrAge' = [attrAge EXCEPT ![i] = 0]

(* ArchiveProject, or UpdateProject with another status. *)
UpdateProject(p) ==
    /\ Alter(p)
    /\ UNCHANGED <<listed, listedAge, caches, version, profile, reader>>

(* UpdateUserProfile: the row, *)
UpdateUserProfile(u) ==
    /\ u \in listed /\ profile[u] = "idle"
    /\ Alter(u)
    /\ profile' = [profile EXCEPT ![u] = "delete"]
    /\ UNCHANGED <<listed, listedAge, caches, version, reader>>

(* the brief object (or the deletion fails), *)
DeleteBriefInfo(u) ==
    /\ profile[u] = "delete"
    /\ \/ briefs' = [briefs EXCEPT ![u] = NoEntry]
       \/ UNCHANGED briefs
    /\ profile' = [profile EXCEPT ![u] = "bump"]
    /\ UNCHANGED <<tables, ids, pages, version, reader, changes>>

(* and the version of the list. *)
BumpUserVersion(u) ==
    /\ profile[u] = "bump"
    /\ version' = version + 1
    /\ profile' = [profile EXCEPT ![u] = "idle"]
    /\ UNCHANGED <<tables, caches, reader, changes>>

(* The versions are in the memory of the process, and start over with it. *)
Restart ==
    /\ Change
    /\ version' = 1
    /\ profile' = [u \in Users |-> "idle"]
    /\ reader' = [r \in Readers |-> Idle]
    /\ UNCHANGED <<tables, caches>>

-----------------------------------------------------------------------------
(* Reading *)

Goto(r, pc) == reader' = [reader EXCEPT ![r].pc = pc]

(* As if a hit gave the entry a new life. *)
Renew(entry) == [entry EXCEPT !.life = IDsTTL]

(* A hit leaves the entry the life it has. *)
AfterHit(entry) == entry

(* GetUserProjectIDs *)
ListProjects(r) ==
    /\ reader[r].pc = "idle"
    /\ IF ids # NoEntry
       THEN /\ reader' = [reader EXCEPT ![r].pc = IF ids.ids = {} THEN "done" ELSE "page",
                                        ![r].ids = ids.ids, ![r].key = [ids |-> ids.ids]]
            /\ ids' = AfterHit(ids)
       ELSE Goto(r, "load ids") /\ UNCHANGED ids
    /\ UNCHANGED <<tables, pages, briefs, version, profile, changes>>

LoadIDs(r) ==
    /\ reader[r].pc = "load ids"
    /\ reader' = [reader EXCEPT ![r].pc = "set ids", ![r].ids = listed \cap Projects,
                                ![r].key = [ids |-> listed \cap Projects]]
    /\ UNCHANGED <<tables, caches, version, profile, changes>>

(* Every write to the cache may fail, which is only logged. *)
SetProjectIDs(r) ==
    /\ reader[r].pc = "set ids"
    /\ ids' \in {ids, [ids |-> reader[r].ids, life |-> IDsTTL]}
    /\ Goto(r, IF reader[r].ids = {} THEN "done" ELSE "page")
    /\ UNCHANGED <<tables, pages, briefs, version, profile, changes>>

ListUsers(r) ==
    /\ reader[r].pc = "idle"
    /\ reader' = [reader EXCEPT ![r].pc = "page", ![r].key = [version |-> version]]
    /\ UNCHANGED <<tables, caches, version, profile, changes>>

(* loadListPageBundle *)
GetPage(r) ==
    LET page == pages[reader[r].key] IN
    /\ reader[r].pc = "page"
    /\ IF page # NoEntry
       THEN reader' = [reader EXCEPT ![r].pc = "briefs", ![r].list = page.list]
       ELSE Goto(r, "search")
    /\ UNCHANGED <<tables, caches, version, profile, changes>>

AsTheyAre(items) == {[item |-> i, attr |-> attr[i]] : i \in items}

(* SearchProjects filters by status; the name SearchUsers looks for never changes. *)
Found(r) ==
    IF reader[r].key \in UserKeys THEN listed \cap Users
    ELSE {p \in reader[r].ids : attr[p]}

Search(r) ==
    /\ reader[r].pc = "search"
    /\ reader' = [reader EXCEPT ![r].pc = "set page", ![r].list = Found(r),
                                ![r].shown = AsTheyAre(Found(r))]
    /\ UNCHANGED <<tables, caches, version, profile, changes>>

SetPage(r) ==
    /\ reader[r].pc = "set page"
    /\ pages' \in {pages, [pages EXCEPT ![reader[r].key] = [list |-> reader[r].list, life |-> PageTTL]]}
    /\ Goto(r, IF reader[r].key \in UserKeys THEN "keep users" ELSE "done")
    /\ UNCHANGED <<tables, ids, briefs, version, profile, changes>>

(* MSetBriefInfo: what was read, as it was read. *)
Kept(shown) ==
    [i \in Items |->
        IF \E s \in shown : s.item = i
        THEN [attr |-> (CHOOSE s \in shown : s.item = i).attr, life |-> BriefTTL]
        ELSE briefs[i]]

(* The users that were found are kept; the projects are not. *)
AfterSearch(r) ==
    /\ reader[r].pc = "keep users"
    /\ briefs' \in {briefs, Kept(reader[r].shown)}
    /\ Goto(r, "done")
    /\ UNCHANGED <<tables, ids, pages, version, profile, changes>>

(* BuildBriefUserModelsFromPage, BuildBriefProjectModelsFromPage: those that are cached, *)
InCache(items) == {i \in items : briefs[i] # NoEntry}

BatchGetBriefInfo(r) ==
    LET hits == InCache(reader[r].list) IN
    /\ reader[r].pc = "briefs"
    /\ reader' = [reader EXCEPT ![r].pc = IF hits = reader[r].list THEN "done" ELSE "load briefs",
                                ![r].shown = {[item |-> i, attr |-> briefs[i].attr] : i \in hits}]
    /\ UNCHANGED <<tables, caches, version, profile, changes>>

Missing(r) == {i \in reader[r].list : \A s \in reader[r].shown : s.item # i}

(* the others from the table, *)
BatchGetByIDs(r) ==
    /\ reader[r].pc = "load briefs"
    /\ reader' = [reader EXCEPT ![r].pc = "set briefs",
                                ![r].list = Missing(r),
                                ![r].shown = @ \cup AsTheyAre(Missing(r))]
    /\ UNCHANGED <<tables, caches, version, profile, changes>>

(* and the others alone are written to the cache. *)
ToKeep(r) == {s \in reader[r].shown : s.item \in reader[r].list}

FillBriefs(r) ==
    /\ reader[r].pc = "set briefs"
    /\ briefs' \in {briefs, Kept(ToKeep(r))}
    /\ Goto(r, "done")
    /\ UNCHANGED <<tables, ids, pages, version, profile, changes>>

Read(r) ==
    \/ ListProjects(r) \/ LoadIDs(r) \/ SetProjectIDs(r) \/ ListUsers(r)
    \/ GetPage(r) \/ Search(r) \/ SetPage(r) \/ AfterSearch(r)
    \/ BatchGetBriefInfo(r) \/ BatchGetByIDs(r) \/ FillBriefs(r)

Next ==
    \/ Tick \/ Restart
    \/ \E i \in Items : Enlist(i)
    \/ \E p \in Projects : RemoveProjectMember(p) \/ UpdateProject(p)
    \/ \E u \in Users : UpdateUserProfile(u) \/ DeleteBriefInfo(u) \/ BumpUserVersion(u)
    \/ \E r \in Readers : Read(r)

Spec == Init /\ [][Next]_vars

-----------------------------------------------------------------------------
(* Properties *)

ShownItems(r) == {s.item : s \in reader[r].shown}
Matching(i) == i \in Projects => attr[i]

(* Three caches with three lives of their own stand between the tables and a list: the ids of *)
(* her projects, the page, and the objects on it. Their ages do not add up: whatever expires, *)
(* changes, fails to be cached or restarts in between, what a list shows of                   *)
(*   - a project she left, or is not shown though she joined, is her membership of less than  *)
(*     IDsTTL ago,                                                                            *)
(*   - a project that is no longer active, or not shown though active, and a user not shown   *)
(*     though registered, is the table of less than PageTTL ago,                              *)
(*   - an item otherwise is its row of less than BriefTTL ago                                 *)
(* (ListProjects, ListUsers and the functions of cachesvc they call).                         *)
StaleOnlySoLong ==
    \A r \in Readers : reader[r].pc = "done" =>
        /\ \A s \in reader[r].shown :
              /\ s.item \in listed \/ listedAge[s.item] < IDsTTL
              /\ Matching(s.item) \/ attrAge[s.item] < PageTTL
              /\ s.attr = attr[s.item] \/ attrAge[s.item] < BriefTTL
        /\ reader[r].key \in ProjectKeys =>
              \A p \in (listed \cap Projects) \ ShownItems(r) :
                  \/ ~Matching(p)
                  \/ listedAge[p] < IDsTTL
                  \/ attrAge[p] < PageTTL
        /\ reader[r].key \in UserKeys =>
              \A u \in (listed \cap Users) \ ShownItems(r) : listedAge[u] < PageTTL
=============================================================================
