-------------------------- MODULE DirectoryProofs --------------------------
(***************************************************************************)
(* What Directory keeps for any projects, users, readers, lives and number *)
(* of changes: its types, and how old what a list shows can be.            *)
(***************************************************************************)
EXTENDS Directory, FiniteSetTheorems, TLAPS

(* Every bump of the version belongs to an update of a profile. *)
Pending == {u \in Users : profile[u] # "idle"}

BumpsCounted ==
    /\ IsFiniteSet(Pending)
    /\ version + Cardinality(Pending) <= 1 + changes

TablesTyped ==
    /\ listed \subseteq Items /\ attr \in [Items -> BOOLEAN]
    /\ listedAge \in [Items -> Ages] /\ attrAge \in [Items -> Ages]

IDsEntry == [ids : SUBSET Projects, life : 1 .. IDsTTL]
PageEntry == [list : SUBSET Items, life : 1 .. PageTTL]
BriefEntry == [attr : BOOLEAN, life : 1 .. BriefTTL]

CachesTyped ==
    /\ ids \in IDsEntry \cup {NoEntry}
    /\ pages \in [Keys -> PageEntry \cup {NoEntry}]
    /\ briefs \in [Items -> BriefEntry \cup {NoEntry}]

CountsTyped ==
    /\ version \in Nat \ {0} /\ changes \in 0 .. MaxChanges
    /\ profile \in [Users -> {"idle", "delete", "bump"}]
    /\ BumpsCounted

Steps == {"idle", "ids", "load ids", "set ids", "page", "search", "set page", "keep users",
          "briefs", "load briefs", "set briefs", "done"}
Shown == [item : Items, attr : BOOLEAN]
Reading == [pc : Steps, ids : SUBSET Projects, key : Keys, list : SUBSET Items,
            shown : SUBSET Shown]

ReadersTyped == reader \in [Readers -> Reading]

(* TypeOK by parts. *)
Typed == TablesTyped /\ CachesTyped /\ CountsTyped /\ ReadersTyped

-----------------------------------------------------------------------------
(* Ages: what has life ticks to live was read that long before the end of its cache's whole life, *)
(* and can be wrong only about what changed since.                                               *)

Table == [listed : SUBSET Items, listedAge : [Items -> Ages],
          attr : [Items -> BOOLEAN], attrAge : [Items -> Ages]]

Now == [listed |-> listed, listedAge |-> listedAge, attr |-> attr, attrAge |-> attrAge]

IdsAgree(t, found, life) ==
    \A p \in Projects : (p \in found <=> p \in t.listed) \/ t.listedAge[p] + life <= IDsTTL

PageAgrees(t, key, list, life) ==
    /\ key \in UserKeys =>
          /\ list \subseteq t.listed \cap Users
          /\ \A u \in (t.listed \cap Users) \ list : t.listedAge[u] + life <= PageTTL
    /\ key \in ProjectKeys =>
          /\ list \subseteq key.ids
          /\ \A p \in key.ids : (p \in list <=> t.attr[p]) \/ t.attrAge[p] + life <= PageTTL

ObjectAgrees(t, item, a, life) == a = t.attr[item] \/ t.attrAge[item] + life <= BriefTTL

ObjectsAgree(t, shown, life) == \A s \in shown : ObjectAgrees(t, s.item, s.attr, life)

CachesAgree ==
    /\ ids # NoEntry => IdsAgree(Now, ids.ids, ids.life)
    /\ \A k \in Keys : pages[k] # NoEntry => PageAgrees(Now, k, pages[k].list, pages[k].life)
    /\ \A i \in Items : briefs[i] # NoEntry => ObjectAgrees(Now, i, briefs[i].attr, briefs[i].life)

ItemsOf(shown) == {s.item : s \in shown}
Among(shown, list) == {s \in shown : s.item \in list}

(* What a reader holds at each of its steps: as read from a table, or from a cache before the *)
(* entry's end.                                                                               *)
ReaderAgrees(t, q) ==
    /\ q.pc \in {"idle", "load ids", "set ids"} => q.list = {} /\ q.shown = {}
    /\ q.pc = "set ids" => q.key \in ProjectKeys /\ IdsAgree(t, q.ids, IDsTTL)
    /\ q.pc \notin {"idle", "load ids"} /\ q.key \in ProjectKeys =>
          q.key.ids = q.ids /\ IdsAgree(t, q.ids, 1)
    /\ q.pc \in {"set page", "keep users"} =>
          /\ PageAgrees(t, q.key, q.list, PageTTL) /\ ItemsOf(q.shown) = q.list
          /\ ObjectsAgree(t, q.shown, BriefTTL)
    /\ q.pc \in {"briefs", "load briefs"} => PageAgrees(t, q.key, q.list, 1)
    /\ q.pc = "load briefs" => ItemsOf(q.shown) \subseteq q.list
    /\ q.pc \in {"load briefs", "set briefs", "done"} => ObjectsAgree(t, q.shown, 1)
    /\ q.pc = "set briefs" => ObjectsAgree(t, Among(q.shown, q.list), BriefTTL)
    /\ q.pc \in {"set briefs", "done"} => PageAgrees(t, q.key, ItemsOf(q.shown), 1)

ReadersAgree == \A r \in Readers : ReaderAgrees(Now, reader[r])

AgeInv == CachesAgree /\ ReadersAgree

(* Between two ticks a table changes only what is then of age 0, and no user goes. *)
Fresh(t, u) ==
    /\ \A i \in Items :
          /\ u.listedAge[i] = 0 \/ (u.listedAge[i] = t.listedAge[i] /\ (i \in u.listed <=> i \in t.listed))
          /\ u.attrAge[i] = 0 \/ (u.attrAge[i] = t.attrAge[i] /\ u.attr[i] = t.attr[i])
    /\ t.listed \cap Users \subseteq u.listed \cap Users
    /\ \A i \in (u.listed \ t.listed) : u.listedAge[i] = 0

(* A tick makes everything older, by one at most. *)
Later(t, u) ==
    /\ u.listed = t.listed /\ u.attr = t.attr
    /\ \A i \in Items : u.listedAge[i] <= t.listedAge[i] + 1 /\ u.attrAge[i] <= t.attrAge[i] + 1

-----------------------------------------------------------------------------
(* Operators *)

(* No key is both of users and of projects. *)
LEMMA KeysDiffer == \A k \in UserKeys : k \notin ProjectKeys
  BY DEF UserKeys, ProjectKeys

(* An entry that grows older is gone, or has one tick less to live. *)
LEMMA AgedIs ==
  ASSUME NEW entry, Aged(entry) # NoEntry
  PROVE  entry # NoEntry /\ entry.life # 1 /\ Aged(entry) = [entry EXCEPT !.life = @ - 1]
  BY DEF Aged

(* What is kept of an item is what was shown of it, with a whole life, or what was there. *)
LEMMA KeptIs ==
  ASSUME NEW shown, NEW i \in Items
  PROVE  \/ Kept(shown)[i] = briefs[i]
         \/ \E s \in shown : s.item = i /\ Kept(shown)[i] = [attr |-> s.attr, life |-> BriefTTL]
  BY DEF Kept

-----------------------------------------------------------------------------
(* Types *)

(* The parts say what TypeOK says. *)
LEMMA TypedIsTypeOK == Typed => TypeOK
  <1> SUFFICES ASSUME Typed PROVE TypeOK
    OBVIOUS
  <1>1. Cardinality(Pending) \in Nat
    BY FS_CardinalityType DEF Typed, CountsTyped, BumpsCounted
  <1>2. version \in Versions
    BY <1>1, DirectoryAssumption DEF Typed, CountsTyped, BumpsCounted, Versions
  <1> QED
    BY <1>2 DEF Typed, TypeOK, TablesTyped, CachesTyped, CountsTyped, ReadersTyped, IDsEntry,
                PageEntry, BriefEntry, Steps, Shown, Reading

(* An idle reader holds nothing. *)
LEMMA IdleTyped == Idle \in Reading
  BY DEF Idle, Reading, Keys, ProjectKeys, Steps

(* A version that can be reached names a key. *)
LEMMA VersionTyped == Typed => version \in Versions
  BY TypedIsTypeOK DEF TypeOK

(* The initial state is typed. *)
LEMMA InitTyped == Init => Typed
  <1> SUFFICES ASSUME Init PROVE Typed
    OBVIOUS
  <1>1. Pending = {}
    BY DEF Pending, Init
  <1>2. CountsTyped
    BY <1>1, FS_EmptySet, DirectoryAssumption DEF CountsTyped, BumpsCounted, Init
  <1>3. TablesTyped /\ CachesTyped
    BY DirectoryAssumption DEF Init, TablesTyped, CachesTyped, Ages
  <1>4. ReadersTyped
    BY IdleTyped DEF Init, ReadersTyped
  <1> QED BY <1>2, <1>3, <1>4 DEF Typed

(* An entry that grows older keeps its type. *)
LEMMA AgedTyped ==
  /\ \A e \in IDsEntry \cup {NoEntry} : Aged(e) \in IDsEntry \cup {NoEntry}
  /\ \A e \in PageEntry \cup {NoEntry} : Aged(e) \in PageEntry \cup {NoEntry}
  /\ \A e \in BriefEntry \cup {NoEntry} : Aged(e) \in BriefEntry \cup {NoEntry}
  BY DirectoryAssumption DEF Aged, IDsEntry, PageEntry, BriefEntry

(* An age that grows stays an age. *)
LEMMA OlderTyped == \A age \in Ages : Older(age) \in Ages
  BY DirectoryAssumption DEF Older, Ages

(* What is shown is typed: what is in the tables, and what is kept. *)
LEMMA AsTheyAreTyped ==
  ASSUME TablesTyped, NEW items \in SUBSET Items
  PROVE  AsTheyAre(items) \in SUBSET Shown
  BY DEF TablesTyped, AsTheyAre, Shown

(* What is kept is typed as brief objects are. *)
LEMMA KeptTyped ==
  ASSUME CachesTyped, NEW shown \in SUBSET Shown
  PROVE  Kept(shown) \in [Items -> BriefEntry \cup {NoEntry}]
  <1>1. \A i \in Items : Kept(shown)[i] \in BriefEntry \cup {NoEntry}
    <2> TAKE i \in Items
    <2>1. CASE Kept(shown)[i] = briefs[i]
      BY <2>1 DEF CachesTyped
    <2>2. ASSUME NEW s \in shown, Kept(shown)[i] = [attr |-> s.attr, life |-> BriefTTL]
          PROVE  Kept(shown)[i] \in BriefEntry \cup {NoEntry}
      BY <2>2, DirectoryAssumption DEF Shown, BriefEntry
    <2> QED BY <2>1, <2>2, KeptIs
  <1> QED BY <1>1 DEF Kept

(* A reader's next record. *)
LEMMA ReaderTyped ==
  ASSUME ReadersTyped, NEW r \in Readers, NEW q \in Reading, reader' = [reader EXCEPT ![r] = q]
  PROVE  ReadersTyped'
  BY DEF ReadersTyped

(* A reader that goes to another step stays typed. *)
LEMMA GotoTyped ==
  ASSUME ReadersTyped, NEW r \in Readers, NEW pc \in Steps, Goto(r, pc)
  PROVE  ReadersTyped'
  BY DEF ReadersTyped, Goto, Reading

(* What a read leaves alone. *)
LEMMA ReadKeeps ==
  ASSUME NEW r \in Readers, Read(r)
  PROVE  UNCHANGED <<listed, listedAge, attr, attrAge, version, profile, changes>>
  BY DEF Read, ListProjects, LoadIDs, SetProjectIDs, ListUsers, GetPage, Search, SetPage,
         AfterSearch, BatchGetBriefInfo, BatchGetByIDs, FillBriefs, tables

(* A read keeps what caches and readers hold typed. *)
LEMMA ReadTyped ==
  ASSUME Typed, NEW r \in Readers, Read(r)
  PROVE  CachesTyped' /\ ReadersTyped'
  <1> USE DEF Typed
  <1>q. reader[r] \in Reading
    BY DEF ReadersTyped
  <1>f. /\ reader[r].ids \in SUBSET Projects /\ reader[r].key \in Keys
        /\ reader[r].list \in SUBSET Items /\ reader[r].shown \in SUBSET Shown
    BY <1>q DEF Reading
  <1>u. ASSUME UNCHANGED caches PROVE CachesTyped'
    BY <1>u DEF caches, CachesTyped
  <1>1. CASE ListProjects(r)
    <2>1. CachesTyped'
      BY <1>1 DEF ListProjects, AfterHit, CachesTyped
    <2>2. ReadersTyped'
      <3>1. CASE ids # NoEntry
        <4>1. [ids |-> ids.ids] \in Keys /\ ids.ids \in SUBSET Projects
          BY <3>1 DEF CachesTyped, IDsEntry, Keys, ProjectKeys
        <4>2. [reader[r] EXCEPT !.pc = IF ids.ids = {} THEN "done" ELSE "page",
                                !.ids = ids.ids, !.key = [ids |-> ids.ids]] \in Reading
          BY <4>1, <1>q DEF Reading, Steps
        <4> QED BY <1>1, <3>1, <4>2 DEF ListProjects, ReadersTyped
      <3>2. CASE ids = NoEntry
        BY <1>1, <3>2, GotoTyped DEF ListProjects, Steps
      <3> QED BY <3>1, <3>2
    <2> QED BY <2>1, <2>2
  <1>2. CASE LoadIDs(r)
    <2>1. [ids |-> listed \cap Projects] \in Keys
      BY DEF Keys, ProjectKeys
    <2>2. [reader[r] EXCEPT !.pc = "set ids", !.ids = listed \cap Projects,
                            !.key = [ids |-> listed \cap Projects]] \in Reading
      BY <2>1, <1>q DEF Reading, Steps
    <2> QED BY <1>2, <1>u, <2>2 DEF LoadIDs, ReadersTyped
  <1>3. CASE SetProjectIDs(r)
    <2>1. [ids |-> reader[r].ids, life |-> IDsTTL] \in IDsEntry
      BY <1>f, DirectoryAssumption DEF IDsEntry
    <2>2. CachesTyped'
      BY <1>3, <2>1 DEF SetProjectIDs, CachesTyped
    <2> QED BY <1>3, <2>2, GotoTyped DEF SetProjectIDs, Steps
  <1>4. CASE ListUsers(r)
    <2>1. [version |-> version] \in Keys
      BY VersionTyped DEF Keys, UserKeys
    <2>2. [reader[r] EXCEPT !.pc = "page", !.key = [version |-> version]] \in Reading
      BY <2>1, <1>q DEF Reading, Steps
    <2> QED BY <1>4, <1>u, <2>2 DEF ListUsers, ReadersTyped
  <1>5. CASE GetPage(r)
    <2>1. CASE pages[reader[r].key] # NoEntry
      <3>1. pages[reader[r].key].list \in SUBSET Items
        BY <2>1, <1>f DEF CachesTyped, PageEntry
      <3>2. [reader[r] EXCEPT !.pc = "briefs", !.list = pages[reader[r].key].list] \in Reading
        BY <3>1, <1>q DEF Reading, Steps
      <3> QED BY <1>5, <1>u, <2>1, <3>2 DEF GetPage, ReadersTyped
    <2>2. CASE pages[reader[r].key] = NoEntry
      BY <1>5, <1>u, <2>2, GotoTyped DEF GetPage, Steps
    <2> QED BY <2>1, <2>2
  <1>6. CASE Search(r)
    <2>1. Found(r) \in SUBSET Items
      BY <1>f DEF Found, Items
    <2>2. AsTheyAre(Found(r)) \in SUBSET Shown
      BY <2>1, AsTheyAreTyped
    <2>3. [reader[r] EXCEPT !.pc = "set page", !.list = Found(r),
                            !.shown = AsTheyAre(Found(r))] \in Reading
      BY <2>1, <2>2, <1>q DEF Reading, Steps
    <2> QED BY <1>6, <1>u, <2>3 DEF Search, ReadersTyped
  <1>7. CASE SetPage(r)
    <2>1. [list |-> reader[r].list, life |-> PageTTL] \in PageEntry
      BY <1>f, DirectoryAssumption DEF PageEntry
    <2>2. CachesTyped'
      BY <1>7, <2>1 DEF SetPage, CachesTyped
    <2> QED BY <1>7, <2>2, GotoTyped DEF SetPage, Steps
  <1>8. CASE AfterSearch(r)
    <2>1. CachesTyped'
      BY <1>8, <1>f, KeptTyped DEF AfterSearch, CachesTyped
    <2> QED BY <1>8, <2>1, GotoTyped DEF AfterSearch, Steps
  <1>9. CASE BatchGetBriefInfo(r)
    <2> DEFINE hits == InCache(reader[r].list)
               shown == {[item |-> i, attr |-> briefs[i].attr] : i \in hits}
    <2>1. shown \in SUBSET Shown
      <3>1. \A i \in hits : i \in Items /\ briefs[i].attr \in BOOLEAN
        BY <1>f DEF CachesTyped, BriefEntry, InCache
      <3> HIDE DEF hits
      <3> QED BY <3>1 DEF Shown
    <2>2. \A pc \in Steps : [reader[r] EXCEPT !.pc = pc, !.shown = shown] \in Reading
      <3> HIDE DEF shown
      <3> QED BY <2>1, <1>q DEF Reading
    <2>3. \E pc \in Steps : reader' = [reader EXCEPT ![r] = [reader[r] EXCEPT !.pc = pc, !.shown = shown]]
      <3> HIDE DEF shown
      <3> QED BY <1>9 DEF BatchGetBriefInfo, Steps, shown
    <2> QED
      <3> HIDE DEF shown
      <3> QED BY <1>9, <1>u, <2>2, <2>3, ReaderTyped DEF BatchGetBriefInfo
  <1>10. CASE BatchGetByIDs(r)
    <2>1. Missing(r) \in SUBSET Items
      BY <1>f DEF Missing
    <2>2. reader[r].shown \cup AsTheyAre(Missing(r)) \in SUBSET Shown
      BY <1>f, <2>1, AsTheyAreTyped
    <2>3. [reader[r] EXCEPT !.pc = "set briefs", !.list = Missing(r),
                            !.shown = reader[r].shown \cup AsTheyAre(Missing(r))] \in Reading
      BY <2>1, <2>2, <1>q DEF Reading, Steps
    <2> QED BY <1>10, <1>u, <2>3 DEF BatchGetByIDs, ReadersTyped
  <1>11. CASE FillBriefs(r)
    <2>1. ToKeep(r) \in SUBSET Shown
      BY <1>f DEF ToKeep
    <2>2. CachesTyped'
      BY <1>11, <2>1, KeptTyped DEF FillBriefs, CachesTyped
    <2> QED BY <1>11, <2>2, GotoTyped DEF FillBriefs, Steps
  <1> QED BY <1>1, <1>2, <1>3, <1>4, <1>5, <1>6, <1>7, <1>8, <1>9, <1>10, <1>11 DEF Read

(* Updates of profiles and bumps keep count of each other. *)
LEMMA ProfileStep ==
  ASSUME CountsTyped, NEW u \in Users, NEW to \in {"idle", "delete", "bump"},
         profile' = [profile EXCEPT ![u] = to], version' \in Nat \ {0},
         changes' \in 0 .. MaxChanges,
         \/ profile[u] # "idle" /\ to # "idle" /\ UNCHANGED <<version, changes>>
         \/ profile[u] = "idle" /\ changes' = changes + 1 /\ UNCHANGED version
         \/ profile[u] # "idle" /\ to = "idle" /\ version' = version + 1 /\ UNCHANGED changes
  PROVE  CountsTyped'
  <1> USE DEF CountsTyped
  <1>1. profile' \in [Users -> {"idle", "delete", "bump"}]
    OBVIOUS
  <1>2. BumpsCounted'
    <2>0. IsFiniteSet(Pending) /\ Cardinality(Pending) \in Nat
      BY FS_CardinalityType DEF BumpsCounted
    <2>1. CASE profile[u] # "idle" /\ to # "idle" /\ UNCHANGED <<version, changes>>
      <3>1. Pending' = Pending
        BY <2>1 DEF Pending
      <3> QED BY <3>1, <2>1 DEF BumpsCounted
    <2>2. CASE profile[u] = "idle" /\ changes' = changes + 1 /\ UNCHANGED version
      <3>1. Pending' = Pending \/ Pending' = Pending \cup {u}
        BY <2>2 DEF Pending
      <3>2. u \notin Pending
        BY <2>2 DEF Pending
      <3>3. IsFiniteSet(Pending') /\ Cardinality(Pending') <= Cardinality(Pending) + 1
        <4>1. /\ IsFiniteSet(Pending \cup {u})
              /\ Cardinality(Pending \cup {u}) = Cardinality(Pending) + 1
          BY <2>0, <3>2, FS_AddElement
        <4>2. CASE Pending' = Pending
          BY <2>0, <4>2
        <4>3. CASE Pending' = Pending \cup {u}
          BY <2>0, <4>1, <4>3
        <4> QED BY <3>1, <4>2, <4>3
      <3>4. Cardinality(Pending') \in Nat
        BY <3>3, FS_CardinalityType
      <3> QED BY <2>0, <2>2, <3>3, <3>4 DEF BumpsCounted
    <2>3. CASE profile[u] # "idle" /\ to = "idle" /\ version' = version + 1 /\ UNCHANGED changes
      <3>1. Pending' = Pending \ {u} /\ u \in Pending
        BY <2>3 DEF Pending
      <3>2. IsFiniteSet(Pending') /\ Cardinality(Pending') = Cardinality(Pending) - 1
        BY <2>0, <3>1, FS_RemoveElement
      <3> QED BY <2>0, <2>3, <3>2 DEF BumpsCounted
    <2> QED BY <2>1, <2>2, <2>3
  <1> QED BY <1>1, <1>2

(* Every step keeps the types. *)
LEMMA StepTyped == Typed /\ [Next]_vars => Typed'
  <1> SUFFICES ASSUME Typed, [Next]_vars PROVE Typed'
    OBVIOUS
  <1> USE DirectoryAssumption DEF Typed
  <1>t. ASSUME UNCHANGED <<listed, listedAge, attr, attrAge>> PROVE TablesTyped'
    BY <1>t DEF TablesTyped
  <1>c. ASSUME UNCHANGED caches PROVE CachesTyped'
    BY <1>c DEF caches, CachesTyped
  <1>n. ASSUME UNCHANGED <<version, profile, changes>> PROVE CountsTyped'
    BY <1>n DEF CountsTyped, BumpsCounted, Pending
  <1>h. ASSUME Change, UNCHANGED <<version, profile>> PROVE CountsTyped'
    <2>1. Cardinality(Pending) \in Nat
      BY FS_CardinalityType DEF CountsTyped, BumpsCounted
    <2> QED BY <1>h, <2>1 DEF Change, CountsTyped, BumpsCounted, Pending
  <1>r. ASSUME UNCHANGED reader PROVE ReadersTyped'
    BY <1>r DEF ReadersTyped
  <1>i. ASSUME reader' = [r \in Readers |-> Idle] PROVE ReadersTyped'
    BY <1>i, IdleTyped DEF ReadersTyped
  <1>a. ASSUME NEW i \in Items, Alter(i), UNCHANGED <<listed, listedAge>> PROVE TablesTyped'
    BY <1>a DEF Alter, TablesTyped, Ages
  <1>1. CASE Tick
    <2>1. TablesTyped'
      BY <1>1, OlderTyped DEF Tick, TablesTyped
    <2>2. CachesTyped'
      BY <1>1, AgedTyped DEF Tick, CachesTyped
    <2> QED BY <1>1, <1>n, <1>i, <2>1, <2>2 DEF Tick
  <1>2. CASE Restart
    <2>1. Pending' = {}
      BY <1>2 DEF Restart, Pending
    <2>2. CountsTyped'
      BY <1>2, <2>1, FS_EmptySet DEF Restart, Change, CountsTyped, BumpsCounted
    <2> QED BY <1>2, <1>t, <1>c, <1>i, <2>2 DEF Restart, tables
  <1>3. ASSUME NEW i \in Items, Enlist(i) PROVE Typed'
    <2>1. TablesTyped'
      BY <1>3 DEF Enlist, TablesTyped, Ages
    <2> QED BY <1>3, <1>c, <1>h, <1>r, <2>1 DEF Enlist
  <1>4. ASSUME NEW p \in Projects, RemoveProjectMember(p) PROVE Typed'
    <2>1. TablesTyped'
      BY <1>4 DEF RemoveProjectMember, TablesTyped, Ages
    <2> QED BY <1>4, <1>c, <1>h, <1>r, <2>1 DEF RemoveProjectMember
  <1>5. ASSUME NEW p \in Projects, UpdateProject(p) PROVE Typed'
    BY <1>5, <1>a, <1>c, <1>h, <1>r DEF UpdateProject, Alter, Items
  <1>6. ASSUME NEW u \in Users, UpdateUserProfile(u) PROVE Typed'
    <2>1. TablesTyped'
      BY <1>6, <1>a DEF UpdateUserProfile, Items
    <2>2. CountsTyped'
      <3>1. /\ profile' = [profile EXCEPT ![u] = "delete"] /\ profile[u] = "idle"
            /\ changes' = changes + 1 /\ UNCHANGED version
            /\ changes' \in 0 .. MaxChanges /\ version' \in Nat \ {0}
        BY <1>6 DEF UpdateUserProfile, Alter, Change, CountsTyped
      <3> QED BY <3>1, ProfileStep
    <2> QED BY <1>6, <1>c, <1>r, <2>1, <2>2 DEF UpdateUserProfile
  <1>7. ASSUME NEW u \in Users, DeleteBriefInfo(u) PROVE Typed'
    <2>1. CachesTyped'
      BY <1>7 DEF DeleteBriefInfo, CachesTyped
    <2>2. CountsTyped'
      BY <1>7, ProfileStep DEF DeleteBriefInfo, CountsTyped
    <2> QED BY <1>7, <1>t, <1>r, <2>1, <2>2 DEF DeleteBriefInfo, tables
  <1>8. ASSUME NEW u \in Users, BumpUserVersion(u) PROVE Typed'
    <2>1. CountsTyped'
      <3>1. /\ profile' = [profile EXCEPT ![u] = "idle"] /\ profile[u] # "idle"
            /\ version' = version + 1 /\ UNCHANGED changes
            /\ changes' \in 0 .. MaxChanges /\ version' \in Nat \ {0}
        BY <1>8 DEF BumpUserVersion, CountsTyped
      <3> QED BY <3>1, ProfileStep
    <2> QED BY <1>8, <1>t, <1>c, <1>r, <2>1 DEF BumpUserVersion, tables
  <1>9. ASSUME NEW r \in Readers, Read(r) PROVE Typed'
    BY <1>9, <1>t, <1>n, ReadKeeps, ReadTyped
  <1>10. CASE UNCHANGED vars
    BY <1>10, <1>t, <1>c, <1>n, <1>r DEF vars, caches
  <1> QED BY <1>1, <1>2, <1>3, <1>4, <1>5, <1>6, <1>7, <1>8, <1>9, <1>10 DEF Next

(* Whatever is read, changed or restarted, the state keeps its types. *)
THEOREM TypeCorrect == Spec => []TypeOK
  <1>1. Init => Typed
    BY InitTyped
  <1>2. Typed /\ [Next]_vars => Typed'
    BY StepTyped
  <1>3. Typed => TypeOK
    BY TypedIsTypeOK
  <1> QED BY <1>1, <1>2, <1>3, PTL DEF Spec

-----------------------------------------------------------------------------
(* Ages *)

(* The tables, as one record, are typed. *)
LEMMA NowTyped == TablesTyped => Now \in Table
  BY DEF TablesTyped, Now, Table

(* So are they after a step. *)
LEMMA NowTypedNext == TablesTyped' => Now' \in Table
  BY DEF TablesTyped, Now, Table

(* Ages are numbers. *)
LEMMA AgesOf == \A t \in Table, i \in Items : t.listedAge[i] \in Nat /\ t.attrAge[i] \in Nat
  BY DEF Table, Ages

(* What agrees for long agrees for less. *)
LEMMA IdsForLess ==
  ASSUME NEW t \in Table, NEW found, NEW life \in Nat, NEW less \in Nat, less <= life,
         IdsAgree(t, found, life)
  PROVE  IdsAgree(t, found, less)
  <1> SUFFICES ASSUME NEW p \in Projects
               PROVE  (p \in found <=> p \in t.listed) \/ t.listedAge[p] + less <= IDsTTL
    BY DEF IdsAgree
  <1>1. p \in Items
    BY DEF Items
  <1>2. t.listedAge[p] \in Nat
    BY <1>1, AgesOf
  <1> QED BY <1>2, DirectoryAssumption DEF IdsAgree

(* So does a page, *)
LEMMA PageForLess ==
  ASSUME NEW t \in Table, NEW key \in Keys, NEW list, NEW life \in Nat, NEW less \in Nat,
         less <= life, PageAgrees(t, key, list, life)
  PROVE  PageAgrees(t, key, list, less)
  <1>1. \A i \in Items : t.listedAge[i] \in Nat /\ t.attrAge[i] \in Nat
    BY DEF Table, Ages
  <1>2. key \in ProjectKeys => key.ids \subseteq Items
    BY DEF ProjectKeys, Items
  <1> QED BY <1>1, <1>2, DirectoryAssumption DEF PageAgrees, Items

(* and an object, *)
LEMMA ObjectForLess ==
  ASSUME NEW t \in Table, NEW i \in Items, NEW a, NEW life \in Nat, NEW less \in Nat,
         less <= life, ObjectAgrees(t, i, a, life)
  PROVE  ObjectAgrees(t, i, a, less)
  BY DirectoryAssumption DEF ObjectAgrees, Table, Ages

(* and what is shown. *)
LEMMA ObjectsForLess ==
  ASSUME NEW t \in Table, NEW shown \in SUBSET Shown, NEW life \in Nat, NEW less \in Nat,
         less <= life, ObjectsAgree(t, shown, life)
  PROVE  ObjectsAgree(t, shown, less)
  BY ObjectForLess DEF ObjectsAgree, Shown

(* What agrees goes on agreeing between two ticks. *)
LEMMA IdsStay ==
  ASSUME NEW t \in Table, NEW u \in Table, Fresh(t, u), NEW found, NEW life \in 1 .. IDsTTL,
         IdsAgree(t, found, life)
  PROVE  IdsAgree(u, found, life)
  <1> SUFFICES ASSUME NEW p \in Projects
               PROVE  (p \in found <=> p \in u.listed) \/ u.listedAge[p] + life <= IDsTTL
    BY DEF IdsAgree
  <1>1. p \in Items
    BY DEF Items
  <1>2. t.listedAge[p] \in Nat /\ u.listedAge[p] \in Nat /\ 0 + life <= IDsTTL
    BY <1>1, AgesOf, DirectoryAssumption
  <1> QED BY <1>1, <1>2, DirectoryAssumption DEF IdsAgree, Fresh

(* So does a page, *)
LEMMA PageStays ==
  ASSUME NEW t \in Table, NEW u \in Table, Fresh(t, u), NEW key \in Keys, NEW list,
         NEW life \in 1 .. PageTTL, PageAgrees(t, key, list, life)
  PROVE  PageAgrees(u, key, list, life)
  <1>1. \A i \in Items : /\ t.listedAge[i] \in Nat /\ t.attrAge[i] \in Nat
                         /\ u.listedAge[i] \in Nat /\ u.attrAge[i] \in Nat
    BY DEF Table, Ages
  <1>2. key \in ProjectKeys => key.ids \subseteq Items
    BY DEF ProjectKeys, Items
  <1>3. 0 + life <= PageTTL
    BY DirectoryAssumption
  <1>4. CASE key \in UserKeys
    <2>1. list \subseteq u.listed \cap Users
      BY <1>4 DEF PageAgrees, Fresh
    <2>2. ASSUME NEW v \in (u.listed \cap Users) \ list PROVE u.listedAge[v] + life <= PageTTL
      BY <1>1, <1>3, <1>4, <2>2 DEF PageAgrees, Fresh, Items
    <2> QED BY <1>4, <2>1, <2>2, KeysDiffer DEF PageAgrees
  <1>5. CASE key \in ProjectKeys
    <2>1. list \subseteq key.ids
      BY <1>5 DEF PageAgrees
    <2>2. ASSUME NEW p \in key.ids
          PROVE  (p \in list <=> u.attr[p]) \/ u.attrAge[p] + life <= PageTTL
      BY <1>1, <1>2, <1>3, <1>5, <2>2 DEF PageAgrees, Fresh
    <2> QED BY <1>5, <2>1, <2>2, KeysDiffer DEF PageAgrees
  <1> QED BY <1>4, <1>5 DEF Keys

(* an object, *)
LEMMA ObjectStays ==
  ASSUME NEW t \in Table, NEW u \in Table, Fresh(t, u), NEW i \in Items, NEW a,
         NEW life \in 1 .. BriefTTL, ObjectAgrees(t, i, a, life)
  PROVE  ObjectAgrees(u, i, a, life)
  BY DirectoryAssumption DEF ObjectAgrees, Fresh, Table, Ages

(* what is shown, *)
LEMMA ObjectsStay ==
  ASSUME NEW t \in Table, NEW u \in Table, Fresh(t, u), NEW shown \in SUBSET Shown,
         NEW life \in 1 .. BriefTTL, ObjectsAgree(t, shown, life)
  PROVE  ObjectsAgree(u, shown, life)
  BY ObjectStays DEF ObjectsAgree, Shown

(* and all a reader holds. *)
LEMMA ReaderStays ==
  ASSUME NEW t \in Table, NEW u \in Table, Fresh(t, u), NEW q \in Reading, ReaderAgrees(t, q)
  PROVE  ReaderAgrees(u, q)
  <1>1. /\ q.key \in Keys /\ q.shown \in SUBSET Shown
        /\ Among(q.shown, q.list) \in SUBSET Shown
    BY DEF Reading, Among
  <1>2. 1 \in 1 .. IDsTTL /\ IDsTTL \in 1 .. IDsTTL /\ 1 \in 1 .. PageTTL
        /\ PageTTL \in 1 .. PageTTL /\ 1 \in 1 .. BriefTTL /\ BriefTTL \in 1 .. BriefTTL
    BY DirectoryAssumption
  <1> QED BY <1>1, <1>2, IdsStay, PageStays, ObjectsStay DEF ReaderAgrees

(* With a tick everything has one tick less to live. *)
LEMMA IdsTick ==
  ASSUME NEW t \in Table, NEW u \in Table, Later(t, u), NEW found, NEW life \in Nat, life # 0,
         IdsAgree(t, found, life)
  PROVE  IdsAgree(u, found, life - 1)
  <1> SUFFICES ASSUME NEW p \in Projects
               PROVE  (p \in found <=> p \in u.listed) \/ u.listedAge[p] + (life - 1) <= IDsTTL
    BY DEF IdsAgree
  <1>1. p \in Items
    BY DEF Items
  <1>2. t.listedAge[p] \in Nat /\ u.listedAge[p] \in Nat
    BY <1>1, AgesOf
  <1> QED BY <1>1, <1>2, DirectoryAssumption DEF IdsAgree, Later

(* So has a page, *)
LEMMA PageTick ==
  ASSUME NEW t \in Table, NEW u \in Table, Later(t, u), NEW key \in Keys, NEW list,
         NEW life \in Nat, life # 0, PageAgrees(t, key, list, life)
  PROVE  PageAgrees(u, key, list, life - 1)
  <1>1. \A i \in Items : /\ t.listedAge[i] \in Nat /\ t.attrAge[i] \in Nat
                         /\ u.listedAge[i] \in Nat /\ u.attrAge[i] \in Nat
    BY DEF Table, Ages
  <1>2. key \in ProjectKeys => key.ids \subseteq Items
    BY DEF ProjectKeys, Items
  <1> QED BY <1>1, <1>2, DirectoryAssumption DEF PageAgrees, Later, Items

(* and an object. *)
LEMMA ObjectTick ==
  ASSUME NEW t \in Table, NEW u \in Table, Later(t, u), NEW i \in Items, NEW a,
         NEW life \in Nat, life # 0, ObjectAgrees(t, i, a, life)
  PROVE  ObjectAgrees(u, i, a, life - 1)
  BY DirectoryAssumption DEF ObjectAgrees, Later, Table, Ages

(* An idle reader knows nothing. *)
LEMMA IdleAgrees == \A t : ReaderAgrees(t, Idle)
  BY DEF ReaderAgrees, Idle

(* What is shown as it is in the table. *)
LEMMA AsTheyAreAgrees ==
  ASSUME NEW items
  PROVE  /\ ItemsOf(AsTheyAre(items)) = items
         /\ \A life : ObjectsAgree(Now, AsTheyAre(items), life)
  <1>1. \A s \in AsTheyAre(items) : s.item \in items /\ s.attr = attr[s.item]
    BY DEF AsTheyAre
  <1>2. \A i \in items : [item |-> i, attr |-> attr[i]] \in AsTheyAre(items)
    BY DEF AsTheyAre
  <1>3. ItemsOf(AsTheyAre(items)) = items
    <2>1. \A i \in items : \E s \in AsTheyAre(items) : s.item = i
      BY <1>2
    <2> QED BY <1>1, <2>1 DEF ItemsOf
  <1>4. Now.attr = attr
    BY DEF Now
  <1> QED BY <1>1, <1>3, <1>4 DEF ObjectsAgree, ObjectAgrees

(* An empty list agrees with everything it could say. *)
LEMMA NothingAgrees ==
  /\ ItemsOf({}) = {} /\ \A t, life : ObjectsAgree(t, {}, life)
  /\ \A t, key, life : key \in ProjectKeys /\ key.ids = {} => PageAgrees(t, key, {}, life)
  BY KeysDiffer DEF ItemsOf, ObjectsAgree, PageAgrees

(* The initial state: nothing is cached, nobody reads. *)
LEMMA InitAges == Init => AgeInv
  BY IdleAgrees DEF Init, AgeInv, CachesAgree, ReadersAgree

(* A change of a table, as caches and readers see it. *)
LEMMA CachesStay ==
  ASSUME Typed, Typed', CachesAgree, Fresh(Now, Now'), UNCHANGED caches
  PROVE  CachesAgree'
  <1> USE DEF Typed
  <1>1. Now \in Table /\ Now' \in Table
    BY NowTyped, NowTypedNext
  <1>2. ids # NoEntry => IdsAgree(Now', ids.ids, ids.life)
    BY <1>1, IdsStay DEF CachesAgree, CachesTyped, IDsEntry
  <1>3. \A k \in Keys : pages[k] # NoEntry => PageAgrees(Now', k, pages[k].list, pages[k].life)
    BY <1>1, PageStays DEF CachesAgree, CachesTyped, PageEntry
  <1>4. \A i \in Items : briefs[i] # NoEntry =>
            ObjectAgrees(Now', i, briefs[i].attr, briefs[i].life)
    BY <1>1, ObjectStays DEF CachesAgree, CachesTyped, BriefEntry
  <1> QED BY <1>2, <1>3, <1>4 DEF CachesAgree, caches

(* The same for what readers hold. *)
LEMMA ReadersStay ==
  ASSUME Typed, Typed', ReadersAgree, Fresh(Now, Now'), UNCHANGED reader
  PROVE  ReadersAgree'
  <1> USE DEF Typed
  <1>1. Now \in Table /\ Now' \in Table
    BY NowTyped, NowTypedNext
  <1> QED BY <1>1, ReaderStays DEF ReadersAgree, ReadersTyped

(* A step that leaves the tables alone. *)
LEMMA NothingNew == ASSUME UNCHANGED <<listed, listedAge, attr, attrAge>>
                    PROVE  Now' = Now /\ Fresh(Now, Now')
  BY DEF Now, Fresh

(* A change of one row is new. *)
LEMMA AlterFresh ==
  ASSUME Typed, NEW i \in Items, Alter(i), UNCHANGED <<listed, listedAge>>
  PROVE  Fresh(Now, Now')
  BY DEF Typed, TablesTyped, Alter, Now, Fresh

(* A tick. *)
LEMMA TickAges ==
  ASSUME Typed, Typed', CachesAgree, Tick
  PROVE  AgeInv'
  <1> USE DEF Typed
  <1>1. Now \in Table /\ Now' \in Table
    BY NowTyped, NowTypedNext
  <1>2. Later(Now, Now')
    <2>1. \A i \in Items : listedAge[i] \in Nat /\ attrAge[i] \in Nat
      BY DEF TablesTyped, Ages
    <2>2. \A age \in Nat : Older(age) <= age + 1
      BY DEF Older
    <2> QED BY <2>1, <2>2 DEF Tick, Later, Now
  <1>3. ids' # NoEntry => IdsAgree(Now', ids'.ids, ids'.life)
    <2> SUFFICES ASSUME ids' # NoEntry PROVE IdsAgree(Now', ids'.ids, ids'.life)
      OBVIOUS
    <2>1. ids # NoEntry /\ ids.life # 1 /\ ids' = [ids EXCEPT !.life = @ - 1]
      BY AgedIs DEF Tick
    <2>2. ids \in IDsEntry /\ ids.life \in Nat /\ ids.life # 0
      BY <2>1, DirectoryAssumption DEF CachesTyped, IDsEntry
    <2>3. ids'.ids = ids.ids /\ ids'.life = ids.life - 1
      BY <2>1, <2>2 DEF IDsEntry
    <2>4. IdsAgree(Now', ids.ids, ids.life - 1)
      BY <1>1, <1>2, <2>1, <2>2, IdsTick DEF CachesAgree
    <2> QED BY <2>3, <2>4
  <1>4. ASSUME NEW k \in Keys, pages'[k] # NoEntry
        PROVE  PageAgrees(Now', k, pages'[k].list, pages'[k].life)
    <2>1. /\ pages[k] # NoEntry /\ pages[k].life # 1
          /\ pages'[k] = [pages[k] EXCEPT !.life = @ - 1]
      BY <1>4, AgedIs DEF Tick
    <2>2. pages[k] \in PageEntry /\ pages[k].life \in Nat /\ pages[k].life # 0
      BY <2>1, DirectoryAssumption DEF CachesTyped, PageEntry
    <2>3. pages'[k].list = pages[k].list /\ pages'[k].life = pages[k].life - 1
      BY <2>1, <2>2 DEF PageEntry
    <2>4. PageAgrees(Now', k, pages[k].list, pages[k].life - 1)
      BY <1>1, <1>2, <2>1, <2>2, PageTick DEF CachesAgree
    <2> QED BY <2>3, <2>4
  <1>5. ASSUME NEW i \in Items, briefs'[i] # NoEntry
        PROVE  ObjectAgrees(Now', i, briefs'[i].attr, briefs'[i].life)
    <2>1. /\ briefs[i] # NoEntry /\ briefs[i].life # 1
          /\ briefs'[i] = [briefs[i] EXCEPT !.life = @ - 1]
      BY <1>5, AgedIs DEF Tick
    <2>2. briefs[i] \in BriefEntry /\ briefs[i].life \in Nat /\ briefs[i].life # 0
      BY <2>1, DirectoryAssumption DEF CachesTyped, BriefEntry
    <2>3. briefs'[i].attr = briefs[i].attr /\ briefs'[i].life = briefs[i].life - 1
      BY <2>1, <2>2 DEF BriefEntry
    <2>4. ObjectAgrees(Now', i, briefs[i].attr, briefs[i].life - 1)
      BY <1>1, <1>2, <2>1, <2>2, ObjectTick DEF CachesAgree
    <2> QED BY <2>3, <2>4
  <1>6. ReadersAgree'
    BY IdleAgrees DEF Tick, ReadersAgree
  <1> QED BY <1>3, <1>4, <1>5, <1>6 DEF AgeInv, CachesAgree

(* A write of brief objects that agree. *)
LEMMA KeptAgrees ==
  ASSUME CachesAgree, NEW shown \in SUBSET Shown, ObjectsAgree(Now, shown, BriefTTL),
         briefs' \in {briefs, Kept(shown)}, Now' = Now, UNCHANGED <<ids, pages>>
  PROVE  CachesAgree'
  <1>1. ASSUME NEW i \in Items, briefs'[i] # NoEntry
        PROVE  ObjectAgrees(Now, i, briefs'[i].attr, briefs'[i].life)
    <2>1. CASE briefs'[i] = briefs[i]
      BY <1>1, <2>1 DEF CachesAgree
    <2>2. ASSUME NEW s \in shown, s.item = i, briefs'[i] = [attr |-> s.attr, life |-> BriefTTL]
          PROVE  ObjectAgrees(Now, i, briefs'[i].attr, briefs'[i].life)
      BY <2>2 DEF ObjectsAgree
    <2>3. \/ briefs'[i] = briefs[i]
          \/ \E s \in shown : s.item = i /\ briefs'[i] = [attr |-> s.attr, life |-> BriefTTL]
      <3>1. CASE briefs' = briefs
        BY <3>1
      <3>2. CASE briefs' = Kept(shown)
        BY <3>2, KeptIs
      <3> QED BY <3>1, <3>2
    <2> QED BY <2>1, <2>2, <2>3
  <1> QED BY <1>1 DEF CachesAgree

(* One reader goes on, the tables stay. *)
LEMMA OneReads ==
  ASSUME Typed, ReadersAgree, NEW r \in Readers, NEW q, reader' = [reader EXCEPT ![r] = q],
         Now' = Now, ReaderAgrees(Now, q)
  PROVE  ReadersAgree'
  BY DEF Typed, ReadersTyped, ReadersAgree

(* A reader goes to a step, with what it has. *)
LEMMA GoesOn ==
  ASSUME Typed, ReadersAgree, NEW r \in Readers, NEW pc, Goto(r, pc), Now' = Now,
         ReaderAgrees(Now, [reader[r] EXCEPT !.pc = pc])
  PROVE  ReadersAgree'
  <1>1. reader' = [reader EXCEPT ![r] = [reader[r] EXCEPT !.pc = pc]]
    BY DEF Goto
  <1> QED BY <1>1, OneReads

(* A read keeps what caches and readers hold close enough to the tables. *)
LEMMA ReadAges ==
  ASSUME Typed, AgeInv, NEW r \in Readers, Read(r)
  PROVE  AgeInv'
  <1> USE DEF Typed
  <1> DEFINE q == reader[r]
  <1>now. Now' = Now
    BY ReadKeeps DEF Now
  <1>t. Now \in Table
    BY NowTyped
  <1>q. /\ q \in Reading /\ q.ids \in SUBSET Projects /\ q.key \in Keys
        /\ q.list \in SUBSET Items /\ q.shown \in SUBSET Shown
    BY DEF ReadersTyped, Reading
  <1>l. /\ IDsTTL \in Nat /\ PageTTL \in Nat /\ BriefTTL \in Nat
        /\ 1 <= IDsTTL /\ 1 <= PageTTL /\ 1 <= BriefTTL /\ 1 \in Nat
    BY DirectoryAssumption
  <1>a. CachesAgree /\ ReadersAgree /\ ReaderAgrees(Now, q)
    BY DEF AgeInv, ReadersAgree
  <1>c. ASSUME UNCHANGED caches PROVE CachesAgree'
    BY <1>c, <1>a, <1>now DEF caches, CachesAgree
  <1> SUFFICES CachesAgree' /\ ReadersAgree'
    BY DEF AgeInv
  <1>1. CASE ListProjects(r)
    <2>1. CachesAgree'
      BY <1>1, <1>c DEF ListProjects, AfterHit, caches
    <2>2. CASE ids # NoEntry
      <3> DEFINE next == [q EXCEPT !.pc = IF ids.ids = {} THEN "done" ELSE "page",
                                   !.ids = ids.ids, !.key = [ids |-> ids.ids]]
      <3>1. ids.life \in Nat /\ 1 <= ids.life /\ ids.ids \in SUBSET Projects
        BY <2>2, <1>l DEF CachesTyped, IDsEntry
      <3>2. IdsAgree(Now, ids.ids, 1)
        BY <2>2, <3>1, <1>a, <1>t, <1>l, IdsForLess DEF CachesAgree
      <3>3. /\ next.pc = IF ids.ids = {} THEN "done" ELSE "page"
            /\ next.ids = ids.ids /\ next.key = [ids |-> ids.ids]
            /\ next.list = {} /\ next.shown = {}
        BY <1>1, <1>q, <1>a DEF Reading, ListProjects, ReaderAgrees
      <3>4. next.key \in ProjectKeys /\ next.key.ids = next.ids
        BY <3>1, <3>3 DEF ProjectKeys
      <3>5. ReaderAgrees(Now, next)
        <4> HIDE DEF next
        <4> QED BY <3>2, <3>3, <3>4, NothingAgrees DEF ReaderAgrees
      <3>6. reader' = [reader EXCEPT ![r] = next]
        BY <1>1, <2>2 DEF ListProjects
      <3> HIDE DEF next
      <3> QED BY <2>1, <3>5, <3>6, <1>a, <1>now, OneReads
    <2>3. CASE ids = NoEntry
      <3>1. ReaderAgrees(Now, [q EXCEPT !.pc = "load ids"])
        BY <1>1, <1>a, <1>q DEF ListProjects, ReaderAgrees, Reading
      <3> QED BY <1>1, <2>1, <2>3, <3>1, <1>a, <1>now, GoesOn DEF ListProjects
    <2> QED BY <2>2, <2>3
  <1>2. CASE LoadIDs(r)
    <2> DEFINE found == listed \cap Projects
               next == [q EXCEPT !.pc = "set ids", !.ids = found, !.key = [ids |-> found]]
    <2>1. \A life : IdsAgree(Now, found, life)
      BY DEF IdsAgree, Now
    <2>2. /\ next.pc = "set ids" /\ next.ids = found /\ next.key = [ids |-> found]
          /\ next.list = {} /\ next.shown = {}
      BY <1>2, <1>q, <1>a DEF Reading, LoadIDs, ReaderAgrees
    <2>3. next.key \in ProjectKeys /\ next.key.ids = next.ids
      BY <2>2 DEF ProjectKeys
    <2>4. ReaderAgrees(Now, next)
      <3> HIDE DEF next, found
      <3> QED BY <2>1, <2>2, <2>3 DEF ReaderAgrees
    <2>5. reader' = [reader EXCEPT ![r] = next]
      BY <1>2 DEF LoadIDs
    <2> HIDE DEF next
    <2> QED BY <1>2, <2>4, <2>5, <1>a, <1>c, <1>now, OneReads DEF LoadIDs
  <1>3. CASE SetProjectIDs(r)
    <2>1. q.pc = "set ids" /\ IdsAgree(Now, q.ids, IDsTTL)
      BY <1>3, <1>a DEF SetProjectIDs, ReaderAgrees
    <2>2. CachesAgree'
      <3>1. CASE ids' = ids
        BY <1>3, <3>1, <1>c DEF SetProjectIDs, caches
      <3>2. CASE ids' = [ids |-> q.ids, life |-> IDsTTL]
        BY <1>3, <2>1, <3>2, <1>a, <1>now DEF SetProjectIDs, CachesAgree
      <3> QED BY <1>3, <3>1, <3>2 DEF SetProjectIDs
    <2> DEFINE pc == IF q.ids = {} THEN "done" ELSE "page"
               next == [q EXCEPT !.pc = pc]
    <2>3. /\ next.pc = pc /\ next.ids = q.ids /\ next.key = q.key
          /\ next.list = {} /\ next.shown = {} /\ q.key \in ProjectKeys /\ q.key.ids = q.ids
          /\ IdsAgree(Now, q.ids, 1)
      BY <2>1, <1>q, <1>a DEF Reading, ReaderAgrees
    <2>4. ReaderAgrees(Now, next)
      <3> HIDE DEF next
      <3> QED BY <2>3, NothingAgrees DEF ReaderAgrees
    <2> QED BY <1>3, <2>2, <2>4, <1>a, <1>now, GoesOn DEF SetProjectIDs
  <1>4. CASE ListUsers(r)
    <2> DEFINE next == [q EXCEPT !.pc = "page", !.key = [version |-> version]]
    <2>1. next.pc = "page" /\ next.key = [version |-> version]
      BY <1>q DEF Reading
    <2>2. next.key \notin ProjectKeys
      BY <2>1, VersionTyped, KeysDiffer DEF UserKeys
    <2>3. ReaderAgrees(Now, next)
      <3> HIDE DEF next
      <3> QED BY <2>1, <2>2 DEF ReaderAgrees
    <2>4. reader' = [reader EXCEPT ![r] = next]
      BY <1>4 DEF ListUsers
    <2> HIDE DEF next
    <2> QED BY <1>4, <2>3, <2>4, <1>a, <1>c, <1>now, OneReads DEF ListUsers
  <1>5. CASE GetPage(r)
    <2>1. CASE pages[q.key] # NoEntry
      <3> DEFINE page == pages[q.key]
                 next == [q EXCEPT !.pc = "briefs", !.list = page.list]
      <3>1. page.life \in Nat /\ 1 <= page.life
        BY <2>1, <1>q, <1>l DEF CachesTyped, PageEntry
      <3>2. PageAgrees(Now, q.key, page.list, page.life)
        BY <2>1, <1>q, <1>a DEF CachesAgree
      <3>3. PageAgrees(Now, q.key, page.list, 1)
        BY <3>1, <3>2, <1>q, <1>t, <1>l, PageForLess
      <3>4. next.pc = "briefs" /\ next.key = q.key /\ next.list = page.list /\ next.ids = q.ids
        BY <1>q DEF Reading
      <3>5. ReaderAgrees(Now, next)
        <4> HIDE DEF next, page
        <4> QED BY <1>5, <3>3, <3>4, <1>a DEF GetPage, ReaderAgrees
      <3>6. reader' = [reader EXCEPT ![r] = next]
        BY <1>5, <2>1 DEF GetPage
      <3> HIDE DEF next
      <3> QED BY <1>5, <3>5, <3>6, <1>a, <1>c, <1>now, OneReads DEF GetPage
    <2>2. CASE pages[q.key] = NoEntry
      <3>1. ReaderAgrees(Now, [q EXCEPT !.pc = "search"])
        BY <1>5, <1>a, <1>q DEF GetPage, ReaderAgrees, Reading
      <3> QED BY <1>5, <2>2, <3>1, <1>a, <1>c, <1>now, GoesOn DEF GetPage
    <2> QED BY <2>1, <2>2
  <1>6. CASE Search(r)
    <2> DEFINE found == Found(r)
               next == [q EXCEPT !.pc = "set page", !.list = found, !.shown = AsTheyAre(found)]
    <2>1. PageAgrees(Now, q.key, found, PageTTL)
      <3>1. CASE q.key \in UserKeys
        BY <3>1, KeysDiffer DEF Found, PageAgrees, Now
      <3>2. CASE q.key \in ProjectKeys
        <4>1. q.key.ids = q.ids
          BY <1>6, <3>2, <1>a DEF Search, ReaderAgrees
        <4>2. found = {p \in q.ids : attr[p]}
          BY <3>2, KeysDiffer DEF Found
        <4>3. Now.attr = attr
          BY DEF Now
        <4> HIDE DEF found, q
        <4> QED BY <3>2, <4>1, <4>2, <4>3, KeysDiffer DEF PageAgrees
      <3> QED BY <3>1, <3>2, <1>q DEF Keys
    <2>2. /\ ItemsOf(AsTheyAre(found)) = found
          /\ ObjectsAgree(Now, AsTheyAre(found), BriefTTL)
      BY AsTheyAreAgrees
    <2>3. /\ next.pc = "set page" /\ next.key = q.key /\ next.ids = q.ids
          /\ next.list = found /\ next.shown = AsTheyAre(found)
      BY <1>q DEF Reading
    <2>4. ReaderAgrees(Now, next)
      <3> HIDE DEF next, found
      <3> QED BY <1>6, <2>1, <2>2, <2>3, <1>a DEF Search, ReaderAgrees
    <2>5. reader' = [reader EXCEPT ![r] = next]
      BY <1>6 DEF Search
    <2> HIDE DEF next
    <2> QED BY <1>6, <2>4, <2>5, <1>a, <1>c, <1>now, OneReads DEF Search
  <1>7. CASE SetPage(r)
    <2>1. /\ q.pc = "set page" /\ PageAgrees(Now, q.key, q.list, PageTTL)
          /\ ItemsOf(q.shown) = q.list /\ ObjectsAgree(Now, q.shown, BriefTTL)
      BY <1>7, <1>a DEF SetPage, ReaderAgrees
    <2>2. CachesAgree'
      <3>1. CASE pages' = pages
        BY <1>7, <3>1, <1>c DEF SetPage, caches
      <3>2. CASE pages' = [pages EXCEPT ![q.key] = [list |-> q.list, life |-> PageTTL]]
        <4>1. ASSUME NEW k \in Keys, pages'[k] # NoEntry
              PROVE  PageAgrees(Now, k, pages'[k].list, pages'[k].life)
          <5>1. CASE k = q.key
            BY <3>2, <5>1, <2>1, <1>q DEF CachesTyped
          <5>2. CASE k # q.key
            BY <3>2, <4>1, <5>2, <1>a DEF CachesTyped, CachesAgree
          <5> QED BY <5>1, <5>2
        <4> QED BY <1>7, <4>1, <1>a, <1>now DEF SetPage, CachesAgree
      <3> QED BY <1>7, <3>1, <3>2 DEF SetPage
    <2>3. PageAgrees(Now, q.key, q.list, 1) /\ ObjectsAgree(Now, q.shown, 1)
      BY <2>1, <1>q, <1>t, <1>l, PageForLess, ObjectsForLess
    <2>4. \A pc \in {"keep users", "done"} : ReaderAgrees(Now, [q EXCEPT !.pc = pc])
      BY <2>1, <2>3, <1>a, <1>q DEF ReaderAgrees, Reading
    <2> QED BY <1>7, <2>2, <2>4, <1>a, <1>now, GoesOn DEF SetPage
  <1>8. CASE AfterSearch(r)
    <2>1. /\ q.pc = "keep users" /\ PageAgrees(Now, q.key, q.list, PageTTL)
          /\ ItemsOf(q.shown) = q.list /\ ObjectsAgree(Now, q.shown, BriefTTL)
      BY <1>8, <1>a DEF AfterSearch, ReaderAgrees
    <2>2. CachesAgree'
      BY <1>8, <2>1, <1>q, <1>a, <1>now, KeptAgrees DEF AfterSearch
    <2>3. PageAgrees(Now, q.key, q.list, 1) /\ ObjectsAgree(Now, q.shown, 1)
      BY <2>1, <1>q, <1>t, <1>l, PageForLess, ObjectsForLess
    <2>4. ReaderAgrees(Now, [q EXCEPT !.pc = "done"])
      BY <2>1, <2>3, <1>a, <1>q DEF ReaderAgrees, Reading
    <2> QED BY <1>8, <2>2, <2>4, <1>a, <1>now, GoesOn DEF AfterSearch
  <1>9. CASE BatchGetBriefInfo(r)
    <2> DEFINE hits == InCache(q.list)
               shown == {[item |-> i, attr |-> briefs[i].attr] : i \in hits}
               pc == IF hits = q.list THEN "done" ELSE "load briefs"
               next == [q EXCEPT !.pc = pc, !.shown = shown]
    <2>1. q.pc = "briefs" /\ PageAgrees(Now, q.key, q.list, 1)
      BY <1>9, <1>a DEF BatchGetBriefInfo, ReaderAgrees
    <2>2. hits \subseteq q.list
      BY DEF InCache
    <2>3. \A s \in shown : s.item \in hits /\ s.attr = briefs[s.item].attr
      OBVIOUS
    <2>4. \A i \in hits : \E s \in shown : s.item = i
      <3> TAKE i \in hits
      <3>1. [item |-> i, attr |-> briefs[i].attr] \in shown
        OBVIOUS
      <3> HIDE DEF shown
      <3> QED BY <3>1
    <2>5. ItemsOf(shown) = hits
      <3> HIDE DEF shown, hits
      <3> QED BY <2>3, <2>4 DEF ItemsOf
    <2>6. ObjectsAgree(Now, shown, 1)
      <3>1. \A i \in hits : ObjectAgrees(Now, i, briefs[i].attr, 1)
        <4> TAKE i \in hits
        <4>1. i \in Items /\ briefs[i] # NoEntry
          BY <1>q DEF InCache
        <4>2. briefs[i].life \in Nat /\ 1 <= briefs[i].life
          BY <4>1, <1>l DEF CachesTyped, BriefEntry
        <4>3. ObjectAgrees(Now, i, briefs[i].attr, briefs[i].life)
          BY <4>1, <1>a DEF CachesAgree
        <4> QED BY <4>1, <4>2, <4>3, <1>t, <1>l, ObjectForLess
      <3> HIDE DEF shown, hits
      <3> QED BY <2>3, <3>1 DEF ObjectsAgree
    <2>7. /\ next.pc = pc /\ next.shown = shown /\ next.list = q.list /\ next.key = q.key
          /\ next.ids = q.ids
      <3> HIDE DEF shown, pc
      <3> QED BY <1>q DEF Reading
    <2>8. ReaderAgrees(Now, next)
      <3> HIDE DEF next, shown, hits
      <3> QED BY <2>1, <2>2, <2>5, <2>6, <2>7, <1>a DEF ReaderAgrees
    <2>9. reader' = [reader EXCEPT ![r] = next]
      BY <1>9 DEF BatchGetBriefInfo
    <2> HIDE DEF next
    <2> QED BY <1>9, <2>8, <2>9, <1>a, <1>c, <1>now, OneReads DEF BatchGetBriefInfo
  <1>10. CASE BatchGetByIDs(r)
    <2> DEFINE missing == Missing(r)
               shown == q.shown \cup AsTheyAre(missing)
               next == [q EXCEPT !.pc = "set briefs", !.list = missing, !.shown = shown]
    <2>1. /\ q.pc = "load briefs" /\ PageAgrees(Now, q.key, q.list, 1)
          /\ ItemsOf(q.shown) \subseteq q.list /\ ObjectsAgree(Now, q.shown, 1)
      BY <1>10, <1>a DEF BatchGetByIDs, ReaderAgrees
    <2>2. missing = q.list \ ItemsOf(q.shown)
      BY DEF Missing, ItemsOf
    <2>3. /\ ItemsOf(AsTheyAre(missing)) = missing
          /\ \A life : ObjectsAgree(Now, AsTheyAre(missing), life)
      BY AsTheyAreAgrees
    <2>4. ItemsOf(shown) = q.list
      <3> HIDE DEF missing
      <3>1. ItemsOf(shown) = ItemsOf(q.shown) \cup ItemsOf(AsTheyAre(missing))
        BY DEF ItemsOf
      <3> QED BY <2>1, <2>2, <2>3, <3>1
    <2>5. ObjectsAgree(Now, shown, 1)
      BY <2>1, <2>3 DEF ObjectsAgree
    <2>6. ObjectsAgree(Now, Among(shown, missing), BriefTTL)
      <3> HIDE DEF missing
      <3>1. \A s \in q.shown : s.item \notin missing
        BY <2>2 DEF ItemsOf
      <3>2. Among(shown, missing) \subseteq AsTheyAre(missing)
        BY <3>1 DEF Among
      <3> QED BY <2>3, <3>2 DEF ObjectsAgree
    <2>7. /\ next.pc = "set briefs" /\ next.shown = shown /\ next.list = missing
          /\ next.key = q.key /\ next.ids = q.ids
      <3> HIDE DEF shown, missing
      <3> QED BY <1>q DEF Reading
    <2>8. ReaderAgrees(Now, next)
      <3> HIDE DEF next, shown, missing
      <3> QED BY <2>1, <2>4, <2>5, <2>6, <2>7, <1>a DEF ReaderAgrees
    <2>9. reader' = [reader EXCEPT ![r] = next]
      BY <1>10 DEF BatchGetByIDs
    <2> HIDE DEF next
    <2> QED BY <1>10, <2>8, <2>9, <1>a, <1>c, <1>now, OneReads DEF BatchGetByIDs
  <1>11. CASE FillBriefs(r)
    <2>1. /\ q.pc = "set briefs" /\ PageAgrees(Now, q.key, ItemsOf(q.shown), 1)
          /\ ObjectsAgree(Now, q.shown, 1)
          /\ ObjectsAgree(Now, Among(q.shown, q.list), BriefTTL)
      BY <1>11, <1>a DEF FillBriefs, ReaderAgrees
    <2>2. ToKeep(r) = Among(q.shown, q.list) /\ ToKeep(r) \in SUBSET Shown
      BY <1>q DEF ToKeep, Among
    <2>3. CachesAgree'
      BY <1>11, <2>1, <2>2, <1>a, <1>now, KeptAgrees DEF FillBriefs
    <2>4. ReaderAgrees(Now, [q EXCEPT !.pc = "done"])
      BY <2>1, <1>a, <1>q DEF ReaderAgrees, Reading
    <2> QED BY <1>11, <2>3, <2>4, <1>a, <1>now, GoesOn DEF FillBriefs
  <1> QED BY <1>1, <1>2, <1>3, <1>4, <1>5, <1>6, <1>7, <1>8, <1>9, <1>10, <1>11 DEF Read

(* Every step keeps them so. *)
LEMMA StepAges == Typed /\ Typed' /\ AgeInv /\ [Next]_vars => AgeInv'
  <1> SUFFICES ASSUME Typed, Typed', AgeInv, [Next]_vars PROVE AgeInv'
    OBVIOUS
  <1>a. CachesAgree /\ ReadersAgree
    BY DEF AgeInv
  <1>f. ASSUME Fresh(Now, Now'), UNCHANGED <<caches, reader>> PROVE AgeInv'
    BY <1>f, <1>a, CachesStay, ReadersStay DEF AgeInv
  <1>1. CASE Tick
    BY <1>1, <1>a, TickAges
  <1>2. CASE Restart
    <2>1. Fresh(Now, Now')
      BY <1>2, NothingNew DEF Restart, tables
    <2>2. ReadersAgree'
      BY <1>2, IdleAgrees DEF Restart, ReadersAgree
    <2> QED BY <1>2, <1>a, <2>1, <2>2, CachesStay DEF Restart, AgeInv
  <1>3. ASSUME NEW i \in Items, Enlist(i) PROVE AgeInv'
    <2>1. Fresh(Now, Now')
      BY <1>3 DEF Enlist, Fresh, Now, Typed, TablesTyped
    <2> QED BY <1>3, <1>f, <2>1 DEF Enlist
  <1>4. ASSUME NEW p \in Projects, RemoveProjectMember(p) PROVE AgeInv'
    <2>1. Fresh(Now, Now')
      BY <1>4, DirectoryAssumption DEF RemoveProjectMember, Fresh, Now, Typed, TablesTyped
    <2> QED BY <1>4, <1>f, <2>1 DEF RemoveProjectMember
  <1>5. ASSUME NEW p \in Projects, UpdateProject(p) PROVE AgeInv'
    BY <1>5, <1>f, AlterFresh DEF UpdateProject, Items
  <1>6. ASSUME NEW u \in Users, UpdateUserProfile(u) PROVE AgeInv'
    BY <1>6, <1>f, AlterFresh DEF UpdateUserProfile, Items
  <1>7. ASSUME NEW u \in Users, DeleteBriefInfo(u) PROVE AgeInv'
    <2>1. Now' = Now /\ Fresh(Now, Now')
      BY <1>7, NothingNew DEF DeleteBriefInfo, tables
    <2>2. CASE UNCHANGED briefs
      BY <1>7, <1>f, <2>1, <2>2 DEF DeleteBriefInfo, caches
    <2>3. CASE briefs' = [briefs EXCEPT ![u] = NoEntry]
      <3>1. \A i \in Items : briefs'[i] # NoEntry => briefs'[i] = briefs[i]
        BY <2>3 DEF Typed, CachesTyped
      <3>2. CachesAgree'
        BY <1>7, <2>1, <3>1, <1>a DEF DeleteBriefInfo, CachesAgree
      <3> QED BY <1>7, <2>1, <3>2, <1>a DEF DeleteBriefInfo, AgeInv, ReadersAgree
    <2> QED BY <1>7, <2>2, <2>3 DEF DeleteBriefInfo
  <1>8. ASSUME NEW u \in Users, BumpUserVersion(u) PROVE AgeInv'
    BY <1>8, <1>f, NothingNew DEF BumpUserVersion, tables
  <1>9. ASSUME NEW r \in Readers, Read(r) PROVE AgeInv'
    BY <1>9, ReadAges
  <1>10. CASE UNCHANGED vars
    BY <1>10, <1>f, NothingNew DEF vars, caches
  <1> QED BY <1>1, <1>2, <1>3, <1>4, <1>5, <1>6, <1>7, <1>8, <1>9, <1>10 DEF Next

(* What readers hold at the end of a request is what StaleOnlySoLong allows. *)
LEMMA AgesSuffice == Typed /\ AgeInv => StaleOnlySoLong
  <1> SUFFICES ASSUME Typed, AgeInv, NEW r \in Readers, reader[r].pc = "done"
               PROVE  /\ \A s \in reader[r].shown :
                            /\ s.item \in listed \/ listedAge[s.item] < IDsTTL
                            /\ Matching(s.item) \/ attrAge[s.item] < PageTTL
                            /\ s.attr = attr[s.item] \/ attrAge[s.item] < BriefTTL
                      /\ reader[r].key \in ProjectKeys =>
                            \A p \in (listed \cap Projects) \ ShownItems(r) :
                                ~Matching(p) \/ listedAge[p] < IDsTTL \/ attrAge[p] < PageTTL
                      /\ reader[r].key \in UserKeys =>
                            \A u \in (listed \cap Users) \ ShownItems(r) : listedAge[u] < PageTTL
    BY DEF StaleOnlySoLong
  <1> DEFINE q == reader[r]
  <1>1. /\ q.key \in UserKeys \cup ProjectKeys /\ q.ids \in SUBSET Projects
        /\ q.shown \in SUBSET Shown /\ ItemsOf(q.shown) = ShownItems(r)
    BY DEF Typed, ReadersTyped, Reading, Keys, ItemsOf, ShownItems
  <1>2. /\ ObjectsAgree(Now, q.shown, 1) /\ PageAgrees(Now, q.key, ItemsOf(q.shown), 1)
        /\ q.key \in ProjectKeys => q.key.ids = q.ids /\ IdsAgree(Now, q.ids, 1)
    BY DEF AgeInv, ReadersAgree, ReaderAgrees
  <1>3. /\ Now.listed = listed /\ Now.listedAge = listedAge
        /\ Now.attr = attr /\ Now.attrAge = attrAge
    BY DEF Now
  <1>4. \A i \in Items : listedAge[i] \in Nat /\ attrAge[i] \in Nat
    BY DEF Typed, TablesTyped, Ages
  <1>5. \A age \in Nat : /\ age + 1 <= IDsTTL => age < IDsTTL
                         /\ age + 1 <= PageTTL => age < PageTTL
                         /\ age + 1 <= BriefTTL => age < BriefTTL
    BY DirectoryAssumption
  <1>6. ASSUME NEW s \in q.shown
        PROVE  /\ s.item \in listed \/ listedAge[s.item] < IDsTTL
               /\ Matching(s.item) \/ attrAge[s.item] < PageTTL
               /\ s.attr = attr[s.item] \/ attrAge[s.item] < BriefTTL
    <2>1. s.item \in ItemsOf(q.shown) /\ s.item \in Items
      BY <1>1 DEF ItemsOf, Shown
    <2>2. s.attr = attr[s.item] \/ attrAge[s.item] < BriefTTL
      BY <2>1, <1>2, <1>3, <1>4, <1>5 DEF ObjectsAgree, ObjectAgrees
    <2>3. CASE q.key \in UserKeys
      <3>1. s.item \in listed \cap Users
        BY <2>1, <2>3, <1>2, <1>3 DEF PageAgrees
      <3> QED BY <2>2, <3>1, DirectoryAssumption DEF Matching
    <2>4. CASE q.key \in ProjectKeys
      <3>1. s.item \in q.ids /\ (attr[s.item] \/ attrAge[s.item] < PageTTL)
        BY <2>1, <2>4, <1>2, <1>3, <1>4, <1>5 DEF PageAgrees
      <3>2. s.item \in listed \/ listedAge[s.item] < IDsTTL
        BY <2>1, <2>4, <3>1, <1>1, <1>2, <1>3, <1>4, <1>5 DEF IdsAgree
      <3> QED BY <2>2, <3>1, <3>2 DEF Matching
    <2> QED BY <2>3, <2>4, <1>1
  <1>7. ASSUME q.key \in ProjectKeys, NEW p \in (listed \cap Projects) \ ShownItems(r)
        PROVE  ~Matching(p) \/ listedAge[p] < IDsTTL \/ attrAge[p] < PageTTL
    <2>1. p \in Items
      BY DEF Items
    <2>2. CASE p \in q.ids
      BY <1>7, <2>1, <2>2, <1>1, <1>2, <1>3, <1>4, <1>5 DEF PageAgrees, Matching
    <2>3. CASE p \notin q.ids
      BY <1>7, <2>1, <2>3, <1>2, <1>3, <1>4, <1>5 DEF IdsAgree
    <2> QED BY <2>2, <2>3
  <1>8. ASSUME q.key \in UserKeys, NEW u \in (listed \cap Users) \ ShownItems(r)
        PROVE  listedAge[u] < PageTTL
    BY <1>8, <1>1, <1>2, <1>3, <1>4, <1>5 DEF PageAgrees, Items
  <1> QED BY <1>6, <1>7, <1>8

(* What a list shows is no older than the life of the cache that kept it, for any lives of the    *)
(* three caches, in whatever order readers, changes, ticks and restarts come (StaleOnlySoLong of  *)
(* Directory: ListProjects, ListUsers and the caches of cachesvc).                                *)
THEOREM ListsAreStaleOnlySoLong == Spec => []StaleOnlySoLong
  <1>1. Init => Typed /\ AgeInv
    BY InitTyped, InitAges
  <1>2. (Typed /\ AgeInv) /\ [Next]_vars => (Typed /\ AgeInv)'
    BY StepTyped, StepAges
  <1>3. Typed /\ AgeInv => StaleOnlySoLong
    BY AgesSuffice
  <1> QED BY <1>1, <1>2, <1>3, PTL DEF Spec
=============================================================================
