---------------------------- MODULE ItemCopiesProofs ----------------------------
(* What ItemCopies promises for any number of threads, pages, edits, removals  *)
(* and mishaps: a sync that holds the ref row sends an edit no older than the  *)
(* page already says, so the page never goes back.                             *)
EXTENDS ItemCopies, WellFoundedInduction, FiniteSetTheorems, TLAPS

-----------------------------------------------------------------------------
(* Types and the invariant                                                     *)

Pcs == {"idle", "started", "claiming", "creating", "sending", "committing", "went", "failed"}
Reasons == {"none", "unreachable", "rejected"}
ItemType == [gone : BOOLEAN, version : Nat, draft : BOOLEAN, paged : BOOLEAN]
PageType == [state : {"none", "live", "archived", "deleted"}, says : Nat]
SyncType == [pc : Pcs, seen : Nat, draft : BOOLEAN, page : 0 .. MaxPages, kind : Reasons]
DeletionType == [pc : {"idle", "looking", "trashing", "deleting", "done"}, page : 0 .. MaxPages]

\* The item and its edits, and what the board shows of the copy.
ItemOK ==
    /\ item \in ItemType /\ item.version >= 1
    /\ edits \in Nat /\ edits <= MaxEdits /\ item.version <= edits + 1
    /\ failure \in Reasons /\ queued \in Nat

\* No page says an edit the item has not had; the item's page was made.
PagesOK ==
    /\ pages \in [Pages -> PageType]
    /\ \A p \in Pages : pages[p].says <= item.version
    /\ ref \in 0 .. MaxPages
    /\ ref # 0 => pages[ref].state # "none"

OwedType == [row : {"none", "owed", "dropped", "refused", "unrecorded"}, tries : 0 .. CleanupMax]

\* No row outlasts its tries; a page in the deletion's hand is one.
OwedOK ==
    /\ owed \in [Pages -> OwedType]
    /\ \A p \in Pages : owed[p].row = "owed" => owed[p].tries < CleanupMax
    /\ deletion \in DeletionType
    /\ deletion.pc = "trashing" => deletion.page # 0

Holding(s) == sync[s].pc \in {"creating", "sending", "committing"}

\* Who is past the lock holds the row: what it sends is no older than what the
\* page says, and what it commits was made.
SyncOK(s) ==
    /\ sync[s] \in SyncType /\ sync[s].seen <= item.version
    /\ lock = s <=> Holding(s)
    /\ sync[s].pc = "committing" /\ sync[s].page # 0 => pages[sync[s].page].state # "none"
    /\ sync[s].pc = "sending" => ref # 0 /\ pages[ref].says <= sync[s].seen
    /\ sync[s].pc = "creating" => ref = 0

SyncsOK ==
    /\ sync \in [Syncs -> SyncType] /\ lock \in Syncs \cup {NoSync}
    /\ \A s \in Syncs : SyncOK(s)

Inv == ItemOK /\ PagesOK /\ OwedOK /\ SyncsOK

LEMMA IdleIsSync ==
    /\ Idle \in SyncType /\ Idle.pc = "idle" /\ Idle.seen = 0
    /\ NotDeleting \in DeletionType /\ NotDeleting.pc = "idle"
    /\ NotOwed \in OwedType /\ NotOwed.row = "none"
BY BoundsAssumption DEF Idle, SyncType, Pcs, Reasons, NotDeleting, DeletionType, NotOwed, OwedType

LEMMA InvInit == Init => Inv
<1> SUFFICES ASSUME Init PROVE Inv OBVIOUS
<1>1. ItemOK
  BY BoundsAssumption DEF Init, ItemOK, ItemType, Reasons
<1>2. PagesOK
  BY <1>1, BoundsAssumption DEF Init, PagesOK, PageType, Deleted, ItemOK
<1>3. OwedOK
  BY IdleIsSync DEF Init, OwedOK
<1>4. SyncsOK
  BY <1>1, IdleIsSync, NobodyAssumption DEF Init, SyncsOK, SyncOK, Holding, ItemOK, ItemType
<1> QED BY <1>1, <1>2, <1>3, <1>4 DEF Inv

-----------------------------------------------------------------------------
(* What a step leaves of the pages, and of the other syncs                     *)

\* A page made stays made, and says no edit the item has not had.
PagesKept ==
    /\ pages' \in [Pages -> PageType]
    /\ \A p \in Pages : /\ pages[p].state # "none" => pages'[p].state # "none"
                        /\ pages'[p].says <= item.version

\* None says a later edit than it did.
PagesQuiet == PagesKept /\ \A p \in Pages : pages'[p].says <= pages[p].says

LEMMA SamePages == PagesOK /\ UNCHANGED pages => PagesQuiet
<1> SUFFICES ASSUME PagesOK, UNCHANGED pages PROVE PagesQuiet OBVIOUS
<1>1. \A p \in Pages : pages[p].says \in Nat
  BY DEF PagesOK, PageType
<1>2. \A p \in Pages : pages'[p].says <= pages[p].says
  BY <1>1
<1> QED BY <1>2 DEF PagesQuiet, PagesKept, PagesOK

LEMMA PagesStep ==
    ASSUME PagesOK, ItemOK, PagesKept, item'.version \in Nat, item.version <= item'.version,
           ref' = ref \/ ref' = 0
    PROVE  PagesOK'
<1>1. \A p \in Pages : pages'[p].says <= item'.version
  BY DEF PagesKept, PageType, ItemOK, ItemType
<1>2. ref' \in 0 .. MaxPages
  BY BoundsAssumption DEF PagesOK
<1>3. ref' # 0 => pages'[ref'].state # "none"
  BY DEF PagesOK, PagesKept, Pages
<1> QED BY <1>1, <1>2, <1>3 DEF PagesOK, PagesKept

LEMMA Bystander ==
    ASSUME Inv, NEW t \in Syncs, sync'[t] = sync[t], PagesKept,
           item'.version \in Nat, item.version <= item'.version,
           lock' = t <=> lock = t,
           lock = t => ref' = ref /\ PagesQuiet
    PROVE  SyncOK(t)'
<1>1. SyncOK(t) /\ PagesOK /\ item.version \in Nat
  BY DEF Inv, SyncsOK, ItemOK, ItemType
<1>2. sync'[t] \in SyncType /\ sync'[t].seen <= item'.version
  BY <1>1 DEF SyncOK, SyncType
<1>3. lock' = t <=> Holding(t)'
  BY <1>1 DEF SyncOK, Holding
<1>4. sync'[t].pc = "committing" /\ sync'[t].page # 0 => pages'[sync'[t].page].state # "none"
  <2>1. sync[t].page # 0 => sync[t].page \in Pages
    BY <1>1, BoundsAssumption DEF SyncOK, SyncType, Pages
  <2> QED BY <1>1, <2>1 DEF SyncOK, PagesKept
<1>5. ASSUME sync'[t].pc = "sending" PROVE ref' # 0 /\ pages'[ref'].says <= sync'[t].seen
  <2>1. lock = t /\ ref # 0 /\ pages[ref].says <= sync[t].seen
    BY <1>1, <1>5 DEF SyncOK, Holding
  <2>2. ref' = ref /\ ref \in Pages /\ PagesQuiet
    BY <1>1, <2>1, BoundsAssumption DEF PagesOK, Pages
  <2>3. pages'[ref].says <= pages[ref].says
    BY <2>2 DEF PagesQuiet
  <2>4. pages'[ref].says \in Nat /\ pages[ref].says \in Nat /\ sync[t].seen \in Nat
    BY <1>1, <2>2 DEF PagesOK, PagesKept, PageType, SyncOK, SyncType
  <2> QED BY <2>1, <2>2, <2>3, <2>4
<1>6. sync'[t].pc = "creating" => ref' = 0
  <2>1. sync[t].pc = "creating" => lock = t /\ ref = 0
    BY <1>1 DEF SyncOK, Holding
  <2> QED BY <2>1
<1> QED BY <1>2, <1>3, <1>4, <1>5, <1>6 DEF SyncOK

LEMMA LessIsWellFounded ==
    \E R : IsWellFoundedOn(R, Nat) /\ \A x, y \in Nat : x < y => <<x, y>> \in R
<1>1. \A x, y \in Nat : x < y => <<x, y>> \in OpToRel(<, Nat)
  BY DEF OpToRel
<1> QED BY <1>1, NatLessThanWellFounded

\* A set of page numbers that is not empty has a least one.
LEMMA Least == ASSUME NEW S, S \subseteq Nat, S # {} PROVE \E p \in S : \A q \in S : p <= q
<1>1. PICK R : IsWellFoundedOn(R, Nat) /\ \A x, y \in Nat : x < y => <<x, y>> \in R
  BY LessIsWellFounded
<1>2. IsWellFoundedOn(R, Nat)
  BY <1>1
<1>3. PICK x \in S : \A y \in S : ~ (<<y, x>> \in R)
  BY <1>2, WFMin, Zenon
<1>4. x \in Nat /\ \A y \in S : y \in Nat /\ ~(y < x)
  BY <1>1, <1>3
<1>5. \A y \in S : x <= y
  BY <1>4
<1> QED BY <1>5

LEMMA NewPageIsUnused == Unused # {} => NewPage \in Pages /\ pages[NewPage].state = "none"
<1> SUFFICES ASSUME Unused # {} PROVE NewPage \in Pages /\ pages[NewPage].state = "none" OBVIOUS
<1>1. Unused \subseteq Nat
  BY DEF Unused, Pages
<1>2. \E p \in Unused : \A q \in Unused : p <= q
  BY <1>1, Least
<1>3. NewPage \in Unused
  BY <1>2 DEF NewPage
<1> QED BY <1>3 DEF Unused

-----------------------------------------------------------------------------
(* The board, the deletion, the drain, a person: no sync moves                 *)

ItemFacts == item \in ItemType /\ item.version \in Nat /\ item.version >= 1
LEMMA ItemIs == Inv => ItemFacts
BY DEF Inv, ItemOK, ItemType, ItemFacts

\* The syncs are as they were when nobody's lock is taken and the held row stays.
LEMMA SyncsStay ==
    ASSUME Inv, UNCHANGED <<sync, lock>>, PagesQuiet, item'.version \in Nat,
           item.version <= item'.version, lock # NoSync => ref' = ref
    PROVE  SyncsOK'
<1>1. \A t \in Syncs : SyncOK(t)'
  <2> SUFFICES ASSUME NEW t \in Syncs PROVE SyncOK(t)' OBVIOUS
  <2>1. t # NoSync
    BY NobodyAssumption
  <2> QED BY <2>1, Bystander DEF PagesQuiet
<1> QED BY <1>1 DEF Inv, SyncsOK

LEMMA BoardStep == Inv /\ (Edit \/ SendAgain) => Inv'
<1> SUFFICES ASSUME Inv, Edit \/ SendAgain PROVE Inv' OBVIOUS
<1>0. ItemOK /\ PagesOK /\ OwedOK /\ SyncsOK /\ ItemFacts
  BY ItemIs DEF Inv
<1>1. CASE Edit
  <2>1. PICK draft \in BOOLEAN :
          /\ item' = [item EXCEPT !.version = @ + 1, !.draft = draft, !.paged = (ref # 0)]
          /\ queued' = IF CopiesFollow(draft) THEN queued + 1 ELSE queued
    BY <1>1 DEF Edit
  <2> DEFINE v == item.version + 1
             b == ref # 0
  <2>2. b \in BOOLEAN /\ v \in Nat
    BY <1>0 DEF ItemFacts
  <2>3. item' \in ItemType /\ item'.version = v
    <3>1. item' = [item EXCEPT !.version = v, !.draft = draft, !.paged = b]
      BY <2>1
    <3> HIDE DEF v, b
    <3> QED BY <1>0, <2>2, <3>1 DEF ItemFacts, ItemType
  <2>4. item'.version = item.version + 1
    BY <2>3
  <2>5. edits' = edits + 1 /\ edits < MaxEdits
    BY <1>1 DEF Edit, Spends
  <2>6. queued' \in Nat
    BY <1>0, <2>1 DEF ItemOK
  <2>7. edits' \in Nat /\ edits' <= MaxEdits /\ item'.version <= edits' + 1 /\ item'.version >= 1
    BY <1>0, <2>4, <2>5, BoundsAssumption DEF ItemOK, ItemFacts
  <2>8. ItemOK'
    <3>1. failure' \in Reasons
      BY <1>0, <1>1 DEF ItemOK, Edit
    <3> QED BY <2>3, <2>6, <2>7, <3>1, Zenon DEF ItemOK
  <2>9. PagesQuiet /\ item'.version \in Nat /\ item.version <= item'.version
    <3>1. PagesQuiet
      BY <1>0, <1>1, SamePages DEF Edit
    <3> QED BY <1>0, <2>4, <3>1 DEF ItemFacts
  <2>10. PagesOK'
    BY <1>0, <1>1, <2>9, PagesStep DEF PagesQuiet, Edit
  <2>11. OwedOK'
    BY <1>0, <1>1 DEF OwedOK, Edit
  <2>12. SyncsOK'
    BY <1>1, <2>9, SyncsStay DEF Edit
  <2> QED BY <2>8, <2>10, <2>11, <2>12 DEF Inv
<1>2. CASE SendAgain
  <2>1. edits' = edits + 1 /\ edits < MaxEdits /\ queued' = queued + 1
    BY <1>2 DEF SendAgain, Spends
  <2>2. ItemOK'
    BY <1>0, <1>2, <2>1, BoundsAssumption DEF ItemOK, ItemFacts, SendAgain
  <2>3. PagesQuiet /\ item'.version \in Nat /\ item.version <= item'.version
    BY <1>0, <1>2, SamePages DEF SendAgain, ItemFacts
  <2>4. PagesOK'
    BY <1>0, <1>2, <2>3, PagesStep DEF PagesQuiet, SendAgain
  <2>5. OwedOK'
    BY <1>0, <1>2 DEF OwedOK, SendAgain
  <2>6. SyncsOK'
    BY <1>2, <2>3, SyncsStay DEF SendAgain
  <2> QED BY <2>2, <2>4, <2>5, <2>6 DEF Inv
<1> QED BY <1>1, <1>2

\* A page trashed or retitled says no item's edit any more.
LEMMA TrashQuiet ==
    ASSUME Inv, NEW p \in Pages, pages' \in {pages, Trashed(p), Retitled(p)}
    PROVE  PagesQuiet
<1>0. PagesOK /\ ItemFacts
  BY ItemIs DEF Inv
<1>1. CASE pages' = pages
  BY <1>0, <1>1, SamePages
<1>2. ASSUME NEW st \in {"live", "archived"}, pages' = [pages EXCEPT ![p] = [state |-> st, says |-> 0]]
      PROVE  PagesQuiet
  <2> DEFINE r == [state |-> st, says |-> 0]
  <2>1. r \in PageType /\ r.state # "none" /\ r.says = 0
    BY DEF PageType
  <2>2. pages' = [pages EXCEPT ![p] = r]
    BY <1>2
  <2> HIDE DEF r
  <2>3. pages' \in [Pages -> PageType] /\ pages'[p] = r
    BY <1>0, <2>1, <2>2 DEF PagesOK
  <2>4. \A q \in Pages : q # p => pages'[q] = pages[q]
    BY <1>0, <2>2 DEF PagesOK
  <2>5. \A q \in Pages : pages[q].says \in Nat /\ pages[q].says <= item.version
    BY <1>0 DEF PagesOK, PageType
  <2>6. \A q \in Pages : pages'[q].says <= pages[q].says
    BY <2>1, <2>3, <2>4, <2>5
  <2>7. \A q \in Pages : pages'[q].says <= item.version
    BY <1>0, <2>1, <2>3, <2>4, <2>5 DEF ItemFacts
  <2>8. \A q \in Pages : pages[q].state # "none" => pages'[q].state # "none"
    BY <2>1, <2>3, <2>4
  <2> QED BY <2>3, <2>6, <2>7, <2>8 DEF PagesQuiet, PagesKept
<1> QED BY <1>1, <1>2 DEF Trashed, Retitled, Says, Deleted

\* A row written for a page keeps what is owed of the others.
LEMMA RowWrites ==
    ASSUME OwedOK, deletion' \in DeletionType, deletion'.pc = "trashing" => deletion'.page # 0,
           NEW p \in Pages, NEW row \in {"none", "owed", "dropped", "refused", "unrecorded"},
           NEW tries \in 0 .. CleanupMax, Row(p, row, tries),
           row = "owed" => tries < CleanupMax
    PROVE  OwedOK'
<1> DEFINE r == [row |-> row, tries |-> tries]
<1>1. r \in OwedType /\ (r.row = "owed" => r.tries < CleanupMax)
  BY DEF OwedType
<1>2. owed' = [owed EXCEPT ![p] = r]
  BY DEF Row
<1> HIDE DEF r
<1>3. owed' \in [Pages -> OwedType]
  BY <1>1, <1>2 DEF OwedOK
<1>4. \A q \in Pages : owed'[q].row = "owed" => owed'[q].tries < CleanupMax
  BY <1>1, <1>2 DEF OwedOK
<1> QED BY <1>3, <1>4 DEF OwedOK

LEMMA DeletionStep == Inv /\ (DeleteItem \/ DeletionGoesOn) => Inv'
<1> SUFFICES ASSUME Inv, DeleteItem \/ DeletionGoesOn PROVE Inv' OBVIOUS
<1>0. ItemOK /\ PagesOK /\ OwedOK /\ SyncsOK /\ ItemFacts
  BY ItemIs DEF Inv
<1>1. CASE DeleteItem \/ LookForPage
  <2>1. PagesQuiet /\ item'.version \in Nat /\ item.version <= item'.version
    BY <1>0, <1>1, SamePages DEF DeleteItem, LookForPage, ItemFacts
  <2>2. ItemOK' /\ PagesOK'
    BY <1>0, <1>1, <2>1, PagesStep DEF ItemOK, PagesQuiet, DeleteItem, LookForPage
  <2>3. OwedOK'
    <3>1. ref \in 0 .. MaxPages /\ 0 \in 0 .. MaxPages
      BY <1>0, BoundsAssumption DEF PagesOK
    <3>2. deletion' \in DeletionType /\ (deletion'.pc = "trashing" => deletion'.page # 0)
      BY <1>1, <3>1 DEF DeleteItem, LookForPage, Deletes, DeletionType
    <3> QED BY <1>0, <1>1, <3>2 DEF OwedOK, DeleteItem, LookForPage
  <2>4. SyncsOK'
    BY <1>1, <2>1, SyncsStay DEF DeleteItem, LookForPage
  <2> QED BY <2>2, <2>3, <2>4 DEF Inv
<1>2. CASE TrashPage
  <2>1. deletion.page \in Pages /\ deletion.page \in 0 .. MaxPages
    BY <1>0, <1>2, BoundsAssumption DEF TrashPage, OwedOK, DeletionType, Pages
  <2>2. PagesQuiet
    BY <1>2, <2>1, TrashQuiet DEF TrashPage, TrashFails
  <2>3. item'.version \in Nat /\ item.version <= item'.version
    BY <1>0, <1>2 DEF TrashPage, ItemFacts
  <2>4. ItemOK' /\ PagesOK'
    BY <1>0, <1>2, <2>2, <2>3, PagesStep DEF ItemOK, PagesQuiet, TrashPage
  <2>5. OwedOK'
    <3>1. deletion' \in DeletionType /\ deletion'.pc # "trashing"
      BY <1>2, <2>1 DEF TrashPage, Deletes, DeletionType
    <3>2. CASE owed' = owed
      BY <1>0, <3>1, <3>2 DEF OwedOK
    <3>3. CASE Row(deletion.page, "owed", 0) \/ Row(deletion.page, "unrecorded", 0)
      <4>1. 0 \in 0 .. CleanupMax /\ 0 < CleanupMax
        BY BoundsAssumption
      <4> QED BY <1>0, <2>1, <3>1, <3>3, <4>1, RowWrites
    <3> QED BY <1>2, <3>2, <3>3 DEF TrashPage, Owes
  <2>6. SyncsOK'
    BY <1>2, <2>2, <2>3, SyncsStay DEF TrashPage
  <2> QED BY <2>4, <2>5, <2>6 DEF Inv
<1>3. CASE DeleteRows
  <2>1. item' \in ItemType /\ item'.version = item.version
    BY <1>0, <1>3 DEF DeleteRows, ItemFacts, ItemType
  <2>2. ItemOK'
    BY <1>0, <1>3, <2>1 DEF ItemOK, DeleteRows, Reasons
  <2>3. PagesQuiet /\ item'.version \in Nat /\ item.version <= item'.version
    BY <1>0, <1>3, <2>1, SamePages DEF DeleteRows, ItemFacts
  <2>4. PagesOK'
    BY <1>0, <1>3, <2>3, PagesStep DEF PagesQuiet, DeleteRows
  <2>5. OwedOK'
    BY <1>0, <1>3 DEF OwedOK, DeleteRows, Deletes, DeletionType
  <2>6. SyncsOK'
    BY <1>3, <2>3, SyncsStay DEF DeleteRows
  <2> QED BY <2>2, <2>4, <2>5, <2>6 DEF Inv
<1> QED BY <1>1, <1>2, <1>3 DEF DeletionGoesOn

LEMMA CleanupStep ==
    ASSUME Inv, NEW p \in Pages, Drain(p) \/ PersonRemoves(p)
    PROVE  Inv'
<1>0. ItemOK /\ PagesOK /\ OwedOK /\ SyncsOK /\ ItemFacts
  BY ItemIs DEF Inv
<1>1. CASE Drain(p)
  <2>1. PagesQuiet /\ item'.version \in Nat /\ item.version <= item'.version
    BY <1>0, <1>1, TrashQuiet DEF Drain, TrashFails, ItemFacts
  <2>2. ItemOK' /\ PagesOK'
    BY <1>0, <1>1, <2>1, PagesStep DEF ItemOK, PagesQuiet, Drain
  <2>3. OwedOK'
    <3>1. /\ deletion' \in DeletionType /\ (deletion'.pc = "trashing" => deletion'.page # 0)
          /\ owed[p].tries \in 0 .. CleanupMax /\ owed[p].tries < CleanupMax
      BY <1>0, <1>1 DEF OwedOK, OwedType, Drain
    <3>2. CASE Row(p, "none", 0) \/ Row(p, "refused", 0)
      <4>1. 0 \in 0 .. CleanupMax
        BY BoundsAssumption
      <4> QED BY <1>0, <3>1, <3>2, <4>1, RowWrites
    <3>3. CASE Counts(p)
      <4> DEFINE n == owed[p].tries + 1
                 r == IF n >= CleanupMax THEN "dropped" ELSE "owed"
      <4>1. n \in 0 .. CleanupMax /\ (r = "owed" => n < CleanupMax)
        BY <3>1, BoundsAssumption
      <4>2. r \in {"none", "owed", "dropped", "refused", "unrecorded"}
        OBVIOUS
      <4>3. Row(p, r, n)
        BY <3>3 DEF Counts
      <4> HIDE DEF n, r
      <4> QED BY <1>0, <3>1, <4>1, <4>2, <4>3, RowWrites
    <3> QED BY <1>1, <3>2, <3>3 DEF Drain
  <2>4. SyncsOK'
    BY <1>1, <2>1, SyncsStay DEF Drain
  <2> QED BY <2>2, <2>3, <2>4 DEF Inv
<1>2. CASE PersonRemoves(p)
  <2>1. PICK st \in {"archived", "deleted"} : pages' = [pages EXCEPT ![p].state = st]
    BY <1>2 DEF PersonRemoves
  <2>2. pages'[p] \in PageType /\ pages'[p].state = st /\ pages'[p].says = pages[p].says
    BY <1>0, <2>1 DEF PagesOK, PageType
  <2>3. \A q \in Pages : q # p => pages'[q] = pages[q]
    BY <1>0, <2>1 DEF PagesOK
  <2>4. pages' \in [Pages -> PageType]
    <3>1. pages' = [q \in Pages |-> pages'[q]]
      BY <1>0, <2>1 DEF PagesOK
    <3>2. \A q \in Pages : pages'[q] \in PageType
      BY <1>0, <2>2, <2>3 DEF PagesOK
    <3> QED BY <3>1, <3>2
  <2>5. \A q \in Pages : pages'[q].says = pages[q].says
    BY <2>2, <2>3
  <2>6. \A q \in Pages : pages[q].says \in Nat /\ pages[q].says <= item.version
    BY <1>0 DEF PagesOK, PageType
  <2>7. \A q \in Pages : pages'[q].says <= pages[q].says /\ pages'[q].says <= item.version
    BY <1>0, <2>5, <2>6 DEF ItemFacts
  <2>8. \A q \in Pages : pages[q].state # "none" => pages'[q].state # "none"
    BY <2>2, <2>3
  <2>9. PagesQuiet /\ item'.version \in Nat /\ item.version <= item'.version
    BY <1>0, <1>2, <2>4, <2>7, <2>8 DEF PagesQuiet, PagesKept, PersonRemoves, ItemFacts
  <2>10. ItemOK' /\ PagesOK'
    BY <1>0, <1>2, <2>9, PagesStep DEF ItemOK, PagesQuiet, PersonRemoves
  <2>11. OwedOK'
    BY <1>0, <1>2 DEF OwedOK, PersonRemoves
  <2>12. SyncsOK'
    BY <1>2, <2>9, SyncsStay DEF PersonRemoves
  <2> QED BY <2>10, <2>11, <2>12 DEF Inv
<1> QED BY <1>1, <1>2

LEMMA RestartStep == Inv /\ ApiRestarts => Inv'
<1> SUFFICES ASSUME Inv, ApiRestarts PROVE Inv' OBVIOUS
<1>0. ItemOK /\ PagesOK /\ OwedOK /\ SyncsOK /\ ItemFacts
  BY ItemIs DEF Inv
<1>1. PagesQuiet /\ item'.version \in Nat /\ item.version <= item'.version
  BY <1>0, SamePages DEF ApiRestarts, ItemFacts
<1>2. ItemOK' /\ PagesOK'
  BY <1>0, <1>1, PagesStep DEF ItemOK, PagesQuiet, ApiRestarts
<1>3. OwedOK'
  BY <1>0, IdleIsSync DEF OwedOK, ApiRestarts
<1>4. SyncsOK'
  <2>1. sync' \in [Syncs -> SyncType] /\ lock' = NoSync
    BY IdleIsSync DEF ApiRestarts
  <2>2. ASSUME NEW s \in Syncs PROVE SyncOK(s)'
    <3>1. sync'[s] = Idle /\ s # NoSync /\ item'.version = item.version
      BY NobodyAssumption DEF ApiRestarts
    <3> QED BY <1>0, <2>1, <3>1, IdleIsSync DEF SyncOK, Holding, ItemFacts
  <2> QED BY <2>1, <2>2 DEF SyncsOK
<1> QED BY <1>2, <1>3, <1>4 DEF Inv

-----------------------------------------------------------------------------
(* The syncs                                                                   *)

\* Thread s moves, and what it holds or gives back is its own.
Moves(s) ==
    /\ sync' = [sync EXCEPT ![s] = sync'[s]]
    /\ lock' \in {lock, s, NoSync}
    /\ lock' # lock => lock \in {s, NoSync}
    /\ item' = item /\ PagesKept
    /\ lock # s => PagesQuiet /\ ref' = ref

LEMMA MoveKeeps ==
    ASSUME Inv, NEW s \in Syncs, Moves(s), SyncOK(s)'
    PROVE  SyncsOK'
<1>0. SyncsOK /\ ItemFacts /\ s # NoSync
  BY ItemIs, NobodyAssumption DEF Inv
<1>1. ASSUME NEW t \in Syncs, t # s PROVE SyncOK(t)'
  <2>1. sync'[t] = sync[t] /\ (lock' = t <=> lock = t) /\ t # NoSync
    BY <1>0, <1>1, NobodyAssumption DEF Moves, SyncsOK
  <2>2. lock = t => ref' = ref /\ PagesQuiet
    BY <1>1 DEF Moves
  <2>3. PagesKept /\ item'.version \in Nat /\ item.version <= item'.version
    BY <1>0 DEF Moves, ItemFacts
  <2> QED BY <2>1, <2>2, <2>3, Bystander
<1>2. sync' \in [Syncs -> SyncType]
  <2>1. sync'[s] \in SyncType
    BY DEF SyncOK
  <2> QED BY <1>0, <2>1 DEF Moves, SyncsOK
<1>3. lock' \in Syncs \cup {NoSync}
  BY <1>0 DEF Moves, SyncsOK
<1> QED BY <1>1, <1>2, <1>3 DEF SyncsOK

LEMMA EntryWrites ==
    ASSUME SyncsOK, NEW s \in Syncs
    PROVE  /\ sync[s] \in SyncType
           /\ \A pc \in Pcs : Goes(s, pc) =>
                /\ sync' = [sync EXCEPT ![s] = sync'[s]]
                /\ sync'[s] \in SyncType /\ sync'[s].pc = pc /\ sync'[s].seen = sync[s].seen
                /\ sync'[s].page = sync[s].page
           /\ \A k \in Reasons : Fails(s, k) =>
                /\ sync' = [sync EXCEPT ![s] = sync'[s]]
                /\ sync'[s] \in SyncType /\ sync'[s].pc = "failed"
                /\ sync'[s].seen = sync[s].seen
<1>1. sync[s] \in SyncType /\ sync \in [Syncs -> SyncType]
  BY DEF SyncsOK
<1>2. ASSUME NEW pc \in Pcs, Goes(s, pc)
      PROVE  /\ sync' = [sync EXCEPT ![s] = sync'[s]]
             /\ sync'[s] \in SyncType /\ sync'[s].pc = pc /\ sync'[s].seen = sync[s].seen
             /\ sync'[s].page = sync[s].page
  BY <1>1, <1>2 DEF Goes, SyncType
<1>3. ASSUME NEW k \in Reasons, Fails(s, k)
      PROVE  /\ sync' = [sync EXCEPT ![s] = sync'[s]]
             /\ sync'[s] \in SyncType /\ sync'[s].pc = "failed" /\ sync'[s].seen = sync[s].seen
  <2>1. "failed" \in Pcs
    BY DEF Pcs
  <2>2. sync'[s] = [sync[s] EXCEPT !.pc = "failed", !.kind = k]
    BY <1>1, <1>3 DEF Fails
  <2>3. sync' = [sync EXCEPT ![s] = sync'[s]]
    BY <1>1, <1>3 DEF Fails
  <2> QED BY <1>1, <2>1, <2>2, <2>3 DEF SyncType
<1> QED BY <1>1, <1>2, <1>3

LEMMA HoldsWrites ==
    ASSUME SyncsOK, ItemFacts, NEW s \in Syncs, Holds(s)
    PROVE  /\ sync' = [sync EXCEPT ![s] = sync'[s]] /\ lock' = s
           /\ sync'[s] \in SyncType /\ sync'[s].pc = "sending" /\ sync'[s].seen = item.version
<1>1. sync[s] \in SyncType /\ sync \in [Syncs -> SyncType] /\ "sending" \in Pcs
  BY DEF SyncsOK, Pcs
<1> DEFINE v == item.version
           d == item.draft
<1>2. v \in Nat /\ d \in BOOLEAN
  BY DEF ItemFacts, ItemType
<1>3. sync' = [sync EXCEPT ![s].pc = "sending", ![s].seen = v, ![s].draft = d] /\ lock' = s
  BY DEF Holds
<1> HIDE DEF v, d
<1>4. sync'[s] = [sync[s] EXCEPT !.pc = "sending", !.seen = v, !.draft = d]
  BY <1>1, <1>3
<1>5. sync'[s] \in SyncType /\ sync'[s].pc = "sending" /\ sync'[s].seen = v
  BY <1>1, <1>2, <1>4 DEF SyncType
<1>6. sync' = [sync EXCEPT ![s] = sync'[s]]
  BY <1>1, <1>3
<1> QED BY <1>3, <1>5, <1>6 DEF v

\* The item, its page and what is owed, in a step that touches none of them.
LEMMA RestSame ==
    ASSUME Inv, UNCHANGED <<item, pages, ref, edits, failure, owed, deletion>>, queued' \in Nat
    PROVE  ItemOK' /\ PagesOK' /\ OwedOK' /\ PagesQuiet
<1>0. ItemOK /\ PagesOK /\ OwedOK
  BY DEF Inv
<1>1. PagesOK' /\ PagesQuiet
  BY <1>0, SamePages DEF PagesOK
<1> QED BY <1>0, <1>1 DEF ItemOK, OwedOK

LEMMA StartStep ==
    ASSUME Inv, NEW s \in Syncs, Start(s)
    PROVE  Inv'
<1>0. SyncsOK /\ SyncOK(s) /\ ItemFacts /\ ItemOK /\ s # NoSync
  BY ItemIs, NobodyAssumption DEF Inv, SyncsOK
<1>1. queued' \in Nat
  BY <1>0 DEF Start, ItemOK
<1>2. ItemOK' /\ PagesOK' /\ OwedOK' /\ PagesQuiet
  BY <1>1, RestSame DEF Start
<1> DEFINE v == item.version
           d == item.draft
<1>3. v \in Nat /\ d \in BOOLEAN /\ 0 <= v
  BY <1>0 DEF ItemFacts, ItemType
<1>4. sync' = [sync EXCEPT ![s] = sync'[s]]
  BY <1>0 DEF Start, SyncsOK
<1>5. \/ sync'[s] = [Idle EXCEPT !.pc = "went"]
      \/ sync'[s] = [Idle EXCEPT !.pc = "started", !.seen = v, !.draft = d]
  BY <1>0 DEF Start, SyncsOK
<1> HIDE DEF v, d
<1>6. sync'[s] \in SyncType /\ sync'[s].pc \in {"went", "started"} /\ sync'[s].seen \in {0, v}
  BY <1>3, <1>5, IdleIsSync DEF Idle, SyncType, Pcs
<1>7. lock # s /\ lock' = lock
  BY <1>0 DEF SyncOK, Holding, Start
<1>8. item'.version = v
  BY DEF Start, v
<1>9. SyncOK(s)'
  BY <1>3, <1>6, <1>7, <1>8 DEF SyncOK, Holding
<1>10. Moves(s)
  BY <1>2, <1>4, <1>7 DEF Moves, PagesQuiet, Start
<1> QED BY <1>2, <1>9, <1>10, MoveKeeps DEF Inv

\* A sync that takes a row another released, or its own first insert, sends the
\* item as it is now; the page says no later edit.
LEMMA LockStep ==
    ASSUME Inv, NEW s \in Syncs, LockRef(s) \/ Claim(s)
    PROVE  Inv'
<1>0. /\ SyncsOK /\ SyncOK(s) /\ ItemFacts /\ ItemOK /\ PagesOK /\ s # NoSync
      /\ sync[s].seen <= item.version /\ lock # s
  BY ItemIs, NobodyAssumption DEF Inv, SyncsOK, SyncOK, Holding, LockRef, Claim
<1>1. ItemOK' /\ PagesOK' /\ OwedOK' /\ PagesQuiet
  BY <1>0, RestSame DEF LockRef, Claim, ItemOK
<1>2. /\ UNCHANGED <<item, pages, ref>>
      /\ item'.version = item.version
  BY DEF LockRef, Claim
<1>3. CASE Holds(s) /\ ref # 0 /\ lock = NoSync
  <2>1. /\ sync' = [sync EXCEPT ![s] = sync'[s]] /\ lock' = s
        /\ sync'[s] \in SyncType /\ sync'[s].pc = "sending" /\ sync'[s].seen = item.version
    BY <1>0, <1>3, HoldsWrites
  <2>2. ref \in Pages
    BY <1>0, <1>3, BoundsAssumption DEF PagesOK, Pages
  <2>3. pages'[ref'].says <= item.version /\ ref' # 0
    BY <1>0, <1>2, <1>3, <2>2 DEF PagesOK
  <2>4. SyncOK(s)'
    BY <1>0, <1>2, <2>1, <2>3 DEF SyncOK, Holding, ItemFacts
  <2>5. Moves(s)
    BY <1>1, <1>2, <1>3, <2>1 DEF Moves, PagesQuiet
  <2> QED BY <1>1, <2>4, <2>5, MoveKeeps DEF Inv
<1>4. ASSUME NEW pc \in {"went", "claiming"}, Goes(s, pc), UNCHANGED lock PROVE Inv'
  <2>1. /\ sync' = [sync EXCEPT ![s] = sync'[s]]
        /\ sync'[s] \in SyncType /\ sync'[s].pc = pc /\ sync'[s].seen = sync[s].seen
    BY <1>0, <1>4, EntryWrites DEF Pcs
  <2>2. SyncOK(s)'
    BY <1>0, <1>2, <1>4, <2>1 DEF SyncOK, Holding
  <2>3. Moves(s)
    BY <1>1, <1>2, <1>4, <2>1 DEF Moves, PagesQuiet
  <2> QED BY <1>1, <2>2, <2>3, MoveKeeps DEF Inv
<1>5. CASE Fails(s, "rejected") /\ UNCHANGED lock
  <2>1. /\ sync' = [sync EXCEPT ![s] = sync'[s]]
        /\ sync'[s] \in SyncType /\ sync'[s].pc = "failed" /\ sync'[s].seen = sync[s].seen
    BY <1>0, <1>5, EntryWrites DEF Reasons
  <2>2. SyncOK(s)'
    BY <1>0, <1>2, <1>5, <2>1 DEF SyncOK, Holding
  <2>3. Moves(s)
    BY <1>1, <1>2, <1>5, <2>1 DEF Moves, PagesQuiet
  <2> QED BY <1>1, <2>2, <2>3, MoveKeeps DEF Inv
<1>6. CASE Goes(s, "creating") /\ ref = 0 /\ lock' = s /\ lock = NoSync
  <2>1. /\ sync' = [sync EXCEPT ![s] = sync'[s]]
        /\ sync'[s] \in SyncType /\ sync'[s].pc = "creating" /\ sync'[s].seen = sync[s].seen
    BY <1>0, <1>6, EntryWrites DEF Pcs
  <2>2. SyncOK(s)'
    BY <1>0, <1>2, <1>6, <2>1 DEF SyncOK, Holding
  <2>3. Moves(s)
    BY <1>1, <1>2, <1>6, <2>1 DEF Moves, PagesQuiet
  <2> QED BY <1>1, <2>2, <2>3, MoveKeeps DEF Inv
<1>7. CASE LockRef(s)
  BY <1>3, <1>4, <1>7 DEF LockRef
<1>8. CASE Claim(s)
  BY <1>3, <1>5, <1>6, <1>8 DEF Claim
<1> QED BY <1>7, <1>8

\* A page written by the sync that holds the row.
LEMMA WritesKeep ==
    ASSUME PagesOK, NEW s, SyncOK(s), ItemFacts, NEW p \in Pages,
           pages' \in {pages, Says(p, sync[s].seen)}
    PROVE  PagesKept
<1>1. CASE pages' = pages
  BY <1>1, SamePages DEF PagesQuiet
<1>2. CASE pages' = Says(p, sync[s].seen)
  <2> DEFINE r == [state |-> "live", says |-> sync[s].seen]
  <2>1. r \in PageType /\ r.state # "none" /\ r.says <= item.version
    BY DEF PageType, SyncOK, SyncType
  <2>2. pages' = [pages EXCEPT ![p] = r]
    BY <1>2 DEF Says
  <2> HIDE DEF r
  <2>3. pages' \in [Pages -> PageType] /\ pages'[p] = r
    BY <2>1, <2>2 DEF PagesOK
  <2>4. \A q \in Pages : q # p => pages'[q] = pages[q]
    BY <2>2 DEF PagesOK
  <2>5. \A q \in Pages : pages'[q].says <= item.version
    BY <2>1, <2>3, <2>4 DEF PagesOK
  <2>6. \A q \in Pages : pages[q].state # "none" => pages'[q].state # "none"
    BY <2>1, <2>3, <2>4
  <2> QED BY <2>3, <2>5, <2>6 DEF PagesKept
<1> QED BY <1>1, <1>2

\* What the holder of the row does with a page: a call that arrives, or not.
CallStep(s, p) ==
    \/ /\ pages' = Says(p, sync[s].seen)
       /\ sync' = [sync EXCEPT ![s].pc = "committing", ![s].page = p]
       /\ UNCHANGED lock
    \/ /\ pages' \in {pages, Says(p, sync[s].seen)}
       /\ Fails(s, "unreachable") \/ Fails(s, "rejected")
       /\ lock' = NoSync

SameRest == UNCHANGED <<item, ref, failure, owed, queued, deletion, edits>>

LEMMA CallKeeps ==
    ASSUME Inv, NEW s \in Syncs, Holding(s), NEW p \in Pages, CallStep(s, p), SameRest
    PROVE  Inv'
<1>0. /\ SyncsOK /\ SyncOK(s) /\ ItemFacts /\ ItemOK /\ PagesOK /\ OwedOK /\ s # NoSync
      /\ sync[s].seen <= item.version /\ lock = s
  BY ItemIs, NobodyAssumption DEF Inv, SyncsOK, SyncOK
<1>1. PagesKept /\ item'.version \in Nat /\ item.version <= item'.version
  <2>1. pages' \in {pages, Says(p, sync[s].seen)}
    BY DEF CallStep
  <2> QED BY <1>0, <2>1, WritesKeep DEF SameRest, ItemFacts
<1>2. ItemOK' /\ PagesOK' /\ OwedOK'
  BY <1>0, <1>1, PagesStep DEF SameRest, ItemOK, OwedOK
<1>3. CASE /\ pages' = Says(p, sync[s].seen)
           /\ sync' = [sync EXCEPT ![s].pc = "committing", ![s].page = p]
           /\ UNCHANGED lock
  <2>1. sync[s] \in SyncType /\ sync \in [Syncs -> SyncType] /\ p \in 0 .. MaxPages
    BY <1>0, BoundsAssumption DEF SyncsOK, Pages
  <2>2. sync'[s] = [sync[s] EXCEPT !.pc = "committing", !.page = p]
    BY <1>3, <2>1
  <2>3. /\ sync'[s] \in SyncType /\ sync'[s].pc = "committing" /\ sync'[s].page = p
        /\ sync'[s].seen = sync[s].seen
    BY <2>1, <2>2 DEF SyncType, Pcs
  <2>4. sync' = [sync EXCEPT ![s] = sync'[s]]
    BY <1>3, <2>1
  <2>5. pages'[p].state # "none"
    BY <1>0, <1>3 DEF Says, PagesOK
  <2>6. SyncOK(s)'
    BY <1>0, <1>3, <2>3, <2>5 DEF SyncOK, Holding, SameRest
  <2>7. Moves(s)
    BY <1>0, <1>1, <1>3, <2>4 DEF Moves, SameRest
  <2> QED BY <1>2, <2>6, <2>7, MoveKeeps DEF Inv
<1>4. CASE /\ Fails(s, "unreachable") \/ Fails(s, "rejected")
           /\ lock' = NoSync
  <2>1. /\ sync' = [sync EXCEPT ![s] = sync'[s]]
        /\ sync'[s] \in SyncType /\ sync'[s].pc = "failed" /\ sync'[s].seen = sync[s].seen
    BY <1>0, <1>4, EntryWrites DEF Reasons
  <2>2. SyncOK(s)'
    BY <1>0, <1>4, <2>1 DEF SyncOK, Holding, SameRest
  <2>3. Moves(s)
    BY <1>0, <1>1, <1>4, <2>1 DEF Moves, SameRest
  <2> QED BY <1>2, <2>2, <2>3, MoveKeeps DEF Inv
<1> QED BY <1>3, <1>4 DEF CallStep

LEMMA CallsAreSteps ==
    ASSUME Inv, NEW s \in Syncs, Holding(s), NEW p, Calls(s, p, Says(p, sync[s].seen))
    PROVE  CallStep(s, p)
<1>1. lock = s
  BY DEF Inv, SyncsOK, SyncOK
<1> QED BY <1>1 DEF Calls, CallStep, RollsBack

\* A create writes an unused page, or one a lost create made.
LEMMA CreateStep ==
    ASSUME Inv, NEW s \in Syncs, Create(s)
    PROVE  Inv' /\ ref = 0
<1>0. Holding(s) /\ SameRest /\ ref = 0
  BY DEF Create, Holding, SameRest, Inv, SyncsOK, SyncOK
<1>1. PICK p \in Pages : Calls(s, p, Says(p, sync[s].seen))
  BY NewPageIsUnused DEF Create, LostCreates, Posts, Patches
<1> QED BY <1>0, <1>1, CallsAreSteps, CallKeeps

\* A followed page is the one the row holds, or an unused one in its place.
LEMMA FollowStep ==
    ASSUME Inv, NEW s \in Syncs, Follow(s)
    PROVE  /\ Inv'
           /\ ref \in Pages /\ (pages'[ref].says >= pages[ref].says \/ pages'[ref].says = Deleted)
<1>0. /\ Holding(s) /\ SameRest /\ ref # 0 /\ pages[ref].says <= sync[s].seen
      /\ SyncsOK /\ SyncOK(s) /\ ItemFacts /\ PagesOK /\ lock = s /\ s # NoSync
  BY ItemIs, NobodyAssumption DEF Follow, Holding, SameRest, Inv, SyncsOK, SyncOK
<1>1. ref \in Pages /\ ref \in 0 .. MaxPages /\ pages[ref].says \in Nat /\ sync[s].seen \in Nat
  BY <1>0, BoundsAssumption DEF PagesOK, Pages, PageType, SyncOK, SyncType
<1>2. ASSUME NEW p \in Pages, Calls(s, p, Says(p, sync[s].seen)),
             p = ref \/ (pages[p].state = "none" /\ pages[ref].state # "none")
      PROVE  Inv' /\ pages'[ref].says >= pages[ref].says
  <2>1. CallStep(s, p)
    BY <1>0, <1>2, CallsAreSteps
  <2>2. Inv'
    BY <1>0, <2>1, CallKeeps
  <2>3. pages'[ref] \in {pages[ref], [state |-> "live", says |-> sync[s].seen]}
    BY <1>0, <1>1, <1>2, <2>1 DEF CallStep, Says, PagesOK
  <2>4. pages'[ref].says \in {pages[ref].says, sync[s].seen}
    BY <2>3
  <2> QED BY <1>0, <1>1, <2>2, <2>4
<1>3. ASSUME NEW n \in {0, ref}, UNCHANGED <<lock, pages>>,
             sync' = [sync EXCEPT ![s].pc = "committing", ![s].page = n]
      PROVE  Inv' /\ pages'[ref].says >= pages[ref].says
  <2>1. sync[s] \in SyncType /\ sync \in [Syncs -> SyncType] /\ n \in 0 .. MaxPages
    BY <1>0, <1>1, <1>3, BoundsAssumption DEF SyncsOK
  <2>2. sync'[s] = [sync[s] EXCEPT !.pc = "committing", !.page = n]
    BY <1>3, <2>1
  <2>3. /\ sync'[s] \in SyncType /\ sync'[s].pc = "committing" /\ sync'[s].page = n
        /\ sync'[s].seen = sync[s].seen
    BY <2>1, <2>2 DEF SyncType, Pcs
  <2>4. sync' = [sync EXCEPT ![s] = sync'[s]]
    BY <1>3, <2>1
  <2>5. n # 0 => pages'[n].state # "none"
    BY <1>0, <1>3 DEF PagesOK
  <2>6. SyncOK(s)'
    BY <1>0, <1>3, <2>3, <2>5 DEF SyncOK, Holding, SameRest
  <2>7. ItemOK' /\ PagesOK' /\ OwedOK' /\ PagesQuiet
    BY <1>0, <1>3, RestSame DEF SameRest, Inv, ItemOK
  <2>8. Moves(s)
    BY <1>0, <1>3, <2>4, <2>7 DEF Moves, SameRest, PagesQuiet
  <2>9. Inv'
    BY <2>6, <2>7, <2>8, MoveKeeps DEF Inv
  <2> QED BY <1>1, <1>3, <2>9
<1>4. CASE pages[ref].state = "live" /\ Patches(s, ref)
  BY <1>1, <1>2, <1>4 DEF Patches
<1>5. CASE pages[ref].state = "deleted" /\ Posts(s)
  BY <1>1, <1>2, <1>5, NewPageIsUnused DEF Posts
<1>6. CASE sync' = [sync EXCEPT ![s].pc = "committing", ![s].page = ref] /\ UNCHANGED <<lock, pages>>
  BY <1>1, <1>3, <1>6
<1>7. CASE sync' = [sync EXCEPT ![s].pc = "committing", ![s].page = 0] /\ UNCHANGED <<lock, pages>>
  BY <1>1, <1>3, <1>7
<1> QED BY <1>1, <1>4, <1>5, <1>6, <1>7 DEF Follow

LEMMA CommitStep ==
    ASSUME Inv, NEW s \in Syncs, Commit(s)
    PROVE  Inv'
<1>0. /\ SyncsOK /\ SyncOK(s) /\ ItemFacts /\ ItemOK /\ PagesOK /\ OwedOK /\ s # NoSync
      /\ lock = s /\ sync[s] \in SyncType /\ sync[s].seen <= item.version
      /\ sync[s].page # 0 => pages[sync[s].page].state # "none"
  BY ItemIs, NobodyAssumption DEF Inv, SyncsOK, SyncOK, Holding, Commit
<1>1. /\ sync' = [sync EXCEPT ![s] = sync'[s]]
      /\ sync'[s] \in SyncType /\ sync'[s].pc = "went" /\ sync'[s].seen = sync[s].seen
  BY <1>0, EntryWrites DEF Commit, Pcs
<1>2. ref' = sync[s].page /\ lock' = NoSync
  BY <1>0 DEF Commit
<1>3. ItemOK' /\ OwedOK'
  BY <1>0 DEF Commit, ItemOK, OwedOK
<1>4. PagesOK' /\ PagesQuiet
  <2>1. sync[s].page \in 0 .. MaxPages
    BY <1>0 DEF SyncType
  <2>2. UNCHANGED <<pages, item>>
    BY DEF Commit
  <2>3. PagesQuiet
    BY <1>0, <2>2, SamePages
  <2> QED BY <1>0, <1>2, <2>1, <2>2, <2>3 DEF PagesOK
<1>5. SyncOK(s)'
  BY <1>0, <1>1, <1>2 DEF SyncOK, Holding, Commit
<1>6. Moves(s)
  BY <1>0, <1>1, <1>2, <1>4 DEF Moves, Commit, PagesQuiet
<1> QED BY <1>3, <1>4, <1>5, <1>6, MoveKeeps DEF Inv

LEMMA EndsStep ==
    ASSUME Inv, NEW s \in Syncs, Ends(s)
    PROVE  Inv'
<1>0. /\ SyncsOK /\ SyncOK(s) /\ ItemFacts /\ ItemOK /\ PagesOK /\ OwedOK /\ s # NoSync
      /\ lock # s /\ sync[s] \in SyncType
  BY ItemIs, NobodyAssumption DEF Inv, SyncsOK, SyncOK, Holding, Ends
<1>1. failure' \in Reasons
  BY <1>0 DEF Ends, ItemOK, SyncType, Reasons
<1>2. ItemOK'
  BY <1>0, <1>1 DEF Ends, ItemOK
<1>3. PagesOK' /\ OwedOK' /\ PagesQuiet
  BY <1>0, SamePages DEF Ends, PagesOK, OwedOK
<1>4. sync' = [sync EXCEPT ![s] = sync'[s]] /\ sync'[s] = Idle
  BY <1>0 DEF Ends, SyncsOK
<1>5. SyncOK(s)'
  BY <1>0, <1>4, IdleIsSync DEF SyncOK, Holding, Ends, ItemFacts
<1>6. Moves(s)
  BY <1>0, <1>3, <1>4 DEF Moves, Ends, PagesQuiet
<1> QED BY <1>2, <1>3, <1>5, <1>6, MoveKeeps DEF Inv

LEMMA StutterStep == Inv /\ UNCHANGED vars => Inv'
<1> SUFFICES ASSUME Inv, UNCHANGED vars PROVE Inv' OBVIOUS
<1>1. ItemOK' /\ OwedOK'
  BY DEF vars, Inv, ItemOK, OwedOK
<1>2. PagesOK'
  BY DEF vars, Inv, PagesOK
<1>3. SyncsOK'
  BY DEF vars, Inv, SyncsOK, SyncOK, Holding
<1> QED BY <1>1, <1>2, <1>3 DEF Inv

LEMMA InvStep == Inv /\ [Next]_vars => Inv'
<1> SUFFICES ASSUME Inv, [Next]_vars PROVE Inv' OBVIOUS
<1>1. ASSUME NEW s \in Syncs, SyncGoesOn(s) PROVE Inv'
  BY <1>1, StartStep, LockStep, CreateStep, FollowStep, CommitStep, EndsStep DEF SyncGoesOn
<1> QED BY <1>1, BoardStep, DeletionStep, CleanupStep, RestartStep, StutterStep DEF Next

LEMMA Invariance == Spec => []Inv
BY InvInit, InvStep, PTL DEF Spec

-----------------------------------------------------------------------------
(* The theorems                                                                *)

LEMMA InvTypes == Inv => TypeOK
<1> SUFFICES ASSUME Inv PROVE TypeOK OBVIOUS
<1>0. ItemOK /\ PagesOK /\ OwedOK /\ SyncsOK /\ ItemFacts
  BY ItemIs DEF Inv
<1>1. item.version \in 1 .. MaxEdits + 1 /\ item.version <= MaxEdits + 1
  BY <1>0, BoundsAssumption DEF ItemOK, ItemFacts
<1>2. item \in [gone : BOOLEAN, version : 1 .. MaxEdits + 1, draft : BOOLEAN, paged : BOOLEAN]
  BY <1>0, <1>1 DEF ItemFacts, ItemType
<1>3. pages \in [Pages -> [state : {"none", "live", "archived", "deleted"},
                           says : 0 .. MaxEdits + 1]]
  <2> SUFFICES ASSUME NEW p \in Pages
               PROVE  pages[p] \in [state : {"none", "live", "archived", "deleted"},
                                    says : 0 .. MaxEdits + 1]
    BY <1>0 DEF PagesOK
  <2>1. pages[p] \in PageType /\ pages[p].says <= item.version
    BY <1>0 DEF PagesOK
  <2>2. pages[p].says \in 0 .. MaxEdits + 1
    BY <1>0, <1>1, <2>1, BoundsAssumption DEF PageType, ItemFacts
  <2> QED BY <2>1, <2>2 DEF PageType
<1>4. ref # 0 => ref \in Pages /\ pages[ref].state # "none"
  BY <1>0, BoundsAssumption DEF PagesOK, Pages
<1>5. /\ failure \in {"none", "unreachable", "rejected"} /\ queued \in Nat
      /\ owed \in [Pages -> OwedType]
      /\ \A p \in Pages : owed[p].row = "owed" => owed[p].tries < CleanupMax
  BY <1>0 DEF ItemOK, OwedOK, OwedType, Reasons
<1>6. \A s \in Syncs :
        sync[s] \in [pc : {"idle", "started", "claiming", "creating", "sending",
                          "committing", "went", "failed"},
                    seen : 0 .. MaxEdits + 1, draft : BOOLEAN, page : 0 .. MaxPages,
                    kind : {"none", "unreachable", "rejected"}]
  <2> TAKE s \in Syncs
  <2>1. sync[s] \in SyncType /\ sync[s].seen <= item.version
    BY <1>0 DEF SyncsOK, SyncOK
  <2>2. sync[s].seen \in 0 .. MaxEdits + 1
    BY <1>0, <1>1, <2>1, BoundsAssumption DEF SyncType, ItemFacts
  <2> QED BY <2>1, <2>2 DEF SyncType, Pcs, Reasons
<1>7. deletion \in [pc : {"idle", "looking", "trashing", "deleting", "done"},
                   page : 0 .. MaxPages]
  BY <1>0 DEF OwedOK, DeletionType
<1>8. \A s \in Syncs : lock = s <=> sync[s].pc \in {"creating", "sending", "committing"}
  BY <1>0 DEF SyncsOK, SyncOK, Holding
<1> QED BY <1>2, <1>3, <1>4, <1>5, <1>6, <1>7, <1>8, BoundsAssumption DEF TypeOK, OwedType

\* Rows, pages and threads have their types, the page an item is known by was
\* made, and the ref row is held by exactly the sync between its claim and its
\* commit.
THEOREM TypeCorrect == Spec => []TypeOK
BY Invariance, InvTypes, PTL

\* A page's step: nobody writes an earlier edit over the item's page.
LEMMA PageStays ==
    ASSUME Inv, [Next]_vars, NEW p \in Pages, ref = p, pages'[p].says # Deleted
    PROVE  pages'[p].says >= pages[p].says
<1>0. ItemOK /\ PagesOK /\ OwedOK /\ SyncsOK /\ pages[p].says \in Nat /\ ref # 0
  BY DEF Inv, PagesOK, PageType, Pages
<1>1. CASE UNCHANGED pages
  BY <1>0, <1>1
<1>2. ASSUME NEW s \in Syncs, SyncGoesOn(s) PROVE pages'[p].says >= pages[p].says
  <2>1. CASE Create(s)
    BY <1>0, <2>1, CreateStep
  <2>2. CASE Follow(s)
    BY <2>2, FollowStep
  <2>3. CASE Start(s) \/ LockRef(s) \/ Claim(s) \/ Commit(s) \/ Ends(s)
    BY <1>1, <2>3 DEF Start, LockRef, Claim, Commit, Ends
  <2> QED BY <1>2, <2>1, <2>2, <2>3 DEF SyncGoesOn
<1>3. ASSUME NEW q \in Pages, pages' \in {pages, Trashed(q), Retitled(q)}
      PROVE  pages'[p].says >= pages[p].says
  <2>1. pages'[p] = pages[p] \/ pages'[p].says = Deleted
    BY <1>0, <1>3 DEF Trashed, Retitled, Says, PagesOK
  <2> QED BY <1>0, <2>1
<1>4. CASE TrashPage
  <2>1. deletion.page \in Pages
    BY <1>0, <1>4, BoundsAssumption DEF TrashPage, OwedOK, DeletionType, Pages
  <2> QED BY <1>3, <1>4, <2>1 DEF TrashPage, TrashFails
<1>5. ASSUME NEW q \in Pages, Drain(q) PROVE pages'[p].says >= pages[p].says
  BY <1>3, <1>5 DEF Drain, TrashFails
<1>6. ASSUME NEW q \in Pages, PersonRemoves(q) PROVE pages'[p].says >= pages[p].says
  <2>1. pages'[p].says = pages[p].says
    BY <1>0, <1>6 DEF PersonRemoves, PagesOK, PageType
  <2> QED BY <1>0, <2>1
<1>7. CASE Edit \/ SendAgain \/ DeleteItem \/ LookForPage \/ DeleteRows \/ ApiRestarts
  BY <1>1, <1>7 DEF Edit, SendAgain, DeleteItem, LookForPage, DeleteRows, ApiRestarts
<1> QED BY <1>1, <1>2, <1>4, <1>5, <1>6, <1>7 DEF Next, DeletionGoesOn, vars

\* The page the item is known by never goes back to an earlier edit.
THEOREM NeverGoesBack == Spec => PageNeverGoesBack
<1>1. Inv /\ [Next]_vars =>
        [\A p \in Pages : /\ ref = p /\ pages[p].says # Deleted
                          /\ pages'[p].says # Deleted
                          => pages'[p].says >= pages[p].says]_vars
  BY PageStays
<1> QED BY <1>1, Invariance, PTL DEF Spec, PageNeverGoesBack

-----------------------------------------------------------------------------
(* The item's page is made once                                                *)

Live == {p \in Pages : pages[p].state = "live"}
Committing == lock \in Syncs /\ sync[lock].pc = "committing"

\* The page that is, or is about to be, the item's.
Mine == IF Committing THEN sync[lock].page ELSE ref

\* Every other live page is one mishap's.
OnceInv ==
    /\ mishaps \in Nat
    /\ ~item.gone => Cardinality(Live \ {Mine}) <= mishaps
    /\ item.gone => Cardinality(Live) <= 1 + mishaps /\ ref = 0 /\ lock = NoSync
    /\ Committing /\ sync[lock].page # ref => ref \notin Live

LEMMA Count ==
    ASSUME NEW A, NEW B, NEW x, IsFiniteSet(A)
    PROVE  /\ Cardinality(A) \in Nat
           /\ B \subseteq A => Cardinality(B) \in Nat /\ Cardinality(B) <= Cardinality(A)
           /\ B \subseteq A \cup {x} =>
                Cardinality(B) \in Nat /\ Cardinality(B) <= Cardinality(A) + 1
<1>1. Cardinality(A) \in Nat
  BY FS_CardinalityType
<1>2. B \subseteq A => Cardinality(B) \in Nat /\ Cardinality(B) <= Cardinality(A)
  BY FS_Subset, FS_CardinalityType
<1>3. IsFiniteSet(A \cup {x}) /\ Cardinality(A \cup {x}) \in Nat
      /\ Cardinality(A \cup {x}) <= Cardinality(A) + 1
  BY <1>1, FS_AddElement, FS_CardinalityType
<1>4. ASSUME B \subseteq A \cup {x}
      PROVE  Cardinality(B) \in Nat /\ Cardinality(B) <= Cardinality(A) + 1
  <2>1. Cardinality(B) \in Nat /\ Cardinality(B) <= Cardinality(A \cup {x})
    BY <1>3, <1>4, FS_Subset, FS_CardinalityType
  <2> QED BY <1>1, <1>3, <2>1
<1> QED BY <1>1, <1>2, <1>4

LEMMA LiveIsFinite == IsFiniteSet(Live) /\ IsFiniteSet(Live \ {Mine})
<1>1. IsFiniteSet(Pages)
  BY FS_Interval, BoundsAssumption DEF Pages
<1>2. Live \subseteq Pages /\ Live \ {Mine} \subseteq Pages
  BY DEF Live
<1> QED BY <1>1, <1>2, FS_Subset

LEMMA OnceInit == Init => OnceInv
<1> SUFFICES ASSUME Init PROVE OnceInv OBVIOUS
<1>1. Live = {} /\ ~item.gone /\ lock = NoSync /\ mishaps = 0
  BY DEF Init, Live
<1>2. Live \ {Mine} = {}
  BY <1>1
<1>3. Cardinality(Live \ {Mine}) = 0
  BY <1>2, FS_EmptySet
<1> QED BY <1>1, <1>3, NobodyAssumption DEF OnceInv, Committing

\* A step that makes no page and leaves the item's where it was.
LEMMA OnceQuiet ==
    ASSUME OnceInv, Live' \subseteq Live, Mine' = Mine, mishaps' \in {mishaps, mishaps + 1},
           item'.gone = item.gone, item.gone => ref' = ref /\ lock' = lock,
           Committing' /\ sync'[lock'].page # ref' =>
              Committing /\ sync[lock].page # ref /\ ref' = ref
    PROVE  OnceInv'
<1>1. mishaps \in Nat /\ mishaps' \in Nat /\ mishaps <= mishaps'
  BY DEF OnceInv
<1>2. ASSUME ~item.gone PROVE Cardinality(Live' \ {Mine'}) <= mishaps'
  <2>1. Live' \ {Mine'} \subseteq Live \ {Mine}
    OBVIOUS
  <2>2. /\ Cardinality(Live' \ {Mine'}) \in Nat /\ Cardinality(Live \ {Mine}) \in Nat
        /\ Cardinality(Live' \ {Mine'}) <= Cardinality(Live \ {Mine})
    BY <2>1, LiveIsFinite, Count
  <2> QED BY <1>1, <1>2, <2>2 DEF OnceInv
<1>3. ASSUME item.gone PROVE Cardinality(Live') <= 1 + mishaps'
  <2>1. /\ Cardinality(Live') \in Nat /\ Cardinality(Live) \in Nat
        /\ Cardinality(Live') <= Cardinality(Live)
    BY LiveIsFinite, Count
  <2> QED BY <1>1, <1>3, <2>1 DEF OnceInv
<1>4. item.gone => ref' = 0 /\ lock' = NoSync
  BY DEF OnceInv
<1>5. Committing' /\ sync'[lock'].page # ref' => ref' \notin Live'
  BY DEF OnceInv
<1> QED BY <1>1, <1>2, <1>3, <1>4, <1>5 DEF OnceInv

\* A mishap may leave one live page more that is not the item's.
LEMMA OnceMore ==
    ASSUME OnceInv, NEW p, Live' \subseteq Live \cup {p}, Live' \ {Mine'} \subseteq (Live \ {Mine}) \cup {p},
           mishaps' = mishaps + 1,
           item'.gone = item.gone, item.gone => ref' = ref /\ lock' = NoSync, ~ Committing'
    PROVE  OnceInv'
<1>1. mishaps \in Nat /\ mishaps' \in Nat /\ mishaps' = mishaps + 1
  BY DEF OnceInv
<1>2. ASSUME ~item.gone PROVE Cardinality(Live' \ {Mine'}) <= mishaps'
  <2>1. /\ Cardinality(Live' \ {Mine'}) \in Nat /\ Cardinality(Live \ {Mine}) \in Nat
        /\ Cardinality(Live' \ {Mine'}) <= Cardinality(Live \ {Mine}) + 1
    BY LiveIsFinite, Count
  <2> QED BY <1>1, <1>2, <2>1 DEF OnceInv
<1>3. ASSUME item.gone PROVE Cardinality(Live') <= 1 + mishaps'
  <2>1. /\ Cardinality(Live') \in Nat /\ Cardinality(Live) \in Nat
        /\ Cardinality(Live') <= Cardinality(Live) + 1
    BY LiveIsFinite, Count
  <2> QED BY <1>1, <1>3, <2>1 DEF OnceInv
<1>4. item.gone => ref' = 0 /\ lock' = NoSync
  BY DEF OnceInv
<1> QED BY <1>1, <1>2, <1>3, <1>4 DEF OnceInv

\* A call that arrives: the page it wrote is the one to commit, in place of a
\* row that held none, or of a page that is no longer live.
LEMMA OnceSent ==
    ASSUME OnceInv, NEW p, Live' \subseteq Live \cup {p}, ~ Committing,
           Mine' = p, p = ref \/ (ref \notin Live /\ ref' \notin Live'), ref' = ref,
           ~ item.gone, item' = item, UNCHANGED mishaps, Committing' => sync'[lock'].page = p
    PROVE  OnceInv'
<1>1. Live' \ {Mine'} \subseteq Live \ {Mine}
  BY DEF Mine
<1>2. /\ Cardinality(Live' \ {Mine'}) \in Nat /\ Cardinality(Live \ {Mine}) \in Nat
      /\ Cardinality(Live' \ {Mine'}) <= Cardinality(Live \ {Mine})
  BY <1>1, LiveIsFinite, Count
<1>3. mishaps' = mishaps /\ mishaps \in Nat /\ Cardinality(Live \ {Mine}) <= mishaps
  BY DEF OnceInv
<1>4. Cardinality(Live' \ {Mine'}) <= mishaps'
  BY <1>2, <1>3
<1> QED BY <1>3, <1>4 DEF OnceInv

LEMMA OnceCall ==
    ASSUME Inv, OnceInv, NEW s \in Syncs, sync[s].pc \in {"creating", "sending"}, NEW p \in Pages,
           Calls(s, p, Says(p, sync[s].seen)), UNCHANGED <<item, ref>>,
           p = ref \/ (ref \notin Live /\ p # ref)
    PROVE  OnceInv'
<1>1. lock = s /\ SyncOK(s) /\ s # NoSync /\ SyncsOK /\ PagesOK
  BY NobodyAssumption DEF Inv, SyncsOK, SyncOK, Holding
<1>2. ~item.gone /\ ~ Committing /\ Mine = ref
  BY <1>1 DEF OnceInv, Committing, Mine
<1>3. pages' \in {pages, Says(p, sync[s].seen)}
  BY DEF Calls
<1>4. Live' \subseteq Live \cup {p} /\ (ref \notin Live /\ p # ref => ref \notin Live')
  BY <1>1, <1>3 DEF Live, Says, PagesOK
<1>5. CASE sync' = [sync EXCEPT ![s].pc = "committing", ![s].page = p] /\ UNCHANGED <<lock, mishaps>>
  <2>1. sync'[s].pc = "committing" /\ sync'[s].page = p
    BY <1>1, <1>5 DEF SyncsOK, SyncType
  <2>2. Mine' = p /\ (Committing' => sync'[lock'].page = p)
    BY <1>1, <1>5, <2>1 DEF Mine, Committing
  <2> QED BY <1>2, <1>4, <1>5, <2>2, OnceSent
<1>6. CASE RollsBack(s) /\ Spends(mishaps, MaxMishaps)
  <2>1. lock' = NoSync /\ ~ Committing' /\ Mine' = ref
    BY <1>1, <1>6, NobodyAssumption DEF RollsBack, Committing, Mine
  <2>2. mishaps' = mishaps + 1
    BY <1>6 DEF Spends
  <2>3. Live' \ {Mine'} \subseteq (Live \ {Mine}) \cup {p}
    BY <1>2, <1>4, <2>1
  <2> QED BY <1>2, <1>4, <2>1, <2>2, <2>3, OnceMore
<1> QED BY <1>5, <1>6 DEF Calls

LEMMA OnceFollow ==
    ASSUME Inv, OnceInv, NEW s \in Syncs, Follow(s)
    PROVE  OnceInv'
<1>1. /\ lock = s /\ SyncOK(s) /\ SyncsOK /\ PagesOK /\ UNCHANGED <<item, ref>>
      /\ ref # 0 /\ s # NoSync /\ sync[s].pc = "sending"
  BY NobodyAssumption DEF Inv, SyncsOK, SyncOK, Holding, Follow
<1>2. ref \in Pages
  BY <1>1, BoundsAssumption DEF PagesOK, Pages
<1>3. CASE pages[ref].state = "live" /\ Patches(s, ref)
  BY <1>1, <1>2, <1>3, OnceCall DEF Patches
<1>4. CASE pages[ref].state = "deleted" /\ Posts(s)
  <2>1. NewPage \in Pages /\ NewPage # ref /\ ref \notin Live
    BY <1>4, NewPageIsUnused DEF Posts, Live
  <2> QED BY <1>1, <1>4, <2>1, OnceCall DEF Posts
<1>5. ASSUME NEW n, sync' = [sync EXCEPT ![s].pc = "committing", ![s].page = n],
             UNCHANGED <<lock, pages, mishaps>>, n = ref \/ (n = 0 /\ ref \notin Live)
      PROVE  OnceInv'
  <2>1. sync'[s].pc = "committing" /\ sync'[s].page = n
    BY <1>1, <1>5 DEF SyncsOK, SyncType
  <2>2. Mine' = n /\ (Committing' => sync'[lock'].page = n)
    BY <1>1, <1>5, <2>1 DEF Mine, Committing
  <2>3. ~item.gone /\ ~ Committing
    BY <1>1 DEF OnceInv, Committing
  <2>4. Live' = Live
    BY <1>5 DEF Live
  <2> QED BY <1>1, <1>5, <2>2, <2>3, <2>4, OnceSent
<1>6. pages[ref].state = "deleted" => ref \notin Live
  BY DEF Live
<1> QED BY <1>1, <1>3, <1>4, <1>5, <1>6 DEF Follow

LEMMA OnceStep == Inv /\ OnceInv /\ [Next]_vars => OnceInv'
<1> SUFFICES ASSUME Inv, OnceInv, [Next]_vars PROVE OnceInv' OBVIOUS
<1>0. ItemFacts /\ SyncsOK /\ PagesOK /\ OwedOK /\ NoSync \notin Syncs /\ 0 \notin Live
  BY ItemIs, NobodyAssumption DEF Inv, Live, Pages
<1>1. CASE UNCHANGED <<pages, sync, lock, ref, mishaps>> /\ item'.gone = item.gone
  <2>1. Live' = Live /\ Mine' = Mine /\ (Committing' <=> Committing)
    BY <1>1 DEF Live, Mine, Committing
  <2> QED BY <1>1, <2>1, OnceQuiet
<1>2. CASE Edit \/ SendAgain \/ DeleteItem \/ UNCHANGED vars
  BY <1>0, <1>1, <1>2 DEF Edit, SendAgain, DeleteItem, vars, ItemFacts, ItemType
<1>3. ASSUME NEW s \in Syncs, Start(s) \/ Ends(s) PROVE OnceInv'
  <2>1. lock # s /\ UNCHANGED <<pages, lock, ref, mishaps, item>>
    BY <1>0, <1>3 DEF Start, Ends, SyncsOK, SyncOK, Holding
  <2>2. lock \in Syncs => sync'[lock] = sync[lock]
    BY <1>0, <1>3, <2>1 DEF Start, Ends, SyncsOK
  <2>3. Live' = Live /\ Mine' = Mine /\ (Committing' <=> Committing)
    BY <2>1, <2>2 DEF Live, Mine, Committing
  <2>4. Committing => sync'[lock'].page = sync[lock].page
    BY <2>1, <2>2 DEF Committing
  <2> QED BY <2>1, <2>3, <2>4, OnceQuiet
<1>4. ASSUME NEW s \in Syncs, LockRef(s) \/ Claim(s) PROVE OnceInv'
  <2>1. UNCHANGED <<pages, ref, mishaps, item>> /\ lock # s
    BY <1>0, <1>4 DEF LockRef, Claim, SyncsOK, SyncOK, Holding
  <2>2. \A t \in Syncs : t # s => sync'[t] = sync[t]
    BY <1>0, <1>4 DEF LockRef, Claim, Holds, Goes, Fails, SyncsOK
  <2>3. sync'[s].pc # "committing"
    <3>1. CASE Holds(s)
      BY <1>0, <3>1, HoldsWrites
    <3>2. ASSUME NEW pc \in {"went", "claiming", "creating"}, Goes(s, pc)
          PROVE  sync'[s].pc # "committing"
      BY <1>0, <3>2, EntryWrites DEF Pcs
    <3>3. CASE Fails(s, "rejected")
      BY <1>0, <3>3, EntryWrites DEF Reasons
    <3> QED BY <1>4, <3>1, <3>2, <3>3 DEF LockRef, Claim
  <2>4. \/ lock' = lock
        \/ lock = NoSync /\ lock' = s /\ ~item.gone
    BY <1>4 DEF LockRef, Claim, Holds, OnceInv
  <2>5. Live' = Live
    BY <2>1 DEF Live
  <2>6. CASE lock' = lock
    <3>1. lock \in Syncs => sync'[lock] = sync[lock]
      BY <2>1, <2>2
    <3>2. Mine' = Mine /\ (Committing' <=> Committing)
      BY <2>1, <2>6, <3>1 DEF Mine, Committing
    <3>3. Committing => sync'[lock'].page = sync[lock].page
      BY <2>6, <3>1 DEF Committing
    <3> QED BY <2>1, <2>5, <2>6, <3>2, <3>3, OnceQuiet
  <2>7. CASE lock = NoSync /\ lock' = s /\ ~item.gone
    <3>1. Mine' = Mine /\ ~ Committing'
      BY <1>0, <2>1, <2>3, <2>7 DEF Mine, Committing
    <3> QED BY <2>1, <2>5, <2>7, <3>1, OnceQuiet
  <2> QED BY <2>4, <2>6, <2>7
<1>5. ASSUME NEW s \in Syncs, Create(s) PROVE OnceInv'
  <2>1. UNCHANGED <<item, ref>> /\ ref = 0 /\ sync[s].pc = "creating"
    BY <1>5, CreateStep DEF Create
  <2>2. PICK p \in Pages : Calls(s, p, Says(p, sync[s].seen))
    BY <1>5, NewPageIsUnused DEF Create, LostCreates, Posts, Patches
  <2>3. p # ref /\ ref \notin Live
    BY <1>0, <2>1 DEF Pages
  <2> QED BY <2>1, <2>2, <2>3, OnceCall
<1>6. ASSUME NEW s \in Syncs, Follow(s) PROVE OnceInv'
  BY <1>6, OnceFollow
<1>7. ASSUME NEW s \in Syncs, Commit(s) PROVE OnceInv'
  <2>1. lock = s /\ lock' = NoSync /\ ref' = sync[s].page /\ UNCHANGED <<pages, item, mishaps>>
        /\ ~item.gone
    BY <1>0, <1>7 DEF Commit, SyncsOK, SyncOK, Holding, OnceInv
  <2>2. Mine' = Mine /\ ~ Committing' /\ Live' = Live
    BY <1>0, <1>7, <2>1 DEF Mine, Committing, Live, Commit
  <2> QED BY <2>1, <2>2, OnceQuiet
<1>8. ASSUME NEW q \in Pages, pages' \in {pages, Trashed(q), Retitled(q)},
             UNCHANGED <<sync, lock, ref, item>>, mishaps' \in {mishaps, mishaps + 1}
      PROVE  OnceInv'
  <2>1. Live' \subseteq Live
    BY <1>0, <1>8 DEF Live, Trashed, Retitled, Says, PagesOK
  <2>2. Mine' = Mine /\ (Committing' <=> Committing)
    BY <1>8 DEF Mine, Committing
  <2> QED BY <1>8, <2>1, <2>2, OnceQuiet
<1>9. CASE TrashPage
  <2>1. deletion.page \in Pages
    BY <1>0, <1>9, BoundsAssumption DEF TrashPage, OwedOK, DeletionType, Pages
  <2> QED BY <1>8, <1>9, <2>1 DEF TrashPage, TrashFails, Spends
<1>10. ASSUME NEW q \in Pages, Drain(q) PROVE OnceInv'
  BY <1>8, <1>10 DEF Drain, TrashFails
<1>11. ASSUME NEW q \in Pages, PersonRemoves(q) PROVE OnceInv'
  <2>1. Live' \subseteq Live
    BY <1>0, <1>11 DEF Live, PersonRemoves, PagesOK
  <2>2. UNCHANGED <<sync, lock, ref, item, mishaps>>
    BY <1>11 DEF PersonRemoves
  <2>3. Mine' = Mine /\ (Committing' <=> Committing)
    BY <2>2 DEF Mine, Committing
  <2> QED BY <2>1, <2>2, <2>3, OnceQuiet
<1>12. CASE DeleteRows
  <2>1. /\ lock = NoSync /\ lock' = lock /\ ref' = 0 /\ UNCHANGED <<pages, sync, mishaps>>
        /\ item'.gone
    BY <1>0, <1>12 DEF DeleteRows, ItemFacts, ItemType
  <2>2. Live' = Live /\ ~ Committing' /\ mishaps \in Nat
    BY <1>0, <2>1 DEF Live, Committing, OnceInv
  <2>3. Cardinality(Live) <= 1 + mishaps
    <3>1. CASE item.gone
      BY <3>1 DEF OnceInv
    <3>2. CASE ~item.gone
      <4>1. Live \subseteq (Live \ {Mine}) \cup {Mine}
        OBVIOUS
      <4>2. /\ Cardinality(Live) \in Nat /\ Cardinality(Live \ {Mine}) \in Nat
            /\ Cardinality(Live) <= Cardinality(Live \ {Mine}) + 1
        BY <4>1, LiveIsFinite, Count
      <4> QED BY <2>2, <3>2, <4>2 DEF OnceInv
    <3> QED BY <3>1, <3>2
  <2> QED BY <2>1, <2>2, <2>3 DEF OnceInv
<1>13. CASE ApiRestarts
  <2>1. /\ lock' = NoSync /\ UNCHANGED <<pages, ref, item>> /\ mishaps' = mishaps + 1
    BY <1>13 DEF ApiRestarts, Spends
  <2>2. Live' = Live /\ ~ Committing' /\ Mine' = ref
    BY <1>0, <2>1 DEF Live, Committing, Mine
  <2>3. Live' \ {Mine'} \subseteq (Live \ {Mine}) \cup {Mine}
    BY <2>2
  <2>4. Live' \subseteq Live \cup {Mine}
    BY <2>2
  <2> QED BY <2>1, <2>2, <2>3, <2>4, OnceMore
<1>14. CASE LookForPage
  <2>1. UNCHANGED <<pages, sync, lock, ref, item>> /\ mishaps' \in {mishaps, mishaps + 1}
    BY <1>14 DEF LookForPage, Spends
  <2>2. Live' = Live /\ Mine' = Mine /\ (Committing' <=> Committing)
    BY <2>1 DEF Live, Mine, Committing
  <2> QED BY <2>1, <2>2, OnceQuiet
<1> QED BY <1>2, <1>3, <1>4, <1>5, <1>6, <1>7, <1>9, <1>10, <1>11, <1>12, <1>13, <1>14
        DEF Next, SyncGoesOn, DeletionGoesOn

\* However many syncs race, a second live page is the work of a lost answer or a
\* restart: one mishap, one page at most.
THEOREM PageMadeOnce == Spec => []SentOnce
<1>1. OnceInv => SentOnce
  <2> SUFFICES ASSUME OnceInv PROVE SentOnce OBVIOUS
  <2>1. /\ Live \subseteq (Live \ {Mine}) \cup {Mine} /\ Cardinality(Live) \in Nat
        /\ Cardinality(Live \ {Mine}) \in Nat
    BY LiveIsFinite, Count
  <2>2. Cardinality(Live) <= Cardinality(Live \ {Mine}) + 1
    BY <2>1, LiveIsFinite, Count
  <2>3. Cardinality(Live) <= 1 + mishaps
    BY <2>1, <2>2 DEF OnceInv
  <2> QED BY <2>3 DEF SentOnce, Live
<1>2. Spec => []OnceInv
  BY Invariance, OnceInit, OnceStep, PTL DEF Spec
<1> QED BY <1>1, <1>2, PTL

-----------------------------------------------------------------------------
(* A deleted item                                                              *)

\* Nothing of a deleted item is left in B's tables, and no sync is past the lock.
GoneInv == item.gone => ref = 0 /\ lock = NoSync /\ failure = "none"

LEMMA GoneSyncs ==
    ASSUME Inv, GoneInv, item.gone
    PROVE  \A s \in Syncs : ~ Create(s) /\ ~ Follow(s) /\ ~ Commit(s)
<1> SUFFICES ASSUME NEW s \in Syncs PROVE ~ Create(s) /\ ~ Follow(s) /\ ~ Commit(s) OBVIOUS
<1>1. ~ Holding(s)
  BY NobodyAssumption DEF GoneInv, Inv, SyncsOK, SyncOK
<1> QED BY <1>1 DEF Holding, Create, Follow, Commit

LEMMA GoneStep == Inv /\ GoneInv /\ [Next]_vars => GoneInv'
<1> SUFFICES ASSUME Inv, GoneInv, [Next]_vars, item'.gone
             PROVE ref' = 0 /\ lock' = NoSync /\ failure' = "none"
  BY DEF GoneInv
<1>0. ItemFacts
  BY ItemIs
<1>1. CASE DeleteRows
  BY <1>1 DEF DeleteRows
<1>2. ASSUME ~ DeleteRows PROVE item.gone
  BY <1>0, <1>2 DEF Next, Edit, SendAgain, DeleteItem, DeletionGoesOn, LookForPage, TrashPage,
     ApiRestarts, SyncGoesOn, Start, LockRef, Claim, Create, Follow, Commit, Ends, Drain,
     PersonRemoves, vars, ItemFacts, ItemType
<1>3. ASSUME item.gone PROVE ref' = 0 /\ lock' = NoSync /\ failure' = "none"
  <2>0. ref = 0 /\ lock = NoSync /\ failure = "none"
    BY <1>3 DEF GoneInv
  <2>1. \A s \in Syncs : ~ Create(s) /\ ~ Follow(s) /\ ~ Commit(s)
    BY <1>3, GoneSyncs
  <2>2. CASE Edit \/ SendAgain \/ DeleteItem \/ DeletionGoesOn \/ ApiRestarts \/ UNCHANGED vars
    BY <2>0, <2>2, <1>3 DEF Edit, SendAgain, DeleteItem, DeletionGoesOn, LookForPage, TrashPage,
       DeleteRows, ApiRestarts, vars
  <2>3. ASSUME NEW s \in Syncs, SyncGoesOn(s) PROVE ref' = 0 /\ lock' = NoSync /\ failure' = "none"
    BY <2>0, <2>1, <2>3, <1>3 DEF SyncGoesOn, Start, LockRef, Claim, Ends
  <2>4. ASSUME NEW p \in Pages, Drain(p) \/ PersonRemoves(p)
        PROVE  ref' = 0 /\ lock' = NoSync /\ failure' = "none"
    BY <2>0, <2>4 DEF Drain, PersonRemoves
  <2> QED BY <2>2, <2>3, <2>4 DEF Next
<1> QED BY <1>1, <1>2, <1>3

\* What is left to write to Notion once the item is gone: the trash, and people.
LEMMA GonePages ==
    ASSUME Inv, GoneInv, [Next]_vars, item.gone, NEW p \in Pages
    PROVE  /\ pages[p].state = "none" => pages'[p] = pages[p]
           /\ pages'[p].says \in {pages[p].says, Deleted}
<1>0. PagesOK /\ OwedOK
  BY DEF Inv
<1>1. ASSUME NEW q \in Pages, pages' \in {pages, Trashed(q), Retitled(q)}
      PROVE  /\ pages[p].state = "none" => pages'[p] = pages[p]
             /\ pages'[p].says \in {pages[p].says, Deleted}
  BY <1>0, <1>1 DEF PagesOK, Trashed, Retitled, Says
<1>2. ASSUME NEW q \in Pages, PersonRemoves(q)
      PROVE  /\ pages[p].state = "none" => pages'[p] = pages[p]
             /\ pages'[p].says = pages[p].says
  BY <1>0, <1>2 DEF PagesOK, PageType, PersonRemoves
<1>3. ASSUME NEW q \in Pages, Drain(q) PROVE pages' \in {pages, Trashed(q), Retitled(q)}
  BY <1>3 DEF Drain, TrashFails
<1>4. CASE TrashPage
  <2>1. deletion.page \in Pages
    BY <1>0, <1>4, BoundsAssumption DEF TrashPage, OwedOK, DeletionType, Pages
  <2> QED BY <1>1, <1>4, <2>1 DEF TrashPage, TrashFails
<1>5. ASSUME NEW s \in Syncs, SyncGoesOn(s) PROVE pages' = pages
  <2>1. ~ Create(s) /\ ~ Follow(s) /\ ~ Commit(s)
    BY GoneSyncs
  <2> QED BY <1>5, <2>1 DEF SyncGoesOn, Start, LockRef, Claim, Ends
<1>6. CASE Edit \/ SendAgain \/ DeleteItem \/ LookForPage \/ DeleteRows \/ ApiRestarts
             \/ UNCHANGED vars
  BY <1>6 DEF Edit, SendAgain, DeleteItem, LookForPage, DeleteRows, ApiRestarts, vars
<1> QED BY <1>1, <1>2, <1>3, <1>4, <1>5, <1>6 DEF Next, DeletionGoesOn

\* GoneIsFinal: a committed deletion is never undone by a sync under way.
THEOREM DeletionIsFinal == Spec => GoneIsFinal
<1>1. Init => GoneInv
  BY DEF Init, GoneInv
<1>2. ASSUME Inv, GoneInv, [Next]_vars, item.gone PROVE item'.gone
  BY <1>2, ItemIs DEF Next, Edit, SendAgain, DeleteItem, DeletionGoesOn, LookForPage, TrashPage,
     DeleteRows, ApiRestarts, SyncGoesOn, Start, LockRef, Claim, Create, Follow, Commit, Ends,
     Drain, PersonRemoves, vars, ItemFacts, ItemType
<1>3. ASSUME Inv, GoneInv, [Next]_vars
      PROVE  item.gone =>
               /\ item'.gone
               /\ ref' = 0 /\ failure' = "none"
               /\ \A p \in Pages :
                     /\ pages[p].state = "none" => pages'[p] = pages[p]
                     /\ pages'[p].says \in {pages[p].says, Deleted}
  <2> SUFFICES ASSUME item.gone
               PROVE  /\ item'.gone
                      /\ ref' = 0 /\ failure' = "none"
                      /\ \A p \in Pages :
                            /\ pages[p].state = "none" => pages'[p] = pages[p]
                            /\ pages'[p].says \in {pages[p].says, Deleted}
    OBVIOUS
  <2>1. item'.gone
    BY <1>2, <1>3
  <2>2. ref' = 0 /\ failure' = "none"
    BY <1>3, <2>1, GoneStep DEF GoneInv
  <2>3. \A p \in Pages : /\ pages[p].state = "none" => pages'[p] = pages[p]
                         /\ pages'[p].says \in {pages[p].says, Deleted}
    BY <1>3, GonePages
  <2> QED BY <2>1, <2>2, <2>3
<1>4. Spec => [](Inv /\ GoneInv)
  BY <1>1, Invariance, GoneStep, PTL DEF Spec
<1> QED BY <1>3, <1>4, PTL DEF Spec, GoneIsFinal

=============================================================================
