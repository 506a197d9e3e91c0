------------------------------ MODULE ItemCopies ------------------------------
(* An action item's copy in the team's Notion, kept by module B: the sync that *)
(* every edit past confirmation queues (tasks.sync_after_confirmation), the    *)
(* ref row that makes the first send happen once and orders the later ones     *)
(* (service.sync_action_item_to_notion), the failure the board shows           *)
(* (sync_state), and the page's end when the item is deleted                   *)
(* (tasks.trash_notion_page, drain_external_cleanup).                          *)
(*                                                                             *)
(* Syncs run in the API's background threads; a restart of the API loses the   *)
(* ones that run and the ones that wait.  A sync holds one transaction over    *)
(* its calls to Notion, so the ref row it inserts is invisible, and blocks     *)
(* another insert and the item's deletion, until it commits.                   *)
EXTENDS Integers, FiniteSets

CONSTANTS
    Syncs,          \* background threads
    MaxPages,       \* bound on the pages made for the item
    MaxEdits,       \* bound on edits of the item and presses of "send again"
    MaxRemovals,    \* bound on pages a person removes in Notion
    MaxMishaps,     \* bound on calls and reads that fail, and API restarts; the
                    \* drain's failures need none, the row counts them
    CleanupMax      \* tasks.CLEANUP_MAX_ATTEMPTS

ASSUME BoundsAssumption ==
    /\ MaxPages \in Nat /\ MaxEdits \in Nat
    /\ MaxRemovals \in Nat /\ MaxMishaps \in Nat
    /\ CleanupMax \in Nat \ {0}

VARIABLES
    item,       \* ext_action_items: its last edit, whether it awaits confirmation,
                \* and (a history) whether that edit found its page's ref row
    ref,        \* ext_external_refs as committed: the item's page, 0 for no row
    lock,       \* the sync that holds the ref row, inserted or locked
    pages,      \* the team's Notion
    failure,    \* ext_sync_failures, for Notion
    owed,       \* ext_external_cleanup: each page's row and how often it was tried,
                \* and (a history) how a row that is no more ended
    queued,     \* background tasks that wait
    sync,       \* what each thread is doing
    deletion,   \* what the deleting request is doing
    edits, removals, mishaps

vars == <<item, ref, lock, pages, failure, owed, queued, sync, deletion,
          edits, removals, mishaps>>

Pages == 1 .. MaxPages
NoSync == "nobody"
ASSUME NobodyAssumption == NoSync \notin Syncs
Deleted == 0        \* what a page retitled to ITEM_DELETED_TEXT says

Idle == [pc |-> "idle", seen |-> 0, draft |-> FALSE, page |-> 0, kind |-> "none"]
NotDeleting == [pc |-> "idle", page |-> 0]
NotOwed == [row |-> "none", tries |-> 0]

Init ==
    /\ item = [gone |-> FALSE, version |-> 1, draft |-> TRUE, paged |-> FALSE]
    /\ ref = 0 /\ lock = NoSync
    /\ pages = [p \in Pages |-> [state |-> "none", says |-> Deleted]]
    /\ failure = "none"
    /\ owed = [p \in Pages |-> NotOwed]
    /\ queued = 0
    /\ sync = [s \in Syncs |-> Idle]
    /\ deletion = NotDeleting
    /\ edits = 0 /\ removals = 0 /\ mishaps = 0

Spends(n, max) == n < max /\ n' = n + 1

Goes(s, pc) == sync' = [sync EXCEPT ![s].pc = pc]
Fails(s, kind) == sync' = [sync EXCEPT ![s].pc = "failed", ![s].kind = kind]

(* Mutant: a call that fails leaves the transaction open.                      *)
RollsBackNot(s) == lock' = lock

(* The transaction of a sync ends without its work.                            *)
RollsBack(s) == lock' = IF lock = s THEN NoSync ELSE lock

Unused == {p \in Pages : pages[p].state = "none"}
NewPage == CHOOSE p \in Unused : \A q \in Unused : p <= q
Says(p, v) == [pages EXCEPT ![p] = [state |-> "live", says |-> v]]

(* service.copies_follow and has_copy_outside, after a write that leaves the   *)
(* item a draft or not.                                                        *)
CopiesFollow(draft) == ~draft \/ ref # 0

-----------------------------------------------------------------------------
(* The board.                                                                  *)

(* Mutant: only a confirmed item's edit is sent.                               *)
EditByStatus ==
    /\ ~item.gone
    /\ Spends(edits, MaxEdits)
    /\ \E draft \in BOOLEAN :
          /\ item' = [item EXCEPT !.version = @ + 1, !.draft = draft,
                                !.paged = (ref # 0)]
          /\ queued' = IF ~draft THEN queued + 1 ELSE queued
    /\ UNCHANGED <<ref, lock, pages, failure, owed, sync, deletion, removals, mishaps>>

(* A confirmation, an edit, a close, a move back to "needs confirmation".      *)
Edit ==
    /\ ~item.gone
    /\ Spends(edits, MaxEdits)
    /\ \E draft \in BOOLEAN :
          /\ item' = [item EXCEPT !.version = @ + 1, !.draft = draft,
                                !.paged = (ref # 0)]
          /\ queued' = IF CopiesFollow(draft) THEN queued + 1 ELSE queued
    /\ UNCHANGED <<ref, lock, pages, failure, owed, sync, deletion, removals, mishaps>>

(* retry_action_item_sync, past its cooldown.                                  *)
SendAgain ==
    /\ ~item.gone
    /\ CopiesFollow(item.draft)
    /\ Spends(edits, MaxEdits)
    /\ queued' = queued + 1
    /\ UNCHANGED <<item, ref, lock, pages, failure, owed, sync, deletion, removals,
                   mishaps>>

-----------------------------------------------------------------------------
(* One sync.                                                                   *)

(* sync_action_item reads the item; one that is gone ends there.               *)
Start(s) ==
    /\ queued > 0 /\ sync[s].pc = "idle"
    /\ queued' = queued - 1
    /\ sync' = [sync EXCEPT ![s] =
                  IF item.gone THEN [Idle EXCEPT !.pc = "went"]
                  ELSE [Idle EXCEPT !.pc = "started", !.seen = item.version,
                                    !.draft = item.draft]]
    /\ UNCHANGED <<item, ref, lock, pages, failure, owed, deletion, edits, removals,
                   mishaps>>

(* Mutant: the item as the session read it before the lock.                    *)
HoldsCached(s) ==
    /\ lock' = s
    /\ Goes(s, "sending")

(* The ref row locked, the item is read again.                                 *)
Holds(s) ==
    /\ lock' = s
    /\ sync' = [sync EXCEPT ![s].pc = "sending", ![s].seen = item.version,
                            ![s].draft = item.draft]

(* SELECT ... FOR UPDATE: a row that is locked is waited for, one that is not  *)
(* committed is not seen.  With no row, the item as it was read at the start   *)
(* decides.                                                                    *)
LockRef(s) ==
    /\ sync[s].pc = "started"
    /\ \/ /\ ref # 0 /\ lock = NoSync
          /\ Holds(s)
       \/ /\ ref = 0
          /\ Goes(s, IF sync[s].draft THEN "went" ELSE "claiming")
          /\ UNCHANGED lock
    /\ UNCHANGED <<item, ref, pages, failure, owed, queued, deletion, edits, removals,
                   mishaps>>

(* Mutant: the claim is not an insert the database serialises.                 *)
ClaimBlind(s) ==
    /\ sync[s].pc = "claiming"
    /\ Goes(s, "creating")
    /\ UNCHANGED <<item, ref, lock, pages, failure, owed, queued, deletion, edits,
                   removals, mishaps>>

(* The insert waits for another's: then the row is there, and is followed.     *)
(* The item's row must still be there for it.                                  *)
Claim(s) ==
    /\ sync[s].pc = "claiming"
    /\ lock = NoSync
    /\ \/ /\ item.gone
          /\ Fails(s, "rejected")
          /\ UNCHANGED lock
       \/ /\ ~item.gone /\ ref # 0
          /\ Holds(s)
       \/ /\ ~item.gone /\ ref = 0
          /\ lock' = s
          /\ Goes(s, "creating")
    /\ UNCHANGED <<item, ref, pages, failure, owed, queued, deletion, edits, removals,
                   mishaps>>

(* A call to Notion that made `made' of the pages, for page p: it goes through, *)
(* or its answer is lost, or it does not arrive or is refused.                 *)
Calls(s, p, made) ==
    \/ /\ pages' = made
       /\ sync' = [sync EXCEPT ![s].pc = "committing", ![s].page = p]
       /\ UNCHANGED <<lock, mishaps>>
    \/ /\ \/ pages' \in {made, pages} /\ Fails(s, "unreachable")
          \/ pages' = pages /\ Fails(s, "rejected")
       /\ RollsBack(s)
       /\ Spends(mishaps, MaxMishaps)

Posts(s) == Unused # {} /\ Calls(s, NewPage, Says(NewPage, sync[s].seen))
Patches(s, p) == Calls(s, p, Says(p, sync[s].seen))

(* Pages a lost create may have made: live ones that no ref holds.             *)
LostCreates == {p \in Pages : pages[p].state = "live" /\ p # ref}

(* After a failure that may have arrived, the one page with this title is      *)
(* taken; an edit may have changed the title, and it is then not found.        *)
Create(s) ==
    /\ sync[s].pc = "creating"
    /\ \/ /\ failure = "unreachable" /\ Cardinality(LostCreates) = 1
          /\ \E p \in LostCreates : Patches(s, p)
       \/ Posts(s)
    /\ UNCHANGED <<item, ref, failure, owed, queued, deletion, edits, removals>>

(* _follow_item_page: what became of the page decides.                         *)
Follow(s) ==
    /\ sync[s].pc = "sending"
    /\ \/ /\ pages[ref].state = "live"
          /\ Patches(s, ref)
       \/ /\ pages[ref].state = "archived"
          /\ sync' = [sync EXCEPT ![s].pc = "committing", ![s].page = ref]
          /\ UNCHANGED <<lock, pages, mishaps>>
       \/ /\ pages[ref].state = "deleted" /\ sync[s].draft
          /\ sync' = [sync EXCEPT ![s].pc = "committing", ![s].page = 0]
          /\ UNCHANGED <<lock, pages, mishaps>>
       \/ /\ pages[ref].state = "deleted" /\ ~sync[s].draft
          /\ Posts(s)
    /\ UNCHANGED <<item, ref, failure, owed, queued, deletion, edits, removals>>

Commit(s) ==
    /\ sync[s].pc = "committing"
    /\ ref' = sync[s].page
    /\ lock' = IF lock = s THEN NoSync ELSE lock
    /\ Goes(s, "went")
    /\ UNCHANGED <<item, pages, failure, owed, queued, deletion, edits, removals,
                   mishaps>>

(* _sync_went and _record_failure, each in a transaction after the sync's; a   *)
(* failure of an item that is gone is not kept.                                *)
Ends(s) ==
    /\ \/ /\ sync[s].pc = "went"
          /\ failure' = "none"
       \/ /\ sync[s].pc = "failed"
          /\ failure' = IF item.gone THEN failure ELSE sync[s].kind
    /\ sync' = [sync EXCEPT ![s] = Idle]
    /\ UNCHANGED <<item, ref, lock, pages, owed, queued, deletion, edits, removals,
                   mishaps>>

-----------------------------------------------------------------------------
(* The item's deletion, in one request.                                        *)

Deletes(pc, page) == deletion' = [pc |-> pc, page |-> page]

DeleteItem ==
    /\ ~item.gone /\ deletion.pc = "idle"
    /\ Deletes("looking", 0)
    /\ UNCHANGED <<item, ref, lock, pages, failure, owed, queued, sync, edits,
                   removals, mishaps>>

(* trash_notion_page reads the row as committed, without a lock; a read that   *)
(* fails is swallowed, and the deletion goes on with no page in hand.          *)
LookForPage ==
    /\ deletion.pc = "looking"
    /\ \/ /\ Deletes(IF ref = 0 THEN "deleting" ELSE "trashing", ref)
          /\ UNCHANGED mishaps
       \/ /\ Deletes("deleting", 0)
          /\ Spends(mishaps, MaxMishaps)
    /\ UNCHANGED <<item, ref, lock, pages, failure, owed, queued, sync, edits, removals>>

(* trash_item_page: retitled, then trashed; a page a person removed is left.   *)
(* A call that does not get through, the first or the second, ends it there;   *)
(* of the second the answer alone may be lost.                                 *)
Trashed(p) ==
    IF pages[p].state = "live"
        THEN [pages EXCEPT ![p] = [state |-> "archived", says |-> Deleted]]
        ELSE pages
Retitled(p) == IF pages[p].state = "live" THEN Says(p, Deleted) ELSE pages
TrashFails(p) == pages' \in {pages, Retitled(p), Trashed(p)}

Row(p, row, tries) == owed' = [owed EXCEPT ![p] = [row |-> row, tries |-> tries]]

(* _owe_external_cleanup: nothing on a conflict; a write that fails is logged. *)
Owes(p) ==
    IF owed[p].row = "owed" THEN UNCHANGED owed
    ELSE Row(p, "owed", 0) \/ Row(p, "unrecorded", 0)

(* A page that could not be trashed is owed before its ref goes.               *)
TrashPage ==
    /\ deletion.pc = "trashing"
    /\ \/ /\ pages' = Trashed(deletion.page)
          /\ UNCHANGED <<owed, mishaps>>
       \/ /\ TrashFails(deletion.page)
          /\ Owes(deletion.page)
          /\ Spends(mishaps, MaxMishaps)
    /\ Deletes("deleting", deletion.page)
    /\ UNCHANGED <<item, ref, lock, failure, queued, sync, edits, removals>>

(* The rows go with the item; the ref row is waited for.                       *)
DeleteRows ==
    /\ deletion.pc = "deleting"
    /\ lock = NoSync
    /\ item' = [item EXCEPT !.gone = TRUE]
    /\ ref' = 0
    /\ failure' = "none"
    /\ Deletes("done", deletion.page)
    /\ UNCHANGED <<lock, pages, owed, queued, sync, edits, removals, mishaps>>

(* Mutant: the row goes one try early.                                         *)
CountsShort(p) ==
    Row(p, IF owed[p].tries + 2 >= CleanupMax THEN "dropped" ELSE "owed", owed[p].tries + 1)

(* A try that may be repeated, transient or unknown; the last one drops the row. *)
Counts(p) ==
    Row(p, IF owed[p].tries + 1 >= CleanupMax THEN "dropped" ELSE "owed", owed[p].tries + 1)

(* drain_external_cleanup, for one row of a team whose Notion is connected; a  *)
(* second drain skips a locked row.  A refusal drops the row at once, with the *)
(* page's id in the log.                                                       *)
Drain(p) ==
    /\ owed[p].row = "owed"
    /\ \/ pages' = Trashed(p) /\ Row(p, "none", 0)
       \/ TrashFails(p) /\ (Counts(p) \/ Row(p, "refused", 0))
    /\ UNCHANGED <<item, ref, lock, failure, queued, sync, deletion, edits, removals,
                   mishaps>>

-----------------------------------------------------------------------------
(* A person archives or deletes a page in Notion, or stops sharing it, which   *)
(* answers like a deleted one.                                                 *)
PersonRemoves(p) ==
    /\ pages[p].state = "live"
    /\ Spends(removals, MaxRemovals)
    /\ \E state \in {"archived", "deleted"} : pages' = [pages EXCEPT ![p].state = state]
    /\ UNCHANGED <<item, ref, lock, failure, owed, queued, sync, deletion, edits,
                   mishaps>>

(* The API restarts: its threads and their transactions are gone.              *)
ApiRestarts ==
    /\ Spends(mishaps, MaxMishaps)
    /\ sync' = [s \in Syncs |-> Idle]
    /\ lock' = NoSync
    /\ queued' = 0
    /\ deletion' = IF deletion.pc = "done" THEN deletion ELSE NotDeleting
    /\ UNCHANGED <<item, ref, pages, failure, owed, edits, removals>>

SyncGoesOn(s) ==
    Start(s) \/ LockRef(s) \/ Claim(s) \/ Create(s) \/ Follow(s) \/ Commit(s) \/ Ends(s)

DeletionGoesOn == LookForPage \/ TrashPage \/ DeleteRows

Next ==
    \/ Edit \/ SendAgain \/ DeleteItem \/ DeletionGoesOn \/ ApiRestarts
    \/ \E s \in Syncs : SyncGoesOn(s)
    \/ \E p \in Pages : Drain(p) \/ PersonRemoves(p)

Spec == Init /\ [][Next]_vars

(* A background thread runs on, the lock of a row comes round to everyone who  *)
(* waits for it, a request ends, the drain runs every ten minutes.             *)
Fairness ==
    /\ \A s \in Syncs : SF_vars(SyncGoesOn(s))
    /\ SF_vars(DeletionGoesOn)
    /\ \A p \in Pages : WF_vars(Drain(p))

FairSpec == Spec /\ Fairness

-----------------------------------------------------------------------------
(* Every variable has its type, a page the item is sent to was made, and only  *)
(* a sync past its claim holds the ref row.                                    *)
TypeOK ==
    /\ item \in [gone : BOOLEAN, version : 1 .. MaxEdits + 1, draft : BOOLEAN,
                paged : BOOLEAN]
    /\ pages \in [Pages -> [state : {"none", "live", "archived", "deleted"},
                           says : 0 .. MaxEdits + 1]]
    /\ ref # 0 => ref \in Pages /\ pages[ref].state # "none"
    /\ failure \in {"none", "unreachable", "rejected"}
    /\ owed \in [Pages -> [row : {"none", "owed", "dropped", "refused", "unrecorded"},
                          tries : 0 .. CleanupMax]]
    /\ \A p \in Pages : owed[p].row = "owed" => owed[p].tries < CleanupMax
    /\ queued \in Nat
    /\ \A s \in Syncs :
          sync[s] \in [pc : {"idle", "started", "claiming", "creating", "sending",
                            "committing", "went", "failed"},
                      seen : 0 .. MaxEdits + 1, draft : BOOLEAN, page : 0 .. MaxPages,
                      kind : {"none", "unreachable", "rejected"}]
    /\ deletion \in [pc : {"idle", "looking", "trashing", "deleting", "done"},
                     page : 0 .. MaxPages]
    /\ \A s \in Syncs :
          lock = s <=> sync[s].pc \in {"creating", "sending", "committing"}

(* However many syncs race, an item's page is made once: a second one stands   *)
(* in Notion only after a call whose answer was lost or a restart              *)
(* (service.py:6281-6286, "two workers holding it at once, create one page").  *)
SentOnce == Cardinality({p \in Pages : pages[p].state = "live"}) <= 1 + mishaps

(* The page the item is known by never goes back to an earlier edit: syncs     *)
(* that overlap write in the order of the edits they send.                     *)
PageNeverGoesBack ==
    [][ \A p \in Pages :
          /\ ref = p /\ pages[p].says # Deleted
          /\ pages'[p].says # Deleted
          => pages'[p].says >= pages[p].says ]_vars

(* A deletion that is committed is the last word, though syncs that read the   *)
(* item before it still run, one of them perhaps past its first look at the    *)
(* ref row: none makes the item a page any more, none writes one but the       *)
(* trash, no row and no failure of it comes back (service.py                   *)
(* sync_action_item_to_notion, delete_action_item; tasks._record_failure).     *)
GoneIsFinal ==
    [][ item.gone =>
          /\ item'.gone
          /\ ref' = 0 /\ failure' = "none"
          /\ \A p \in Pages :
                /\ pages[p].state = "none" => pages'[p] = pages[p]
                /\ pages'[p].says \in {pages[p].says, Deleted} ]_vars

(* An edit of an item that has its page reaches the page, one that moves the   *)
(* item back to "needs confirmation" included, unless a call failed, the page  *)
(* was removed or the item was deleted.                                        *)
EditReachesPage ==
    item.paged /\ ref # 0 ~>
        \/ item.gone \/ mishaps > 0 \/ removals > 0
        \/ ref # 0 /\ pages[ref].says = item.version

(* A page a deletion went to trash does not stay live unseen: it leaves the    *)
(* team's pages in the end, or every one of the drain's tries was made, or     *)
(* Notion refused it or the debt could not be written, which the log says, or  *)
(* a restart cut the deletion short and the item is still there                *)
(* (tasks.trash_notion_page, _owe_external_cleanup, _clean_up_one).            *)
DeletedPageGoes ==
    \A p \in Pages :
        deletion.pc = "trashing" /\ deletion.page = p ~>
            \/ deletion.pc = "idle"
            \/ pages[p].state # "live"
            \/ owed[p].tries = CleanupMax
            \/ owed[p].row \in {"refused", "unrecorded"}

(* service.py:6303-6306, "the one sending last is always the one sending       *)
(* latest": once every sync is over, with no call failed, a live page says the *)
(* item's last edit.                                                           *)
LastSentIsLatest ==
    /\ mishaps = 0 /\ removals = 0 /\ ~item.gone /\ deletion.pc = "idle"
    /\ queued = 0 /\ \A s \in Syncs : sync[s].pc = "idle"
    => \A p \in Pages : pages[p].state = "live" => pages[p].says = item.version
=============================================================================
