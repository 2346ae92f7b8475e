------------------------------ MODULE InkSync -------------------------------
(***************************************************************************)
(* The handwriting notebook of one device: the canvas and its debounced    *)
(* save (public/js/ink/app.js), the pages in IndexedDB                     *)
(* (public/js/ink/store.js), the loop that uploads dirty pages             *)
(* (public/js/ink/sync.js) and the vault page a server keeps per page      *)
(* number (routes/vault.js, notebook-page-ingest).                         *)
(*                                                                         *)
(* IndexedDB transactions are atomic, but savePage, markSynced and         *)
(* deletePage each read in one transaction and write in a later one, so    *)
(* their steps interleave.  The strokes of a page are a number, new with   *)
(* every change; 0 is a page without ink.                                  *)
(***************************************************************************)
EXTENDS Naturals, FiniteSets

CONSTANTS
  Page,        \* page ids
  FirstPage,   \* the page the notebook is created with
  NoPage,
  MaxStrokes,  \* bound: changes of the ink
  MaxFaults,   \* bound: failed uploads and app restarts
  MaxDeletes   \* bound: deleted pages

ASSUME ConstantsAssumption ==
  /\ IsFiniteSet(Page) /\ FirstPage \in Page
  /\ NoPage \notin Page
  /\ {MaxStrokes, MaxFaults, MaxDeletes} \subseteq Nat

VARIABLES
  stored,   \* IndexedDB: the page records, dirty flags included
  listed,   \* app: current.pages, the strokes of the pages in memory
  shown,    \* app: the page on the canvas
  ink,      \* app: the strokes on the canvas
  unsaved,  \* app: ink.isDirty()
  save,     \* app: the savePage under way, between its read and its write
  removal,  \* app: the deletePage under way, between its reads and its write
  sync,     \* sync: the loop: its stage and what it has in hand
  nudged,   \* sync: a timer (idle, recheck, retry or interval) is set
  vault,    \* server: the strokes of every page number
  received, \* history: strokes the server has accepted
  pen, faults, deletes

editor == <<listed, shown, ink, unsaved>>
bounds == <<pen, faults, deletes>>
vars == <<stored, editor, save, removal, sync, nudged, vault, received, bounds>>

Missing == [at |-> 0, data |-> 0, dirty |-> FALSE]
Exists(p) == stored[p].at > 0
NoSave == [page |-> NoPage, data |-> 0, copy |-> Missing]
NoRemoval == [page |-> NoPage, siblings |-> [p \in {} |-> Missing]]
Idle == [stage |-> "idle", todo |-> {}, page |-> NoPage, at |-> 0, data |-> 0,
         copy |-> Missing, moved |-> FALSE, failed |-> "no", again |-> FALSE]

-----------------------------------------------------------------------------
(***************************************************************************)
(* Writing.                                                                *)
(***************************************************************************)
\* onInkChange: a stroke, or erasing the last of them.
Draw(blank) ==
  /\ pen < MaxStrokes
  /\ pen' = pen + 1
  /\ ink' = IF blank THEN 0 ELSE pen'
  /\ unsaved' = TRUE
  /\ UNCHANGED <<stored, listed, shown, save, removal, sync, nudged, vault,
                 received, faults, deletes>>

\* savePage of app.js, on the debounce timer, when the tab hides and before
\* navigation, up to the read of store.js savePage.
SaveRead ==
  /\ unsaved
  /\ save = NoSave
  /\ Exists(shown)
  /\ save' = [page |-> shown, data |-> ink, copy |-> stored[shown]]
  /\ UNCHANGED <<stored, editor, removal, sync, nudged, vault, received, bounds>>

\* The write: the record that was read, with the strokes and dirty = 1.  The
\* canvas counts as saved if it still is what was written.
SavePut ==
  /\ save # NoSave
  /\ stored' = [stored EXCEPT ![save.page] =
                  [at |-> save.copy.at, data |-> save.data, dirty |-> TRUE]]
  /\ listed' = [p \in DOMAIN listed |-> IF p = save.page THEN save.data
                                                         ELSE listed[p]]
  /\ unsaved' = (unsaved /\ ~(shown = save.page /\ ink = save.data))
  /\ save' = NoSave
  /\ nudged' = TRUE
  /\ UNCHANGED <<shown, ink, removal, sync, vault, received, bounds>>

\* goPage, once savePage has succeeded.
TurnTo(p) ==
  /\ ~unsaved
  /\ save = NoSave
  /\ p \in DOMAIN listed \ {shown}
  /\ shown' = p
  /\ ink' = listed[p]
  /\ UNCHANGED <<stored, listed, unsaved, save, removal, sync, nudged, vault,
                 received, bounds>>

\* Variant for mutation testing: the number of the last page.
LastNumber == Cardinality(DOMAIN listed)

\* Variant for mutation testing: a number is left out.
SkippingNumber == Cardinality(DOMAIN listed) + 2

\* The number of a new page.
NextNumber == Cardinality(DOMAIN listed) + 1

\* The add button: a blank page at the end, and it is shown.
AddPage(p) ==
  /\ ~unsaved
  /\ save = NoSave
  /\ removal = NoRemoval
  /\ ~Exists(p) /\ p \notin DOMAIN listed
  /\ stored' = [stored EXCEPT ![p] =
                  [at |-> NextNumber, data |-> 0, dirty |-> FALSE]]
  /\ listed' = [q \in DOMAIN listed \cup {p} |-> IF q = p THEN 0 ELSE listed[q]]
  /\ shown' = p
  /\ ink' = 0
  /\ UNCHANGED <<unsaved, save, removal, sync, nudged, vault, received, bounds>>

\* deletePage reads the page and its siblings ...
DeleteRead ==
  LET siblings == {p \in Page : Exists(p) /\ p # shown}
      After(p) == stored[p].at > stored[shown].at
  IN  /\ deletes < MaxDeletes
      /\ deletes' = deletes + 1
      /\ removal = NoRemoval
      /\ Exists(shown)
      /\ siblings # {}
      /\ removal' = [page |-> shown, siblings |-> [p \in siblings |->
           IF After(p) THEN [stored[p] EXCEPT !.at = @ - 1] ELSE stored[p]]]
      /\ UNCHANGED <<stored, editor, save, sync, nudged, vault, received, pen,
                     faults>>

\* ... and writes the siblings back with their new numbers.  The app lists the
\* pages again and shows a remaining one.
DeletePut(next) ==
  /\ removal # NoRemoval
  /\ stored' = [p \in Page |->
       IF p = removal.page THEN Missing
       ELSE IF p \in DOMAIN removal.siblings THEN removal.siblings[p]
       ELSE stored[p]]
  /\ listed' = [p \in {q \in Page : stored'[q].at > 0} |-> stored'[p].data]
  /\ next \in DOMAIN listed'
  /\ shown' = next
  /\ ink' = listed'[next]
  /\ unsaved' = FALSE
  /\ removal' = NoRemoval
  /\ UNCHANGED <<save, sync, nudged, vault, received, bounds>>

-----------------------------------------------------------------------------
(***************************************************************************)
(* The sync loop.                                                          *)
(***************************************************************************)
\* syncNow, by a timer, or at once when the tab is hidden (`flush`): a loop
\* under way is asked to come back.
SyncNow(flush) ==
  /\ nudged \/ flush
  /\ nudged' = (nudged /\ flush)
  /\ sync' = IF sync.stage = "idle" THEN [Idle EXCEPT !.stage = "list"]
                                    ELSE [sync EXCEPT !.again = TRUE]
  /\ sync' # sync \/ nudged' # nudged
  /\ UNCHANGED <<stored, editor, save, removal, vault, received, bounds>>

\* The loop ends; a waiting syncNow is put on a timer.
Stop(timer) ==
  /\ sync' = Idle
  /\ nudged' = (nudged \/ timer \/ sync.again)

Dirty == {p \in Page : Exists(p) /\ stored[p].dirty}

\* dirtyPages: a snapshot of the records to send; none left ends the loop.
List ==
  /\ sync.stage = "list"
  /\ IF Dirty = {} THEN Stop(FALSE)
     ELSE /\ sync' = [Idle EXCEPT
               !.stage = "next", !.again = sync.again,
               !.todo = {[page |-> p, at |-> stored[p].at, data |-> stored[p].data]
                           : p \in Dirty}]
          /\ nudged' = nudged
  /\ UNCHANGED <<stored, editor, save, removal, vault, received, bounds>>

\* uploadPage: a blank page is only marked, any other is sent.
Take(r) ==
  /\ sync.stage = "next"
  /\ r \in sync.todo
  /\ sync' = [sync EXCEPT !.todo = @ \ {r}, !.page = r.page, !.at = r.at,
                          !.data = r.data,
                          !.stage = IF r.data = 0 THEN "mark" ELSE "sending"]
  /\ UNCHANGED <<stored, editor, save, removal, nudged, vault, received, bounds>>

\* The pen is down: the loop steps aside and checks again later.
StepAside ==
  /\ sync.stage = "next"
  /\ unsaved
  /\ Stop(TRUE)
  /\ UNCHANGED <<stored, editor, save, removal, vault, received, bounds>>

\* notebook-page-ingest replaces the vault's section of that page number.
Ingest ==
  /\ sync.stage = "sending"
  /\ vault' = [vault EXCEPT ![sync.at] = sync.data]
  /\ received' = received \cup {sync.data}
  /\ sync' = [sync EXCEPT !.stage = "mark"]
  /\ UNCHANGED <<stored, editor, save, removal, nudged, bounds>>

\* The upload fails, before or after the server took it; a 4xx answer is final
\* until another trigger comes.  The page stays dirty and the others go on.
UploadFails(how) ==
  /\ sync.stage = "sending"
  /\ faults < MaxFaults
  /\ faults' = faults + 1
  /\ \/ UNCHANGED <<vault, received>>
     \/ /\ how = "retry"
        /\ vault' = [vault EXCEPT ![sync.at] = sync.data]
        /\ received' = received \cup {sync.data}
  /\ sync' = [sync EXCEPT !.stage = "next",
                          !.failed = IF @ = "no" THEN how ELSE @]
  /\ UNCHANGED <<stored, editor, save, removal, nudged, pen, deletes>>

\* Variant for mutation testing: the strokes are not compared.
StillThere == Exists(sync.page)

\* The page still holds what was sent.
StillSent == Exists(sync.page) /\ stored[sync.page].data = sync.data

\* markSynced reads the page: it must still hold the strokes that were sent.
MarkRead ==
  /\ sync.stage = "mark"
  /\ sync' = IF StillSent
             THEN [sync EXCEPT !.stage = "clear", !.copy = stored[sync.page]]
             ELSE [sync EXCEPT !.stage = "next"]
  /\ UNCHANGED <<stored, editor, save, removal, nudged, vault, received, bounds>>

\* Variant for mutation testing: the mark stays.
Unchanged(record) == record

Cleaned(record) == [record EXCEPT !.dirty = FALSE]

\* ... and writes the record it read back with dirty = 0.
MarkPut ==
  /\ sync.stage = "clear"
  /\ stored' = [stored EXCEPT ![sync.page] = Cleaned(sync.copy)]
  /\ sync' = [sync EXCEPT !.stage = "next", !.moved = TRUE]
  /\ UNCHANGED <<editor, save, removal, nudged, vault, received, bounds>>

\* The end of a pass: an error ends the loop (and sets the retry timer unless
\* it was final), and so does a pass that cleaned nothing.
EndPass ==
  /\ sync.stage = "next"
  /\ sync.todo = {}
  /\ IF sync.failed # "no" THEN Stop(sync.failed = "retry")
     ELSE IF ~sync.moved THEN Stop(FALSE)
     ELSE sync' = [Idle EXCEPT !.stage = "list", !.again = sync.again]
          /\ nudged' = nudged
  /\ UNCHANGED <<stored, editor, save, removal, vault, received, bounds>>

\* The five-minute interval, the network coming back, the tab shown again.
Interval ==
  /\ ~nudged
  /\ Dirty # {}
  /\ sync.stage = "idle"
  /\ nudged' = TRUE
  /\ UNCHANGED <<stored, editor, save, removal, sync, vault, received, bounds>>

\* The app is closed, or killed, and opened again: IndexedDB is what is left.
Restart ==
  /\ faults < MaxFaults
  /\ faults' = faults + 1
  /\ listed' = [p \in {q \in Page : Exists(q)} |-> stored[p].data]
  /\ \E p \in DOMAIN listed' : shown' = p /\ ink' = listed'[p]
  /\ unsaved' = FALSE
  /\ save' = NoSave
  /\ removal' = NoRemoval
  /\ sync' = Idle
  /\ nudged' = TRUE
  /\ \/ UNCHANGED <<vault, received>>
     \/ /\ sync.stage = "sending"   \* the server still takes what was sent
        /\ vault' = [vault EXCEPT ![sync.at] = sync.data]
        /\ received' = received \cup {sync.data}
  /\ UNCHANGED <<stored, pen, deletes>>
-----------------------------------------------------------------------------
Init ==
  /\ stored = [p \in Page |-> IF p = FirstPage THEN [Missing EXCEPT !.at = 1]
                                               ELSE Missing]
  /\ listed = [p \in {FirstPage} |-> 0]
  /\ shown = FirstPage
  /\ ink = 0
  /\ unsaved = FALSE
  /\ save = NoSave
  /\ removal = NoRemoval
  /\ sync = Idle
  /\ nudged = FALSE
  /\ vault = [n \in 1..Cardinality(Page) |-> 0]
  /\ received = {}
  /\ pen = 0
  /\ faults = 0
  /\ deletes = 0

Write == SaveRead \/ SavePut \/ \E p \in Page : DeletePut(p)
Upload ==
  \/ SyncNow(FALSE) \/ List \/ (\E r \in sync.todo : Take(r)) \/ Ingest
  \/ MarkRead \/ MarkPut \/ EndPass \/ Interval

Next ==
  \/ Write
  \/ Upload
  \/ \E blank \in BOOLEAN : Draw(blank)
  \/ \E p \in Page : TurnTo(p) \/ AddPage(p)
  \/ DeleteRead
  \/ SyncNow(TRUE)
  \/ StepAside
  \/ \E how \in {"retry", "final"} : UploadFails(how)
  \/ Restart

Spec == Init /\ [][Next]_vars

\* The debounce timer saves, IndexedDB requests finish, timers run and the
\* server answers.
FairSpec == Spec /\ WF_vars(Write) /\ WF_vars(Upload)
-----------------------------------------------------------------------------
Record == [at : 0..Cardinality(Page), data : 0..MaxStrokes, dirty : BOOLEAN]

\* The shape of every variable.
TypeOK ==
  /\ stored \in [Page -> Record]
  /\ DOMAIN listed \subseteq Page
  /\ \A p \in DOMAIN listed : listed[p] \in 0..MaxStrokes
  /\ shown \in Page
  /\ ink \in 0..MaxStrokes
  /\ unsaved \in BOOLEAN
  /\ save.page \in Page \cup {NoPage} /\ save.copy \in Record
  /\ removal.page \in Page \cup {NoPage}
  /\ sync.stage \in {"idle", "list", "next", "sending", "mark", "clear"}
  /\ sync.copy \in Record
  /\ nudged \in BOOLEAN
  /\ vault \in [1..Cardinality(Page) -> 0..MaxStrokes]
  /\ received \subseteq 1..MaxStrokes

\* "A page cannot be silently left behind" (store.js): the strokes a page
\* record holds are queued for the vault or have reached it, whatever saves,
\* uploads, deletions and restarts did to the record meanwhile.
NeverLeftBehind ==
  \A p \in Page :
    Exists(p) /\ ~stored[p].dirty => stored[p].data \in received \cup {0}

\* Until a page is deleted (which renumbers the others and queues none of
\* them), the vault's page n is the clean page n of the notebook, unless that
\* was erased after it had been sent (a blank page is never sent).
VaultInStep ==
  deletes = 0 =>
    \A p \in Page : Exists(p) /\ ~stored[p].dirty /\ stored[p].data # 0 =>
      vault[stored[p].at] = stored[p].data

\* The queue drains: once the pen rests and the faults stop, no page stays
\* dirty and no stroke stays unsaved.
Drains == <>[](Dirty = {} /\ ~unsaved)

\* The comment on markSynced: a page edited while its upload was in flight is
\* not marked clean with strokes that never reach the vault.  Here: while the
\* app says that what it shows is saved, a clean page's strokes have arrived.
ShownIsQueued ==
  ~unsaved /\ removal = NoRemoval /\ Exists(shown) /\ ~stored[shown].dirty
    => ink \in received \cup {0}
=============================================================================
