----------------------------- MODULE DeltaSync ------------------------------
(***************************************************************************)
(* How a tab follows the task rows of its workspace: sync-store.js and the *)
(* trigger of pg-schema.js on the server, pullSyncChanges of               *)
(* public/js/block-store.js in the tab.                                    *)
(*                                                                         *)
(* Every write of a row appends an event, numbered when its statement runs *)
(* and visible when its transaction commits.  A tab shows one day; it has  *)
(* the sequence number it is up to date with (its cursor) and pulls the    *)
(* rows that have later events, a page at a time.  Without a usable cursor *)
(* it loads a snapshot (bootstrap).  Old events are pruned.                *)
(***************************************************************************)
EXTENDS Integers, FiniteSets, FiniteSetsExt, Sequences

CONSTANTS
  Row,         \* the task rows of the workspace
  Day,         \* the days a row can be on
  Nowhere,     \* stands for no day, and for the day of a deleted row
  Home,        \* the day the tab opens on and its rows are on at first
  PageLimit,   \* the events of one page (500 in the code)
  MaxWrites,   \* bound: writes of rows, the tab's own included
  MaxOpen,     \* bound: write transactions open at once
  MaxTroubles, \* bound: runs of the nightly prune, and pulls that fail
  MaxVisits    \* bound: day changes of the tab

ASSUME ConstantsAssumption ==
  /\ Home \in Day
  /\ Nowhere \notin Day
  /\ PageLimit \in Nat \ {0}
  /\ {MaxWrites, MaxOpen, MaxTroubles, MaxVisits} \subseteq Nat

VARIABLES
  row,       \* the committed rows: their day and a version that every write bumps
  events,    \* the committed sync_events not yet pruned
  open,      \* write transactions that have run their statement
  seq,       \* the BIGSERIAL behind sync_events.seq
  news,      \* a blocks-changed broadcast is on its way to the tab
  floor,     \* sync_prune_watermarks.pruned_through_seq
  day,       \* the tab: _currentDate
  cursor,    \* the tab: _syncCursor
  view,      \* the tab: _dayCache
  saving,    \* the tab: its own write that the server has not confirmed yet
  pull,      \* the tab: the pull under way
  waiting,   \* the tab: the day of a pull that waits for the one under way
  overtaken, \* history: rows whose change the cursor may have passed unseen
  visits, troubles   \* how much of the bounds is spent

server == <<row, events, open, seq, floor, news>>
tab    == <<day, cursor, view, saving, pull, waiting>>
vars   == <<server, tab, overtaken, visits, troubles>>

Absent  == [day |-> Nowhere, ver |-> 0]
NoCursor == -1
NoSave  == [row |-> "none", seq |-> 0, answer |-> Absent]
NoPull  == [stage |-> "idle", day |-> Nowhere, stale |-> FALSE, page |-> {},
            more |-> FALSE, rows |-> [r \in {} |-> Absent], upto |-> 0]
Stages  == {"idle", "floor", "events", "rows", "delta", "bootstrap", "snapshot"}

-----------------------------------------------------------------------------
(***************************************************************************)
(* The server: writers and the nightly prune.                              *)
(***************************************************************************)
Seqs(es) == {e.seq : e \in es}

\* The statement of a write and its trigger dcc_capture_sync_event: the row is
\* locked, and the event has its number although nobody can see it yet.
Begin(r, d, own) ==
  /\ seq < MaxWrites
  /\ Cardinality(open) < MaxOpen
  /\ \A x \in open : x.row # r
  /\ seq' = seq + 1
  /\ open' = open \cup {[seq |-> seq + 1, row |-> r, own |-> own,
                         new |-> [day |-> d, ver |-> row[r].ver + 1]]}
  /\ UNCHANGED <<row, events, floor, news>>

WriteElsewhere(r, d) ==
  /\ Begin(r, d, FALSE)
  /\ UNCHANGED <<tab, overtaken, visits, troubles>>

\* The cursor, or the one the pull under way will set, is past a number.
Passed(s) ==
  \/ cursor > s
  \/ pull.stage \in {"rows", "delta", "snapshot"} /\ pull.upto > s

\* COMMIT.  A tab whose cursor is already past the event's number, or which has
\* read a page that is, will never be given the event.
Commit(x) ==
  /\ open' = open \ {x}
  /\ row' = [row EXCEPT ![x.row] = x.new]
  /\ events' = events \cup {[seq |-> x.seq, row |-> x.row,
                             gone |-> x.new.day = Nowhere]}
  /\ saving' = IF x.own THEN [saving EXCEPT !.answer = x.new] ELSE saving
  /\ news' = (news \/ ~x.own)
  /\ overtaken' = IF Passed(x.seq) THEN overtaken \cup {x.row} ELSE overtaken
  /\ UNCHANGED <<seq, floor, day, cursor, view, pull, waiting, visits, troubles>>

\* ROLLBACK of another client's write; its number is never used.
Abort(x) ==
  /\ ~x.own
  /\ open' = open \ {x}
  /\ UNCHANGED <<row, events, seq, floor, news, tab, overtaken, visits, troubles>>

\* pruneSyncEvents: the events of at least 30 days ago go, and the watermark
\* says so.  No transaction and no answer takes 30 days.  A pull that has passed
\* its watermark check no longer notices.
Prune(upto) ==
  /\ troubles < MaxTroubles
  /\ troubles' = troubles + 1
  /\ upto \in Seqs(events)
  /\ \A x \in open : x.seq > upto
  /\ saving # NoSave => saving.seq > upto
  /\ floor' = IF upto > floor THEN upto ELSE floor
  /\ events' = {e \in events : e.seq > upto}
  /\ overtaken' = IF pull.stage = "events"
                  THEN overtaken \cup {e.row : e \in {f \in events : cursor < f.seq /\ f.seq <= upto}}
                  ELSE overtaken
  /\ UNCHANGED <<row, open, seq, news, tab, visits>>

-----------------------------------------------------------------------------
(***************************************************************************)
(* The tab's own writes.                                                   *)
(***************************************************************************)
\* setSaving and cacheSet: the mutation generation moves on, so that whatever
\* pull is under way will not be applied, and the edit shows at once.
Save(r, d) ==
  /\ saving = NoSave
  /\ view[r].day = day
  /\ Begin(r, d, TRUE)
  /\ saving' = [row |-> r, seq |-> seq', answer |-> Absent]
  /\ view' = [view EXCEPT ![r] = [day |-> d, ver |-> row[r].ver + 1]]
  /\ pull' = [pull EXCEPT !.stale = pull.stage # "idle"]
  /\ UNCHANGED <<day, cursor, waiting, overtaken, visits, troubles>>

\* The acknowledgement: the row the server answered with goes into the cache,
\* over whatever a snapshot may have put there since.
Saved ==
  /\ saving # NoSave
  /\ saving.answer # Absent
  /\ view' = [view EXCEPT ![saving.row] = saving.answer]
  /\ saving' = NoSave
  /\ overtaken' = IF \E e \in events : /\ e.row = saving.row
                                       /\ saving.seq < e.seq /\ e.seq <= cursor
                  THEN overtaken \cup {saving.row} ELSE overtaken
  /\ UNCHANGED <<server, day, cursor, pull, waiting, visits, troubles>>

-----------------------------------------------------------------------------
(***************************************************************************)
(* The pull.                                                               *)
(***************************************************************************)
\* pullSyncChanges(d) when nothing is under way, of a tab that shows `shown` and
\* has cursor c: a snapshot for another day or without a cursor, nothing while
\* writes are pending, else the events.
Started(d, shown, c) ==
  IF c = NoCursor \/ d # shown THEN [NoPull EXCEPT !.stage = "bootstrap", !.day = d]
  ELSE IF saving # NoSave  THEN NoPull
  ELSE [NoPull EXCEPT !.stage = "floor", !.day = d]

\* The pull is over, and the one that waited for it starts.  (In the code each call
\* for another day waits, and they follow one another; here the last one is kept.)
End ==
  /\ pull' = IF waiting = Nowhere THEN NoPull ELSE Started(waiting, day', cursor')
  /\ waiting' = Nowhere

\* loadDay, by the timer for the day shown or by navigation to another; it is
\* not called while writes are pending.
LoadDay(d) ==
  /\ saving = NoSave
  /\ visits' = IF d = day THEN visits ELSE visits + 1
  /\ visits' <= MaxVisits
  /\ IF pull.stage = "idle" THEN pull' = Started(d, day, cursor) /\ waiting' = waiting
     ELSE pull.day # d /\ waiting' = d /\ pull' = pull
  /\ UNCHANGED <<server, day, cursor, view, saving, overtaken, troubles>>

\* handleBlocksChanged: the event stream says that rows have changed.  The
\* pull under way is invalidated; if it is for the same day no other follows.
Notice ==
  /\ news
  /\ news' = FALSE
  /\ IF pull.stage = "idle" THEN pull' = Started(day, day, cursor) /\ waiting' = waiting
     ELSE /\ pull' = [pull EXCEPT !.stale = TRUE]
          /\ waiting' = IF pull.day = day THEN waiting ELSE day
  /\ UNCHANGED <<row, events, open, seq, floor, day, cursor, view, saving, overtaken, visits, troubles>>

\* The events after the cursor may have been pruned.
Expired == floor > 0 /\ cursor <= floor

\* Variant for mutation testing: the watermark is not looked at.
StageUnchecked == "events"

\* What the watermark check decides.
StageAfterFloor == IF Expired THEN "bootstrap" ELSE "events"

\* Variant for mutation testing: the cursor goes to the newest event, which may
\* be on a later page.
EndOfNews(page, new) == IF new = {} THEN cursor ELSE Max(Seqs(new))

\* Variant for mutation testing: the cursor goes to the number after the page.
PastPage(page, new) == IF page = {} THEN cursor ELSE Max(Seqs(page)) + 1

\* The cursor after a page.
PageEnd(page, new) == IF page = {} THEN cursor ELSE Max(Seqs(page))

\* The three queries of sync-store.js pull, each on its own: the watermark ...
ReadFloor ==
  /\ pull.stage = "floor"
  /\ pull' = [pull EXCEPT !.stage = StageAfterFloor]
  /\ UNCHANGED <<server, day, cursor, view, saving, waiting, overtaken, visits,
                 troubles>>

\* ... a page of events after the cursor, oldest first ...
ReadEvents ==
  LET new  == {e \in events : e.seq > cursor}
      page == {e \in new : Cardinality({f \in new : f.seq < e.seq}) < PageLimit}
  IN  /\ pull.stage = "events"
      /\ pull' = [pull EXCEPT
           !.stage = "rows", !.page = page, !.more = page # new,
           !.upto = PageEnd(page, new)]
      /\ UNCHANGED <<server, day, cursor, view, saving, waiting, overtaken,
                     visits, troubles>>

\* ... and the rows the page names, as they are by now.  The last event of a
\* row in the page, or the row itself, says whether the day shows it.
Latest(r, page) == Max({e.seq : e \in {f \in page : f.row = r}})
Named(page) == {e.row : e \in page}
Projected(r, page) ==
  IF \E e \in page : e.row = r /\ e.seq = Latest(r, page) /\ e.gone THEN Absent
  ELSE IF row[r].day = pull.day THEN row[r] ELSE Absent

ReadRows ==
  /\ pull.stage = "rows"
  /\ pull' = [pull EXCEPT !.stage = "delta",
       !.rows = [r \in Named(pull.page) |-> Projected(r, pull.page)]]
  /\ UNCHANGED <<server, day, cursor, view, saving, waiting, overtaken, visits,
                 troubles>>

\* The answer is dropped when a write or a notice came in between, applied
\* otherwise; more pages are fetched at once.
ReceiveDelta ==
  /\ pull.stage = "delta"
  /\ day' = day
  /\ IF pull.stale \/ saving # NoSave
     THEN UNCHANGED <<cursor, view>> /\ End
     ELSE /\ cursor' = pull.upto
          /\ view' = [r \in Row |-> IF r \in DOMAIN pull.rows THEN pull.rows[r]
                                                             ELSE view[r]]
          /\ IF pull.more
             THEN /\ pull' = [NoPull EXCEPT !.stage = "floor", !.day = pull.day]
                  /\ waiting' = waiting
             ELSE End
  /\ UNCHANGED <<server, saving, overtaken, visits, troubles>>

\* bootstrap: cursor and rows of one REPEATABLE READ snapshot.
ReadSnapshot ==
  /\ pull.stage = "bootstrap"
  /\ pull' = [pull EXCEPT
       !.stage = "snapshot",
       !.upto = IF events = {} THEN 0 ELSE Max(Seqs(events)),
       !.rows = [r \in Row |-> IF row[r].day = pull.day THEN row[r] ELSE Absent]]
  /\ UNCHANGED <<server, day, cursor, view, saving, waiting, overtaken, visits,
                 troubles>>

\* hydrateSyncSnapshot, unless the generation has moved on.
ReceiveSnapshot ==
  /\ pull.stage = "snapshot"
  /\ IF pull.stale
     THEN UNCHANGED <<day, cursor, view>>
     ELSE /\ day' = pull.day
          /\ cursor' = pull.upto
          /\ view' = pull.rows
  /\ End
  /\ UNCHANGED <<server, saving, overtaken, visits, troubles>>

\* The request fails: the pull is over with nothing applied.
Fail ==
  /\ pull.stage # "idle"
  /\ troubles < MaxTroubles
  /\ troubles' = troubles + 1
  /\ UNCHANGED <<server, day, cursor, view, saving, overtaken, visits>>
  /\ End
-----------------------------------------------------------------------------
Init ==
  /\ row = [r \in Row |-> [day |-> Home, ver |-> 1]]
  /\ events = {}
  /\ open = {}
  /\ seq = 0
  /\ floor = 0
  /\ news = FALSE
  /\ day = Home
  /\ cursor = NoCursor
  /\ view = [r \in Row |-> Absent]
  /\ saving = NoSave
  /\ pull = NoPull
  /\ waiting = Nowhere
  /\ overtaken = {}
  /\ visits = 0
  /\ troubles = 0

Answer == ReadFloor \/ ReadEvents \/ ReadRows \/ ReceiveDelta \/ ReadSnapshot
          \/ ReceiveSnapshot

Next ==
  \/ \E r \in Row, d \in Day \cup {Nowhere} : WriteElsewhere(r, d) \/ Save(r, d)
  \/ \E x \in open : Commit(x) \/ Abort(x)
  \/ \E e \in events : Prune(e.seq)
  \/ \E d \in Day : LoadDay(d)
  \/ Saved
  \/ Notice
  \/ Answer
  \/ Fail

Spec == Init /\ [][Next]_vars

\* Requests are answered, transactions end, and the timer of sse.js reloads
\* the day shown every five minutes.
FairSpec ==
  /\ Spec
  /\ WF_vars(Answer)
  /\ WF_vars(Saved)
  /\ WF_vars(\E x \in open : Commit(x))
  /\ WF_vars(LoadDay(day))

-----------------------------------------------------------------------------
RowImage == [day : Day \cup {Nowhere}, ver : 0..MaxWrites + 1]
Event    == [seq : 1..MaxWrites, row : Row, gone : BOOLEAN]

\* The shape of every variable.
TypeOK ==
  /\ row \in [Row -> RowImage]
  /\ events \subseteq Event
  /\ open \subseteq [seq : 1..MaxWrites, row : Row, own : BOOLEAN, new : RowImage]
  /\ seq \in 0..MaxWrites
  /\ news \in BOOLEAN
  /\ floor \in 0..MaxWrites
  /\ day \in Day
  /\ cursor \in -1..MaxWrites
  /\ view \in [Row -> RowImage]
  /\ saving.row \in Row \cup {NoSave.row}
  /\ pull.stage \in Stages
  /\ pull.upto \in -1..MaxWrites
  /\ waiting \in Day \cup {Nowhere}
  /\ overtaken \subseteq Row

\* What the tab shows of a row on its day, and what it should show.
Showing(r)  == IF view[r].day = day THEN view[r].ver ELSE 0
Expected(r) == IF row[r].day = day THEN row[r].ver ELSE 0

\* The cursor is honest: whatever the tab shows wrong is announced by an event
\* it has yet to pull, or its next pull is a snapshot, or the row is one whose
\* change was overtaken: its transaction committed after a later number had
\* been handed to the tab, the prune removed it in the middle of a pull, or an
\* old acknowledgement was laid over a newer snapshot.  Pages, deletions,
\* moves between days, dropped answers and interrupted pulls lose nothing.
NothingElseMissed ==
  cursor # NoCursor /\ ~Expired =>
    \A r \in Row \ (overtaken \cup {saving.row}) :
      Showing(r) # Expected(r) => \E e \in events : e.row = r /\ e.seq > cursor

\* The tab gets there: once the writes end, it shows every row that was not
\* overtaken as the server has it, whatever pulls were dropped on the way.
Converges == <>[](\A r \in Row \ overtaken : Showing(r) = Expected(r))
=============================================================================
