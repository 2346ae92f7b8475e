--------------------------- MODULE DeltaSyncProofs --------------------------
(***************************************************************************)
(* Proofs about DeltaSync, for any rows, days, page size and bounds: only  *)
(* rows that were overtaken are missed, and (at the end) a tab on which    *)
(* nothing more happens comes to show the others as the server has them.   *)
(***************************************************************************)
EXTENDS DeltaSync, FiniteSetTheorems, WellFoundedInduction, TLAPS

OpenWrite == [seq : 1..MaxWrites, row : Row, own : BOOLEAN, new : RowImage]
SaveOf(R) == [row : R, seq : 1..MaxWrites, answer : RowImage]
RowsRead == UNION {[R -> RowImage] : R \in SUBSET Row}
Pull ==
  [stage : Stages, day : Day \cup {Nowhere}, stale : BOOLEAN, page : SUBSET Event,
   more : BOOLEAN, rows : RowsRead, upto : -1..MaxWrites]

\* The shape of the records of a save and of a pull.
RecordsOK ==
  /\ saving \in SaveOf(Row) \cup {NoSave}
  /\ pull \in Pull
  /\ IsFiniteSet(events)

\* A pull by events is for the day shown and has a cursor to start from; it goes on
\* while a write of the tab is unconfirmed only if its answer will be dropped.
PullOK ==
  /\ pull.stage = "delta" => DOMAIN pull.rows = Named(pull.page)
  /\ pull.stage = "snapshot" => DOMAIN pull.rows = Row
  /\ pull.stage # "idle" => pull.day \in Day
  /\ pull.stage \in {"rows", "delta", "snapshot"} => pull.upto >= 0
  /\ pull.stage \in {"floor", "events", "rows", "delta"} =>
       /\ pull.day = day
       /\ cursor # NoCursor
       /\ saving = NoSave \/ pull.stale

\* A version is at most one more than the writes there have been.
VersionsOK ==
  /\ \A r \in Row : row[r].ver <= seq + 1
  /\ \A x \in open : x.new.ver <= seq + 1

ShapeOK == TypeOK /\ RecordsOK /\ PullOK /\ VersionsOK

\* The place the tab will have reached with the pull under way.
Reading == pull.stage \in {"rows", "delta", "snapshot"}

\* The numbers: no two writes have the same, those of a row come in the order of
\* its writes, and neither the watermark nor the cursor is the number of a write
\* that is still open.
NumbersOK ==
  /\ floor <= seq
  /\ \A e \in events : floor < e.seq /\ e.seq <= seq
  /\ \A x \in open : floor < x.seq /\ x.seq <= seq
  /\ cursor <= seq
  /\ Reading => pull.upto <= seq
  /\ \A e, f \in events : e.seq = f.seq => e = f
  /\ \A e, f \in pull.page : e.seq = f.seq => e = f
  /\ \A x, y \in open : x.seq = y.seq \/ x.row = y.row => x = y
  /\ \A e \in events, x \in open : e.seq # x.seq /\ (e.row = x.row => e.seq < x.seq)
  /\ \A x \in open : x.seq # cursor /\ (Reading => x.seq # pull.upto)

\* The last event of a row says whether the row is deleted.
EventsTellRows ==
  \A e \in events :
    (\A f \in events : f.row = e.row => f.seq <= e.seq) =>
      (e.gone <=> row[e.row].day = Nowhere)

\* A write of the tab: while it is open nobody else writes its row, and once it is
\* committed the row is what the tab will be told, or has a later event.
SaveFollowed ==
  /\ \A x \in open : x.own => /\ saving # NoSave
                              /\ saving.row = x.row /\ saving.seq = x.seq
                              /\ saving.answer = Absent
  /\ saving # NoSave /\ saving.answer # Absent =>
       /\ \E e \in events : e.row = saving.row /\ e.seq = saving.seq
       /\ \/ row[saving.row] = saving.answer
          \/ \E e \in events : e.row = saving.row /\ e.seq > saving.seq

NumberedOK == NumbersOK /\ EventsTellRows /\ SaveFollowed

-----------------------------------------------------------------------------
\* A row whose event is still to come after number c.
Announced(r, c) == \E e \in events : e.row = r /\ e.seq > c

\* The events after number c are all there.
Unpruned(c) == floor = 0 \/ floor < c

\* What a row looks like on a day.
On(image, d) == IF image.day = d THEN image.ver ELSE 0

InDoubt == overtaken \cup (IF saving = NoSave THEN {} ELSE {saving.row})

\* What the tab shows is right up to its cursor; so it stays when the prune
\* overtakes a pull that has passed its watermark check.
ViewHonest ==
  cursor # NoCursor /\ (Unpruned(cursor) \/ pull.stage = "events") =>
    \A r \in Row \ InDoubt :
      On(view[r], day) # On(row[r], day) => Announced(r, cursor)

\* The last event of a row on a page still tells what became of the row.
LastTells(r, page) ==
  \E f \in page : /\ f.row = r
                  /\ \A g \in page : g.row = r => g.seq <= f.seq
                  /\ f.gone <=> row[r].day = Nowhere

\* A page that has been read: rows it does not name are right up to its end, and
\* the last event of one that it names still tells what became of the row.
PageHonest ==
  pull.stage = "rows" /\ ~pull.stale /\ Unpruned(pull.upto) =>
    \A r \in Row \ overtaken :
      /\ r \in Named(pull.page) => LastTells(r, pull.page) \/ Announced(r, pull.upto)
      /\ r \notin Named(pull.page) =>
           (On(view[r], day) # On(row[r], day) => Announced(r, pull.upto))

\* An answer on its way: what the tab will show when it applies it is right up to
\* the place the answer brings the tab to.
DeltaHonest ==
  pull.stage = "delta" /\ ~pull.stale /\ Unpruned(pull.upto) =>
    \A r \in Row \ overtaken :
      On(IF r \in DOMAIN pull.rows THEN pull.rows[r] ELSE view[r], day) # On(row[r], day)
        => Announced(r, pull.upto)

SnapshotHonest ==
  pull.stage = "snapshot" /\ Unpruned(pull.upto) =>
    \A r \in Row \ overtaken :
      On(pull.rows[r], pull.day) # On(row[r], pull.day) => Announced(r, pull.upto)

Honest == ViewHonest /\ PageHonest /\ DeltaHonest /\ SnapshotHonest

IInv == ShapeOK /\ NumberedOK /\ Honest

-----------------------------------------------------------------------------
(***************************************************************************)
(* The greatest number of a set.                                           *)
(***************************************************************************)
LEMMA MaxIs ==
  ASSUME NEW S \in SUBSET Int, NEW m \in S, \A n \in S : m >= n
  PROVE  Max(S) = m
<1>1. \A x \in S : (\A n \in S : x >= n) => x = m
  OBVIOUS
<1>2. Max(S) \in S /\ \A n \in S : Max(S) >= n
  BY DEF Max
<1> QED
  BY <1>1, <1>2

\* The number with the fewest greater ones in S, in the order of strict inclusion.
LEMMA MaxBounds ==
  ASSUME NEW S \in SUBSET Int, IsFiniteSet(S), S # {}
  PROVE  Max(S) \in S /\ \A n \in S : Max(S) >= n
<1> DEFINE Above(n) == {k \in S : k > n}
           T == {Above(n) : n \in S}
           R == StrictSubsetOrdering(S)
<1>1. IsWellFoundedOn(R, SUBSET S)
  BY FS_StrictSubsetOrderingWellFounded, FS_FiniteSubsetsOfFinite
<1>2. T \subseteq SUBSET S /\ T # {}
  OBVIOUS
<1>3. PICK A \in T : \A B \in T : ~(<<B, A>> \in R)
  <2> DEFINE P == SUBSET S
  <2> HIDE DEF T, R, P
  <2>1. IsWellFoundedOn(R, P) /\ T \subseteq P /\ T # {}
    BY <1>1, <1>2 DEF P
  <2> QED
    BY <2>1, WFMin, Zenon
<1>4. PICK m \in S : A = Above(m)
  BY <1>3
<1>5. ASSUME NEW n \in S, ~(m >= n)
      PROVE  FALSE
  <2>1. n > m /\ n \in Int /\ m \in Int
    BY <1>5
  <2>2. Above(n) \subseteq Above(m)
    <3>1. \A k \in S : k \in Int /\ (k > n => k > m)
      BY <2>1
    <3> QED
      BY <3>1
  <2>3. n \in Above(m) /\ n \notin Above(n)
    BY <2>1
  <2>4. <<Above(n), Above(m)>> \in R
    BY <2>2, <2>3 DEF StrictSubsetOrdering
  <2> QED
    BY <1>3, <1>4, <2>4
<1>6. Max(S) = m
  BY <1>5, MaxIs
<1> QED
  BY <1>5, <1>6

-----------------------------------------------------------------------------
(***************************************************************************)
(* The shape of the state.                                                 *)
(***************************************************************************)
LEMMA Bounds ==
  /\ MaxWrites \in Nat /\ MaxTroubles \in Nat /\ MaxVisits \in Nat
  /\ PageLimit \in Nat /\ PageLimit > 0
BY ConstantsAssumption

LEMMA NumbersFinite ==
  ASSUME NEW S, S \subseteq 1..MaxWrites
  PROVE  IsFiniteSet(S) /\ S \in SUBSET Int
<1>1. 1 \in Int /\ MaxWrites \in Int
  BY Bounds
<1>2. IsFiniteSet(1..MaxWrites)
  BY <1>1, FS_Interval
<1>3. IsFiniteSet(S)
  BY <1>2, FS_Subset
<1> QED
  BY <1>3, Bounds

LEMMA NoPullType ==
  /\ NoPull \in Pull
  /\ NoPull.stage = "idle" /\ NoPull.stale = FALSE /\ NoPull.page = {}
  /\ Absent \in RowImage
<1>1. [r \in {} |-> Absent] \in RowsRead
  <2>1. [r \in {} |-> Absent] \in [{} -> RowImage]
    OBVIOUS
  <2> QED
    BY <2>1 DEF RowsRead
<1>2. Absent \in RowImage
  BY Bounds DEF Absent, RowImage
<1> QED
  BY <1>1, <1>2, Bounds DEF NoPull, Pull, Stages

\* A pull that starts: by a snapshot, or by events of the day shown.
LEMMA StartedType ==
  ASSUME NEW d \in Day, NEW shown, NEW c
  PROVE  /\ Started(d, shown, c) \in Pull
         /\ Started(d, shown, c).stage \in {"idle", "floor", "bootstrap"}
         /\ Started(d, shown, c).stage # "idle" => Started(d, shown, c).day = d
         /\ Started(d, shown, c).page = {}
         /\ Started(d, shown, c).stage = "floor" =>
              d = shown /\ c # NoCursor /\ saving = NoSave
<1>1. ASSUME NEW stage \in {"floor", "bootstrap"}
      PROVE  LET p == [NoPull EXCEPT !.stage = stage, !.day = d]
             IN  p \in Pull /\ p.stage = stage /\ p.day = d /\ p.page = {}
  BY NoPullType DEF Pull, Stages
<1> QED
  BY <1>1, NoPullType DEF Started, NoCursor

\* What the end of a pull leaves.
LEMMA EndType ==
  ASSUME TypeOK, End, day' \in Day
  PROVE  /\ pull' \in Pull
         /\ pull'.stage \in {"idle", "floor", "bootstrap"}
         /\ pull'.stage # "idle" => pull'.day \in Day
         /\ pull'.page = {}
         /\ pull'.stage = "floor" =>
              pull'.day = day' /\ cursor' # NoCursor /\ saving = NoSave
         /\ waiting' \in Day \cup {Nowhere}
<1>1. CASE waiting = Nowhere
  BY <1>1, NoPullType DEF End
<1>2. CASE waiting # Nowhere
  <2>1. waiting \in Day
    BY <1>2 DEF TypeOK
  <2>2. pull' = Started(waiting, day', cursor') /\ waiting' = Nowhere
    BY <1>2 DEF End
  <2> HIDE DEF End
  <2> QED
    BY <2>1, <2>2, StartedType
<1> QED
  BY <1>1, <1>2

\* The statement of a write: the next number, and an image one version on.
LEMMA BeginShape ==
  ASSUME ShapeOK, NEW r \in Row, NEW d \in Day \cup {Nowhere}, NEW own \in BOOLEAN,
         Begin(r, d, own)
  PROVE  /\ seq' = seq + 1 /\ seq' \in 1..MaxWrites
         /\ [day |-> d, ver |-> row[r].ver + 1] \in RowImage
         /\ open' \subseteq OpenWrite
         /\ VersionsOK'
<1> DEFINE image == [day |-> d, ver |-> row[r].ver + 1]
           x == [seq |-> seq + 1, row |-> r, own |-> own, new |-> image]
<1>1. seq' = seq + 1 /\ seq' \in 1..MaxWrites /\ seq \in Nat
  BY Bounds DEF Begin, ShapeOK, TypeOK
<1>2. row[r] \in RowImage /\ row[r].ver <= seq + 1
  BY DEF ShapeOK, TypeOK, VersionsOK
<1>3. image \in RowImage /\ image.ver <= seq + 2
  BY <1>1, <1>2, Bounds DEF RowImage
<1>4. x \in OpenWrite /\ x.new = image
  BY <1>1, <1>3 DEF OpenWrite
<1>5. open \subseteq OpenWrite
  BY DEF ShapeOK, TypeOK, OpenWrite
<1>6. row' = row /\ open' = open \cup {x}
  BY DEF Begin
<1>7. VersionsOK'
  <2>1. \A s \in Row : row[s].ver \in Nat /\ row[s].ver <= seq + 1
    BY DEF ShapeOK, TypeOK, VersionsOK, RowImage
  <2>2. \A y \in open : y.new.ver \in Nat /\ y.new.ver <= seq + 1
    BY <1>5 DEF ShapeOK, VersionsOK, OpenWrite, RowImage
  <2> HIDE DEF image, x
  <2> QED
    BY <1>1, <1>3, <1>4, <1>6, <2>1, <2>2 DEF VersionsOK
<1> QED
  BY <1>1, <1>3, <1>4, <1>5, <1>6, <1>7

LEMMA WriteElsewhereShape ==
  ASSUME ShapeOK, NEW r \in Row, NEW d \in Day \cup {Nowhere}, WriteElsewhere(r, d)
  PROVE  ShapeOK'
<1>1. Begin(r, d, FALSE)
  BY DEF WriteElsewhere
<1>a. FALSE \in BOOLEAN
  OBVIOUS
<1>b. seq' \in 1..MaxWrites /\ open' \subseteq OpenWrite /\ VersionsOK'
  BY <1>1, <1>a, BeginShape
<1>2. seq' \in 0..MaxWrites /\ open' \subseteq OpenWrite /\ VersionsOK'
  BY <1>b, Bounds
<1>3. TypeOK'
  BY <1>1, <1>2 DEF ShapeOK, TypeOK, WriteElsewhere, tab, Begin, OpenWrite
<1>4. RecordsOK' /\ PullOK'
  BY <1>1 DEF ShapeOK, RecordsOK, PullOK, WriteElsewhere, tab, Begin, Named
<1> QED
  BY <1>2, <1>3, <1>4 DEF ShapeOK

LEMMA SaveShape ==
  ASSUME ShapeOK, NEW r \in Row, NEW d \in Day \cup {Nowhere}, Save(r, d)
  PROVE  ShapeOK'
<1>1. Begin(r, d, TRUE)
  BY DEF Save
<1>2. /\ seq' \in 1..MaxWrites /\ open' \subseteq OpenWrite /\ VersionsOK'
      /\ [day |-> d, ver |-> row[r].ver + 1] \in RowImage
  BY <1>1, BeginShape
<1>3. saving' \in SaveOf(Row) /\ saving'.row = r
  BY <1>2, NoPullType DEF Save, SaveOf
<1>4. /\ pull \in Pull
      /\ pull' = [pull EXCEPT !.stale = pull.stage # "idle"]
  BY DEF Save, ShapeOK, RecordsOK
<1>5. /\ pull' \in Pull
      /\ pull' = [pull EXCEPT !.stale = pull'.stale]
      /\ pull.stage # "idle" => pull'.stale
  BY <1>4 DEF Pull
<1>6. TypeOK'
  <2>1. view' \in [Row -> RowImage]
    BY <1>2 DEF Save, ShapeOK, TypeOK
  <2>2. seq' \in 0..MaxWrites
    BY <1>2
  <2> QED
    BY <1>1, <1>2, <1>3, <1>5, <2>1, <2>2 DEF ShapeOK, TypeOK, Save, Begin, OpenWrite, Pull
<1>7. RecordsOK' /\ PullOK'
  BY <1>1, <1>3, <1>5 DEF ShapeOK, RecordsOK, PullOK, Save, Begin, Named, Pull
<1> QED
  BY <1>2, <1>6, <1>7 DEF ShapeOK

LEMMA CommitShape ==
  ASSUME ShapeOK, NEW x \in open, Commit(x), SaveFollowed
  PROVE  ShapeOK'
<1> DEFINE e == [seq |-> x.seq, row |-> x.row, gone |-> x.new.day = Nowhere]
<1>1. x \in OpenWrite
  BY DEF ShapeOK, TypeOK, OpenWrite
<1>2. e \in Event
  BY <1>1 DEF OpenWrite, Event
<1>3. row' \in [Row -> RowImage] /\ events' = events \cup {e}
  BY <1>1 DEF ShapeOK, TypeOK, Commit, OpenWrite
<1>4. saving' \in SaveOf(Row) \cup {NoSave} /\ (saving' = NoSave <=> saving = NoSave)
  <2>1. CASE x.own
    <3>1. saving \in SaveOf(Row) /\ saving.seq >= 1
      BY <2>1, Bounds DEF SaveFollowed, ShapeOK, RecordsOK, SaveOf
    <3>2. saving' = [saving EXCEPT !.answer = x.new]
      BY <2>1 DEF Commit
    <3>3. saving' \in SaveOf(Row) /\ saving'.seq >= 1
      BY <1>1, <3>1, <3>2 DEF SaveOf, OpenWrite
    <3> QED
      BY <3>1, <3>3 DEF NoSave
  <2>2. CASE ~x.own
    BY <2>2 DEF Commit, ShapeOK, RecordsOK
  <2> QED
    BY <2>1, <2>2
<1>5. IsFiniteSet(events')
  BY <1>3, FS_AddElement DEF ShapeOK, RecordsOK
<1>6. TypeOK'
  <2>1. saving'.row \in Row \cup {NoSave.row}
    BY <1>4 DEF SaveOf
  <2>2. overtaken' \subseteq Row
    BY <1>1 DEF Commit, ShapeOK, TypeOK, OpenWrite
  <2>3. news' \in BOOLEAN
    BY DEF Commit, ShapeOK, TypeOK
  <2> HIDE DEF e
  <2> QED
    BY <1>2, <1>3, <2>1, <2>2, <2>3 DEF ShapeOK, TypeOK, Commit
<1>7. RecordsOK' /\ PullOK'
  BY <1>4, <1>5 DEF ShapeOK, RecordsOK, PullOK, Commit, Named
<1>8. VersionsOK'
  BY <1>1 DEF ShapeOK, TypeOK, VersionsOK, Commit, OpenWrite
<1> QED
  BY <1>6, <1>7, <1>8 DEF ShapeOK

LEMMA AbortShape ==
  ASSUME ShapeOK, NEW x \in open, Abort(x)
  PROVE  ShapeOK'
BY DEF ShapeOK, TypeOK, RecordsOK, PullOK, VersionsOK, Abort, tab, Named

LEMMA PruneShape ==
  ASSUME ShapeOK, NEW e \in events, Prune(e.seq)
  PROVE  ShapeOK'
<1>1. /\ events' \subseteq events
      /\ floor' \in 0..MaxWrites
      /\ overtaken' \subseteq Row
  BY Bounds DEF Prune, ShapeOK, TypeOK, Event
<1>2. IsFiniteSet(events')
  BY <1>1, FS_Subset DEF ShapeOK, RecordsOK
<1>3. TypeOK'
  BY <1>1 DEF ShapeOK, TypeOK, Prune, tab
<1> QED
  BY <1>2, <1>3 DEF ShapeOK, RecordsOK, PullOK, VersionsOK, Prune, tab, Named

LEMMA SavedShape ==
  ASSUME ShapeOK, Saved
  PROVE  ShapeOK'
<1>1. saving \in SaveOf(Row)
  BY DEF Saved, ShapeOK, RecordsOK
<1>2. view' \in [Row -> RowImage] /\ overtaken' \subseteq Row
  BY <1>1 DEF Saved, ShapeOK, TypeOK, SaveOf
<1>3. TypeOK'
  BY <1>2 DEF Saved, ShapeOK, TypeOK, server
<1> QED
  BY <1>3 DEF Saved, ShapeOK, RecordsOK, PullOK, VersionsOK, server, Named

LEMMA LoadDayShape ==
  ASSUME ShapeOK, NEW d \in Day, LoadDay(d)
  PROVE  ShapeOK'
<1>1. CASE pull.stage = "idle"
  <2>1. pull' = Started(d, day, cursor) /\ waiting' = waiting
    BY <1>1 DEF LoadDay
  <2>2. pull' \in Pull /\ PullOK'
    BY <2>1, StartedType DEF LoadDay, PullOK
  <2>3. TypeOK'
    BY <2>1, <2>2 DEF ShapeOK, TypeOK, LoadDay, server, Pull
  <2> QED
    BY <2>2, <2>3 DEF ShapeOK, RecordsOK, VersionsOK, LoadDay, server
<1>2. CASE pull.stage # "idle"
  BY <1>2 DEF ShapeOK, TypeOK, RecordsOK, PullOK, VersionsOK, LoadDay, server, Named
<1> QED
  BY <1>1, <1>2

LEMMA NoticeShape ==
  ASSUME ShapeOK, Notice
  PROVE  ShapeOK'
<1>1. day \in Day
  BY DEF ShapeOK, TypeOK
<1>2. CASE pull.stage = "idle"
  <2>1. pull' = Started(day, day, cursor) /\ waiting' = waiting
    BY <1>2 DEF Notice
  <2>2. pull' \in Pull /\ PullOK'
    BY <1>1, <2>1, StartedType DEF Notice, PullOK
  <2>3. TypeOK'
    BY <2>1, <2>2 DEF ShapeOK, TypeOK, Notice, Pull
  <2> QED
    BY <2>2, <2>3 DEF ShapeOK, RecordsOK, VersionsOK, Notice
<1>3. CASE pull.stage # "idle"
  <2>1. /\ pull' \in Pull
        /\ pull' = [pull EXCEPT !.stale = TRUE]
        /\ pull'.stale
    BY <1>3 DEF Notice, ShapeOK, RecordsOK, Pull
  <2>2. TypeOK'
    BY <1>3, <2>1 DEF ShapeOK, TypeOK, Notice, Pull
  <2> QED
    BY <2>1, <2>2 DEF ShapeOK, RecordsOK, PullOK, VersionsOK, Notice, Named, Pull
<1> QED
  BY <1>2, <1>3

\* A step of the pull that reads leaves everything else as it is.
LEMMA ReadShape ==
  ASSUME ShapeOK, pull' \in Pull, PullOK',
         UNCHANGED <<server, day, cursor, view, saving, waiting, overtaken, visits, troubles>>
  PROVE  ShapeOK'
<1>1. TypeOK'
  BY DEF ShapeOK, TypeOK, Pull, server
<1> QED
  BY <1>1 DEF ShapeOK, RecordsOK, VersionsOK, server

LEMMA ReadFloorShape ==
  ASSUME ShapeOK, ReadFloor
  PROVE  ShapeOK'
<1>1. StageAfterFloor \in Stages \ {"idle", "rows", "delta", "snapshot"}
  BY DEF StageAfterFloor, Stages
<1>2. pull' \in Pull /\ pull' = [pull EXCEPT !.stage = pull'.stage]
      /\ pull'.stage \in {"events", "bootstrap"}
  BY <1>1 DEF ReadFloor, ShapeOK, RecordsOK, Pull, StageAfterFloor
<1>3. PullOK'
  BY <1>2 DEF ReadFloor, ShapeOK, PullOK, Pull
<1> QED
  BY <1>2, <1>3, ReadShape DEF ReadFloor

\* A page holds events that are there, all of them new, and ends with the last.
LEMMA PageFacts ==
  ASSUME ShapeOK, NEW page, NEW new,
         new = {e \in events : e.seq > cursor}, page \subseteq new
  PROVE  /\ IsFiniteSet(page)
         /\ page \subseteq Event
         /\ PageEnd(page, new) \in -1..MaxWrites
         /\ page = {} => PageEnd(page, new) = cursor
         /\ page # {} => /\ \E f \in page : f.seq = PageEnd(page, new)
                         /\ \A f \in page : f.seq <= PageEnd(page, new)
<1>1. page \subseteq Event /\ page \subseteq events
  BY DEF ShapeOK, TypeOK
<1>2. IsFiniteSet(page)
  BY <1>1, FS_Subset DEF ShapeOK, RecordsOK
<1>3. CASE page = {}
  BY <1>1, <1>2, <1>3 DEF PageEnd, ShapeOK, TypeOK
<1>4. CASE page # {}
  <2>1. Seqs(page) \in SUBSET Int /\ Seqs(page) # {}
    BY <1>1, <1>4 DEF Seqs, Event
  <2>2. IsFiniteSet(Seqs(page))
    <3>1. Seqs(page) \subseteq 1..MaxWrites
      BY <1>1 DEF Seqs, Event
    <3> QED
      BY <3>1, NumbersFinite
  <2>3. Max(Seqs(page)) \in Seqs(page) /\ \A n \in Seqs(page) : Max(Seqs(page)) >= n
    BY <2>1, <2>2, MaxBounds
  <2>4. PageEnd(page, new) = Max(Seqs(page))
    BY <1>4 DEF PageEnd
  <2>5. /\ \E f \in page : f.seq = PageEnd(page, new)
        /\ \A f \in page : PageEnd(page, new) >= f.seq
    BY <2>3, <2>4 DEF Seqs
  <2>6. \A f \in page : f.seq \in 1..MaxWrites
    BY <1>1 DEF Event
  <2>7. PageEnd(page, new) \in -1..MaxWrites
    BY <2>5, <2>6, Bounds
  <2>8. \A f \in page : f.seq <= PageEnd(page, new)
    BY <2>5, <2>6, <2>7
  <2> QED
    BY <1>1, <1>2, <1>4, <2>5, <2>7, <2>8
<1> QED
  BY <1>3, <1>4

LEMMA ReadEventsShape ==
  ASSUME ShapeOK, ReadEvents
  PROVE  ShapeOK'
<1> DEFINE new  == {e \in events : e.seq > cursor}
           page == {e \in new : Cardinality({f \in new : f.seq < e.seq}) < PageLimit}
<1>1. /\ pull.stage = "events"
      /\ pull' = [pull EXCEPT !.stage = "rows", !.page = page, !.more = page # new,
                              !.upto = PageEnd(page, new)]
      /\ UNCHANGED <<server, day, cursor, view, saving, waiting, overtaken, visits, troubles>>
  BY DEF ReadEvents
<1>2. page \subseteq new
  OBVIOUS
<1> HIDE DEF page, new
<1>3. page \in SUBSET Event /\ PageEnd(page, new) \in -1..MaxWrites
  BY <1>2, PageFacts DEF new
<1>4. "rows" \in Stages /\ (page # new) \in BOOLEAN
  BY DEF Stages
<1>5. pull' \in Pull /\ pull'.stage = "rows" /\ pull'.day = pull.day /\ pull'.stale = pull.stale
  BY <1>1, <1>3, <1>4 DEF ShapeOK, RecordsOK, Pull
<1>6. pull'.upto >= 0
  <2>1. PageEnd(page, new) >= 0
    <3>1. CASE page = {}
      BY <1>1, <1>2, <3>1, PageFacts DEF new, ShapeOK, PullOK, TypeOK, NoCursor
    <3>2. CASE page # {}
      BY <1>2, <1>3, <3>2, PageFacts DEF new, Event
    <3> QED
      BY <3>1, <3>2
  <2> QED
    BY <1>1, <2>1 DEF ShapeOK, RecordsOK, Pull
<1>7. PullOK'
  BY <1>1, <1>5, <1>6 DEF ShapeOK, PullOK
<1> QED
  BY <1>1, <1>5, <1>7, ReadShape

\* The rows that the answer to a page carries.
LEMMA ReadRowsShape ==
  ASSUME ShapeOK, ReadRows
  PROVE  ShapeOK'
<1> DEFINE R == Named(pull.page)
           rows == [r \in R |-> Projected(r, pull.page)]
<1>1. pull \in Pull /\ row \in [Row -> RowImage]
  BY DEF ShapeOK, RecordsOK, TypeOK
<1>2. R \in SUBSET Row
  BY <1>1 DEF Named, Pull, Event
<1>3. \A r \in R : Projected(r, pull.page) \in RowImage
  <2> TAKE r \in R
  <2>1. Projected(r, pull.page) \in {Absent, row[r]}
    BY DEF Projected
  <2> HIDE DEF R
  <2> QED
    BY <1>1, <1>2, <2>1, NoPullType
<1>4. rows \in [R -> RowImage] /\ DOMAIN rows = R
  BY <1>3
<1>5. rows \in RowsRead
  <2> HIDE DEF rows, R
  <2> QED
    BY <1>2, <1>4 DEF RowsRead
<1>6. pull' = [pull EXCEPT !.stage = "delta", !.rows = rows]
  BY DEF ReadRows
<1>7. PullOK'
  <2> HIDE DEF rows
  <2>1. /\ pull'.stage = "delta" /\ pull'.rows = rows /\ pull'.page = pull.page
        /\ pull'.day = pull.day /\ pull'.stale = pull.stale
        /\ pull'.upto = pull.upto
    BY <1>1, <1>6 DEF Pull
  <2> QED
    BY <1>4, <2>1 DEF ReadRows, ShapeOK, PullOK, Named
<1>8. pull' \in Pull
  <2> HIDE DEF rows
  <2>1. "delta" \in Stages
    BY DEF Stages
  <2> QED
    BY <1>1, <1>5, <1>6, <2>1 DEF Pull
<1> QED
  BY <1>7, <1>8, ReadShape DEF ReadRows

LEMMA ReadSnapshotShape ==
  ASSUME ShapeOK, ReadSnapshot
  PROVE  /\ ShapeOK'
         /\ pull'.stage = "snapshot" /\ pull'.day = pull.day
         /\ pull'.rows = [r \in Row |-> IF row[r].day = pull.day THEN row[r] ELSE Absent]
         /\ \A e \in events : e.seq <= pull'.upto
         /\ pull'.upto = 0 \/ \E e \in events : e.seq = pull'.upto
<1> DEFINE rows == [r \in Row |-> IF row[r].day = pull.day THEN row[r] ELSE Absent]
           end == IF events = {} THEN 0 ELSE Max(Seqs(events))
<1>1. pull \in Pull /\ row \in [Row -> RowImage] /\ events \subseteq Event
  BY DEF ShapeOK, RecordsOK, TypeOK
<1>2. rows \in [Row -> RowImage] /\ DOMAIN rows = Row
  BY <1>1, NoPullType
<1>3. rows \in RowsRead
  <2> HIDE DEF rows
  <2> QED
    BY <1>2 DEF RowsRead
<1>4. /\ end \in 0..MaxWrites /\ \A e \in events : e.seq <= end
      /\ end = 0 \/ \E e \in events : e.seq = end
  <2>1. CASE events = {}
    BY <2>1, Bounds
  <2>2. CASE events # {}
    <3>1. Seqs(events) \subseteq 1..MaxWrites /\ Seqs(events) # {}
      BY <1>1, <2>2 DEF Seqs, Event
    <3>2. IsFiniteSet(Seqs(events)) /\ Seqs(events) \in SUBSET Int
      BY <3>1, NumbersFinite
    <3>3. /\ Max(Seqs(events)) \in Seqs(events)
          /\ \A n \in Seqs(events) : Max(Seqs(events)) >= n
      BY <3>1, <3>2, MaxBounds
    <3>4. \A e \in events : e.seq \in Seqs(events)
      BY DEF Seqs
    <3>5. \E e \in events : e.seq = Max(Seqs(events))
      BY <3>3 DEF Seqs
    <3>6. \A e \in events : e.seq <= Max(Seqs(events))
      BY <3>1, <3>3, <3>4
    <3>7. Max(Seqs(events)) \in 0..MaxWrites
      BY <3>1, <3>3, Bounds
    <3> QED
      BY <2>2, <3>5, <3>6, <3>7
  <2> QED
    BY <2>1, <2>2
<1>5. pull' = [pull EXCEPT !.stage = "snapshot", !.upto = end, !.rows = rows]
  BY DEF ReadSnapshot
<1> HIDE DEF rows, end
<1>6. "snapshot" \in Stages
  BY DEF Stages
<1>e. end \in -1..MaxWrites /\ end >= 0
  BY <1>4, Bounds
<1>7. /\ pull' \in Pull /\ pull'.stage = "snapshot" /\ pull'.rows = rows
      /\ pull'.day = pull.day /\ pull'.upto = end
  BY <1>1, <1>3, <1>5, <1>6, <1>e DEF Pull
<1>8. PullOK'
  BY <1>2, <1>7, <1>e DEF ReadSnapshot, ShapeOK, PullOK
<1>9. ShapeOK'
  BY <1>7, <1>8, ReadShape DEF ReadSnapshot
<1> QED
  BY <1>4, <1>7, <1>9 DEF ReadSnapshot, server, rows

\* A step that applies an answer or drops it, and what the pull becomes.
LEMMA ReceiveShape ==
  ASSUME ShapeOK, view' \in [Row -> RowImage], cursor' \in -1..MaxWrites, day' \in Day,
         pull' \in Pull, waiting' \in Day \cup {Nowhere}, PullOK',
         UNCHANGED <<server, saving, overtaken>>
  PROVE  ShapeOK'
<1>1. TypeOK'
  BY DEF ShapeOK, TypeOK, Pull, server
<1> QED
  BY <1>1 DEF ShapeOK, RecordsOK, VersionsOK, server

LEMMA EndShape ==
  ASSUME ShapeOK, view' \in [Row -> RowImage], cursor' \in -1..MaxWrites, day' \in Day,
         End, UNCHANGED <<server, saving, overtaken>>
  PROVE  ShapeOK'
<1>1. /\ pull' \in Pull /\ waiting' \in Day \cup {Nowhere}
      /\ pull'.stage \in {"idle", "floor", "bootstrap"}
      /\ pull'.stage # "idle" => pull'.day \in Day
      /\ pull'.stage = "floor" =>
              pull'.day = day' /\ cursor' # NoCursor /\ saving = NoSave
  BY EndType DEF ShapeOK
<1>2. PullOK'
  BY <1>1 DEF PullOK, NoCursor
<1> QED
  BY <1>1, <1>2, ReceiveShape

LEMMA DeltaApplies ==
  ASSUME ShapeOK, pull.stage = "delta"
  PROVE  [r \in Row |-> IF r \in DOMAIN pull.rows THEN pull.rows[r] ELSE view[r]]
           \in [Row -> RowImage]
<1>1. pull.rows \in RowsRead /\ view \in [Row -> RowImage]
  BY DEF ShapeOK, RecordsOK, TypeOK, Pull
<1>2. PICK R \in SUBSET Row : pull.rows \in [R -> RowImage]
  BY <1>1 DEF RowsRead
<1> QED
  BY <1>1, <1>2

LEMMA ReceiveDeltaShape ==
  ASSUME ShapeOK, ReceiveDelta
  PROVE  ShapeOK'
<1>1. /\ view \in [Row -> RowImage] /\ cursor \in -1..MaxWrites /\ day \in Day
      /\ pull \in Pull /\ pull.upto \in -1..MaxWrites
  BY DEF ShapeOK, TypeOK, RecordsOK
<1>2. CASE pull.stale \/ saving # NoSave
  BY <1>1, <1>2, EndShape DEF ReceiveDelta
<1>3. CASE ~(pull.stale \/ saving # NoSave)
  <2>1. view' \in [Row -> RowImage] /\ cursor' \in -1..MaxWrites /\ day' \in Day
    BY <1>1, <1>3, DeltaApplies DEF ReceiveDelta
  <2>2. CASE ~pull.more
    BY <1>3, <2>1, <2>2, EndShape DEF ReceiveDelta
  <2>3. CASE pull.more
    <3>1. pull' = [NoPull EXCEPT !.stage = "floor", !.day = pull.day] /\ waiting' = waiting
      BY <1>3, <2>3 DEF ReceiveDelta
    <3>2. pull.day = day
      BY DEF ReceiveDelta, ShapeOK, PullOK
    <3>3. pull' \in Pull /\ pull'.stage = "floor" /\ pull'.day = day
      BY <1>1, <3>1, <3>2, NoPullType DEF Pull, Stages
    <3>4. cursor' # NoCursor
      BY <1>1, <1>3 DEF ReceiveDelta, ShapeOK, PullOK, NoCursor
    <3>5. PullOK'
      BY <1>1, <1>3, <3>3, <3>4 DEF PullOK, ReceiveDelta, NoCursor
    <3> QED
      BY <2>1, <3>1, <3>3, <3>5, ReceiveShape, <1>1 DEF ReceiveDelta, ShapeOK, TypeOK
  <2> QED
    BY <2>2, <2>3
<1> QED
  BY <1>2, <1>3

LEMMA ReceiveSnapshotShape ==
  ASSUME ShapeOK, ReceiveSnapshot
  PROVE  ShapeOK'
<1>1. /\ view \in [Row -> RowImage] /\ cursor \in -1..MaxWrites /\ day \in Day
      /\ pull \in Pull /\ pull.upto \in -1..MaxWrites
  BY DEF ShapeOK, TypeOK, RecordsOK
<1>2. CASE pull.stale
  BY <1>1, <1>2, EndShape DEF ReceiveSnapshot
<1>3. CASE ~pull.stale
  <2>1. pull.rows \in [Row -> RowImage]
    <3>1. PICK R \in SUBSET Row : pull.rows \in [R -> RowImage]
      BY <1>1 DEF Pull, RowsRead
    <3>2. DOMAIN pull.rows = Row
      BY DEF ReceiveSnapshot, ShapeOK, PullOK
    <3> QED
      BY <3>1, <3>2
  <2>2. pull.day \in Day
    BY DEF ReceiveSnapshot, ShapeOK, PullOK
  <2> QED
    BY <1>1, <1>3, <2>1, <2>2, EndShape DEF ReceiveSnapshot
<1> QED
  BY <1>2, <1>3

LEMMA FailShape ==
  ASSUME ShapeOK, Fail
  PROVE  ShapeOK'
<1>1. /\ view' \in [Row -> RowImage] /\ cursor' \in -1..MaxWrites /\ day' \in Day
  BY DEF Fail, ShapeOK, TypeOK
<1> QED
  BY <1>1, EndShape DEF Fail

LEMMA ShapeStep == ShapeOK /\ SaveFollowed /\ [Next]_vars => ShapeOK'
<1> SUFFICES ASSUME ShapeOK, SaveFollowed, [Next]_vars
             PROVE  ShapeOK'
  OBVIOUS
<1>1. CASE \E r \in Row, d \in Day \cup {Nowhere} : WriteElsewhere(r, d) \/ Save(r, d)
  BY <1>1, WriteElsewhereShape, SaveShape
<1>2. CASE \E x \in open : Commit(x) \/ Abort(x)
  BY <1>2, CommitShape, AbortShape
<1>3. CASE \E e \in events : Prune(e.seq)
  BY <1>3, PruneShape
<1>4. CASE \E d \in Day : LoadDay(d)
  BY <1>4, LoadDayShape
<1>5. CASE Saved \/ Notice \/ Fail
  BY <1>5, SavedShape, NoticeShape, FailShape
<1>6. CASE Answer
  BY <1>6, ReadFloorShape, ReadEventsShape, ReadRowsShape, ReceiveDeltaShape,
     ReadSnapshotShape, ReceiveSnapshotShape DEF Answer
<1>7. CASE UNCHANGED vars
  BY <1>7 DEF vars, server, tab, ShapeOK, TypeOK, RecordsOK, PullOK, VersionsOK, Named
<1> QED
  BY <1>1, <1>2, <1>3, <1>4, <1>5, <1>6, <1>7 DEF Next

-----------------------------------------------------------------------------
(***************************************************************************)
(* Numbers and writes.                                                     *)
(***************************************************************************)
LEMMA Types ==
  ASSUME ShapeOK
  PROVE  /\ seq \in Nat /\ floor \in Nat /\ cursor \in Int /\ pull.upto \in Int
         /\ \A e \in events : e \in Event /\ e.seq \in Nat \ {0} /\ e.row \in Row
         /\ \A x \in open : x \in OpenWrite /\ x.seq \in Nat \ {0} /\ x.row \in Row
         /\ \A e \in pull.page : e \in Event /\ e.seq \in Nat \ {0} /\ e.row \in Row
<1>1. /\ seq \in Nat /\ floor \in Nat /\ cursor \in Int /\ pull.upto \in Int
      /\ events \subseteq Event /\ open \subseteq OpenWrite /\ pull.page \subseteq Event
  BY Bounds DEF ShapeOK, TypeOK, RecordsOK, Pull, OpenWrite
<1>2. \A e \in Event : e.seq \in Nat \ {0} /\ e.row \in Row
  BY Bounds DEF Event
<1>3. \A x \in OpenWrite : x.seq \in Nat \ {0} /\ x.row \in Row
  BY Bounds DEF OpenWrite
<1> QED
  BY <1>1, <1>2, <1>3

LEMMA BeginNumbered ==
  ASSUME ShapeOK, NumbersOK, EventsTellRows, NEW r \in Row, NEW d, NEW own, Begin(r, d, own),
         cursor' = cursor, Reading' = Reading, pull'.upto = pull.upto,
         pull'.page = pull.page
  PROVE  NumbersOK' /\ EventsTellRows'
<1> DEFINE x == [seq |-> seq + 1, row |-> r, own |-> own,
                 new |-> [day |-> d, ver |-> row[r].ver + 1]]
<1>1. /\ open' = open \cup {x} /\ events' = events /\ row' = row /\ floor' = floor
      /\ seq' = seq + 1
      /\ \A y \in open : y.row # r
      /\ x.seq = seq + 1 /\ x.row = r
  BY DEF Begin
<1> HIDE DEF x
<1>2. EventsTellRows'
  BY <1>1 DEF EventsTellRows
<1>3. floor' <= seq' /\ cursor' <= seq' /\ (Reading' => pull'.upto <= seq')
  BY <1>1, Types DEF NumbersOK
<1>4. \A e \in events' : floor' < e.seq /\ e.seq <= seq'
  BY <1>1, Types DEF NumbersOK
<1>5. \A y \in open' : floor' < y.seq /\ y.seq <= seq'
  BY <1>1, Types DEF NumbersOK
<1>6. \A y, z \in open' : y.seq = z.seq \/ y.row = z.row => y = z
  <2>1. \A y \in open : y.seq # x.seq /\ y.row # x.row
    BY <1>1, Types DEF NumbersOK
  <2> QED
    BY <1>1, <2>1 DEF NumbersOK
<1>7. \A e \in events', y \in open' : e.seq # y.seq /\ (e.row = y.row => e.seq < y.seq)
  BY <1>1, Types DEF NumbersOK
<1>8. \A y \in open' : y.seq # cursor' /\ (Reading' => y.seq # pull'.upto)
  BY <1>1, Types DEF NumbersOK
<1> QED
  BY <1>1, <1>2, <1>3, <1>4, <1>5, <1>6, <1>7, <1>8 DEF NumbersOK

\* What a commit does to the rows, the events and the open writes.
LEMMA CommitFacts ==
  ASSUME ShapeOK, NumbersOK, NEW x \in open, Commit(x)
  PROVE  \E e \in events' :
           /\ e.seq = x.seq /\ e.row = x.row /\ (e.gone <=> x.new.day = Nowhere)
           /\ events' = events \cup {e}
           /\ \A f \in events : f.seq # e.seq /\ (f.row = e.row => f.seq < e.seq)
           /\ open' = open \ {x}
           /\ x.row \in Row /\ row'[x.row] = x.new
           /\ \A r \in Row : r # x.row => row'[r] = row[r]
<1> DEFINE e == [seq |-> x.seq, row |-> x.row, gone |-> x.new.day = Nowhere]
<1>1. events' = events \cup {e} /\ e.seq = x.seq /\ e.row = x.row
      /\ (e.gone <=> x.new.day = Nowhere)
  BY DEF Commit
<1> HIDE DEF e
<1>2. \A f \in events : f.seq # e.seq /\ (f.row = e.row => f.seq < e.seq)
  BY <1>1 DEF NumbersOK
<1>3. x.row \in Row /\ row \in [Row -> RowImage]
  BY Types DEF ShapeOK, TypeOK
<1>4. row' = [row EXCEPT ![x.row] = x.new] /\ open' = open \ {x}
  BY DEF Commit
<1>5. row'[x.row] = x.new /\ \A r \in Row : r # x.row => row'[r] = row[r]
  BY <1>3, <1>4
<1> QED
  BY <1>1, <1>2, <1>3, <1>4, <1>5

LEMMA CommitNumbered ==
  ASSUME ShapeOK, NumbersOK, EventsTellRows, NEW x \in open, Commit(x)
  PROVE  NumbersOK' /\ EventsTellRows'
<1>1. PICK e \in events' :
        /\ e.seq = x.seq /\ e.row = x.row /\ (e.gone <=> x.new.day = Nowhere)
        /\ events' = events \cup {e}
        /\ \A f \in events : f.seq # e.seq /\ (f.row = e.row => f.seq < e.seq)
        /\ open' = open \ {x}
        /\ x.row \in Row /\ row'[x.row] = x.new
        /\ \A r \in Row : r # x.row => row'[r] = row[r]
  BY CommitFacts
<1>2. UNCHANGED <<seq, floor, cursor, pull>>
  BY DEF Commit
<1>3. \A y \in open' : y \in open /\ y.seq # x.seq /\ y.row # x.row
  BY <1>1 DEF NumbersOK
<1>4. NumbersOK'
  <2>1. \A f, g \in events' : f.seq = g.seq => f = g
    BY <1>1 DEF NumbersOK
  <2>2. \A f \in events', y \in open' : f.seq # y.seq /\ (f.row = y.row => f.seq < y.seq)
    BY <1>1, <1>3 DEF NumbersOK
  <2>3. \A f \in events' : floor' < f.seq /\ f.seq <= seq'
    BY <1>1, <1>2 DEF NumbersOK
  <2> QED
    BY <1>1, <1>2, <1>3, <2>1, <2>2, <2>3 DEF NumbersOK, Reading
<1>5. EventsTellRows'
  <2> SUFFICES ASSUME NEW f \in events', \A g \in events' : g.row = f.row => g.seq <= f.seq
               PROVE  f.gone <=> row'[f.row].day = Nowhere
    BY DEF EventsTellRows
  <2>1. CASE f = e
    BY <1>1, <2>1
  <2>2. CASE f # e
    <3>1. f \in events /\ f.row # e.row /\ f.row \in Row
      BY <1>1, <2>2, Types
    <3>2. f.gone <=> row[f.row].day = Nowhere
      BY <1>1, <3>1 DEF EventsTellRows
    <3> QED
      BY <1>1, <3>1, <3>2
  <2> QED
    BY <2>1, <2>2
<1> QED
  BY <1>4, <1>5

LEMMA AbortNumbered ==
  ASSUME ShapeOK, NumbersOK, EventsTellRows, NEW x \in open, Abort(x)
  PROVE  NumbersOK' /\ EventsTellRows'
BY DEF NumbersOK, EventsTellRows, Abort, tab, Reading

\* The prune takes the events up to a number, and the watermark goes there.
LEMMA PruneFacts ==
  ASSUME ShapeOK, NumbersOK, NEW e \in events, Prune(e.seq)
  PROVE  /\ floor' = e.seq /\ floor < floor' /\ floor' <= seq /\ floor' \in Nat
         /\ events' = {f \in events : f.seq > floor'}
         /\ UNCHANGED <<row, open, seq, cursor, view, day, saving, pull>>
<1>1. floor < e.seq /\ e.seq <= seq
  BY DEF NumbersOK
<1> QED
  BY <1>1, Types DEF Prune, tab

LEMMA PruneNumbered ==
  ASSUME ShapeOK, NumbersOK, EventsTellRows, NEW e \in events, Prune(e.seq)
  PROVE  NumbersOK' /\ EventsTellRows'
<1>1. /\ floor' = e.seq /\ floor' <= seq
      /\ events' = {f \in events : f.seq > floor'}
      /\ UNCHANGED <<row, open, seq, cursor, view, day, saving, pull>>
  BY PruneFacts
<1>2. \A y \in open : y.seq > floor'
  BY <1>1 DEF Prune
<1>3. \A f \in events' : f \in events /\ floor' < f.seq
  BY <1>1, Types
<1>4. NumbersOK'
  BY <1>1, <1>2, <1>3, Types DEF NumbersOK, Reading
<1>5. EventsTellRows'
  <2> SUFFICES ASSUME NEW f \in events', \A g \in events' : g.row = f.row => g.seq <= f.seq
               PROVE  f.gone <=> row'[f.row].day = Nowhere
    BY DEF EventsTellRows
  <2>1. \A g \in events : g.row = f.row => g.seq <= f.seq
    BY <1>1, <1>3, Types
  <2> QED
    BY <1>1, <1>3, <2>1 DEF EventsTellRows
<1> QED
  BY <1>4, <1>5

\* Number c is one that is no open write's.
Place(c) == c <= seq /\ \A x \in open : x.seq # c

\* The steps of the tab: the numbers it holds stay places.
LEMMA TabNumbered ==
  ASSUME NumbersOK, EventsTellRows,
         UNCHANGED <<row, events, open, seq, floor>>,
         Place(cursor'), Reading' => Place(pull'.upto),
         \A e, f \in pull'.page : e.seq = f.seq => e = f
  PROVE  NumbersOK' /\ EventsTellRows'
BY DEF NumbersOK, EventsTellRows, Place

LEMMA EndNumbered ==
  ASSUME ShapeOK, NumbersOK, EventsTellRows, End, day' \in Day, Place(cursor'),
         UNCHANGED server
  PROVE  NumbersOK' /\ EventsTellRows'
<1>1. pull'.page = {} /\ pull'.stage \in {"idle", "floor", "bootstrap"}
  BY EndType DEF ShapeOK
<1> QED
  BY <1>1, TabNumbered DEF server, Reading

\* The steps of the tab that touch neither a row nor a write.
TabStep ==
  \/ \E d \in Day : LoadDay(d)
  \/ Notice
  \/ Fail
  \/ Answer

LEMMA TabFrame ==
  ASSUME TabStep
  PROVE  UNCHANGED <<row, events, open, seq, floor, saving, overtaken>>
<1>1. CASE Answer
  BY <1>1 DEF Answer, ReadFloor, ReadEvents, ReadRows, ReceiveDelta, ReadSnapshot,
              ReceiveSnapshot, server
<1> QED
  BY <1>1 DEF TabStep, LoadDay, Notice, Fail, server

LEMMA ReadEventsNumbered ==
  ASSUME ShapeOK, NumbersOK, EventsTellRows, ReadEvents
  PROVE  NumbersOK' /\ EventsTellRows'
<1> DEFINE new  == {e \in events : e.seq > cursor}
           page == {e \in new : Cardinality({f \in new : f.seq < e.seq}) < PageLimit}
<1>1. /\ pull' = [pull EXCEPT !.stage = "rows", !.page = page, !.more = page # new,
                              !.upto = PageEnd(page, new)]
      /\ UNCHANGED <<server, cursor>>
  BY DEF ReadEvents
<1>2. page \subseteq new /\ new \subseteq events
  OBVIOUS
<1> HIDE DEF page
<1>3. pull'.page = page /\ pull'.upto = PageEnd(page, new)
  BY <1>1 DEF ShapeOK, RecordsOK, Pull
<1>4. Place(PageEnd(page, new))
  <2>1. CASE page = {}
    BY <1>2, <2>1, PageFacts DEF Place, NumbersOK
  <2>2. CASE page # {}
    <3>1. PICK f \in page : f.seq = PageEnd(page, new)
      BY <1>2, <2>2, PageFacts
    <3> QED
      BY <1>2, <3>1 DEF Place, NumbersOK
  <2> QED
    BY <2>1, <2>2
<1>5. Place(cursor)
  BY DEF Place, NumbersOK
<1>6. Place(cursor)' /\ Place(pull.upto)'
  BY <1>1, <1>3, <1>4, <1>5 DEF Place, server
<1> QED
  BY <1>1, <1>2, <1>3, <1>6 DEF NumbersOK, EventsTellRows, Place, server

LEMMA TabStepNumbered ==
  ASSUME ShapeOK, NumbersOK, EventsTellRows, TabStep
  PROVE  NumbersOK' /\ EventsTellRows'
<1>1. /\ UNCHANGED <<row, events, open, seq, floor>>
      /\ Place(cursor) /\ (Reading => Place(pull.upto))
      /\ \A e, f \in pull.page : e.seq = f.seq => e = f
  BY TabFrame DEF Place, NumbersOK
<1>2. ASSUME UNCHANGED cursor, pull'.page = {}, ~Reading'
      PROVE  NumbersOK' /\ EventsTellRows'
  BY <1>1, <1>2, TabNumbered
<1>3. ASSUME UNCHANGED cursor, pull'.page = pull.page, pull'.upto = pull.upto,
             Reading' => Reading
      PROVE  NumbersOK' /\ EventsTellRows'
  BY <1>1, <1>3, TabNumbered
<1>4. day \in Day /\ pull \in Pull
  BY DEF ShapeOK, TypeOK, RecordsOK
<1>5. ASSUME NEW d \in Day, LoadDay(d)
      PROVE  NumbersOK' /\ EventsTellRows'
  <2>1. CASE pull.stage = "idle"
    BY <1>2, <1>5, <2>1, StartedType DEF LoadDay, Reading
  <2>2. CASE pull.stage # "idle"
    BY <1>3, <1>5, <2>2 DEF LoadDay, Reading
  <2> QED
    BY <2>1, <2>2
<1>6. CASE Notice
  <2>1. CASE pull.stage = "idle"
    BY <1>2, <1>4, <1>6, <2>1, StartedType DEF Notice, Reading
  <2>2. CASE pull.stage # "idle"
    <3>1. pull' = [pull EXCEPT !.stale = TRUE] /\ cursor' = cursor
      BY <1>6, <2>2 DEF Notice
    <3> QED
      BY <1>3, <1>4, <3>1 DEF Reading, Pull
  <2> QED
    BY <2>1, <2>2
<1>7. CASE Fail
  BY <1>1, <1>4, <1>7, EndNumbered DEF Fail
<1>8. CASE ReadFloor
  <2>1. pull' = [pull EXCEPT !.stage = StageAfterFloor] /\ cursor' = cursor
        /\ StageAfterFloor \in {"bootstrap", "events"}
    BY <1>8 DEF ReadFloor, StageAfterFloor
  <2> QED
    BY <1>3, <1>4, <2>1 DEF Reading, Pull
<1>9. CASE ReadRows
  <2>1. pull' = [pull EXCEPT !.stage = "delta", !.rows = pull'.rows] /\ cursor' = cursor
        /\ pull.stage = "rows"
    BY <1>4, <1>9 DEF ReadRows, Pull
  <2> QED
    BY <1>3, <1>4, <2>1 DEF Reading, Pull
<1>10. CASE ReadSnapshot
  <2>1. /\ pull'.upto = 0 \/ \E e \in events : e.seq = pull'.upto
        /\ cursor' = cursor
    BY <1>10, ReadSnapshotShape DEF ReadSnapshot
  <2>2. Place(pull'.upto)
    BY <2>1, Types DEF Place, NumbersOK
  <2>3. pull'.page = pull.page
    BY <1>4, <1>10 DEF ReadSnapshot, Pull
  <2> QED
    BY <1>1, <2>1, <2>2, <2>3, TabNumbered
<1>11. CASE ReceiveDelta
  <2>1. CASE pull.stale \/ saving # NoSave \/ ~pull.more
    <3>1. Place(cursor') /\ End /\ day' \in Day /\ UNCHANGED server
      BY <1>1, <1>4, <1>11, <2>1 DEF ReceiveDelta, Reading
    <3> QED
      BY <3>1, EndNumbered
  <2>2. CASE ~(pull.stale \/ saving # NoSave \/ ~pull.more)
    <3>1. Place(cursor')
      BY <1>1, <1>11, <2>2 DEF ReceiveDelta, Reading
    <3>2. pull'.page = {} /\ ~Reading'
      BY <1>11, <2>2, NoPullType DEF ReceiveDelta, Reading, NoPull
    <3> QED
      BY <1>1, <3>1, <3>2, TabNumbered
  <2> QED
    BY <2>1, <2>2
<1>12. CASE ReceiveSnapshot
  <2>1. Place(cursor') /\ End /\ day' \in Day /\ UNCHANGED server
    BY <1>1, <1>4, <1>12 DEF ReceiveSnapshot, Reading, ShapeOK, PullOK
  <2> QED
    BY <2>1, EndNumbered
<1> QED
  BY <1>5, <1>6, <1>7, <1>8, <1>9, <1>10, <1>11, <1>12, ReadEventsNumbered DEF TabStep, Answer

LEMMA NumbersStep == ShapeOK /\ NumberedOK /\ [Next]_vars => NumbersOK' /\ EventsTellRows'
<1> SUFFICES ASSUME ShapeOK, NumbersOK, EventsTellRows, [Next]_vars
             PROVE  NumbersOK' /\ EventsTellRows'
  BY DEF NumberedOK
<1>1. ASSUME NEW r \in Row, NEW d \in Day \cup {Nowhere}, WriteElsewhere(r, d)
      PROVE  NumbersOK' /\ EventsTellRows'
  BY <1>1, BeginNumbered DEF WriteElsewhere, tab, Reading
<1>2. ASSUME NEW r \in Row, NEW d \in Day \cup {Nowhere}, Save(r, d)
      PROVE  NumbersOK' /\ EventsTellRows'
  <2>1. /\ pull'.stage = pull.stage /\ pull'.upto = pull.upto /\ pull'.page = pull.page
        /\ cursor' = cursor /\ Begin(r, d, TRUE)
    BY <1>2 DEF Save, ShapeOK, RecordsOK, Pull
  <2> QED
    BY <2>1, BeginNumbered DEF Reading
<1>3. CASE \E x \in open : Commit(x) \/ Abort(x)
  BY <1>3, CommitNumbered, AbortNumbered
<1>4. CASE \E e \in events : Prune(e.seq)
  BY <1>4, PruneNumbered
<1>5. CASE TabStep
  BY <1>5, TabStepNumbered
<1>6. CASE Saved \/ UNCHANGED vars
  BY <1>6 DEF Saved, vars, server, tab, NumbersOK, EventsTellRows, Reading
<1> QED
  BY <1>1, <1>2, <1>3, <1>4, <1>5, <1>6 DEF Next, TabStep

LEMMA SaveFollowedStep == ShapeOK /\ NumberedOK /\ [Next]_vars => SaveFollowed'
<1> SUFFICES ASSUME ShapeOK, NumbersOK, SaveFollowed, [Next]_vars
             PROVE  SaveFollowed'
  BY DEF NumberedOK
<1>1. ASSUME NEW r \in Row, NEW d \in Day \cup {Nowhere}, WriteElsewhere(r, d)
      PROVE  SaveFollowed'
  BY <1>1 DEF WriteElsewhere, tab, Begin, SaveFollowed
<1>2. ASSUME NEW r \in Row, NEW d \in Day \cup {Nowhere}, Save(r, d)
      PROVE  SaveFollowed'
  <2>1. \A x \in open : ~x.own
    BY <1>2 DEF Save, SaveFollowed
  <2>2. /\ saving' = [row |-> r, seq |-> seq + 1, answer |-> Absent]
        /\ \A x \in open' : x \in open \/ (x.row = r /\ x.seq = seq + 1)
    BY <1>2 DEF Save, Begin
  <2>3. saving' # NoSave
    BY <2>2, Types DEF NoSave
  <2> QED
    BY <2>1, <2>2, <2>3 DEF SaveFollowed
<1>3. ASSUME NEW x \in open, Commit(x)
      PROVE  SaveFollowed'
  <2>1. PICK e \in events' :
          /\ e.seq = x.seq /\ e.row = x.row /\ (e.gone <=> x.new.day = Nowhere)
          /\ events' = events \cup {e}
          /\ \A f \in events : f.seq # e.seq /\ (f.row = e.row => f.seq < e.seq)
          /\ open' = open \ {x}
          /\ x.row \in Row /\ row'[x.row] = x.new
          /\ \A r \in Row : r # x.row => row'[r] = row[r]
    BY <1>3, CommitFacts
  <2>2. saving \in SaveOf(Row) \cup {NoSave}
    BY DEF ShapeOK, RecordsOK
  <2>3. CASE x.own
    <3>1. saving # NoSave /\ saving.row = x.row /\ saving.seq = x.seq
      BY <2>3 DEF SaveFollowed
    <3>2. saving' = [saving EXCEPT !.answer = x.new]
      BY <1>3, <2>3 DEF Commit
    <3>3. saving'.row = x.row /\ saving'.seq = x.seq /\ saving'.answer = x.new
      BY <2>2, <3>1, <3>2 DEF SaveOf
    <3>4. \A y \in open' : ~y.own
      BY <2>1, <3>1 DEF SaveFollowed, NumbersOK
    <3> QED
      BY <2>1, <3>3, <3>4 DEF SaveFollowed
  <2>4. CASE ~x.own
    <3>1. saving' = saving
      BY <1>3, <2>4 DEF Commit
    <3>2. ASSUME saving # NoSave, saving.answer # Absent
          PROVE  \/ row'[saving.row] = saving.answer
                 \/ \E f \in events' : f.row = saving.row /\ f.seq > saving.seq
      <4>1. PICK g \in events : g.row = saving.row /\ g.seq = saving.seq
        BY <3>2 DEF SaveFollowed
      <4>2. CASE x.row = saving.row
        BY <2>1, <4>1, <4>2, Types
      <4>3. CASE x.row # saving.row
        <5>1. saving.row \in Row
          BY <2>2, <3>2 DEF SaveOf
        <5> QED
          BY <2>1, <3>2, <4>3, <5>1 DEF SaveFollowed
      <4> QED
        BY <4>2, <4>3
    <3> QED
      BY <2>1, <3>1, <3>2 DEF SaveFollowed
  <2> QED
    BY <2>3, <2>4
<1>4. ASSUME NEW x \in open, Abort(x)
      PROVE  SaveFollowed'
  BY <1>4 DEF Abort, tab, SaveFollowed
<1>5. ASSUME NEW e \in events, Prune(e.seq)
      PROVE  SaveFollowed'
  <2>1. /\ floor' = e.seq /\ floor' \in Nat
        /\ events' = {f \in events : f.seq > floor'}
        /\ UNCHANGED <<row, open, saving>>
    BY <1>5, PruneFacts
  <2>2. saving # NoSave => saving.seq > floor' /\ saving.seq \in Nat
    BY <1>5, <2>1, Bounds DEF Prune, ShapeOK, RecordsOK, SaveOf
  <2>3. \A f \in events : saving # NoSave /\ f.seq >= saving.seq => f \in events'
    BY <2>1, <2>2, Types
  <2> QED
    BY <2>1, <2>2, <2>3, Types DEF SaveFollowed
<1>6. CASE Saved
  BY <1>6 DEF Saved, server, SaveFollowed
<1>7. CASE TabStep
  BY <1>7, TabFrame DEF SaveFollowed
<1>8. CASE UNCHANGED vars
  BY <1>8 DEF vars, server, tab, SaveFollowed
<1> QED
  BY <1>1, <1>2, <1>3, <1>4, <1>5, <1>6, <1>7, <1>8 DEF Next, TabStep

-----------------------------------------------------------------------------
(***************************************************************************)
(* What the tab shows.                                                     *)
(***************************************************************************)
LEMMA NothingWritten ==
  ASSUME Honest,
         UNCHANGED <<row, events, floor, saving, overtaken, day, cursor, view, pull>>
  PROVE  Honest'
BY DEF Honest, ViewHonest, PageHonest, DeltaHonest, SnapshotHonest, InDoubt, Unpruned,
       Announced, LastTells, Named

LEMMA SaveHonest ==
  ASSUME ShapeOK, Honest, NEW r \in Row, NEW d, Save(r, d)
  PROVE  Honest'
<1>1. /\ saving = NoSave /\ saving'.row = r /\ saving' # NoSave
      /\ UNCHANGED <<row, events, floor, day, cursor, overtaken>>
  BY Types DEF Save, Begin, NoSave
<1>2. /\ pull'.stage = pull.stage /\ pull'.upto = pull.upto /\ pull'.day = pull.day
      /\ pull'.rows = pull.rows
      /\ pull.stage # "idle" => pull'.stale
  BY DEF Save, ShapeOK, RecordsOK, Pull
<1>3. \A s \in Row : s # r => view'[s] = view[s]
  BY DEF Save, ShapeOK, TypeOK
<1>4. ViewHonest'
  BY <1>1, <1>2, <1>3 DEF Honest, ViewHonest, InDoubt, Unpruned, Announced
<1>5. PageHonest' /\ DeltaHonest'
  BY <1>2 DEF PageHonest, DeltaHonest
<1>6. SnapshotHonest'
  BY <1>1, <1>2 DEF Honest, SnapshotHonest, Unpruned, Announced
<1> QED
  BY <1>4, <1>5, <1>6 DEF Honest

LEMMA CommitHonest ==
  ASSUME ShapeOK, NumbersOK, SaveFollowed, Honest, NEW x \in open, Commit(x)
  PROVE  Honest'
<1>1. PICK e \in events' :
        /\ e.seq = x.seq /\ e.row = x.row /\ (e.gone <=> x.new.day = Nowhere)
        /\ events' = events \cup {e}
        /\ \A f \in events : f.seq # e.seq /\ (f.row = e.row => f.seq < e.seq)
        /\ open' = open \ {x}
        /\ x.row \in Row /\ row'[x.row] = x.new
        /\ \A r \in Row : r # x.row => row'[r] = row[r]
  BY CommitFacts
<1>2. UNCHANGED <<floor, day, cursor, view, pull>>
  BY DEF Commit
<1>3. saving'.row = saving.row /\ (saving' = NoSave <=> saving = NoSave)
  <2>1. CASE x.own
    <3>1. saving' = [saving EXCEPT !.answer = x.new] /\ saving \in SaveOf(Row)
      BY <2>1 DEF Commit, SaveFollowed, ShapeOK, RecordsOK
    <3>2. saving'.row = saving.row /\ saving'.seq = saving.seq /\ saving.seq \in 1..MaxWrites
      BY <3>1 DEF SaveOf
    <3> QED
      BY <3>2, Bounds DEF NoSave
  <2>2. CASE ~x.own
    BY <2>2 DEF Commit
  <2> QED
    BY <2>1, <2>2
<1>4. overtaken \subseteq overtaken' /\ InDoubt \subseteq InDoubt'
  BY <1>3 DEF Commit, InDoubt
<1>5. \A r, c : Announced(r, c) => Announced(r, c)'
  BY <1>1 DEF Announced
<1>6. x.row \in Row \ overtaken' =>
        Announced(x.row, cursor)' /\ (Reading => Announced(x.row, pull.upto)')
  <2> SUFFICES ASSUME x.row \notin overtaken'
               PROVE  Announced(x.row, cursor)' /\ (Reading => Announced(x.row, pull.upto)')
    OBVIOUS
  <2>1. ~Passed(x.seq)
    BY DEF Commit
  <2>2. e.seq > cursor /\ (Reading => e.seq > pull.upto)
    BY <1>1, <2>1, Types DEF Passed, Reading, NumbersOK
  <2> QED
    BY <1>1, <1>2, <2>2 DEF Announced
<1>7. ViewHonest'
  BY <1>1, <1>2, <1>4, <1>5, <1>6 DEF Honest, ViewHonest, Unpruned, InDoubt
<1>8. PageHonest'
  BY <1>1, <1>2, <1>4, <1>5, <1>6 DEF Honest, PageHonest, LastTells, Unpruned, Reading, Named
<1>9. DeltaHonest'
  BY <1>1, <1>2, <1>4, <1>5, <1>6 DEF Honest, DeltaHonest, Unpruned, Reading
<1>10. SnapshotHonest'
  BY <1>1, <1>2, <1>4, <1>5, <1>6 DEF Honest, SnapshotHonest, Unpruned, Reading
<1> QED
  BY <1>7, <1>8, <1>9, <1>10 DEF Honest

\* Events after a number that is past the watermark survive the prune.
LEMMA PruneHonest ==
  ASSUME ShapeOK, NumbersOK, Honest, NEW e \in events, Prune(e.seq)
  PROVE  Honest'
<1>1. /\ floor' = e.seq /\ floor < floor' /\ floor' \in Nat
      /\ events' = {f \in events : f.seq > floor'}
      /\ UNCHANGED <<row, open, seq, cursor, view, day, saving, pull>>
  BY PruneFacts
<1>2. overtaken \subseteq overtaken' /\ InDoubt \subseteq InDoubt'
  BY <1>1 DEF Prune, InDoubt
<1>3. ASSUME NEW c \in Int, Unpruned(c)'
      PROVE  Unpruned(c) /\ \A r : Announced(r, c) => Announced(r, c)'
  <2>1. c > floor' /\ Unpruned(c)
    BY <1>1, <1>3, Types DEF Unpruned
  <2> QED
    BY <1>1, <2>1, Types DEF Announced
<1>4. ViewHonest'
  <2>1. CASE pull.stage # "events"
    BY <1>1, <1>2, <1>3, <2>1, Types DEF Honest, ViewHonest
  <2>2. CASE pull.stage = "events"
    <3>1. ASSUME NEW r \in Row \ InDoubt', Announced(r, cursor)
          PROVE  Announced(r, cursor)'
      <4>1. PICK f \in events : f.row = r /\ f.seq > cursor
        BY <3>1 DEF Announced
      <4>2. f \in events'
        <5> SUFFICES ASSUME f.seq <= floor'
                     PROVE  FALSE
          BY <1>1, Types
        <5>1. r \in overtaken'
          BY <1>1, <2>2, <4>1, Types DEF Prune
        <5> QED
          BY <3>1, <5>1 DEF InDoubt
      <4> QED
        BY <1>1, <4>1, <4>2 DEF Announced
    <3> QED
      BY <1>1, <1>2, <2>2, <3>1 DEF Honest, ViewHonest
  <2> QED
    BY <2>1, <2>2
<1>5. PageHonest'
  BY <1>1, <1>2, <1>3, Types DEF Honest, PageHonest, LastTells, Named
<1>6. DeltaHonest'
  BY <1>1, <1>2, <1>3, Types DEF Honest, DeltaHonest
<1>7. SnapshotHonest'
  BY <1>1, <1>2, <1>3, Types DEF Honest, SnapshotHonest
<1> QED
  BY <1>4, <1>5, <1>6, <1>7 DEF Honest

\* The acknowledged row is the one stored, or has a later event that is to come,
\* or one that the cursor has passed.
LEMMA SavedHonest ==
  ASSUME ShapeOK, SaveFollowed, Honest, Saved
  PROVE  Honest'
<1>0. saving \in SaveOf(Row)
  BY DEF Saved, ShapeOK, RecordsOK
<1>1. PICK r \in Row : saving.row = r /\ saving \in SaveOf(Row) /\ saving # NoSave
                      /\ saving.answer # Absent
  BY <1>0 DEF Saved, SaveOf
<1>2. /\ UNCHANGED <<row, events, floor, day, cursor, pull>>
      /\ saving' = NoSave /\ overtaken \subseteq overtaken'
  BY DEF Saved, server
<1>3. view'[r] = saving.answer /\ \A s \in Row : s # r => view'[s] = view[s]
  BY <1>1 DEF Saved, ShapeOK, TypeOK
<1>4. r \notin overtaken' => view'[r] = row'[r] \/ Announced(r, cursor)'
  <2> SUFFICES ASSUME r \notin overtaken', row[r] # saving.answer
               PROVE  Announced(r, cursor)'
    BY <1>2, <1>3
  <2>1. PICK f \in events : f.row = r /\ f.seq > saving.seq
    BY <1>1 DEF SaveFollowed
  <2>2. ~(saving.seq < f.seq /\ f.seq <= cursor)
    BY <1>1, <2>1 DEF Saved
  <2>3. f.seq > cursor
    <3>1. saving.seq \in Nat /\ f.seq \in Nat /\ cursor \in Int
      BY <1>1, Types, Bounds DEF SaveOf
    <3> QED
      BY <2>1, <2>2, <3>1
  <2> QED
    BY <1>2, <2>1, <2>3 DEF Announced
<1>5. ViewHonest'
  <2> SUFFICES ASSUME cursor # NoCursor, Unpruned(cursor) \/ pull.stage = "events",
                      NEW s \in Row \ overtaken', On(view'[s], day) # On(row[s], day)
               PROVE  Announced(s, cursor)'
    BY <1>2 DEF ViewHonest, InDoubt, Unpruned
  <2>1. CASE s = r
    BY <1>2, <1>4, <2>1
  <2>2. CASE s # r
    BY <1>1, <1>2, <1>3, <2>2 DEF Honest, ViewHonest, InDoubt, Announced
  <2> QED
    BY <2>1, <2>2
<1>6. PageHonest' /\ DeltaHonest'
  BY <1>1, <1>2 DEF PageHonest, DeltaHonest, ShapeOK, PullOK
<1>7. SnapshotHonest'
  BY <1>2 DEF Honest, SnapshotHonest, Unpruned, Announced
<1> QED
  BY <1>5, <1>6, <1>7 DEF Honest

\* A pull that starts or ends leaves what is shown as right as it was.
LEMMA ViewKept ==
  ASSUME Honest, UNCHANGED <<row, events, floor, saving, overtaken, day, cursor, view>>,
         pull'.stage = "events" => pull.stage = "events" \/ Unpruned(cursor)
  PROVE  ViewHonest'
BY DEF Honest, ViewHonest, InDoubt, Unpruned, Announced

LEMMA NothingRead ==
  ASSUME ~Reading'
  PROVE  PageHonest' /\ DeltaHonest' /\ SnapshotHonest'
BY DEF Reading, PageHonest, DeltaHonest, SnapshotHonest

LEMMA LoadDayHonest ==
  ASSUME ShapeOK, Honest, NEW d \in Day, LoadDay(d)
  PROVE  Honest'
<1>1. UNCHANGED <<row, events, floor, saving, overtaken, day, cursor, view>>
  BY DEF LoadDay, server
<1>2. CASE pull.stage = "idle"
  <2>1. pull'.stage \in {"idle", "floor", "bootstrap"}
    BY <1>2, StartedType DEF LoadDay
  <2> QED
    BY <1>1, <2>1, ViewKept, NothingRead DEF Honest, Reading
<1>3. CASE pull.stage # "idle"
  <2>1. pull' = pull
    BY <1>3 DEF LoadDay
  <2> QED
    BY <1>1, <2>1 DEF Honest, ViewHonest, PageHonest, DeltaHonest, SnapshotHonest, InDoubt,
       Unpruned, Announced, LastTells, Named
<1> QED
  BY <1>2, <1>3

LEMMA NoticeHonest ==
  ASSUME ShapeOK, Honest, Notice
  PROVE  Honest'
<1>1. UNCHANGED <<row, events, floor, saving, overtaken, day, cursor, view>>
  BY DEF Notice
<1>2. CASE pull.stage = "idle"
  <2>1. day \in Day
    BY DEF ShapeOK, TypeOK
  <2>2. pull'.stage \in {"idle", "floor", "bootstrap"}
    BY <1>2, <2>1, StartedType DEF Notice
  <2> QED
    BY <1>1, <2>2, ViewKept, NothingRead DEF Honest, Reading
<1>3. CASE pull.stage # "idle"
  <2>1. /\ pull'.stage = pull.stage /\ pull'.stale /\ pull'.upto = pull.upto
        /\ pull'.rows = pull.rows /\ pull'.day = pull.day
    BY <1>3 DEF Notice, ShapeOK, RecordsOK, Pull
  <2>2. SnapshotHonest'
    BY <1>1, <2>1 DEF Honest, SnapshotHonest, Unpruned, Announced
  <2> QED
    BY <1>1, <2>1, <2>2, ViewKept DEF Honest, PageHonest, DeltaHonest
<1> QED
  BY <1>2, <1>3

LEMMA FailHonest ==
  ASSUME ShapeOK, Honest, Fail
  PROVE  Honest'
<1>1. day' \in Day
  BY DEF Fail, ShapeOK, TypeOK
<1>2. pull'.stage \in {"idle", "floor", "bootstrap"}
  BY <1>1, EndType DEF Fail, ShapeOK
<1> QED
  BY <1>2, ViewKept, NothingRead DEF Fail, server, Honest, Reading

LEMMA ReadFloorHonest ==
  ASSUME ShapeOK, Honest, ReadFloor
  PROVE  Honest'
<1>1. pull'.stage = StageAfterFloor
  BY DEF ReadFloor, ShapeOK, RecordsOK, Pull
<1>2. pull'.stage = "events" => Unpruned(cursor)
  BY <1>1, Types DEF StageAfterFloor, Expired, Unpruned
<1>3. ~Reading'
  BY <1>1 DEF StageAfterFloor, Reading
<1> QED
  BY <1>2, <1>3, ViewKept, NothingRead DEF ReadFloor, server, Honest

\* A new event that is not on the page comes after all that are.
LEMMA PageIsFirst ==
  ASSUME ShapeOK, NEW new, NEW page, new \subseteq events,
         page = {e \in new : Cardinality({f \in new : f.seq < e.seq}) < PageLimit},
         NEW e \in new \ page, NEW f \in page
  PROVE  f.seq < e.seq
<1> SUFFICES ASSUME ~(f.seq < e.seq)
             PROVE  FALSE
  OBVIOUS
<1> DEFINE Before(g) == {h \in new : h.seq < g.seq}
<1>1. IsFiniteSet(new)
  BY FS_Subset DEF ShapeOK, RecordsOK
<1>2. Before(e) \subseteq Before(f)
  BY Types
<1>3. Before(f) \subseteq new
  OBVIOUS
<1>4. IsFiniteSet(Before(f))
  BY <1>1, <1>3, FS_Subset
<1>5. IsFiniteSet(Before(e)) /\ Cardinality(Before(e)) <= Cardinality(Before(f))
  BY <1>2, <1>4, FS_Subset
<1>6. Cardinality(Before(e)) \in Nat /\ Cardinality(Before(f)) \in Nat
  BY <1>4, <1>5, FS_CardinalityType
<1>7. Cardinality(Before(f)) < PageLimit
  OBVIOUS
<1>8. Cardinality(Before(e)) < PageLimit
  BY <1>5, <1>6, <1>7, Bounds
<1> QED
  BY <1>8

\* A set of events that has one of a row has a last one of that row.
LEMMA LastOfRow ==
  ASSUME ShapeOK, NEW page, page \subseteq Event, NEW r, \E e \in page : e.row = r
  PROVE  \E f \in page : f.row = r /\ \A g \in page : g.row = r => g.seq <= f.seq
<1> DEFINE S == {e.seq : e \in {f \in page : f.row = r}}
<1>1. S \subseteq 1..MaxWrites /\ S # {}
  BY DEF Event
<1>2. IsFiniteSet(S) /\ S \in SUBSET Int
  BY <1>1, NumbersFinite
<1>3. Max(S) \in S /\ \A n \in S : Max(S) >= n
  BY <1>1, <1>2, MaxBounds
<1>4. PICK f \in page : f.row = r /\ f.seq = Max(S)
  BY <1>3
<1>5. \A g \in page : g.row = r => g.seq \in S
  OBVIOUS
<1>6. \A g \in page : g.row = r => g.seq <= f.seq
  BY <1>1, <1>3, <1>4, <1>5
<1> QED
  BY <1>4, <1>6

LEMMA ReadEventsHonest ==
  ASSUME ShapeOK, NumbersOK, EventsTellRows, Honest, ReadEvents
  PROVE  Honest'
<1> DEFINE new  == {e \in events : e.seq > cursor}
           page == {e \in new : Cardinality({f \in new : f.seq < e.seq}) < PageLimit}
           end  == PageEnd(page, new)
<1>1. /\ pull' = [pull EXCEPT !.stage = "rows", !.page = page, !.more = page # new,
                              !.upto = end]
      /\ UNCHANGED <<row, events, floor, saving, overtaken, day, cursor, view>>
      /\ pull.stage = "events"
  BY DEF ReadEvents, server
<1>2. page \subseteq new /\ new \subseteq events /\ page \subseteq Event
  BY DEF ShapeOK, TypeOK
<1>3. \A e \in new \ page, f \in page : f.seq < e.seq
  BY <1>2, PageIsFirst
<1> HIDE DEF page
<1>4. /\ page = {} => end = cursor
      /\ page # {} => /\ \E f \in page : f.seq = end
                      /\ \A f \in page : f.seq <= end
  BY <1>2, PageFacts
<1>5. /\ pull'.stage = "rows" /\ pull'.page = page /\ pull'.upto = end
      /\ pull'.stale = pull.stale
  BY <1>1 DEF ShapeOK, RecordsOK, Pull
<1>6. \A e \in new \ page : e.seq > end
  BY <1>2, <1>3, <1>4, Types
<1>7. ViewHonest'
  BY <1>1, <1>5, ViewKept
<1>8. ASSUME ~pull.stale, NEW r \in Row \ overtaken
      PROVE  /\ r \in Named(page) => LastTells(r, page) \/ Announced(r, end)
             /\ r \notin Named(page) =>
                  (On(view[r], day) # On(row[r], day) => Announced(r, end))
  <2>1. r \notin InDoubt /\ cursor # NoCursor
    BY <1>1, <1>8 DEF InDoubt, ShapeOK, PullOK
  <2>2. ASSUME r \in Named(page), ~Announced(r, end)
        PROVE  LastTells(r, page)
    <3>0. \E e \in page : e.row = r
      BY <2>2 DEF Named
    <3>a. \E f \in page : f.row = r /\ \A g \in page : g.row = r => g.seq <= f.seq
      BY <1>2, <3>0, LastOfRow
    <3>1. PICK f \in page : f.row = r /\ \A g \in page : g.row = r => g.seq <= f.seq
      BY <3>a
    <3>2. ASSUME NEW g \in events, g.row = r
          PROVE  g.seq <= f.seq
      <4>1. CASE g \in page
        BY <3>1, <3>2, <4>1
      <4>2. CASE g \in new \ page
        BY <1>6, <2>2, <3>2, <4>2 DEF Announced
      <4>3. CASE g \notin new
        BY <1>2, <4>3, Types
      <4> QED
        BY <1>2, <4>1, <4>2, <4>3
    <3>3. f.gone <=> row[r].day = Nowhere
      BY <1>2, <3>1, <3>2 DEF EventsTellRows
    <3> QED
      BY <3>1, <3>3 DEF LastTells
  <2>3. ASSUME r \notin Named(page), On(view[r], day) # On(row[r], day)
        PROVE  Announced(r, end)
    <3>1. PICK e \in events : e.row = r /\ e.seq > cursor
      BY <1>1, <2>1, <2>3 DEF Honest, ViewHonest, Announced
    <3>2. e \in new \ page
      BY <2>3, <3>1 DEF Named
    <3> QED
      BY <1>6, <3>1, <3>2 DEF Announced
  <2> QED
    BY <2>2, <2>3
<1>9. PageHonest'
  <2> HIDE DEF end
  <2>1. ASSUME NEW r
        PROVE  /\ Announced(r, pull.upto)' <=> Announced(r, end)
               /\ LastTells(r, pull.page)' <=> LastTells(r, page)
               /\ r \in Named(pull'.page) <=> r \in Named(page)
    BY <1>1, <1>5 DEF Announced, LastTells
  <2>2. UNCHANGED <<row, overtaken, day, view>>
    BY <1>1
  <2>3. ASSUME ~pull.stale, NEW r \in Row \ overtaken
        PROVE  /\ r \in Named(pull'.page) => LastTells(r, pull.page)' \/ Announced(r, pull.upto)'
               /\ r \notin Named(pull'.page) =>
                    (On(view[r], day) # On(row[r], day) => Announced(r, pull.upto)')
    BY <1>8, <2>1, <2>3
  <2> QED
    BY <1>5, <2>2, <2>3 DEF PageHonest, Named
<1>10. DeltaHonest' /\ SnapshotHonest'
  BY <1>5 DEF DeltaHonest, SnapshotHonest
<1> QED
  BY <1>7, <1>9, <1>10 DEF Honest

\* The rows read for a page: what is neither deleted nor on another day is taken
\* as it is, and what is left as deleted is, or has an event to come.
LEMMA ReadRowsHonest ==
  ASSUME ShapeOK, NumbersOK, Honest, ReadRows
  PROVE  Honest'
<1> DEFINE rows == [r \in Named(pull.page) |-> Projected(r, pull.page)]
<1>1. /\ pull' = [pull EXCEPT !.stage = "delta", !.rows = rows]
      /\ UNCHANGED <<row, events, floor, saving, overtaken, day, cursor, view>>
      /\ pull.stage = "rows"
  BY DEF ReadRows, server
<1>2. /\ pull'.stage = "delta" /\ pull'.rows = rows /\ pull'.upto = pull.upto
      /\ pull'.stale = pull.stale
  BY <1>1 DEF ShapeOK, RecordsOK, Pull
<1>3. day \in Day /\ pull.day = day
  BY <1>1 DEF ShapeOK, TypeOK, PullOK
<1>4. ASSUME NEW r \in Row \ overtaken, r \in Named(pull.page), ~pull.stale,
             Unpruned(pull.upto), ~Announced(r, pull.upto)
      PROVE  On(rows[r], day) = On(row[r], day)
  <2>1. PICK f \in pull.page :
          /\ f.row = r
          /\ \A g \in pull.page : g.row = r => g.seq <= f.seq
          /\ f.gone <=> row[r].day = Nowhere
    BY <1>1, <1>4 DEF Honest, PageHonest, LastTells
  <2>2. Latest(r, pull.page) = f.seq
    <3> DEFINE S == {e.seq : e \in {g \in pull.page : g.row = r}}
    <3>1. S \in SUBSET Int /\ f.seq \in S
      BY <2>1, Types
    <3>2. \A n \in S : f.seq >= n
      BY <2>1, Types
    <3> QED
      BY <3>1, <3>2, MaxIs DEF Latest
  <2>3. (\E e \in pull.page : e.row = r /\ e.seq = Latest(r, pull.page) /\ e.gone) <=> f.gone
    BY <2>1, <2>2 DEF NumbersOK
  <2>4. rows[r] = Projected(r, pull.page)
    BY <1>4
  <2>5. Absent.day = Nowhere /\ Nowhere # day
    BY <1>3, ConstantsAssumption DEF Absent
  <2> QED
    BY <1>3, <2>1, <2>3, <2>4, <2>5 DEF Projected, On
<1>5. ViewHonest'
  BY <1>1, <1>2, ViewKept
<1>6. DeltaHonest'
  <2> SUFFICES ASSUME ~pull.stale, Unpruned(pull.upto), NEW r \in Row \ overtaken,
                      On(IF r \in Named(pull.page) THEN rows[r] ELSE view[r], day)
                        # On(row[r], day)
               PROVE  Announced(r, pull.upto)
    BY <1>1, <1>2 DEF DeltaHonest, Announced, Unpruned
  <2>1. CASE r \in Named(pull.page)
    BY <1>4, <2>1
  <2>2. CASE r \notin Named(pull.page)
    BY <1>1, <2>2 DEF Honest, PageHonest
  <2> QED
    BY <2>1, <2>2
<1>7. PageHonest' /\ SnapshotHonest'
  BY <1>2 DEF PageHonest, SnapshotHonest
<1> QED
  BY <1>5, <1>6, <1>7 DEF Honest

\* An answer by events that is applied brings the tab to its upto.
LEMMA ReceiveDeltaHonest ==
  ASSUME ShapeOK, Honest, ReceiveDelta
  PROVE  Honest'
<1>0. pull.stage = "delta" /\ UNCHANGED <<row, events, floor, saving, overtaken, day>>
  BY DEF ReceiveDelta, server
<1>1. pull'.stage \in {"idle", "floor", "bootstrap"}
  <2>1. CASE End
    <3>1. day' \in Day
      BY <1>0 DEF ShapeOK, TypeOK
    <3> QED
      BY <2>1, <3>1, EndType DEF ShapeOK
  <2>2. CASE pull' = [NoPull EXCEPT !.stage = "floor", !.day = pull.day]
    BY <2>2 DEF NoPull
  <2> QED
    BY <2>1, <2>2 DEF ReceiveDelta
<1>2. CASE pull.stale \/ saving # NoSave
  BY <1>0, <1>1, <1>2, ViewKept, NothingRead DEF ReceiveDelta, Honest, Reading
<1>3. CASE ~(pull.stale \/ saving # NoSave)
  <2>1. /\ cursor' = pull.upto
        /\ view' = [r \in Row |-> IF r \in DOMAIN pull.rows THEN pull.rows[r] ELSE view[r]]
    BY <1>3 DEF ReceiveDelta
  <2>2. ASSUME Unpruned(cursor)', NEW r \in Row \ overtaken,
               On(view'[r], day) # On(row[r], day)
        PROVE  Announced(r, cursor)'
    <3>1. Unpruned(pull.upto)
      BY <1>0, <2>1, <2>2 DEF Unpruned
    <3>2. view'[r] = IF r \in DOMAIN pull.rows THEN pull.rows[r] ELSE view[r]
      BY <2>1
    <3>3. Announced(r, pull.upto)
      BY <1>0, <1>3, <2>2, <3>1, <3>2 DEF Honest, DeltaHonest
    <3> QED
      BY <1>0, <2>1, <3>3 DEF Announced
  <2>3. ViewHonest'
    BY <1>0, <1>1, <2>2 DEF ViewHonest, InDoubt
  <2> QED
    BY <1>1, <2>3, NothingRead DEF Honest, Reading
<1> QED
  BY <1>2, <1>3

\* A snapshot is right about every row, up to its last event.
LEMMA ReadSnapshotHonest ==
  ASSUME ShapeOK, Honest, ReadSnapshot
  PROVE  Honest'
<1>1. /\ pull'.stage = "snapshot" /\ pull'.day = pull.day
      /\ pull'.rows = [r \in Row |-> IF row[r].day = pull.day THEN row[r] ELSE Absent]
  BY ReadSnapshotShape
<1>2. UNCHANGED <<row, events, floor, saving, overtaken, day, cursor, view>>
  BY DEF ReadSnapshot, server
<1>3. pull.day # Nowhere
  BY ConstantsAssumption DEF ReadSnapshot, ShapeOK, PullOK
<1>4. ASSUME NEW r \in Row
      PROVE  On(pull'.rows[r], pull.day) = On(row[r], pull.day)
  <2>1. pull'.rows[r] = IF row[r].day = pull.day THEN row[r] ELSE Absent
    BY <1>1
  <2>2. Absent.day = Nowhere
    BY DEF Absent
  <2> QED
    BY <1>3, <2>1, <2>2 DEF On
<1>5. SnapshotHonest'
  BY <1>1, <1>2, <1>4 DEF SnapshotHonest
<1>6. ViewHonest'
  BY <1>1, <1>2, ViewKept
<1> QED
  BY <1>1, <1>5, <1>6 DEF Honest, PageHonest, DeltaHonest

\* A snapshot that is applied replaces all that is shown.
LEMMA ReceiveSnapshotHonest ==
  ASSUME ShapeOK, Honest, ReceiveSnapshot
  PROVE  Honest'
<1>0. pull.stage = "snapshot" /\ UNCHANGED <<row, events, floor, saving, overtaken>>
  BY DEF ReceiveSnapshot, server
<1>1. day' \in Day
  BY <1>0 DEF ReceiveSnapshot, ShapeOK, TypeOK, PullOK
<1>2. pull'.stage \in {"idle", "floor", "bootstrap"}
  BY <1>1, EndType DEF ReceiveSnapshot, ShapeOK
<1>3. CASE pull.stale
  BY <1>0, <1>2, <1>3, ViewKept, NothingRead DEF ReceiveSnapshot, Honest, Reading
<1>4. CASE ~pull.stale
  <2>1. day' = pull.day /\ cursor' = pull.upto /\ view' = pull.rows
    BY <1>4 DEF ReceiveSnapshot
  <2>2. ASSUME Unpruned(cursor)', NEW r \in Row \ overtaken,
               On(view'[r], day') # On(row[r], day')
        PROVE  Announced(r, cursor)'
    <3>1. Unpruned(pull.upto)
      BY <1>0, <2>1, <2>2 DEF Unpruned
    <3>2. Announced(r, pull.upto)
      BY <1>0, <2>1, <2>2, <3>1 DEF Honest, SnapshotHonest
    <3> QED
      BY <1>0, <2>1, <3>2 DEF Announced
  <2>3. ViewHonest'
    BY <1>0, <1>2, <2>2 DEF ViewHonest, InDoubt
  <2> QED
    BY <1>2, <2>3, NothingRead DEF Honest, Reading
<1> QED
  BY <1>3, <1>4

LEMMA HonestStep == ShapeOK /\ NumberedOK /\ Honest /\ [Next]_vars => Honest'
<1> SUFFICES ASSUME ShapeOK, NumbersOK, EventsTellRows, SaveFollowed, Honest, [Next]_vars
             PROVE  Honest'
  BY DEF NumberedOK
<1>1. ASSUME NEW r \in Row, NEW d \in Day \cup {Nowhere}, WriteElsewhere(r, d) \/ Save(r, d)
      PROVE  Honest'
  <2>1. CASE WriteElsewhere(r, d)
    BY <2>1, NothingWritten DEF WriteElsewhere, Begin, tab
  <2>2. CASE Save(r, d)
    BY <2>2, SaveHonest
  <2> QED
    BY <1>1, <2>1, <2>2
<1>2. ASSUME NEW x \in open, Commit(x) \/ Abort(x)
      PROVE  Honest'
  <2>1. CASE Commit(x)
    BY <2>1, CommitHonest
  <2>2. CASE Abort(x)
    BY <2>2, NothingWritten DEF Abort, tab
  <2> QED
    BY <1>2, <2>1, <2>2
<1>3. CASE \E e \in events : Prune(e.seq)
  BY <1>3, PruneHonest
<1>4. CASE \E d \in Day : LoadDay(d)
  BY <1>4, LoadDayHonest
<1>5. CASE Saved \/ Notice \/ Fail
  BY <1>5, SavedHonest, NoticeHonest, FailHonest
<1>6. CASE Answer
  BY <1>6, ReadFloorHonest, ReadEventsHonest, ReadRowsHonest, ReceiveDeltaHonest,
     ReadSnapshotHonest, ReceiveSnapshotHonest DEF Answer
<1>7. CASE UNCHANGED vars
  BY <1>7, NothingWritten DEF vars, server, tab
<1> QED
  BY <1>1, <1>2, <1>3, <1>4, <1>5, <1>6, <1>7 DEF Next

-----------------------------------------------------------------------------
(***************************************************************************)
(* The theorems.                                                           *)
(***************************************************************************)
LEMMA InitShape == Init => ShapeOK
<1> SUFFICES ASSUME Init
             PROVE  ShapeOK
  OBVIOUS
<1>1. [day |-> Home, ver |-> 1] \in RowImage
  BY ConstantsAssumption, Bounds DEF RowImage
<1>2. 0 \in 0..MaxWrites /\ NoCursor \in -1..MaxWrites /\ NoPull.upto = 0
  BY Bounds DEF NoCursor, NoPull
<1>3. /\ row \in [Row -> RowImage] /\ view \in [Row -> RowImage]
      /\ \A r \in Row : row[r].ver = 1
  BY <1>1, NoPullType DEF Init
<1>4. TypeOK
  <2>1. saving.row \in Row \cup {NoSave.row} /\ pull.stage \in Stages
    BY NoPullType DEF Init, Stages
  <2>2. pull.upto \in -1..MaxWrites /\ cursor \in -1..MaxWrites
    BY <1>2, Bounds DEF Init
  <2>3. day \in Day /\ waiting \in Day \cup {Nowhere} /\ news \in BOOLEAN
    BY ConstantsAssumption DEF Init
  <2> QED
    BY <1>2, <1>3, <2>1, <2>2, <2>3 DEF Init, TypeOK
<1>5. RecordsOK
  BY NoPullType, FS_EmptySet DEF Init, RecordsOK
<1>6. PullOK /\ VersionsOK
  BY <1>3, NoPullType DEF Init, PullOK, VersionsOK
<1> QED
  BY <1>4, <1>5, <1>6 DEF ShapeOK

LEMMA InitNumbered == Init => NumberedOK
BY NoPullType DEF Init, NumberedOK, NumbersOK, EventsTellRows, SaveFollowed, NoCursor, Reading

LEMMA InitHonest == Init => Honest
BY NoPullType DEF Init, Honest, ViewHonest, PageHonest, DeltaHonest, SnapshotHonest

\* The inductive invariant of the spec.
LEMMA Inductive == Spec => []IInv
<1>1. Init => IInv
  BY InitShape, InitNumbered, InitHonest DEF IInv
<1>2. IInv /\ [Next]_vars => IInv'
  BY ShapeStep, NumbersStep, SaveFollowedStep, HonestStep DEF IInv, NumberedOK
<1> QED
  BY <1>1, <1>2, PTL DEF Spec

\* Every variable keeps its shape: the cursor and the place a page brings it to
\* are the number of a write that there has been.
THEOREM TypeCorrect == Spec => []TypeOK
<1>1. IInv => TypeOK
  BY DEF IInv, ShapeOK
<1> QED
  BY <1>1, Inductive, PTL

\* NothingElseMissed: pages, deletions, moves between days, answers dropped and
\* pulls interrupted lose nothing that pullSyncChanges has not yet to pull.
THEOREM OnlyTheOvertakenMissed == Spec => []NothingElseMissed
<1>1. IInv => NothingElseMissed
  <2> SUFFICES ASSUME ShapeOK, ViewHonest, cursor # NoCursor, ~Expired,
                      NEW r \in Row \ (overtaken \cup {saving.row}),
                      Showing(r) # Expected(r)
               PROVE  \E e \in events : e.row = r /\ e.seq > cursor
    BY DEF IInv, Honest, NothingElseMissed
  <2>1. Unpruned(cursor)
    BY Types DEF Expired, Unpruned
  <2>2. r \in Row \ InDoubt
    BY DEF InDoubt
  <2>3. On(view[r], day) # On(row[r], day)
    BY DEF Showing, Expected, On
  <2> QED
    BY <2>1, <2>2, <2>3 DEF ViewHonest, Announced
<1> QED
  BY <1>1, Inductive, PTL

-----------------------------------------------------------------------------
(***************************************************************************)
(* Towards Converges: what the tab is owed, and the tab when nobody writes.*)
(***************************************************************************)
\* A save without an answer has its write open, and an answer is a row.
SaveOwed ==
  /\ \A x \in open : x.new # Absent
  /\ saving # NoSave /\ saving.answer = Absent => \E x \in open : x.own
  /\ troubles \in Nat

LEMMA SaveOwedStep == IInv /\ SaveOwed /\ [Next]_vars => SaveOwed'
<1> SUFFICES ASSUME ShapeOK, NumberedOK, SaveOwed, [Next]_vars
             PROVE  SaveOwed'
  BY DEF IInv
<1>1. ASSUME NEW r \in Row, NEW d \in Day \cup {Nowhere}, NEW own \in BOOLEAN,
             Begin(r, d, own)
      PROVE  /\ \A x \in open' : x.new # Absent
             /\ open \subseteq open'
             /\ own => \E x \in open' : x.own
  <2> DEFINE x == [seq |-> seq + 1, row |-> r, own |-> own,
                   new |-> [day |-> d, ver |-> row[r].ver + 1]]
  <2>1. row[r].ver \in Nat
    BY Bounds DEF ShapeOK, TypeOK, RowImage
  <2>2. x.new.ver # 0 /\ x.own = own
    BY <2>1
  <2>3. open' = open \cup {x}
    BY <1>1 DEF Begin
  <2>4. x.new # Absent
    BY <2>2 DEF Absent
  <2> HIDE DEF x
  <2> QED
    BY <2>2, <2>3, <2>4 DEF SaveOwed
<1>2. ASSUME NEW r \in Row, NEW d \in Day \cup {Nowhere}, WriteElsewhere(r, d)
      PROVE  SaveOwed'
  BY <1>1, <1>2 DEF WriteElsewhere, SaveOwed, tab
<1>3. ASSUME NEW r \in Row, NEW d \in Day \cup {Nowhere}, Save(r, d)
      PROVE  SaveOwed'
  BY <1>1, <1>3 DEF Save, SaveOwed
<1>4. ASSUME NEW x \in open, Commit(x)
      PROVE  SaveOwed'
  <2>1. /\ open' = open \ {x} /\ troubles' = troubles /\ x.new # Absent
        /\ saving' = IF x.own THEN [saving EXCEPT !.answer = x.new] ELSE saving
    BY <1>4 DEF Commit, SaveOwed
  <2>2. CASE x.own
    <3>1. saving \in SaveOf(Row) \cup {NoSave}
      BY DEF ShapeOK, RecordsOK
    <3>2. saving'.answer = x.new
      BY <2>1, <2>2, <3>1 DEF SaveOf, NoSave
    <3> QED
      BY <2>1, <3>2 DEF SaveOwed
  <2>3. CASE ~x.own
    BY <2>1, <2>3 DEF SaveOwed
  <2> QED
    BY <2>2, <2>3
<1>5. ASSUME NEW x \in open, Abort(x)
      PROVE  SaveOwed'
  BY <1>5 DEF Abort, SaveOwed, tab
<1>6. ASSUME NEW e \in events, Prune(e.seq)
      PROVE  SaveOwed'
  BY <1>6 DEF Prune, SaveOwed, tab
<1>7. CASE \E d \in Day : LoadDay(d)
  BY <1>7 DEF LoadDay, SaveOwed, server
<1>8. CASE Saved
  BY <1>8 DEF Saved, SaveOwed, server
<1>9. CASE Notice \/ Fail
  BY <1>9 DEF Notice, Fail, SaveOwed, server
<1>10. CASE Answer
  BY <1>10 DEF Answer, ReadFloor, ReadEvents, ReadRows, ReceiveDelta, ReadSnapshot,
               ReceiveSnapshot, SaveOwed, server
<1>11. CASE UNCHANGED vars
  BY <1>11 DEF vars, server, tab, SaveOwed
<1> QED
  BY <1>2, <1>3, <1>4, <1>5, <1>6, <1>7, <1>8, <1>9, <1>10, <1>11 DEF Next

LEMMA SaveAlwaysOwed == Spec => []SaveOwed
<1>1. Init => SaveOwed
  BY DEF Init, SaveOwed
<1> QED
  BY <1>1, SaveOwedStep, Inductive, PTL DEF Spec

\* Nobody writes, the prune does not run and no request fails.
Quiet == UNCHANGED <<seq, open, troubles>>

\* No transaction is open and the tab has no write of its own.
Calm == open = {} /\ saving = NoSave

\* What still happens then: the tab pulls.
Turn == (\E d \in Day : LoadDay(d)) \/ Answer

LEMMA QuietNext ==
  ASSUME IInv, SaveOwed, open = {}, Next, Quiet
  PROVE  Turn \/ Saved \/ Notice
<1>1. seq' = seq /\ troubles' = troubles /\ seq \in Nat /\ troubles \in Nat
  BY Bounds DEF Quiet, IInv, ShapeOK, TypeOK, SaveOwed
<1>2. seq' # seq + 1 /\ troubles' # troubles + 1
  BY <1>1
<1>3. \A r \in Row, d \in Day \cup {Nowhere} : ~WriteElsewhere(r, d) /\ ~Save(r, d)
  BY <1>2 DEF WriteElsewhere, Save, Begin
<1>4. ~Fail /\ \A e \in events : ~Prune(e.seq)
  BY <1>2 DEF Fail, Prune
<1> QED
  BY <1>3, <1>4 DEF Next, Turn

\* A save that is confirmed is over, and no other follows.
LEMMA QuietSave ==
  ASSUME IInv, SaveOwed, open = {}, [Next]_vars, [Quiet]_vars
  PROVE  /\ open' = {}
         /\ saving = NoSave => saving' = NoSave
         /\ <<Saved>>_vars => saving' = NoSave
<1>1. CASE UNCHANGED vars
  BY <1>1 DEF vars, server, tab
<1>2. CASE Saved
  BY <1>2 DEF Saved, server
<1>3. CASE Notice
  BY <1>3 DEF Notice, Saved
<1>4. CASE Turn
  BY <1>4 DEF Turn, LoadDay, Answer, ReadFloor, ReadEvents, ReadRows, ReceiveDelta,
              ReadSnapshot, ReceiveSnapshot, server, Saved
<1> QED
  BY <1>1, <1>2, <1>3, <1>4, QuietNext

\* Nobody broadcasts, and what is left to do when no broadcast is on its way any
\* more, or the one that is never comes.
LEMMA QuietTurn ==
  ASSUME IInv, SaveOwed, Calm, [Next]_vars, [Quiet]_vars
  PROVE  /\ ~news => ~news'
         /\ news' = news => [Turn]_vars
<1>1. CASE UNCHANGED vars
  BY <1>1 DEF vars, server
<1>2. CASE Saved
  BY <1>2 DEF Saved, Calm
<1>3. CASE Notice
  BY <1>3 DEF Notice
<1>4. CASE Turn
  BY <1>4 DEF Turn, LoadDay, Answer, ReadFloor, ReadEvents, ReadRows, ReceiveDelta,
              ReadSnapshot, ReceiveSnapshot, server
<1> QED
  BY <1>1, <1>2, <1>3, <1>4, QuietNext DEF Calm

\* The goal: what the tab shows on its day is what it should show.
Right == \A r \in Row \ overtaken : Showing(r) = Expected(r)

\* The pull under way began when all this was so: nothing has made it stale, its
\* snapshot has the rows as they are, and a page of it brings the tab on unless the
\* tab has all the events.
Fresh ==
  /\ ~pull.stale
  /\ pull.stage = "snapshot" => \A r \in Row : On(pull.rows[r], pull.day) = On(row[r], pull.day)
  /\ pull.stage \in {"events", "rows", "delta"} => ~Expired
  /\ pull.stage \in {"rows", "delta"} =>
       \/ pull.upto > cursor
       \/ pull.upto = cursor /\ ~\E e \in events : e.seq > cursor

\* The stages that the tab leaves with the end of the pull.
Arrived == pull.stage \in {"delta", "snapshot"}

\* Of a set of events that is not empty, a page takes one at least.
LEMMA PageTakesOne ==
  ASSUME ShapeOK, NEW new, new \subseteq events, new # {}
  PROVE  {e \in new : Cardinality({f \in new : f.seq < e.seq}) < PageLimit} # {}
<1> DEFINE S == {0 - e.seq : e \in new}
<1>1. \A e \in new : e.seq \in Nat /\ e.seq <= MaxWrites
  BY Types DEF Event
<1>2. S \subseteq (0 - MaxWrites)..0 /\ S \in SUBSET Int /\ S # {}
  BY <1>1, Bounds
<1>b. IsFiniteSet((0 - MaxWrites)..0)
  <2>1. 0 - MaxWrites \in Int /\ 0 \in Int
    BY Bounds
  <2> QED
    BY <2>1, FS_Interval
<1>c. IsFiniteSet(S)
  BY <1>2, <1>b, FS_Subset
<1>3. Max(S) \in S /\ \A n \in S : Max(S) >= n
  <2> HIDE DEF S
  <2> QED
    BY <1>2, <1>c, MaxBounds
<1>4. PICK e \in new : Max(S) = 0 - e.seq
  BY <1>3
<1>a. \A f \in new : ~(f.seq < e.seq)
  <2> SUFFICES ASSUME NEW f \in new, f.seq < e.seq
               PROVE  FALSE
    OBVIOUS
  <2>1. Max(S) >= 0 - f.seq
    BY <1>3
  <2> QED
    BY <1>1, <1>4, <2>1
<1>5. {f \in new : f.seq < e.seq} = {}
  BY <1>a
<1>6. Cardinality({f \in new : f.seq < e.seq}) < PageLimit
  BY <1>5, FS_EmptySet, Bounds
<1> QED
  BY <1>6

\* A pull that has ended leaves one that is fresh, if any.
LEMMA EndIsFresh ==
  ASSUME ShapeOK, saving = NoSave, ReceiveDelta \/ ReceiveSnapshot
  PROVE  /\ ~pull'.stale
         /\ pull'.stage \in {"idle", "floor", "bootstrap"}
<1>1. \A d, shown, c : /\ ~Started(d, shown, c).stale
                       /\ Started(d, shown, c).stage \in {"idle", "floor", "bootstrap"}
  BY NoPullType DEF Started, NoPull
<1>2. CASE End
  BY <1>1, <1>2, NoPullType DEF End
<1>3. CASE pull' = [NoPull EXCEPT !.stage = "floor", !.day = pull.day]
  BY <1>3, NoPullType DEF NoPull
<1> QED
  BY <1>2, <1>3 DEF ReceiveDelta, ReceiveSnapshot

\* A pull goes through its stages, and a tab without one starts one.
LEMMA TurnStages ==
  ASSUME IInv, Calm, [Turn]_vars
  PROVE  /\ pull.stage = "idle" => pull'.stage \in {"idle", "floor", "bootstrap"}
         /\ pull.stage = "floor" => pull'.stage \in {"floor", "events", "bootstrap"}
         /\ pull.stage = "events" => pull'.stage \in {"events", "rows"}
         /\ pull.stage = "rows" => pull'.stage \in {"rows", "delta"}
         /\ pull.stage = "bootstrap" => pull'.stage \in {"bootstrap", "snapshot"}
         /\ pull.stage = "idle" /\ <<LoadDay(day)>>_vars => pull'.stage # "idle"
         /\ pull.stage # "idle" /\ <<Answer>>_vars => pull'.stage # pull.stage
<1>1. pull \in Pull /\ day \in Day /\ saving = NoSave
  BY DEF IInv, ShapeOK, RecordsOK, TypeOK, Calm
<1>2. \A d, shown, c : Started(d, shown, c).stage \in {"floor", "bootstrap"}
  BY <1>1, NoPullType DEF Started, NoPull
<1>3. \A d \in Day : LoadDay(d) => IF pull.stage = "idle" THEN pull'.stage \in {"floor", "bootstrap"}
                                                       ELSE pull' = pull
  BY <1>2 DEF LoadDay
<1>4. ReadFloor => pull.stage = "floor" /\ pull'.stage \in {"events", "bootstrap"}
  BY <1>1 DEF ReadFloor, StageAfterFloor, Pull
<1>5. ReadEvents => pull.stage = "events" /\ pull'.stage = "rows"
  BY <1>1 DEF ReadEvents, Pull
<1>6. ReadRows => pull.stage = "rows" /\ pull'.stage = "delta"
  BY <1>1 DEF ReadRows, Pull
<1>7. ReadSnapshot => pull.stage = "bootstrap" /\ pull'.stage = "snapshot"
  BY <1>1 DEF ReadSnapshot, Pull
<1>8. ReceiveDelta \/ ReceiveSnapshot =>
        /\ pull.stage \in {"delta", "snapshot"}
        /\ pull'.stage \in {"idle", "floor", "bootstrap"}
  BY <1>1, EndIsFresh DEF ReceiveDelta, ReceiveSnapshot, IInv
<1>9. CASE UNCHANGED vars
  BY <1>9 DEF vars, tab
<1>10. CASE \E d \in Day : LoadDay(d)
  <2>1. ~Answer \/ pull.stage # "idle" 
    BY <1>4, <1>5, <1>6, <1>7, <1>8 DEF Answer
  <2> QED
    BY <1>1, <1>3, <1>4, <1>5, <1>6, <1>7, <1>8, <1>10 DEF Answer
<1>11. CASE Answer
  BY <1>1, <1>3, <1>4, <1>5, <1>6, <1>7, <1>8, <1>11 DEF Answer
<1> QED
  BY <1>9, <1>10, <1>11 DEF Turn

\* While nobody writes a fresh pull stays so, and the next one is fresh.
LEMMA FreshStep ==
  ASSUME IInv, Calm, [Turn]_vars
  PROVE  /\ Fresh => Fresh'
         /\ Arrived => Arrived' \/ Fresh'
         /\ Arrived /\ <<Answer>>_vars => Fresh'
<1>1. /\ pull \in Pull /\ floor \in Nat /\ cursor \in Int /\ row \in [Row -> RowImage]
      /\ ShapeOK /\ saving = NoSave
  BY Types DEF IInv, ShapeOK, RecordsOK, TypeOK, Calm
<1>2. ASSUME ReceiveDelta \/ ReceiveSnapshot
      PROVE  Fresh'
  BY <1>1, <1>2, EndIsFresh DEF Fresh
<1>3. ASSUME NEW d \in Day, LoadDay(d)
      PROVE  (Fresh => Fresh') /\ (Arrived => Arrived')
  <2>1. CASE pull.stage = "idle"
    <3>1. /\ ~Started(d, day, cursor).stale
          /\ Started(d, day, cursor).stage \in {"floor", "bootstrap"}
      BY <1>1, NoPullType DEF Started, NoPull
    <3> QED
      BY <1>3, <2>1, <3>1 DEF LoadDay, Fresh, Arrived
  <2>2. CASE pull.stage # "idle"
    BY <1>3, <2>2 DEF LoadDay, Fresh, Arrived, server, Expired
  <2> QED
    BY <2>1, <2>2
<1>4. ASSUME ReadFloor
      PROVE  (Fresh => Fresh') /\ ~Arrived
  <2>1. pull'.stale = pull.stale /\ pull'.stage = StageAfterFloor
    BY <1>1, <1>4 DEF ReadFloor, Pull
  <2>2. Expired' = Expired
    BY <1>4 DEF ReadFloor, server, Expired
  <2> QED
    BY <1>4, <2>1, <2>2 DEF ReadFloor, Fresh, StageAfterFloor, Arrived
<1>5. ASSUME ReadEvents
      PROVE  (Fresh => Fresh') /\ ~Arrived
  <2> DEFINE new  == {e \in events : e.seq > cursor}
             page == {e \in new : Cardinality({f \in new : f.seq < e.seq}) < PageLimit}
  <2>1. /\ pull.stage = "events"
        /\ pull' = [pull EXCEPT !.stage = "rows", !.page = page, !.more = page # new,
                                !.upto = PageEnd(page, new)]
        /\ UNCHANGED <<events, floor, cursor>>
    BY <1>5 DEF ReadEvents, server
  <2>2. new # {} => page # {}
    BY <1>1, PageTakesOne
  <2>3. page \subseteq new /\ new \subseteq events
    OBVIOUS
  <2>4. \A e \in page : e.seq > cursor /\ e.seq \in Nat
    BY <1>1, Types
  <2> HIDE DEF page
  <2>5. /\ PageEnd(page, new) \in -1..MaxWrites
        /\ page = {} => PageEnd(page, new) = cursor
        /\ page # {} => \E f \in page : f.seq = PageEnd(page, new)
    BY <1>1, <2>3, PageFacts
  <2>6. \/ PageEnd(page, new) > cursor
        \/ PageEnd(page, new) = cursor /\ ~\E e \in events : e.seq > cursor
    BY <2>2, <2>4, <2>5
  <2> HIDE DEF new
  <2>7. pull'.stale = pull.stale /\ pull'.stage = "rows" /\ pull'.upto = PageEnd(page, new)
    BY <1>1, <2>1 DEF Pull
  <2> QED
    BY <2>1, <2>6, <2>7 DEF Fresh, Expired, Arrived
<1>6. ASSUME ReadRows
      PROVE  (Fresh => Fresh') /\ ~Arrived
  <2>1. pull'.stale = pull.stale /\ pull'.stage = "delta" /\ pull'.upto = pull.upto
    BY <1>1, <1>6 DEF ReadRows, Pull
  <2> QED
    BY <1>6, <2>1 DEF ReadRows, Fresh, Expired, server, Arrived
<1>7. ASSUME ReadSnapshot
      PROVE  (Fresh => Fresh') /\ ~Arrived
  <2>1. /\ pull'.stale = pull.stale /\ pull'.stage = "snapshot" /\ pull'.day = pull.day
        /\ pull'.rows = [r \in Row |-> IF row[r].day = pull.day THEN row[r] ELSE Absent]
    BY <1>1, <1>7 DEF ReadSnapshot, Pull
  <2>2. pull.day # Nowhere
    BY <1>1, <1>7, ConstantsAssumption DEF ReadSnapshot, ShapeOK, PullOK
  <2>3. \A r \in Row : On(pull'.rows[r], pull'.day) = On(row[r], pull'.day)
    BY <2>1, <2>2 DEF On, Absent
  <2> QED
    BY <1>7, <2>1, <2>3 DEF ReadSnapshot, Fresh, server, Arrived
<1>8. CASE UNCHANGED vars
  BY <1>8 DEF vars, server, tab, Fresh, Expired, Arrived
<1>9. CASE \E d \in Day : LoadDay(d)
  <2>1. Arrived /\ Answer => ReceiveDelta \/ ReceiveSnapshot
    BY <1>4, <1>5, <1>6, <1>7 DEF Answer
  <2> QED
    BY <1>2, <1>3, <1>9, <2>1
<1>10. CASE Answer
  BY <1>2, <1>4, <1>5, <1>6, <1>7, <1>10 DEF Answer
<1> QED
  BY <1>8, <1>9, <1>10 DEF Turn

\* A fresh pull that is applied, unless it is a page which brings the tab on, leaves
\* the view right, and nothing else touches the view.
LEMMA RightStep ==
  ASSUME IInv, IInv', Calm, Fresh, [Turn]_vars, [cursor' <= cursor]_vars
  PROVE  /\ Right => Right'
         /\ Arrived => Arrived' \/ Right'
         /\ Arrived /\ <<Answer>>_vars => Right'
<1>1. /\ pull \in Pull /\ floor \in Nat /\ cursor \in Int /\ pull.upto \in Int
      /\ ShapeOK /\ saving = NoSave
  BY Types DEF IInv, ShapeOK, RecordsOK, Calm
<1>2. ASSUME ReceiveSnapshot
      PROVE  Right'
  <2>1. /\ view' = pull.rows /\ day' = pull.day
        /\ row' = row /\ overtaken' = overtaken
    BY <1>2 DEF ReceiveSnapshot, Fresh, server
  <2>2. \A r \in Row : On(pull.rows[r], pull.day) = On(row[r], pull.day)
    BY <1>2 DEF ReceiveSnapshot, Fresh
  <2> QED
    BY <2>1, <2>2 DEF Right, Showing, Expected, On
<1>3. ASSUME ReceiveDelta, ~UNCHANGED vars
      PROVE  Right'
  <2>1. /\ pull.stage = "delta" /\ ~pull.stale
        /\ cursor' = pull.upto
        /\ UNCHANGED <<events, floor, saving, row, day, overtaken>>
    BY <1>1, <1>3 DEF ReceiveDelta, Fresh, server
  <2>2. cursor' <= cursor
    BY <1>3
  <2>3. pull.upto = cursor /\ ~\E e \in events : e.seq > cursor
    BY <1>1, <2>1, <2>2 DEF Fresh
  <2>4. ~Expired /\ cursor # NoCursor
    BY <1>1, <2>1 DEF Fresh, ShapeOK, PullOK
  <2>5. cursor' # NoCursor /\ Unpruned(cursor)' /\ InDoubt' = overtaken
    BY <1>1, <2>1, <2>3, <2>4 DEF Expired, Unpruned, InDoubt
  <2>6. \A r \in Row : ~Announced(r, cursor)'
    BY <2>1, <2>3 DEF Announced
  <2>7. \A r \in Row \ overtaken : On(view'[r], day') = On(row'[r], day')
    BY <2>5, <2>6 DEF IInv, Honest, ViewHonest
  <2> QED
    BY <2>1, <2>7 DEF Right, Showing, Expected, On
<1>4. ASSUME ReadFloor \/ ReadEvents \/ ReadRows \/ ReadSnapshot
      PROVE  (Right => Right') /\ ~Arrived
  BY <1>4 DEF ReadFloor, ReadEvents, ReadRows, ReadSnapshot, server, Right, Showing, Expected,
              Arrived
<1>5. ASSUME NEW d \in Day, LoadDay(d)
      PROVE  (Right => Right') /\ (Arrived => Arrived')
  BY <1>5 DEF LoadDay, server, Right, Showing, Expected, Arrived
<1>6. CASE UNCHANGED vars
  BY <1>6 DEF vars, server, tab, Right, Showing, Expected, Arrived
<1>7. CASE ~UNCHANGED vars
  <2>1. Arrived /\ Answer => Right'
    BY <1>2, <1>3, <1>4, <1>7 DEF Answer
  <2>2. CASE \E d \in Day : LoadDay(d)
    BY <1>5, <2>1, <2>2
  <2>3. CASE Answer
    BY <1>2, <1>3, <1>4, <1>7, <2>1, <2>3 DEF Answer
  <2> QED
    BY <1>7, <2>2, <2>3 DEF Turn
<1> QED
  BY <1>6, <1>7

-----------------------------------------------------------------------------
(***************************************************************************)
(* What the fair steps come to.                                            *)
(***************************************************************************)
\* The fair steps can run while these guards hold: ENABLED is beyond the provers, so
\* that this is a hypothesis of the theorem below.
CanRun ==
  /\ open # {} => ENABLED <<\E x \in open : Commit(x)>>_vars
  /\ saving # NoSave /\ saving.answer # Absent => ENABLED <<Saved>>_vars
  /\ pull.stage # "idle" => ENABLED <<Answer>>_vars
  /\ pull.stage = "idle" /\ saving = NoSave => ENABLED <<LoadDay(day)>>_vars

\* The writes and the troubles are over, and no page brings the tab on any more.
Settling ==
  FairSpec /\ []CanRun /\ <>[][Quiet]_vars /\ <>[][cursor' <= cursor]_vars

\* The transactions that are open end, and then the tab's own write is confirmed.
LEMMA CalmAtLast == Settling => <>[](IInv /\ SaveOwed /\ Calm)
<1> DEFINE Closed == open = {}
           Kept   == saving = NoSave
<1>1. [Quiet]_vars => ~<<\E x \in open : Commit(x)>>_vars
  BY DEF Quiet, Commit
<1>2. /\ Closed /\ [Quiet]_vars => Closed'
      /\ ~Closed => open # {}
  BY DEF Quiet, vars, server
<1>3. IInv /\ SaveOwed /\ Closed /\ [Next]_vars /\ [Quiet]_vars =>
        (Kept => Kept') /\ (<<Saved>>_vars => Kept')
  BY QuietSave
<1>4. SaveOwed /\ Closed /\ ~Kept => saving # NoSave /\ saving.answer # Absent
  BY DEF SaveOwed
<1>5. Closed /\ Kept => Calm
  BY DEF Calm
<1> HIDE DEF Closed, Kept
<1>6. Settling => <>[]Closed
  BY <1>1, <1>2, PTL DEF Settling, FairSpec, CanRun
<1> QED
  BY <1>3, <1>4, <1>5, <1>6, Inductive, SaveAlwaysOwed, PTL
  DEF Settling, FairSpec, Spec, CanRun

\* A broadcast that is on its way arrives, or is never heard of.
LEMMA TurnsAtLast == Settling => <>[][Turn]_vars
<1>1. IInv /\ IInv' /\ SaveOwed /\ Calm /\ [Next]_vars /\ [Quiet]_vars =>
        (~news => ~news') /\ ((news' <=> news) => [Turn]_vars)
  <2>1. IInv /\ IInv' /\ (news' <=> news) => news' = news
    BY DEF IInv, ShapeOK, TypeOK
  <2> QED
    BY <2>1, QuietTurn
<1> QED
  BY <1>1, CalmAtLast, PTL DEF Settling, FairSpec, Spec

\* Again and again an answer is on its way to the tab.
LEMMA ArrivesAgain == Settling => []<>Arrived
<1> DEFINE At(s) == pull.stage = s
<1>1. IInv /\ Calm /\ [Turn]_vars =>
        /\ At("idle") => At("idle")' \/ At("floor")' \/ At("bootstrap")'
        /\ At("floor") => At("floor")' \/ At("events")' \/ At("bootstrap")'
        /\ At("events") => At("events")' \/ At("rows")'
        /\ At("rows") => At("rows")' \/ Arrived'
        /\ At("bootstrap") => At("bootstrap")' \/ Arrived'
        /\ At("idle") /\ <<LoadDay(day)>>_vars => ~At("idle")'
        /\ At("floor") /\ <<Answer>>_vars => ~At("floor")'
        /\ At("events") /\ <<Answer>>_vars => ~At("events")'
        /\ At("rows") /\ <<Answer>>_vars => ~At("rows")'
        /\ At("bootstrap") /\ <<Answer>>_vars => ~At("bootstrap")'
  BY TurnStages DEF Arrived
<1>2. IInv /\ ~Arrived =>
        At("idle") \/ At("floor") \/ At("events") \/ At("rows") \/ At("bootstrap")
  BY DEF IInv, ShapeOK, TypeOK, Stages, Arrived
<1>3. CanRun /\ Calm =>
        /\ At("idle") => ENABLED <<LoadDay(day)>>_vars
        /\ At("floor") \/ At("events") \/ At("rows") \/ At("bootstrap") =>
             ENABLED <<Answer>>_vars
  BY DEF CanRun, Calm
<1> HIDE DEF At
<1> QED
  BY <1>1, <1>2, <1>3, CalmAtLast, TurnsAtLast, PTL DEF Settling, FairSpec

\* The answer is handled, and the pull that follows it is fresh, and so are all.
LEMMA FreshAtLast == Settling => <>[]Fresh
<1>1. IInv /\ Calm /\ [Turn]_vars =>
        /\ Fresh => Fresh'
        /\ Arrived => Arrived' \/ Fresh'
        /\ Arrived /\ <<Answer>>_vars => Fresh'
  BY FreshStep
<1>2. CanRun /\ Arrived => ENABLED <<Answer>>_vars
  BY DEF CanRun, Arrived
<1> QED
  BY <1>1, <1>2, CalmAtLast, TurnsAtLast, ArrivesAgain, PTL DEF Settling, FairSpec

\* Converges: once nobody writes, nothing fails and no page moves the cursor on,
\* pullSyncChanges leaves the tab with every row of its day that was not overtaken as
\* the server has it, however the days change, whatever answers were dropped before,
\* and also when the prune has left it nothing but snapshots.
THEOREM ConvergesAtLast ==
  FairSpec /\ []CanRun /\ <>[][Quiet]_vars /\ <>[][cursor' <= cursor]_vars => Converges
<1>1. IInv /\ IInv' /\ Calm /\ Fresh /\ [Turn]_vars /\ [cursor' <= cursor]_vars =>
        /\ Right => Right'
        /\ Arrived => Arrived' \/ Right'
        /\ Arrived /\ <<Answer>>_vars => Right'
  BY RightStep
<1>2. CanRun /\ Arrived => ENABLED <<Answer>>_vars
  BY DEF CanRun, Arrived
<1>3. Converges <=> <>[]Right
  BY DEF Converges, Right
<1> QED
  BY <1>1, <1>2, <1>3, CalmAtLast, TurnsAtLast, ArrivesAgain, FreshAtLast, PTL
  DEF Settling, FairSpec
=============================================================================
