---------------------------- MODULE VaultProofs -----------------------------
(***************************************************************************)
(* The way of a stroke from the notebook to the git remote: proofs about   *)
(* InkSync, by which pages reach the vault, and about VaultSync, by which  *)
(* the vault reaches its remote.                                           *)
(*                                                                         *)
(* InkSync: for any number of pages, strokes, faults and deletions, what a *)
(* stored page holds is queued or has arrived, and the vault has the pages *)
(* that are clean.  The operations on IndexedDB write records that they    *)
(* read earlier, so the invariants speak of the copies too: the record a   *)
(* save has read, the siblings a deletion has renumbered, what the loop is *)
(* to send and the record it is about to mark.                             *)
(*                                                                         *)
(* VaultSync (V, at the end): for any number of runs, writes and troubles, *)
(* what is not on the remote is told to be pending, and gets there once    *)
(* nobody writes and git works.                                            *)
(***************************************************************************)
EXTENDS InkSync, VaultState, FiniteSetTheorems, TLAPS

V == INSTANCE VaultSync
-----------------------------------------------------------------------------

Stages == {"idle", "list", "next", "sending", "mark", "clear"}
Queued == [page : Page, at : 0..Cardinality(Page), data : 0..MaxStrokes]
Loop == [stage : Stages, todo : SUBSET Queued, page : Page \cup {NoPage},
         at : 0..Cardinality(Page), data : 0..MaxStrokes, copy : Record,
         moved : BOOLEAN, failed : {"no", "retry", "final"}, again : BOOLEAN]

Busy == sync.stage \in {"sending", "mark", "clear"}

\* What TypeOK leaves open about the operations under way.
Shape ==
  /\ save \in [page : Page \cup {NoPage}, data : 0..MaxStrokes, copy : Record]
  /\ DOMAIN removal.siblings \subseteq Page
  /\ \A p \in DOMAIN removal.siblings : removal.siblings[p] \in Record
  /\ sync \in Loop
  /\ Busy => sync.page \in Page
  /\ sync.stage = "sending" => sync.data # 0
  /\ pen \in 0..MaxStrokes /\ deletes \in Nat

\* A record that is not queued holds strokes that have arrived, if any.
Arrived(data) == data \in received \cup {0}
Settled(record) == record.at > 0 /\ ~record.dirty => Arrived(record.data)

ArrivedInv ==
  /\ \A p \in Page : Settled(stored[p])
  /\ \A p \in DOMAIN removal.siblings :
       removal.siblings[p].at > 0 /\ Settled(removal.siblings[p])
  /\ sync.stage \in {"mark", "clear"} => Arrived(sync.data)
  /\ sync.stage = "clear" => Arrived(sync.copy.data)

\* As long as no page has been deleted: the pages of the app are those stored,
\* numbered without a gap, and every copy has the number of its page.
Numbered ==
  /\ removal = NoRemoval
  /\ \A p \in Page : p \in DOMAIN listed <=> Exists(p)
  /\ \A p \in Page : stored[p].at <= Cardinality(DOMAIN listed)
  /\ \A p, q \in Page : Exists(p) /\ stored[p].at = stored[q].at => p = q
  /\ save # NoSave => /\ save.page \in Page /\ Exists(save.page)
                      /\ save.copy.at = stored[save.page].at
  /\ \A r \in sync.todo : Exists(r.page) /\ r.at = stored[r.page].at

\* What is still to send is dirty, and is sent once.
ToSend ==
  /\ \A r \in sync.todo : stored[r.page].dirty
  /\ \A r, s \in sync.todo : r.page = s.page => r = s
  /\ Busy => /\ Exists(sync.page)
             /\ stored[sync.page].dirty /\ sync.at = stored[sync.page].at
             /\ \A r \in sync.todo : r.page # sync.page
  /\ sync.stage \in {"mark", "clear"} /\ sync.data # 0 => vault[sync.at] = sync.data
  /\ sync.stage = "clear" => sync.copy.at = sync.at /\ sync.copy.data = sync.data

InStepInv == deletes = 0 => Numbered /\ ToSend /\ VaultInStep

Inv == TypeOK /\ Shape /\ ArrivedInv /\ InStepInv
-----------------------------------------------------------------------------
LEMMA Bounds ==
  /\ IsFiniteSet(Page) /\ FirstPage \in Page /\ NoPage \notin Page
  /\ Cardinality(Page) \in Nat /\ Cardinality(Page) >= 1
  /\ MaxStrokes \in Nat /\ MaxFaults \in Nat /\ MaxDeletes \in Nat
<1>1. /\ IsFiniteSet(Page) /\ FirstPage \in Page /\ NoPage \notin Page
      /\ MaxStrokes \in Nat /\ MaxFaults \in Nat /\ MaxDeletes \in Nat
  BY ConstantsAssumption
<1>2. Cardinality(Page) \in Nat
  BY <1>1, FS_CardinalityType
<1>3. Cardinality(Page) # 0
  BY <1>1, FS_EmptySet
<1> QED
  BY <1>1, <1>2, <1>3

LEMMA Empty ==
  /\ Missing \in Record /\ Missing.at = 0 /\ Missing.data = 0 /\ Missing.dirty = FALSE
  /\ NoSave \in [page : Page \cup {NoPage}, data : 0..MaxStrokes, copy : Record]
  /\ NoSave.page = NoPage /\ NoSave.copy \in Record
  /\ NoRemoval.page = NoPage /\ DOMAIN NoRemoval.siblings = {}
  /\ Idle \in Loop /\ Idle.stage = "idle" /\ Idle.todo = {} /\ Idle.copy \in Record
<1>1. Missing \in Record /\ Missing.at = 0 /\ Missing.data = 0 /\ Missing.dirty = FALSE
  BY Bounds DEF Missing, Record
<1> QED
  BY <1>1, Bounds DEF NoSave, NoRemoval, Idle, Loop, Stages

\* A new page has a number that is free.
LEMMA NewNumber ==
  ASSUME NEW p \in Page, DOMAIN listed \subseteq Page, p \notin DOMAIN listed
  PROVE  /\ NextNumber \in 1..Cardinality(Page)
         /\ NextNumber = Cardinality(DOMAIN listed) + 1
         /\ Cardinality(DOMAIN listed) \in Nat
         /\ Cardinality(DOMAIN listed \cup {p}) = Cardinality(DOMAIN listed) + 1
<1>1. IsFiniteSet(DOMAIN listed)
  BY Bounds, FS_Subset
<1>2. Cardinality(DOMAIN listed) \in Nat
  BY <1>1, FS_CardinalityType
<1>3. Cardinality(DOMAIN listed \cup {p}) = Cardinality(DOMAIN listed) + 1
  BY <1>1, FS_AddElement
<1>4. Cardinality(DOMAIN listed \cup {p}) <= Cardinality(Page)
  BY Bounds, FS_Subset
<1> QED
  BY <1>2, <1>3, <1>4, Bounds DEF NextNumber

LEMMA InitInv == Init => Inv
<1> SUFFICES ASSUME Init PROVE Inv
  OBVIOUS
<1> USE Bounds, Empty
<1>1. stored \in [Page -> Record]
  <2> DEFINE first == [Missing EXCEPT !.at = 1]
  <2>1. Missing \in Record /\ 1 \in 0..Cardinality(Page)
    OBVIOUS
  <2>2. first \in Record
    BY <2>1 DEF Record
  <2>3. stored = [p \in Page |-> IF p = FirstPage THEN first ELSE Missing]
    BY DEF Init
  <2> HIDE DEF first
  <2> QED
    BY <2>2, <2>3
<1>2. \A p \in Page : stored[p].data = 0 /\ stored[p].dirty = FALSE /\ stored[p].at \in {0, 1}
                      /\ (stored[p].at = 1 <=> p = FirstPage)
  BY DEF Init, Missing
<1>3. DOMAIN listed = {FirstPage} /\ \A p \in DOMAIN listed : listed[p] = 0
  BY DEF Init
<1>4. vault \in [1..Cardinality(Page) -> 0..MaxStrokes]
  BY DEF Init
<1>5. TypeOK
  <2>1. /\ shown \in Page /\ ink \in 0..MaxStrokes
        /\ received = {} /\ DOMAIN listed \subseteq Page
    BY <1>3 DEF Init
  <2>4. unsaved \in BOOLEAN /\ nudged \in BOOLEAN
    BY DEF Init
  <2>2. \A p \in DOMAIN listed : listed[p] \in 0..MaxStrokes
    BY <1>3
  <2>3. save = NoSave /\ removal = NoRemoval /\ sync = Idle
    BY DEF Init
  <2> QED
    BY <1>1, <1>4, <2>1, <2>2, <2>3, <2>4 DEF TypeOK
<1>6. Shape
  BY DEF Shape, Busy, Init
<1>7. ArrivedInv
  BY <1>2 DEF ArrivedInv, Settled, Arrived, Init
<1>8. Cardinality(DOMAIN listed) = 1
  BY <1>3, FS_Singleton
<1>9. Numbered /\ ToSend /\ VaultInStep
  BY <1>2, <1>3, <1>8 DEF Numbered, ToSend, VaultInStep, Exists, Busy, Init
<1> QED
  BY <1>5, <1>6, <1>7, <1>9 DEF Inv, InStepInv

-----------------------------------------------------------------------------
(***************************************************************************)
(* The shape of the variables.                                             *)
(***************************************************************************)
\* Actions that touch nothing but the loop.
LoopOnly == UNCHANGED <<stored, editor, save, removal, vault, received, bounds>>

LEMMA LoopType ==
  ASSUME TypeOK, Shape, LoopOnly, sync' \in Loop, nudged' \in BOOLEAN,
         sync'.stage = "sending" => sync'.data # 0, Busy' => sync'.page \in Page
  PROVE  TypeOK' /\ Shape'
<1>1. sync'.stage \in Stages /\ sync'.copy \in Record
  BY DEF Loop
<1>2. TypeOK'
  BY <1>1 DEF TypeOK, LoopOnly, editor, bounds, Stages
<1>3. Shape'
  BY DEF Shape, Busy, LoopOnly, editor, bounds
<1> QED
  BY <1>2, <1>3

LEMMA StopType ==
  ASSUME TypeOK, Shape, LoopOnly, NEW timer \in BOOLEAN, Stop(timer)
  PROVE  TypeOK' /\ Shape'
<1>1. sync.again \in BOOLEAN
  BY DEF Shape, Loop
<1>2. sync' \in Loop /\ sync'.stage = "idle" /\ nudged' \in BOOLEAN
  BY <1>1, Empty DEF Stop, TypeOK
<1> QED
  BY <1>2, LoopType DEF Busy

LEMMA TypeStep == TypeOK /\ Shape /\ [Next]_vars => TypeOK' /\ Shape'
<1> SUFFICES ASSUME TypeOK, Shape, [Next]_vars PROVE TypeOK' /\ Shape'
  OBVIOUS
<1> USE Bounds
<1>1. sync \in Loop /\ save.page \in Page \cup {NoPage} /\ save.data \in 0..MaxStrokes
      /\ save.copy \in Record
  BY DEF Shape
<1>2. /\ sync.stage \in Stages /\ sync.todo \subseteq Queued
      /\ sync.page \in Page \cup {NoPage} /\ sync.at \in 0..Cardinality(Page)
      /\ sync.data \in 0..MaxStrokes /\ sync.copy \in Record /\ sync.moved \in BOOLEAN
      /\ sync.failed \in {"no", "retry", "final"} /\ sync.again \in BOOLEAN
  BY <1>1 DEF Loop
<1>22. sync.stage = "sending" => /\ received \cup {sync.data} \subseteq 1..MaxStrokes
                                 /\ [vault EXCEPT ![sync.at] = sync.data]
                                      \in [1..Cardinality(Page) -> 0..MaxStrokes]
  <2> SUFFICES ASSUME sync.stage = "sending"
               PROVE  /\ received \cup {sync.data} \subseteq 1..MaxStrokes
                      /\ [vault EXCEPT ![sync.at] = sync.data]
                           \in [1..Cardinality(Page) -> 0..MaxStrokes]
    OBVIOUS
  <2>1. sync.data \in 1..MaxStrokes
    BY <1>2 DEF Shape
  <2> QED
    BY <1>2, <2>1 DEF TypeOK
<1>23. received \subseteq 1..MaxStrokes /\ vault \in [1..Cardinality(Page) -> 0..MaxStrokes]
  BY DEF TypeOK
<1>3. ASSUME NEW blank \in BOOLEAN, Draw(blank) PROVE TypeOK' /\ Shape'
  BY <1>3 DEF Draw, TypeOK, Shape, Busy
<1>4. CASE SaveRead
  <2>1. /\ save' \in [page : Page \cup {NoPage}, data : 0..MaxStrokes, copy : Record]
        /\ save'.page \in Page \cup {NoPage} /\ save'.copy \in Record
    BY <1>4 DEF SaveRead, TypeOK
  <2> QED
    BY <1>4, <2>1 DEF SaveRead, TypeOK, Shape, Busy, editor, bounds
<1>5. CASE SavePut
  <2> DEFINE new == [at |-> save.copy.at, data |-> save.data, dirty |-> TRUE]
  <2>1. new \in Record
    BY <1>1 DEF Record
  <2>2. stored' = [stored EXCEPT ![save.page] = new]
    BY <1>5 DEF SavePut
  <2> HIDE DEF new
  <2>3. stored' \in [Page -> Record]
    BY <2>1, <2>2 DEF TypeOK
  <2>4. /\ DOMAIN listed' \subseteq Page
        /\ \A p \in DOMAIN listed' : listed'[p] \in 0..MaxStrokes
    BY <1>1, <1>5 DEF SavePut, TypeOK
  <2>5. unsaved' \in BOOLEAN /\ nudged' \in BOOLEAN /\ save' = NoSave
    BY <1>5 DEF SavePut
  <2> QED
    BY <1>5, <2>3, <2>4, <2>5, Empty
    DEF SavePut, TypeOK, Shape, Busy, editor, bounds
<1>6. ASSUME NEW p \in Page, TurnTo(p) PROVE TypeOK' /\ Shape'
  BY <1>6 DEF TurnTo, TypeOK, Shape, Busy, bounds
<1>7. ASSUME NEW p \in Page, AddPage(p) PROVE TypeOK' /\ Shape'
  <2> DEFINE new == [at |-> NextNumber, data |-> 0, dirty |-> FALSE]
  <2>6. DOMAIN listed \subseteq Page /\ p \notin DOMAIN listed
    BY <1>7 DEF AddPage, TypeOK
  <2>7. NextNumber \in 1..Cardinality(Page)
    BY <2>6, NewNumber, Zenon
  <2>5. NextNumber \in 0..Cardinality(Page) /\ 0 \in 0..MaxStrokes
    BY <2>7
  <2>1. new \in Record
    BY <2>5 DEF Record
  <2>2. stored' = [stored EXCEPT ![p] = new]
    BY <1>7 DEF AddPage
  <2> HIDE DEF new
  <2>3. stored' \in [Page -> Record]
    BY <2>1, <2>2 DEF TypeOK
  <2>4. /\ DOMAIN listed' \subseteq Page
        /\ \A q \in DOMAIN listed' : listed'[q] \in 0..MaxStrokes
    BY <1>7 DEF AddPage, TypeOK
  <2> QED
    BY <1>7, <2>3, <2>4 DEF AddPage, TypeOK, Shape, Busy, bounds
<1>8. CASE DeleteRead
  <2> DEFINE siblings == {p \in Page : Exists(p) /\ p # shown}
             Moved(p) == IF stored[p].at > stored[shown].at
                         THEN [stored[p] EXCEPT !.at = @ - 1] ELSE stored[p]
  <2>1. \A p \in siblings : Moved(p) \in Record
    <3> SUFFICES ASSUME NEW p \in Page, stored[p].at > stored[shown].at
                 PROVE  [stored[p] EXCEPT !.at = @ - 1] \in Record
      BY DEF TypeOK
    <3>1. stored[p] \in Record /\ stored[p].at \in 0..Cardinality(Page)
          /\ stored[shown].at \in Nat
      BY DEF TypeOK, Record
    <3>2. stored[p].at - 1 \in 0..Cardinality(Page)
      BY <3>1
    <3> QED
      BY <3>1, <3>2 DEF Record
  <2>2. removal' = [page |-> shown, siblings |-> [p \in siblings |-> Moved(p)]]
    BY <1>8 DEF DeleteRead
  <2> HIDE DEF Moved
  <2>3. /\ removal'.page \in Page /\ DOMAIN removal'.siblings \subseteq Page
        /\ \A p \in DOMAIN removal'.siblings : removal'.siblings[p] \in Record
    BY <2>1, <2>2 DEF TypeOK
  <2>4. UNCHANGED <<stored, editor, save, sync, nudged, vault, received, pen>>
        /\ deletes' = deletes + 1
    BY <1>8 DEF DeleteRead
  <2> QED
    BY <2>3, <2>4 DEF TypeOK, Shape, Busy, editor
<1>9. ASSUME NEW next \in Page, DeletePut(next) PROVE TypeOK' /\ Shape'
  <2>1. stored' \in [Page -> Record]
    BY <1>9, Empty DEF DeletePut, TypeOK, Shape, Busy
  <2>2. /\ DOMAIN listed' \subseteq Page
        /\ \A p \in DOMAIN listed' : listed'[p] \in 0..MaxStrokes
    <3>1. \A p \in Page : stored'[p].data \in 0..MaxStrokes
      BY <2>1 DEF Record
    <3>2. listed' = [p \in {q \in Page : stored'[q].at > 0} |-> stored'[p].data]
      BY <1>9 DEF DeletePut
    <3> QED
      BY <3>1, <3>2
  <2>3. next \in DOMAIN listed' /\ shown' = next /\ ink' = listed'[next]
        /\ unsaved' = FALSE /\ removal' = NoRemoval
        /\ UNCHANGED <<save, sync, nudged, vault, received, bounds>>
    BY <1>9 DEF DeletePut
  <2> QED
    BY <2>1, <2>2, <2>3, Empty DEF TypeOK, Shape, Busy, bounds
<1>10. ASSUME NEW flush \in BOOLEAN, SyncNow(flush) PROVE TypeOK' /\ Shape'
  <2>1. [Idle EXCEPT !.stage = "list"] \in Loop /\ [Idle EXCEPT !.stage = "list"].stage = "list"
    BY Empty DEF Loop, Stages
  <2>2. [sync EXCEPT !.again = TRUE] \in Loop
        /\ [sync EXCEPT !.again = TRUE].stage = sync.stage
        /\ [sync EXCEPT !.again = TRUE].data = sync.data
        /\ [sync EXCEPT !.again = TRUE].page = sync.page
    BY <1>1 DEF Loop
  <2>3. sync' \in Loop /\ (sync'.stage = "sending" => sync'.data # 0)
        /\ (Busy' => sync'.page \in Page)
    BY <1>10, <2>1, <2>2 DEF SyncNow, Shape, Busy
  <2>4. nudged' \in BOOLEAN /\ LoopOnly
    BY <1>10 DEF SyncNow, LoopOnly
  <2> QED
    BY <2>3, <2>4, LoopType DEF Busy
<1>11. CASE List
  <2>1. LoopOnly
    BY <1>11 DEF List, LoopOnly
  <2>2. CASE Dirty = {}
    BY <1>11, <2>1, <2>2, StopType DEF List
  <2>3. CASE Dirty # {}
    <3> DEFINE todo == {[page |-> p, at |-> stored[p].at, data |-> stored[p].data] : p \in Dirty}
    <3>1. todo \subseteq Queued
      BY DEF Dirty, Queued, TypeOK, Record
    <3>2. sync' = [Idle EXCEPT !.stage = "next", !.again = sync.again, !.todo = todo]
          /\ nudged' = nudged
      BY <1>11, <2>3 DEF List
    <3> HIDE DEF todo
    <3>3. sync' \in Loop /\ sync'.stage = "next"
      BY <1>2, <3>1, <3>2, Empty DEF Loop, Stages
    <3> QED
      BY <2>1, <3>2, <3>3, LoopType DEF TypeOK, Busy
  <2> QED
    BY <2>2, <2>3
<1>12. ASSUME NEW r \in sync.todo, Take(r) PROVE TypeOK' /\ Shape'
  <2>1. r.page \in Page /\ r.at \in 0..Cardinality(Page) /\ r.data \in 0..MaxStrokes
        /\ sync.todo \ {r} \subseteq Queued
    BY <1>2 DEF Queued
  <2>2. sync' \in Loop /\ sync'.page \in Page /\ (sync'.stage = "sending" => sync'.data # 0)
    BY <1>1, <1>12, <2>1 DEF Take, Loop, Stages
  <2> QED
    BY <1>12, <2>2, LoopType DEF Take, LoopOnly, TypeOK, Busy
<1>13. CASE StepAside
  BY <1>13, StopType DEF StepAside, LoopOnly
<1>14. CASE Ingest
  <2>1. sync' \in Loop /\ sync'.stage = "mark" /\ sync'.copy \in Record
    BY <1>1, <1>14 DEF Ingest, Loop, Stages
  <2>2. vault' \in [1..Cardinality(Page) -> 0..MaxStrokes] /\ received' \subseteq 1..MaxStrokes
    BY <1>14, <1>22 DEF Ingest
  <2> QED
    BY <1>14, <2>1, <2>2 DEF Ingest, TypeOK, Shape, Busy, editor, bounds
<1>15. ASSUME NEW how \in {"retry", "final"}, UploadFails(how) PROVE TypeOK' /\ Shape'
  <2>1. sync' \in Loop /\ sync'.stage = "next" /\ sync'.copy \in Record
    BY <1>1, <1>15 DEF UploadFails, Loop, Stages
  <2>2. vault' \in [1..Cardinality(Page) -> 0..MaxStrokes] /\ received' \subseteq 1..MaxStrokes
    BY <1>15, <1>22, <1>23 DEF UploadFails
  <2>3. UNCHANGED <<stored, editor, save, removal, nudged, pen, deletes>>
    BY <1>15 DEF UploadFails
  <2> QED
    BY <2>1, <2>2, <2>3 DEF TypeOK, Shape, Busy, editor
<1>16. CASE MarkRead
  <2>1. sync.page \in Page
    BY <1>16 DEF MarkRead, Shape, Busy
  <2>2. stored[sync.page] \in Record
    BY <2>1 DEF TypeOK
  <2>3. sync' \in Loop /\ sync'.stage \in {"clear", "next"} /\ sync'.page = sync.page
    BY <1>1, <1>16, <2>2 DEF MarkRead, Loop, Stages
  <2> QED
    BY <1>16, <2>3, LoopType DEF MarkRead, LoopOnly, TypeOK, Shape, Busy
<1>17. CASE MarkPut
  <2>1. Cleaned(sync.copy) \in Record
    BY <1>2 DEF Cleaned, Record
  <2>2. stored' \in [Page -> Record]
    BY <1>17, <2>1 DEF MarkPut, TypeOK
  <2>3. sync' \in Loop /\ sync'.stage = "next" /\ sync'.copy \in Record
    BY <1>1, <1>17 DEF MarkPut, Loop, Stages
  <2> QED
    BY <1>17, <2>2, <2>3 DEF MarkPut, TypeOK, Shape, Busy, editor, bounds
<1>18. CASE EndPass
  <2>1. LoopOnly
    BY <1>18 DEF EndPass, LoopOnly
  <2>2. CASE Stop(TRUE) \/ Stop(FALSE)
    BY <2>1, <2>2, StopType
  <2>3. CASE sync' = [Idle EXCEPT !.stage = "list", !.again = sync.again] /\ nudged' = nudged
    <3>1. sync' \in Loop /\ sync'.stage = "list"
      BY <1>2, <2>3, Empty DEF Loop, Stages
    <3> QED
      BY <2>1, <2>3, <3>1, LoopType DEF TypeOK, Busy
  <2>4. sync.failed = "retry" \/ sync.failed # "retry"
    OBVIOUS
  <2>5. Stop(sync.failed = "retry") => Stop(TRUE) \/ Stop(FALSE)
    BY <2>4 DEF Stop
  <2> QED
    BY <1>18, <2>2, <2>3, <2>5 DEF EndPass
<1>19. CASE Interval
  BY <1>1, <1>19, LoopType DEF Interval, LoopOnly, Shape, Busy
<1>20. CASE Restart
  <2>1. /\ DOMAIN listed' \subseteq Page
        /\ \A p \in DOMAIN listed' : listed'[p] \in 0..MaxStrokes
    <3>1. \A p \in Page : stored[p].data \in 0..MaxStrokes
      BY DEF TypeOK, Record
    <3>2. listed' = [p \in {q \in Page : Exists(q)} |-> stored[p].data]
      BY <1>20 DEF Restart
    <3> QED
      BY <3>1, <3>2
  <2>2. shown' \in Page /\ ink' \in 0..MaxStrokes
    BY <1>20, <2>1 DEF Restart
  <2>3. vault' \in [1..Cardinality(Page) -> 0..MaxStrokes] /\ received' \subseteq 1..MaxStrokes
    BY <1>20, <1>22, <1>23 DEF Restart
  <2>4. unsaved' = FALSE /\ save' = NoSave /\ removal' = NoRemoval /\ sync' = Idle
        /\ nudged' = TRUE /\ UNCHANGED <<stored, pen, deletes>>
    BY <1>20 DEF Restart
  <2> QED
    BY <2>1, <2>2, <2>3, <2>4, Empty DEF TypeOK, Shape, Busy, Stages
<1>21. CASE UNCHANGED vars
  BY <1>21 DEF vars, editor, bounds, TypeOK, Shape, Busy
<1> QED
  BY <1>3, <1>4, <1>5, <1>6, <1>7, <1>8, <1>9, <1>10, <1>11, <1>12, <1>13, <1>14,
     <1>15, <1>16, <1>17, <1>18, <1>19, <1>20, <1>21 DEF Next, Write, Upload
-----------------------------------------------------------------------------
(***************************************************************************)
(* What is not queued has arrived.                                         *)
(***************************************************************************)
LEMMA ArrivedFrame ==
  ASSUME ArrivedInv, received \subseteq received',
         stored' = stored, removal' = removal \/ removal' = NoRemoval,
         \/ sync'.stage \notin {"mark", "clear"}
         \/ sync'.stage = sync.stage /\ sync'.data = sync.data /\ sync'.copy = sync.copy
         \/ sync'.stage = "mark" /\ sync'.data \in received' \cup {0}
  PROVE  ArrivedInv'
<1>1. DOMAIN removal'.siblings \subseteq DOMAIN removal.siblings
      /\ \A p \in DOMAIN removal'.siblings : removal'.siblings[p] = removal.siblings[p]
  BY Empty
<1>2. /\ sync'.stage \in {"mark", "clear"} => Arrived(sync.data)' 
      /\ sync'.stage = "clear" => Arrived(sync.copy.data)'
  BY DEF ArrivedInv, Arrived
<1>3. \A p \in Page : Settled(stored[p])'
  BY DEF ArrivedInv, Settled, Arrived
<1>4. \A p \in DOMAIN removal'.siblings :
        removal'.siblings[p].at > 0 /\ Settled(removal.siblings[p])'
  BY <1>1 DEF ArrivedInv, Settled, Arrived
<1> QED
  BY <1>2, <1>3, <1>4 DEF ArrivedInv

LEMMA ArrivedStep == TypeOK /\ Shape /\ ArrivedInv /\ [Next]_vars => ArrivedInv'
<1> SUFFICES ASSUME TypeOK, Shape, ArrivedInv, [Next]_vars PROVE ArrivedInv'
  OBVIOUS
<1>1. sync \in Loop /\ sync.stage \in Stages
  BY DEF Shape, Loop
<1>2. CASE (\E blank \in BOOLEAN : Draw(blank)) \/ SaveRead \/ (\E p \in Page : TurnTo(p))
           \/ Interval \/ UNCHANGED vars
  BY <1>2, ArrivedFrame DEF Draw, SaveRead, TurnTo, Interval, vars
<1>3. CASE \E flush \in BOOLEAN : SyncNow(flush)
  <2>1. /\ [Idle EXCEPT !.stage = "list"].stage = "list"
        /\ [sync EXCEPT !.again = TRUE].stage = sync.stage
        /\ [sync EXCEPT !.again = TRUE].data = sync.data
        /\ [sync EXCEPT !.again = TRUE].copy = sync.copy
    BY <1>1 DEF Idle, Loop
  <2>2. UNCHANGED <<stored, removal, received>>
    BY <1>3 DEF SyncNow
  <2>3. sync' \in {[Idle EXCEPT !.stage = "list"], [sync EXCEPT !.again = TRUE]}
    BY <1>3 DEF SyncNow
  <2> QED
    BY <2>1, <2>2, <2>3, ArrivedFrame
<1>4. CASE StepAside \/ List \/ EndPass
  <2>1. UNCHANGED <<stored, removal, received>>
    BY <1>4 DEF StepAside, List, EndPass
  <2>2. sync'.stage \in {"idle", "list", "next"}
    BY <1>4, Empty DEF StepAside, List, EndPass, Stop, Idle
  <2> QED
    BY <2>1, <2>2, ArrivedFrame
<1>5. CASE SavePut
  <2> DEFINE new == [at |-> save.copy.at, data |-> save.data, dirty |-> TRUE]
  <2>1. new.dirty
    OBVIOUS
  <2>2. stored' = [stored EXCEPT ![save.page] = new] /\ UNCHANGED <<removal, sync, received>>
    BY <1>5 DEF SavePut
  <2> HIDE DEF new
  <2>3. \A p \in Page : stored'[p] \in {stored[p], new}
    BY <2>2 DEF TypeOK
  <2> QED
    BY <2>1, <2>2, <2>3 DEF ArrivedInv, Settled, Arrived
<1>6. ASSUME NEW p \in Page, AddPage(p) PROVE ArrivedInv'
  <2> DEFINE new == [at |-> NextNumber, data |-> 0, dirty |-> FALSE]
  <2>1. new.data = 0
    OBVIOUS
  <2>2. stored' = [stored EXCEPT ![p] = new] /\ UNCHANGED <<removal, sync, received>>
    BY <1>6 DEF AddPage
  <2> HIDE DEF new
  <2>3. \A q \in Page : stored'[q] \in {stored[q], new}
    BY <2>2 DEF TypeOK
  <2> QED
    BY <2>1, <2>2, <2>3 DEF ArrivedInv, Settled, Arrived
<1>7. CASE DeleteRead
  <2> DEFINE siblings == {p \in Page : Exists(p) /\ p # shown}
             Moved(p) == IF stored[p].at > stored[shown].at
                         THEN [stored[p] EXCEPT !.at = @ - 1] ELSE stored[p]
  <2>1. \A p \in siblings : /\ Moved(p).at > 0 /\ Moved(p).data = stored[p].data
                            /\ Moved(p).dirty = stored[p].dirty /\ stored[p].at > 0
    <3> SUFFICES ASSUME NEW p \in Page, stored[p].at > 0
                 PROVE  /\ Moved(p).at > 0 /\ Moved(p).data = stored[p].data
                        /\ Moved(p).dirty = stored[p].dirty
      BY DEF Exists
    <3>1. stored[p] \in Record /\ stored[p].at \in Nat /\ stored[shown].at \in Nat
          /\ stored[shown].at > 0
      BY <1>7, Bounds DEF DeleteRead, Exists, TypeOK, Record
    <3> QED
      BY <3>1 DEF Record
  <2>2. removal' = [page |-> shown, siblings |-> [p \in siblings |-> Moved(p)]]
        /\ UNCHANGED <<stored, sync, received>>
    BY <1>7 DEF DeleteRead
  <2> HIDE DEF Moved
  <2>3. \A p \in DOMAIN removal'.siblings :
          removal'.siblings[p].at > 0 /\ Settled(removal.siblings[p])'
    BY <2>1, <2>2 DEF ArrivedInv, Settled, Arrived
  <2> QED
    BY <2>2, <2>3 DEF ArrivedInv, Settled, Arrived
<1>8. ASSUME NEW next \in Page, DeletePut(next) PROVE ArrivedInv'
  <2>1. \A p \in Page : stored'[p] = IF p = removal.page THEN Missing
                                     ELSE IF p \in DOMAIN removal.siblings
                                          THEN removal.siblings[p] ELSE stored[p]
    BY <1>8 DEF DeletePut
  <2>2. removal' = NoRemoval /\ UNCHANGED <<sync, received>>
    BY <1>8 DEF DeletePut
  <2> QED
    BY <2>1, <2>2, Empty DEF ArrivedInv, Settled, Arrived
<1>9. ASSUME NEW r \in sync.todo, Take(r) PROVE ArrivedInv'
  <2>1. /\ sync'.data = r.data
        /\ sync'.stage = IF r.data = 0 THEN "mark" ELSE "sending"
    BY <1>1, <1>9 DEF Take, Loop
  <2> QED
    BY <1>9, <2>1, ArrivedFrame DEF Take
<1>10. CASE Ingest
  <2>1. sync'.stage = "mark" /\ sync'.data = sync.data
    BY <1>1, <1>10 DEF Ingest, Loop
  <2> QED
    BY <1>10, <2>1, ArrivedFrame DEF Ingest
<1>11. ASSUME NEW how \in {"retry", "final"}, UploadFails(how) PROVE ArrivedInv'
  <2>1. sync'.stage = "next"
    BY <1>1, <1>11 DEF UploadFails, Loop
  <2>2. received \subseteq received' /\ UNCHANGED <<stored, removal>>
    BY <1>11 DEF UploadFails
  <2> QED
    BY <2>1, <2>2, ArrivedFrame
<1>12. CASE MarkRead
  <2>1. UNCHANGED <<stored, removal, received>>
    BY <1>12 DEF MarkRead
  <2>2. CASE StillSent
    <3>1. sync'.stage = "clear" /\ sync'.data = sync.data /\ sync'.copy = stored[sync.page]
      BY <1>1, <1>12, <2>2 DEF MarkRead, Loop
    <3>2. stored[sync.page].data = sync.data /\ Arrived(sync.data)
      BY <1>12, <2>2 DEF StillSent, MarkRead, ArrivedInv
    <3> QED
      BY <2>1, <3>1, <3>2 DEF ArrivedInv, Settled, Arrived
  <2>3. CASE ~StillSent
    <3>1. sync'.stage = "next"
      BY <1>1, <1>12, <2>3 DEF MarkRead, Loop
    <3> QED
      BY <2>1, <3>1, ArrivedFrame
  <2> QED
    BY <2>2, <2>3
<1>13. CASE MarkPut
  <2>1. Cleaned(sync.copy).data = sync.copy.data /\ Arrived(sync.copy.data)
    BY <1>1, <1>13 DEF Cleaned, Loop, Record, MarkPut, ArrivedInv
  <2>2. stored' = [stored EXCEPT ![sync.page] = Cleaned(sync.copy)]
        /\ UNCHANGED <<removal, received>>
    BY <1>13 DEF MarkPut
  <2>3. \A p \in Page : stored'[p] \in {stored[p], Cleaned(sync.copy)}
    BY <2>2 DEF TypeOK
  <2>4. sync'.stage = "next"
    BY <1>1, <1>13 DEF MarkPut, Loop
  <2> QED
    BY <2>1, <2>2, <2>3, <2>4 DEF ArrivedInv, Settled, Arrived
<1>14. CASE Restart
  <2>1. received \subseteq received' /\ stored' = stored /\ removal' = NoRemoval
        /\ sync' = Idle
    BY <1>14 DEF Restart
  <2> QED
    BY <2>1, ArrivedFrame, Empty
<1> QED
  BY <1>2, <1>3, <1>4, <1>5, <1>6, <1>7, <1>8, <1>9, <1>10, <1>11, <1>12, <1>13, <1>14
  DEF Next, Write, Upload
-----------------------------------------------------------------------------
(***************************************************************************)
(* The vault has the clean pages, until one is deleted.                    *)
(***************************************************************************)
Clean(p) == Exists(p) /\ ~stored[p].dirty /\ stored[p].data # 0
InVault == \A p \in Page : Clean(p) => vault[stored[p].at] = stored[p].data

LEMMA InStepStep ==
  TypeOK /\ Shape /\ TypeOK' /\ Shape' /\ InStepInv /\ [Next]_vars => InStepInv'
<1> SUFFICES ASSUME TypeOK, Shape, TypeOK', Shape', InStepInv, [Next]_vars, deletes' = 0
             PROVE  Numbered' /\ ToSend' /\ InVault'
  BY DEF InStepInv, VaultInStep, InVault, Clean, Exists
<1>1. deletes \in Nat /\ sync \in Loop /\ sync.stage \in Stages /\ sync.todo \subseteq Queued
  BY DEF Shape, Loop
<1>2. deletes = 0 /\ ~DeleteRead
  <2>1. deletes' \in {deletes, deletes + 1} /\ (DeleteRead => deletes' = deletes + 1)
    BY DEF Next, Write, Upload, Draw, SaveRead, SavePut, TurnTo, AddPage, DeleteRead,
       DeletePut, SyncNow, List, Take, StepAside, Ingest, UploadFails, MarkRead, MarkPut,
       EndPass, Interval, Restart, bounds, vars
  <2> QED
    BY <1>1, <2>1
<1>3. Numbered /\ ToSend /\ InVault
  BY <1>2 DEF InStepInv, VaultInStep, InVault, Clean, Exists
<1>4. \A p \in Page : stored[p] \in Record /\ stored[p].at \in 0..Cardinality(Page)
  BY DEF TypeOK, Record
<1>5. \A r \in sync.todo : r.page \in Page
  BY <1>1 DEF Queued
<1>6. Busy => sync.page \in Page /\ sync.at \in 1..Cardinality(Page)
  BY <1>3, <1>4, Bounds DEF Shape, ToSend, Exists
<1>7. Numbered' /\ InVault'
      <=> /\ removal' = NoRemoval
          /\ \A p \in Page : p \in DOMAIN listed' <=> stored'[p].at > 0
          /\ \A p \in Page : stored'[p].at <= Cardinality(DOMAIN listed')
          /\ \A p, q \in Page : stored'[p].at > 0 /\ stored'[p].at = stored'[q].at => p = q
          /\ save' # NoSave => /\ save'.page \in Page /\ stored'[save'.page].at > 0
                               /\ save'.copy.at = stored'[save'.page].at
          /\ \A r \in sync'.todo : stored'[r.page].at > 0 /\ r.at = stored'[r.page].at
          /\ \A p \in Page : stored'[p].at > 0 /\ ~stored'[p].dirty /\ stored'[p].data # 0
               => vault'[stored'[p].at] = stored'[p].data
  BY DEF Numbered, InVault, Clean, Exists
\* What the server takes is a dirty page's.
<1>8. ASSUME sync.stage = "sending", vault' = [vault EXCEPT ![sync.at] = sync.data],
             stored' = stored
      PROVE  InVault' /\ vault'[sync.at] = sync.data
  <2>1. sync.page \in Page /\ Exists(sync.page) /\ stored[sync.page].dirty
        /\ sync.at = stored[sync.page].at
    BY <1>3, <1>6, <1>8 DEF ToSend, Busy
  <2>2. \A p \in Page : Clean(p) => stored[p].at # sync.at
    BY <1>3, <2>1 DEF Numbered, Clean, Exists
  <2>3. DOMAIN vault = 1..Cardinality(Page) /\ sync.at \in DOMAIN vault
    BY <1>6, <1>8 DEF TypeOK, Busy
  <2>4. \A p \in Page : Clean(p) => vault'[stored[p].at] = vault[stored[p].at]
    BY <1>4, <1>8, <2>2, <2>3, Bounds DEF Clean, Exists
  <2> QED
    BY <1>3, <1>8, <2>3, <2>4 DEF InVault, Clean, Exists
\* Steps that leave the pages alone.
<1>9. ASSUME UNCHANGED <<stored, listed, save, removal>>,
             \A r \in sync'.todo : stored[r.page].at > 0 /\ r.at = stored[r.page].at
      PROVE  Numbered'
  BY <1>3, <1>9 DEF Numbered, Exists
<1>10. ASSUME UNCHANGED <<stored, vault>> PROVE InVault'
  BY <1>3, <1>10 DEF InVault, Clean, Exists
<1>11. ASSUME stored' = stored, sync'.todo \subseteq sync.todo,
              sync'.stage \in {"idle", "list", "next"}
       PROVE  ToSend'
  BY <1>3, <1>11 DEF ToSend, Busy
<1>12. ASSUME NEW blank \in BOOLEAN, Draw(blank) PROVE Numbered' /\ ToSend' /\ InVault'
  BY <1>3, <1>12 DEF Draw, Numbered, ToSend, InVault, Clean, Exists, Busy
<1>13. CASE SaveRead
  <2>1. shown \in Page /\ Exists(shown) /\ save'.page = shown /\ save'.copy = stored[shown]
        /\ UNCHANGED <<stored, listed, removal, sync, vault>>
    BY <1>13 DEF SaveRead, TypeOK, editor
  <2> QED
    BY <1>3, <2>1 DEF Numbered, ToSend, InVault, Clean, Exists, Busy
<1>14. CASE SavePut
  <2> DEFINE new == [at |-> save.copy.at, data |-> save.data, dirty |-> TRUE]
  <2>1. new.dirty /\ new.at = save.copy.at
    OBVIOUS
  <2>2. stored' = [stored EXCEPT ![save.page] = new]
        /\ DOMAIN listed' = DOMAIN listed /\ save' = NoSave
        /\ UNCHANGED <<removal, sync, vault>>
    BY <1>14 DEF SavePut
  <2> HIDE DEF new
  <2>3. save.page \in Page /\ Exists(save.page) /\ save.copy.at = stored[save.page].at
    BY <1>3, <1>14 DEF SavePut, Numbered
  <2>4. \A p \in Page : /\ stored'[p].at = stored[p].at
                        /\ p # save.page => stored'[p] = stored[p]
                        /\ p = save.page => stored'[p].dirty
    BY <2>1, <2>2, <2>3 DEF TypeOK
  <2>5. Numbered' /\ InVault'
    BY <1>3, <1>5, <1>7, <2>2, <2>4 DEF Numbered, InVault, Clean, Exists
  <2>6. ToSend'
    BY <1>3, <1>5, <1>6, <2>2, <2>4 DEF ToSend, Exists, Busy
  <2> QED
    BY <2>5, <2>6
<1>15. ASSUME NEW p \in Page, TurnTo(p) PROVE Numbered' /\ ToSend' /\ InVault'
  BY <1>3, <1>15 DEF TurnTo, Numbered, ToSend, InVault, Clean, Exists, Busy
<1>16. ASSUME NEW p \in Page, AddPage(p) PROVE Numbered' /\ ToSend' /\ InVault'
  <2> DEFINE new == [at |-> NextNumber, data |-> 0, dirty |-> FALSE]
             count == Cardinality(DOMAIN listed)
  <2>1. new.at = NextNumber /\ new.data = 0
    OBVIOUS
  <2>2. stored' = [stored EXCEPT ![p] = new] /\ DOMAIN listed' = DOMAIN listed \cup {p}
        /\ save' = NoSave /\ UNCHANGED <<removal, sync, vault>>
    BY <1>16 DEF AddPage
  <2> HIDE DEF new
  <2>3. DOMAIN listed \subseteq Page /\ p \notin DOMAIN listed /\ ~Exists(p)
    BY <1>16 DEF AddPage, TypeOK
  <2>4. /\ NextNumber = count + 1 /\ count \in Nat
        /\ Cardinality(DOMAIN listed') = count + 1
    BY <2>2, <2>3, NewNumber, Zenon
  <2>5. stored'[p] = new /\ \A q \in Page \ {p} : stored'[q] = stored[q]
    BY <2>2 DEF TypeOK
  <2>6. stored'[p].at = count + 1 /\ stored'[p].data = 0
    BY <2>1, <2>4, <2>5
  <2>7. \A q \in Page : stored[q].at <= count /\ stored[q].at \in Nat
    BY <1>3, <1>4, Bounds DEF Numbered
  <2> HIDE DEF count
  <2>8. /\ \A q \in Page : q \in DOMAIN listed' <=> stored'[q].at > 0
        /\ \A q \in Page : stored'[q].at <= count + 1
    BY <1>3, <2>2, <2>4, <2>5, <2>6, <2>7 DEF Numbered, Exists
  <2>9. \A q, r \in Page : stored'[q].at > 0 /\ stored'[q].at = stored'[r].at => q = r
    BY <1>3, <2>4, <2>5, <2>6, <2>7 DEF Numbered, Exists
  <2>10. \A r \in sync'.todo : r.page # p /\ stored'[r.page].at > 0 /\ r.at = stored'[r.page].at
    BY <1>3, <1>5, <2>2, <2>3, <2>5 DEF Numbered, Exists
  <2>11. \A q \in Page : stored'[q].at > 0 /\ ~stored'[q].dirty /\ stored'[q].data # 0
               => vault'[stored'[q].at] = stored'[q].data
    BY <1>3, <2>2, <2>5, <2>6 DEF InVault, Clean, Exists
  <2>12. removal' = NoRemoval
    BY <1>3, <2>2 DEF Numbered
  <2>13. Numbered' /\ InVault'
    BY <1>7, <2>2, <2>4, <2>8, <2>9, <2>10, <2>11, <2>12
  <2>14. ToSend'
    BY <1>3, <1>5, <1>6, <2>2, <2>3, <2>5, <2>10 DEF ToSend, Exists, Busy
  <2> QED
    BY <2>13, <2>14
<1>17. ASSUME NEW next \in Page, DeletePut(next) PROVE FALSE
  BY <1>3, <1>17 DEF DeletePut, Numbered
<1>18. ASSUME NEW flush \in BOOLEAN, SyncNow(flush) PROVE Numbered' /\ ToSend' /\ InVault'
  <2>1. UNCHANGED <<stored, listed, save, removal, vault>>
    BY <1>18 DEF SyncNow, editor
  <2>2. CASE sync' = [Idle EXCEPT !.stage = "list"]
    <3>1. sync'.stage = "list" /\ sync'.todo = {}
      BY <2>2, Empty DEF Loop
    <3> QED
      BY <1>9, <1>10, <1>11, <2>1, <3>1
  <2>3. CASE sync' = [sync EXCEPT !.again = TRUE]
    <3>1. /\ sync'.stage = sync.stage /\ sync'.todo = sync.todo /\ sync'.page = sync.page
          /\ sync'.at = sync.at /\ sync'.data = sync.data /\ sync'.copy = sync.copy
      BY <1>1, <2>3 DEF Loop
    <3> QED
      BY <1>3, <2>1, <3>1 DEF Numbered, ToSend, InVault, Clean, Exists, Busy
  <2> QED
    BY <1>18, <2>2, <2>3 DEF SyncNow
<1>19. CASE StepAside \/ EndPass \/ (List /\ Dirty = {})
  <2>1. UNCHANGED <<stored, listed, save, removal, vault>>
    BY <1>19 DEF StepAside, EndPass, List, editor
  <2>2. sync'.stage \in {"idle", "list"} /\ sync'.todo = {}
    BY <1>19, Empty DEF StepAside, EndPass, List, Stop, Idle
  <2> QED
    BY <1>9, <1>10, <1>11, <2>1, <2>2
<1>20. CASE List /\ Dirty # {}
  <2>1. UNCHANGED <<stored, listed, save, removal, vault>>
    BY <1>20 DEF List, editor
  <2>2. /\ sync'.stage = "next"
        /\ sync'.todo = {[page |-> p, at |-> stored[p].at, data |-> stored[p].data]
                           : p \in Dirty}
    BY <1>20 DEF List, Idle
  <2>3. \A r \in sync'.todo :
          /\ r.page \in Page /\ Exists(r.page) /\ stored[r.page].dirty
          /\ r = [page |-> r.page, at |-> stored[r.page].at, data |-> stored[r.page].data]
    BY <2>2 DEF Dirty
  <2>4. ToSend'
    BY <2>1, <2>2, <2>3 DEF ToSend, Busy
  <2>5. \A r \in sync'.todo : stored[r.page].at > 0 /\ r.at = stored[r.page].at
    BY <2>3 DEF Exists
  <2> QED
    BY <1>9, <1>10, <2>1, <2>4, <2>5
<1>21. ASSUME NEW r \in sync.todo, Take(r) PROVE Numbered' /\ ToSend' /\ InVault'
  <2>1. UNCHANGED <<stored, listed, save, removal, vault>>
    BY <1>21 DEF Take, editor
  <2>2. /\ sync'.todo = sync.todo \ {r} /\ sync'.page = r.page /\ sync'.at = r.at
        /\ sync'.data = r.data /\ sync'.stage = IF r.data = 0 THEN "mark" ELSE "sending"
    BY <1>1, <1>21 DEF Take, Loop
  <2>3. ToSend'
    BY <1>3, <1>5, <2>1, <2>2 DEF ToSend, Numbered, Exists, Busy
  <2>4. \A s \in sync'.todo : stored[s.page].at > 0 /\ s.at = stored[s.page].at
    BY <1>3, <2>2 DEF Numbered, Exists
  <2> QED
    BY <1>9, <1>10, <2>1, <2>3, <2>4
<1>22. CASE Ingest
  <2>1. UNCHANGED <<stored, listed, save, removal>> /\ sync.stage = "sending"
        /\ vault' = [vault EXCEPT ![sync.at] = sync.data]
    BY <1>22 DEF Ingest, editor
  <2>2. /\ sync'.stage = "mark" /\ sync'.todo = sync.todo /\ sync'.page = sync.page
        /\ sync'.at = sync.at /\ sync'.data = sync.data
    BY <1>1, <1>22 DEF Ingest, Loop
  <2>3. InVault' /\ vault'[sync.at] = sync.data
    BY <1>8, <2>1
  <2>4. ToSend'
    BY <1>3, <2>1, <2>2, <2>3 DEF ToSend, Busy, Exists
  <2>5. \A s \in sync'.todo : stored[s.page].at > 0 /\ s.at = stored[s.page].at
    BY <1>3, <2>2 DEF Numbered, Exists
  <2> QED
    BY <1>9, <2>1, <2>3, <2>4, <2>5
<1>23. ASSUME NEW how \in {"retry", "final"}, UploadFails(how)
       PROVE  Numbered' /\ ToSend' /\ InVault'
  <2>1. UNCHANGED <<stored, listed, save, removal>> /\ sync.stage = "sending"
        /\ (vault' = vault \/ vault' = [vault EXCEPT ![sync.at] = sync.data])
    BY <1>23 DEF UploadFails, editor
  <2>2. sync'.stage = "next" /\ sync'.todo = sync.todo
    BY <1>1, <1>23 DEF UploadFails, Loop
  <2>3. InVault'
    BY <1>8, <1>10, <2>1
  <2>4. \A s \in sync'.todo : stored[s.page].at > 0 /\ s.at = stored[s.page].at
    BY <1>3, <2>2 DEF Numbered, Exists
  <2> QED
    BY <1>9, <1>11, <2>1, <2>2, <2>3, <2>4
<1>24. CASE MarkRead
  <2>1. UNCHANGED <<stored, listed, save, removal, vault>> /\ sync.stage = "mark"
    BY <1>24 DEF MarkRead, editor
  <2>2. sync'.todo = sync.todo
    BY <1>1, <1>24 DEF MarkRead, Loop
  <2>3. CASE StillSent
    <3>1. /\ sync'.stage = "clear" /\ sync'.page = sync.page /\ sync'.at = sync.at
          /\ sync'.data = sync.data /\ sync'.copy = stored[sync.page]
      BY <1>1, <1>24, <2>3 DEF MarkRead, Loop
    <3> QED
      BY <1>3, <2>1, <2>2, <2>3, <3>1
      DEF Numbered, ToSend, InVault, Clean, Exists, Busy, StillSent
  <2>4. CASE ~StillSent
    <3>1. sync'.stage = "next"
      BY <1>1, <1>24, <2>4 DEF MarkRead, Loop
    <3>2. \A s \in sync'.todo : stored[s.page].at > 0 /\ s.at = stored[s.page].at
      BY <1>3, <2>2 DEF Numbered, Exists
    <3> QED
      BY <1>9, <1>10, <1>11, <2>1, <2>2, <3>1, <3>2
  <2> QED
    BY <2>3, <2>4
<1>25. CASE MarkPut
  <2>1. UNCHANGED <<listed, save, removal, vault>> /\ sync.stage = "clear"
        /\ stored' = [stored EXCEPT ![sync.page] = Cleaned(sync.copy)]
    BY <1>25 DEF MarkPut, editor
  <2>2. sync'.stage = "next" /\ sync'.todo = sync.todo
    BY <1>1, <1>25 DEF MarkPut, Loop
  <2>3. /\ sync.page \in Page /\ Exists(sync.page) /\ sync.at = stored[sync.page].at
        /\ sync.data # 0 => vault[sync.at] = sync.data
        /\ sync.copy.at = sync.at /\ sync.copy.data = sync.data
        /\ \A r \in sync.todo : r.page # sync.page
    BY <1>3, <1>6, <2>1 DEF ToSend, Busy
  <2>4. Cleaned(sync.copy).at = sync.at /\ Cleaned(sync.copy).data = sync.data
    BY <1>1, <2>3 DEF Cleaned, Loop, Record
  <2>5. /\ stored'[sync.page] = Cleaned(sync.copy)
        /\ \A p \in Page \ {sync.page} : stored'[p] = stored[p]
    BY <2>1, <2>3 DEF TypeOK
  <2>6. \A p \in Page : stored'[p].at = stored[p].at
    BY <2>3, <2>4, <2>5
  <2>7. \A p \in Page : stored'[p].at > 0 /\ ~stored'[p].dirty /\ stored'[p].data # 0
          => vault'[stored'[p].at] = stored'[p].data
    BY <1>3, <2>1, <2>3, <2>4, <2>5 DEF InVault, Clean, Exists
  <2>8. Numbered' /\ InVault'
    BY <1>3, <1>5, <1>7, <2>1, <2>2, <2>6, <2>7 DEF Numbered, Exists
  <2>9. ToSend'
    BY <1>3, <1>5, <2>2, <2>3, <2>5 DEF ToSend, Busy
  <2> QED
    BY <2>8, <2>9
<1>26. CASE Interval
  BY <1>3, <1>26 DEF Interval, editor, Numbered, ToSend, InVault, Clean, Exists, Busy
<1>27. CASE Restart
  <2>1. /\ stored' = stored /\ save' = NoSave /\ removal' = NoRemoval /\ sync' = Idle
        /\ DOMAIN listed' = {p \in Page : Exists(p)}
        /\ \/ vault' = vault
           \/ sync.stage = "sending" /\ vault' = [vault EXCEPT ![sync.at] = sync.data]
    BY <1>27 DEF Restart
  <2>2. DOMAIN listed' = DOMAIN listed
    BY <1>3, <2>1 DEF Numbered, TypeOK
  <2>3. sync'.stage = "idle" /\ sync'.todo = {}
    BY <2>1, Empty
  <2>4. InVault'
    BY <1>8, <1>10, <2>1
  <2>5. Numbered'
    BY <1>3, <2>1, <2>2, <2>3 DEF Numbered, Exists
  <2> QED
    BY <1>11, <2>1, <2>3, <2>4, <2>5
<1>28. CASE UNCHANGED vars
  BY <1>3, <1>28 DEF vars, editor, Numbered, ToSend, InVault, Clean, Exists, Busy
<1> QED
  BY <1>2, <1>12, <1>13, <1>14, <1>15, <1>16, <1>17, <1>18, <1>19, <1>20, <1>21, <1>22,
     <1>23, <1>24, <1>25, <1>26, <1>27, <1>28 DEF Next, Write, Upload
-----------------------------------------------------------------------------
LEMMA Always == Spec => []Inv
<1>1. Init => Inv
  BY InitInv
<1>2. Inv /\ [Next]_vars => Inv'
  BY TypeStep, ArrivedStep, InStepStep DEF Inv
<1> QED
  BY <1>1, <1>2, PTL DEF Spec

\* Every variable of InkSync keeps its shape, for any finite set of pages and
\* any bounds: in particular no page has a number beyond the number of pages.
THEOREM TypeCorrect == Spec => []TypeOK
<1>1. Inv => TypeOK
  BY DEF Inv
<1> QED
  BY <1>1, Always, PTL

\* "A page cannot be silently left behind" (public/js/ink/store.js): however
\* savePage, deletePage, markSynced, failed uploads and restarts interleave,
\* what a page record holds is queued or has reached the server.
THEOREM NeverLeftBehindAlways == Spec => []NeverLeftBehind
<1>1. Inv => NeverLeftBehind
  BY DEF Inv, ArrivedInv, Settled, Arrived, NeverLeftBehind, Exists
<1> QED
  BY <1>1, Always, PTL

\* Until a page is deleted, page n of the vault (notebook-page-ingest of
\* routes/vault.js) is what the clean page n of the notebook holds.
THEOREM VaultAlwaysInStep == Spec => []VaultInStep
<1>1. Inv => VaultInStep
  BY DEF Inv, InStepInv, VaultInStep
<1> QED
  BY <1>1, Always, PTL

-----------------------------------------------------------------------------
(***************************************************************************)
(* VaultSync.                                                              *)
(***************************************************************************)
\* Where the work of a process that has not been restarted is: the three copies
\* on the local disk are in order, an unpushed commit is remembered, and a write
\* that is not committed is announced, about to be, or dropped.
WorkAccounted ==
  /\ head <= index
  /\ index <= tree
  /\ ~restarted => /\ remote < head => queue.push
                   /\ \A v \in 1..tree :
                        v <= head \/ v \in unannounced \cup queue.commits \cup dropped

VaultInv == V!VaultTypeOK /\ WorkAccounted

\* A pull leaves in the index what is committed, at least.
LEMMA UnstageStep ==
  ASSUME index \in Nat, head \in Nat, V!Unstage
  PROVE  index' \in Nat /\ head <= index' /\ index' <= index
BY DEF V!Unstage

-----------------------------------------------------------------------------
\* A run that goes on to a stage stays a run.
LEMMA GotoType ==
  ASSUME worker \in [V!Worker -> V!Run], NEW w \in V!Worker, NEW stage \in V!Stage,
         V!Goto(w, stage)
  PROVE  worker' \in [V!Worker -> V!Run]
BY DEF V!Goto, V!Run

\* So does one that begins with a flush, or with a push when nothing waits.
LEMMA StartType ==
  ASSUME worker \in [V!Worker -> V!Run], NEW w \in V!Worker, NEW push \in BOOLEAN,
         V!StartFlush(w, push)
  PROVE  worker' \in [V!Worker -> V!Run]
<1>1. \A pending : V!AfterFlush(push, pending) \in V!Stage
  BY DEF V!AfterFlush, V!Stage
<1>2. "add" \in V!Stage
  BY DEF V!Stage
<1>3. PICK stage \in V!Stage :
        worker' = [worker EXCEPT ![w] = [push |-> push, stage |-> stage]]
  BY <1>1, <1>2 DEF V!StartFlush
<1> QED
  BY <1>3 DEF V!Run

\* Every step of a run leads to a stage of a run.
LEMMA WorkerStep ==
  ASSUME V!VaultTypeOK, NEW w \in V!Worker,
         \/ V!CommitTimer(w) \/ V!PushTimer(w) \/ V!flushAndPush(w) \/ V!Git(w)
         \/ V!FlushFails(w) \/ V!PushFails(w)
  PROVE  worker' \in [V!Worker -> V!Run]
<1>1. worker \in [V!Worker -> V!Run]
  BY DEF V!VaultTypeOK
<1>2. CASE V!CommitTimer(w) \/ V!flushAndPush(w)
  BY <1>1, <1>2, StartType DEF V!CommitTimer, V!flushAndPush
<1>3. SUFFICES ASSUME NEW stage, V!Goto(w, stage), stage \in V!Stage
               PROVE  worker' \in [V!Worker -> V!Run]
  <2>1. \E stage \in V!Stage : V!Goto(w, stage)
        \/ V!CommitTimer(w) \/ V!flushAndPush(w)
    BY DEF V!PushTimer, V!Git, V!Add, V!Status, V!Clean, V!Commit, V!Push, V!Rejected,
           V!PullRebase, V!FlushFails, V!PushFails, V!AfterFlush, V!Stage
  <2> QED
    BY <1>2, <2>1
<1> QED
  BY <1>1, <1>3, GotoType

-----------------------------------------------------------------------------
\* The variables start with the shape of TypeOK and every step keeps it: the
\* queue read back by init() is one that was saved.
LEMMA VaultTypeStep == V!Bounded /\ V!VaultTypeOK /\ [V!Next]_(V!vars) => V!VaultTypeOK'
<1> USE DEF V!Bounded, V!VaultTypeOK, V!Queue, V!WriteNo, V!vars, V!git, V!timers, V!ledger,
            V!bounds
<1> SUFFICES ASSUME V!Bounded, V!VaultTypeOK, [V!Next]_(V!vars) PROVE V!VaultTypeOK'
  OBVIOUS
<1>1. CASE V!Write
  BY <1>1 DEF V!Write
<1>2. ASSUME NEW v \in unannounced, V!notifyChange(v) PROVE V!VaultTypeOK'
  BY <1>2 DEF V!notifyChange
<1>3. CASE V!SaveQueue
  BY <1>3 DEF V!SaveQueue
<1>4a. CASE V!ForeignPush
  BY <1>4a DEF V!ForeignPush
<1>4b. V!Unstage => index' \in 0..MaxWrites
  BY UnstageStep
<1>4c. CASE V!QueuePull \/ V!BackgroundPull
  BY <1>4b, <1>4c DEF V!QueuePull, V!BackgroundPull
<1>5. ASSUME NEW w \in V!Worker, V!CommitTimer(w) \/ V!PushTimer(w) \/ V!flushAndPush(w)
      PROVE V!VaultTypeOK'
  BY <1>5, WorkerStep DEF V!CommitTimer, V!PushTimer, V!flushAndPush
<1>6. ASSUME NEW w \in V!Worker, V!Add(w) \/ V!Status(w) PROVE V!VaultTypeOK'
  BY <1>6, WorkerStep DEF V!Git, V!Add, V!Status
<1>7a. ASSUME NEW w \in V!Worker, V!Clean(w) PROVE V!VaultTypeOK'
  BY <1>7a, WorkerStep DEF V!Git, V!Clean, V!Discard
<1>7b. ASSUME NEW w \in V!Worker, V!Commit(w) PROVE V!VaultTypeOK'
  BY <1>7b, WorkerStep DEF V!Git, V!Commit, V!Discard
<1>8. ASSUME NEW w \in V!Worker, V!Push(w) \/ V!Rejected(w) \/ V!PullRebase(w)
      PROVE  V!VaultTypeOK'
  BY <1>4b, <1>8, WorkerStep DEF V!Git, V!Push, V!Rejected, V!PullRebase, V!Backoff
<1>9a. ASSUME NEW w \in V!Worker, V!FlushFails(w) PROVE V!VaultTypeOK'
  <2>1. failed' \subseteq V!WriteNo
    BY <1>9a DEF V!FlushFails
  <2>2. troubles' \in 0..MaxTroubles
    BY <1>9a DEF V!FlushFails
  <2> QED
    BY <2>1, <2>2, <1>9a, WorkerStep DEF V!FlushFails
<1>9b. ASSUME NEW w \in V!Worker, V!PushFails(w) PROVE V!VaultTypeOK'
  <2>0. remote' \in {remote, head}
    BY ONLY <1>9b DEF V!PushFails
  <2>1. remote' \in 0..MaxWrites /\ index' \in 0..MaxWrites
    BY <2>0, <1>4b, <1>9b DEF V!PushFails
  <2>c. troubles < MaxTroubles /\ troubles' = troubles + 1
    BY ONLY <1>9b DEF V!PushFails
  <2>2. troubles' \in 0..MaxTroubles
    BY <2>c
  <2>3. worker' \in [V!Worker -> V!Run]
    BY <1>9b, WorkerStep
  <2> QED
    BY <2>1, <2>2, <2>3, <1>9b DEF V!PushFails, V!Backoff
<1>10. CASE V!Restart
  <2>1. worker' \in [V!Worker -> V!Run]
    BY <1>10 DEF V!Restart, V!Idle, V!Run, V!Stage
  <2>2. commitTimer' \in BOOLEAN /\ pushTimer' \in BOOLEAN
    BY <1>10 DEF V!Restart, V!AnyPending
  <2>3. troubles' \in 0..MaxTroubles /\ restarted' \in BOOLEAN
    BY <1>10 DEF V!Restart
  <2>4. queue' \in V!Queue /\ index' \in 0..MaxWrites
    BY <1>4b, <1>10 DEF V!Restart, V!LoadedQueue
  <2> QED
    BY <2>1, <2>2, <2>3, <2>4, <1>10 DEF V!Restart
<1>11. CASE UNCHANGED V!vars
  BY <1>11
<1> QED
  BY <1>1, <1>2, <1>3, <1>4a, <1>4c, <1>5, <1>6, <1>7a, <1>7b, <1>8, <1>9a, <1>9b,
     <1>10, <1>11
     DEF V!Next, V!Announce, V!Timer, V!Git

LEMMA VaultTypeInit == V!Bounded /\ V!Init => V!VaultTypeOK
<1> SUFFICES ASSUME V!Bounded, V!Init PROVE V!VaultTypeOK
  OBVIOUS
<1>1. worker \in [V!Worker -> V!Run]
  BY DEF V!Init, V!Idle, V!Run, V!Stage
<1>2. queue \in V!Queue /\ file \in V!Queue
  BY DEF V!Init, V!Queue
<1>3. 0 \in 0..MaxWrites /\ 0 \in 0..MaxTroubles
  BY DEF V!Bounded
<1> QED
  BY <1>1, <1>2, <1>3 DEF V!Init, V!VaultTypeOK

\* V is the module of the steps on the same constants and variables, so its
\* formulas about a state are the ones VaultState states.
LEMMA SameFormulas ==
  /\ Bounded => V!Bounded
  /\ V!VaultTypeOK => VaultTypeOK
  /\ V!PendingIsTold => PendingIsTold
BY DEF Bounded, V!Bounded, PendingIsTold, V!PendingIsTold, VaultTypeOK, V!VaultTypeOK,
       Worker, V!Worker, WriteNo, V!WriteNo, Queue, V!Queue, Stage, V!Stage, Run, V!Run

\* Every variable of the vault's sync keeps its shape.
THEOREM VaultTypeCorrect ==
  ASSUME Bounded
  PROVE  V!Spec => []VaultTypeOK
<1>1. V!Bounded
  BY SameFormulas
<1>2. V!VaultTypeOK => VaultTypeOK
  BY SameFormulas
<1> QED
  BY <1>1, <1>2, VaultTypeInit, VaultTypeStep, PTL DEF V!Spec

-----------------------------------------------------------------------------
\* No step loses sight of work: a commit clears the announcements only of what
\* it contains or counts as dropped, and a push clears pendingPush only when
\* everything committed is on the remote.
LEMMA WorkStep == V!VaultTypeOK /\ WorkAccounted /\ [V!Next]_(V!vars) => WorkAccounted'
<1> SUFFICES ASSUME V!VaultTypeOK, WorkAccounted, [V!Next]_(V!vars) PROVE WorkAccounted'
  OBVIOUS
<1> USE DEF WorkAccounted, V!vars, V!git, V!timers, V!ledger, V!bounds
<1>n. tree \in Nat /\ index \in Nat /\ head \in Nat /\ remote \in Nat
  BY DEF V!VaultTypeOK
<1>q. queue \in V!Queue /\ unannounced \subseteq Nat
  BY DEF V!VaultTypeOK, V!WriteNo
<1>1. CASE V!Write
  BY <1>1, <1>n DEF V!Write
<1>2. ASSUME NEW v \in unannounced, V!notifyChange(v) PROVE WorkAccounted'
  BY <1>2, <1>n, <1>q DEF V!notifyChange, V!Queue
<1>3. CASE V!SaveQueue \/ V!ForeignPush \/ V!QueuePull
  BY <1>3 DEF V!SaveQueue, V!ForeignPush, V!QueuePull
<1>p. V!Unstage => index' \in Nat /\ head <= index' /\ index' <= tree
  BY <1>n, UnstageStep
<1>b. CASE V!BackgroundPull
  BY <1>b, <1>p DEF V!BackgroundPull
<1>4. ASSUME NEW w \in V!Worker, V!CommitTimer(w) \/ V!PushTimer(w) \/ V!flushAndPush(w)
      PROVE WorkAccounted'
  BY <1>4 DEF V!CommitTimer, V!PushTimer, V!flushAndPush
<1>5. ASSUME NEW w \in V!Worker, V!Add(w) \/ V!Status(w) PROVE WorkAccounted'
  BY <1>5, <1>n DEF V!Add, V!Status
<1>6a. ASSUME NEW w \in V!Worker, V!Clean(w) PROVE WorkAccounted'
  BY <1>6a, <1>n, <1>q DEF V!Clean, V!Discard, V!Queue
<1>6b. ASSUME NEW w \in V!Worker, V!Commit(w) PROVE WorkAccounted'
  BY <1>6b, <1>n, <1>q DEF V!Commit, V!Discard, V!Queue
<1>7a. ASSUME NEW w \in V!Worker, V!Push(w) PROVE WorkAccounted'
  <2>1. queue'.commits = queue.commits /\ remote' = head
    BY <1>7a, <1>q DEF V!Push, V!Queue
  <2>2. UNCHANGED <<tree, index, head, unannounced, dropped, restarted>>
    BY <1>7a DEF V!Push
  <2> QED
    BY <2>1, <2>2, <1>n
<1>7b. ASSUME NEW w \in V!Worker, V!Rejected(w) \/ V!PullRebase(w) PROVE WorkAccounted'
  BY <1>7b, <1>p DEF V!Rejected, V!PullRebase
<1>8. ASSUME NEW w \in V!Worker, V!FlushFails(w) \/ V!PushFails(w) PROVE WorkAccounted'
  <2>1. UNCHANGED <<tree, head, queue, unannounced, dropped, restarted>>
    BY <1>8 DEF V!FlushFails, V!PushFails
  <2>3. head <= index' /\ index' <= tree
    BY <1>8, <1>p DEF V!FlushFails, V!PushFails
  <2>2. remote' \in {remote, head}
    BY <1>8 DEF V!FlushFails, V!PushFails
  <2> QED
    BY <2>1, <2>2, <2>3, <1>n
<1>9. CASE V!Restart
  BY <1>9, <1>p DEF V!Restart
<1>10. CASE UNCHANGED V!vars
  BY <1>10
<1> QED
  BY <1>1, <1>2, <1>3, <1>b, <1>4, <1>5, <1>6a, <1>6b, <1>7a, <1>7b, <1>8,
     <1>9, <1>10
     DEF V!Next, V!Announce, V!Timer, V!Git

LEMMA WorkInit == V!Init => WorkAccounted
BY DEF V!Init, WorkAccounted

\* The status pill is honest: in a process that has not been restarted, every
\* write that is missing from the remote is reported as pending, is about to be
\* announced, or is one whose announcement a commit discarded without its write: it
\* came in while the commit ran, or a pull had taken the write out of the index.
THEOREM PendingTold ==
  ASSUME Bounded
  PROVE  V!Spec => []PendingIsTold
<1>0. V!Bounded
  BY SameFormulas
<1>1. V!Init => VaultInv
  BY <1>0, VaultTypeInit, WorkInit DEF VaultInv
<1>2. VaultInv /\ [V!Next]_(V!vars) => VaultInv'
  BY <1>0, VaultTypeStep, WorkStep DEF VaultInv
<1>3. VaultInv => PendingIsTold
  <2> SUFFICES ASSUME VaultInv, ~restarted, NEW v \in 1..tree, ~(v <= remote), v <= head
               PROVE  queue.push
    BY DEF VaultInv, WorkAccounted, PendingIsTold
  <2>1. head \in Nat /\ remote \in Nat /\ tree \in Nat
    BY DEF VaultInv, V!VaultTypeOK
  <2> QED
    BY <2>1 DEF VaultInv, WorkAccounted
<1> QED
  BY <1>1, <1>2, <1>3, PTL DEF V!Spec

-----------------------------------------------------------------------------
\* Why a saved announcement is never taken off the file early: the file is only
\* ever replaced by the queue, and what the queue has lost since it was saved is
\* in HEAD, or a commit discarded it, or its commit failed.
FileKept == \A v \in file.commits : v \in queue.commits \/ V!Committed(v)

SavedInv == VaultInv /\ FileKept

\* What is committed, discarded or failed stays so.
LEMMA StaysCommitted ==
  ASSUME V!VaultTypeOK, WorkAccounted, [V!Next]_(V!vars), NEW v \in Nat, V!Committed(v)
  PROVE  V!Committed(v)'
<1>n. head \in Nat /\ index \in Nat
  BY DEF V!VaultTypeOK
<1>1. head' \in {head, index} /\ dropped \subseteq dropped' /\ failed \subseteq failed'
  BY DEF V!Next, V!vars, V!git, V!timers, V!ledger, V!bounds, V!Write, V!Announce,
         V!notifyChange, V!SaveQueue, V!ForeignPush, V!QueuePull, V!BackgroundPull, V!Timer, V!CommitTimer,
         V!PushTimer, V!flushAndPush, V!Git, V!Add, V!Status, V!Clean, V!Commit,
         V!Discard, V!FlushFails, V!Push, V!Rejected, V!PullRebase, V!PushFails,
         V!Restart
<1>2. head <= head'
  BY <1>1, <1>n DEF WorkAccounted
<1>3. v <= head => v <= head'
  BY <1>1, <1>2, <1>n
<1> QED
  BY <1>1, <1>3 DEF V!Committed, V!Waits

\* What leaves the queue of a process is committed, or the process died.
LEMMA LeavesCommitted ==
  ASSUME V!VaultTypeOK, [V!Next]_(V!vars), ~V!Restart,
         NEW v \in queue.commits, v \notin queue'.commits
  PROVE  V!Committed(v)'
<1>n. v \in Nat /\ head \in Nat /\ index \in Nat /\ queue \in V!Queue
  BY DEF V!VaultTypeOK, V!Queue, V!WriteNo
<1>1. PICK w \in V!Worker : V!Clean(w) \/ V!Commit(w)
  <2>1. ASSUME NEW u \in unannounced, V!notifyChange(u) PROVE FALSE
    BY <2>1, <1>n DEF V!notifyChange, V!Queue
  <2>2. ASSUME NEW w \in V!Worker, V!Push(w) PROVE FALSE
    BY <2>2, <1>n DEF V!Push, V!Queue
  <2>3. queue # queue'
    OBVIOUS
  <2> QED
    BY <2>1, <2>2, <2>3
       DEF V!Next, V!vars, V!Write, V!Announce, V!SaveQueue, V!ForeignPush,
           V!QueuePull, V!BackgroundPull, V!Timer, V!CommitTimer, V!PushTimer,
           V!flushAndPush, V!Git,
           V!Add, V!Status, V!FlushFails, V!Rejected, V!PullRebase, V!PushFails
<1>2. CASE V!Clean(w)
  BY <1>2, <1>n DEF V!Clean, V!Discard, V!Committed, V!Waits, V!git
<1>3. CASE V!Commit(w)
  BY <1>3, <1>n DEF V!Commit, V!Discard, V!Committed, V!Waits
<1> QED
  BY <1>1, <1>2, <1>3

LEMMA FileStep ==
  V!VaultTypeOK /\ WorkAccounted /\ FileKept /\ [V!Next]_(V!vars) => FileKept'
<1> SUFFICES ASSUME V!VaultTypeOK, WorkAccounted, FileKept, [V!Next]_(V!vars),
                    NEW v \in file'.commits
             PROVE  v \in queue'.commits \/ V!Committed(v)'
  BY DEF FileKept
<1>0. file' = file \/ V!SaveQueue
  BY DEF V!Next, V!vars, V!Write, V!Announce, V!notifyChange, V!ForeignPush,
         V!QueuePull, V!BackgroundPull, V!Timer, V!CommitTimer, V!PushTimer,
         V!flushAndPush, V!Git,
         V!Add, V!Status, V!Clean, V!Commit, V!FlushFails, V!Push, V!Rejected,
         V!PullRebase, V!PushFails, V!Restart
<1>1. CASE V!SaveQueue
  BY <1>1 DEF V!SaveQueue
<1>2. CASE V!Restart
  BY <1>2 DEF V!Restart, V!LoadedQueue
<1>3. CASE file' = file /\ ~V!Restart
  <2>1. v \in Nat
    BY <1>3 DEF V!VaultTypeOK, V!Queue, V!WriteNo
  <2>2. CASE v \in queue.commits
    BY <2>2, <1>3, LeavesCommitted
  <2>3. CASE V!Committed(v)
    BY <2>1, <2>3, StaysCommitted
  <2> QED
    BY <1>3, <2>2, <2>3 DEF FileKept
<1> QED
  BY <1>0, <1>1, <1>2, <1>3

\* A saved announcement survives any number of crashes up to a commit, which has its
\* write unless it failed or discarded the announcement (`dropped`: it came in while
\* the commit ran, or a pull had taken the write out of the index).
THEOREM SavedStaysUntilCommitted ==
  ASSUME Bounded
  PROVE  V!Spec => SavedStays
<1>0. V!Bounded
  BY SameFormulas
<1>1. V!Init => SavedInv
  BY <1>0, VaultTypeInit, WorkInit DEF SavedInv, VaultInv, V!Init, FileKept
<1>2. SavedInv /\ [V!Next]_(V!vars) => SavedInv'
  BY <1>0, VaultTypeStep, WorkStep, FileStep DEF SavedInv, VaultInv
<1>3. SavedInv /\ [V!Next]_(V!vars)
      => [\A v \in file.commits \ file'.commits : Committed(v)']_file
  <2> SUFFICES ASSUME SavedInv, [V!Next]_(V!vars), NEW v \in file.commits,
                      v \notin file'.commits
               PROVE  V!Committed(v)'
    BY DEF Committed, Waits, V!Committed, V!Waits
  <2>0. V!VaultTypeOK /\ WorkAccounted /\ FileKept
    BY DEF SavedInv, VaultInv
  <2>1. v \in Nat
    BY <2>0 DEF V!VaultTypeOK, V!Queue, V!WriteNo
  <2>2. V!SaveQueue
    BY DEF V!Next, V!vars, V!Write, V!Announce, V!notifyChange, V!ForeignPush,
           V!QueuePull, V!BackgroundPull, V!Timer, V!CommitTimer, V!PushTimer,
           V!flushAndPush, V!Git,
           V!Add, V!Status, V!Clean, V!Commit, V!FlushFails, V!Push, V!Rejected,
           V!PullRebase, V!PushFails, V!Restart
  <2>3. v \notin queue.commits
    BY <2>2 DEF V!SaveQueue
  <2>4. V!Committed(v)
    BY <2>0, <2>3 DEF FileKept
  <2> QED
    BY <2>0, <2>1, <2>4, StaysCommitted
<1> QED
  BY <1>1, <1>2, <1>3, PTL DEF V!Spec, SavedStays

-----------------------------------------------------------------------------
(***************************************************************************)
(* Towards SavedIsCommitted and ReachesRemote: who is to do the work that  *)
(* is left.                                                                *)
(***************************************************************************)
Flushing(w) == worker[w].stage \in {"add", "status", "clean", "commit"}
Pushing(w)  == worker[w].stage \in {"push", "pull", "push again"}

\* What is announced has a timer set or a run on its way to it, unless its commit
\* failed; what is committed has a push ahead, unless the process was restarted.
InHand ==
  /\ remote <= head
  /\ ~(queue.commits \subseteq failed) => commitTimer \/ \E w \in V!Worker : Flushing(w)
  /\ ~restarted /\ queue.push => pushTimer \/ \E w \in V!Worker : Pushing(w)

LiveInv == SavedInv /\ InHand

\* The run that takes a step, and the others.
LEMMA GotoStep ==
  ASSUME worker \in [V!Worker -> V!Run], NEW w \in V!Worker, NEW stage, V!Goto(w, stage)
  PROVE  /\ worker'[w].stage = stage /\ worker'[w].push = worker[w].push
         /\ \A u \in V!Worker \ {w} : worker'[u] = worker[u]
BY DEF V!Goto, V!Run

LEMMA StartStep ==
  ASSUME worker \in [V!Worker -> V!Run], NEW w \in V!Worker, NEW push, V!StartFlush(w, push)
  PROVE  /\ worker'[w].stage = IF queue.commits # {} THEN "add"
                               ELSE IF push /\ queue.push THEN "push" ELSE "idle"
         /\ worker'[w].push = push
         /\ \A u \in V!Worker \ {w} : worker'[u] = worker[u]
BY DEF V!StartFlush, V!AfterFlush

\* A step of one run leaves to the others what they are about.
LEMMA OthersGoOn ==
  ASSUME NEW w \in V!Worker, \A u \in V!Worker \ {w} : worker'[u] = worker[u]
  PROVE  /\ (\E u \in V!Worker : Flushing(u)) => Flushing(w) \/ \E u \in V!Worker : Flushing(u)'
         /\ (\E u \in V!Worker : Pushing(u)) => Pushing(w) \/ \E u \in V!Worker : Pushing(u)'
BY DEF Flushing, Pushing

\* Every step leaves what remains to be done in somebody's hands.
LEMMA InHandStep == VaultInv /\ InHand /\ [V!Next]_(V!vars) => InHand'
<1> SUFFICES ASSUME VaultInv, InHand, [V!Next]_(V!vars) PROVE InHand'
  OBVIOUS
<1>n. /\ index \in Nat /\ head \in Nat /\ remote \in Nat /\ head <= index
      /\ queue \in V!Queue /\ worker \in [V!Worker -> V!Run]
  BY DEF VaultInv, V!VaultTypeOK, WorkAccounted
<1> USE DEF V!git, V!timers, V!ledger, V!bounds
<1>1. CASE UNCHANGED V!vars
  BY <1>1 DEF V!vars, InHand, Flushing, Pushing
<1>2. CASE V!Write \/ V!SaveQueue \/ V!ForeignPush \/ V!QueuePull \/ V!BackgroundPull
  BY <1>2 DEF V!Write, V!SaveQueue, V!ForeignPush, V!QueuePull, V!BackgroundPull, InHand,
              Flushing, Pushing
<1>3. ASSUME NEW v \in unannounced, V!notifyChange(v) PROVE InHand'
  BY <1>3, <1>n DEF V!notifyChange, InHand, V!Queue, Pushing
<1>4. ASSUME NEW w \in V!Worker, V!CommitTimer(w) PROVE InHand'
  <2>1. /\ worker'[w].stage = IF queue.commits # {} THEN "add" ELSE "idle"
        /\ \A u \in V!Worker \ {w} : worker'[u] = worker[u]
    BY <1>4, <1>n, StartStep DEF V!CommitTimer
  <2>2. worker[w].stage = "idle"
    BY <1>4 DEF V!CommitTimer, V!Free, V!At
  <2>3. queue.commits # {} => Flushing(w)'
    BY <2>1 DEF Flushing
  <2> QED
    BY <1>4, <2>1, <2>2, <2>3, OthersGoOn DEF V!CommitTimer, InHand, Pushing
<1>5. ASSUME NEW w \in V!Worker, V!flushAndPush(w) PROVE InHand'
  <2>1. \A u \in V!Worker \ {w} : worker'[u] = worker[u]
    BY <1>5, <1>n, StartStep DEF V!flushAndPush
  <2>2. worker[w].stage = "idle"
    BY <1>5 DEF V!flushAndPush, V!Free, V!At
  <2> QED
    BY <1>5, <2>1, <2>2, OthersGoOn DEF V!flushAndPush, InHand, Pushing, Flushing
<1>6. ASSUME NEW w \in V!Worker, V!PushTimer(w) PROVE InHand'
  <2>1. /\ worker'[w].stage = V!AfterFlush(TRUE, queue.push)
        /\ \A u \in V!Worker \ {w} : worker'[u] = worker[u]
    BY <1>6, <1>n, GotoStep DEF V!PushTimer
  <2>2. worker[w].stage = "idle"
    BY <1>6 DEF V!PushTimer, V!Free, V!At
  <2>3. queue.push => Pushing(w)'
    BY <2>1 DEF Pushing, V!AfterFlush
  <2> QED
    BY <1>6, <2>1, <2>2, <2>3, OthersGoOn DEF V!PushTimer, InHand, Flushing
<1>7. ASSUME NEW w \in V!Worker, V!Add(w) \/ V!Status(w) PROVE InHand'
  <2>1. /\ \A u \in V!Worker \ {w} : worker'[u] = worker[u]
        /\ worker'[w].stage \in {"status", "clean", "commit"}
    BY <1>7, <1>n, GotoStep DEF V!Add, V!Status
  <2>2. Flushing(w)' /\ ~Pushing(w)
    BY <1>7, <2>1 DEF Flushing, Pushing, V!Add, V!Status, V!At
  <2> QED
    BY <1>7, <2>1, <2>2, OthersGoOn DEF V!Add, V!Status, InHand
<1>8. ASSUME NEW w \in V!Worker, V!Clean(w) PROVE InHand'
  <2>1. /\ \A u \in V!Worker \ {w} : worker'[u] = worker[u]
        /\ queue'.commits = {} /\ queue'.push = queue.push
    BY <1>8, <1>n, GotoStep DEF V!Clean, V!Discard
  <2>2. ~Pushing(w)
    BY <1>8 DEF Pushing, V!Clean, V!At
  <2> QED
    BY <1>8, <2>1, <2>2, OthersGoOn DEF V!Clean, InHand
<1>9. ASSUME NEW w \in V!Worker, V!Commit(w) PROVE InHand'
  <2>1. queue'.commits = {} /\ pushTimer' /\ head' = index /\ remote' = remote
    BY <1>9 DEF V!Commit, V!Discard
  <2> QED
    BY <2>1, <1>n DEF InHand
<1>10. ASSUME NEW w \in V!Worker, V!Push(w) PROVE InHand'
  <2>1. /\ \A u \in V!Worker \ {w} : worker'[u] = worker[u]
        /\ queue'.commits = queue.commits /\ queue'.push = FALSE
    BY <1>10, <1>n, GotoStep DEF V!Push, V!Queue
  <2>2. ~Flushing(w)
    BY <1>10 DEF Flushing, V!Push, V!At
  <2>3. remote' = head /\ UNCHANGED <<head, commitTimer, failed>>
    BY <1>10 DEF V!Push
  <2> QED
    BY <1>n, <2>1, <2>2, <2>3, OthersGoOn DEF InHand
<1>11. ASSUME NEW w \in V!Worker, V!Rejected(w) \/ V!PullRebase(w) PROVE InHand'
  <2>1. /\ \A u \in V!Worker \ {w} : worker'[u] = worker[u]
        /\ worker'[w].stage \in {"pull", "push again"} \/ pushTimer'
    BY <1>11, <1>n, GotoStep DEF V!Rejected, V!PullRebase, V!Backoff
  <2>2. ~Flushing(w) /\ (Pushing(w)' \/ pushTimer')
    BY <1>11, <2>1 DEF Flushing, Pushing, V!Rejected, V!PullRebase, V!At
  <2>3. pushTimer => pushTimer'
    BY <1>11 DEF V!Rejected, V!PullRebase, V!Backoff
  <2>4. UNCHANGED <<head, remote, queue, commitTimer, failed, restarted>>
    BY <1>11 DEF V!Rejected, V!PullRebase
  <2> QED
    BY <2>1, <2>2, <2>3, <2>4, OthersGoOn DEF InHand
<1>12. ASSUME NEW w \in V!Worker, V!FlushFails(w) PROVE InHand'
  <2>1. /\ \A u \in V!Worker \ {w} : worker'[u] = worker[u]
        /\ queue'.commits \subseteq failed' /\ queue'.push = queue.push
    BY <1>12, <1>n, GotoStep DEF V!FlushFails
  <2>2. ~Pushing(w)
    BY <1>12 DEF Pushing, V!FlushFails, V!At
  <2> QED
    BY <1>12, <2>1, <2>2, OthersGoOn DEF V!FlushFails, InHand
<1>13. ASSUME NEW w \in V!Worker, V!PushFails(w) PROVE InHand'
  <2>1. /\ \A u \in V!Worker \ {w} : worker'[u] = worker[u]
        /\ pushTimer' /\ remote' \in {remote, head}
    BY <1>13, <1>n, GotoStep DEF V!PushFails, V!Backoff
  <2>2. ~Flushing(w)
    BY <1>13 DEF Flushing, V!PushFails, V!At
  <2>3. UNCHANGED <<head, queue, commitTimer, failed>>
    BY <1>13 DEF V!PushFails
  <2> QED
    BY <1>n, <2>1, <2>2, <2>3, OthersGoOn DEF InHand
<1>14. CASE V!Restart
  <2>1. restarted' /\ (queue'.commits # {} => commitTimer') /\ UNCHANGED <<head, remote>>
    BY <1>14 DEF V!Restart, V!AnyPending, V!LoadedQueue
  <2> QED
    BY <2>1 DEF InHand
<1> QED
  BY <1>1, <1>2, <1>3, <1>4, <1>5, <1>6, <1>7, <1>8, <1>9, <1>10, <1>11, <1>12, <1>13, <1>14
  DEF V!Next, V!Announce, V!Timer, V!Git

LEMMA LiveAlways ==
  ASSUME Bounded
  PROVE  V!Spec => []LiveInv
<1>0. V!Bounded
  BY SameFormulas
<1>1. V!Init => LiveInv
  <2>1. V!Init => InHand
    BY DEF V!Init, InHand
  <2> QED
    BY <1>0, <2>1, VaultTypeInit, WorkInit DEF LiveInv, SavedInv, VaultInv, V!Init, FileKept
<1>2. LiveInv /\ [V!Next]_(V!vars) => LiveInv'
  BY <1>0, VaultTypeStep, WorkStep, FileStep, InHandStep DEF LiveInv, SavedInv, VaultInv
<1> QED
  BY <1>1, <1>2, PTL DEF V!Spec

-----------------------------------------------------------------------------
(***************************************************************************)
(* Once nobody writes and git works: every stage of a run is left for the  *)
(* next one only.                                                          *)
(***************************************************************************)
Quiet == UNCHANGED <<tree, unannounced, troubles>>
Calm  == [V!Next]_(V!vars) /\ [Quiet]_(V!vars)

Clear  == queue.commits = {}
Behind == foreign
PushSet == pushTimer

Rests(w)    == worker[w].stage = "idle"
Adding(w)   == worker[w].stage = "add"
Checking(w) == worker[w].stage = "status"
Ending(w)   == worker[w].stage \in {"clean", "commit"}
Pushes(w)   == worker[w].stage = "push"
Pulls(w)    == worker[w].stage = "pull"
Again(w)    == worker[w].stage = "push again"

\* What can still happen.
CalmNext ==
  \/ UNCHANGED V!vars
  \/ V!SaveQueue
  \/ V!QueuePull
  \/ V!BackgroundPull
  \/ \E w \in V!Worker : V!CommitTimer(w) \/ V!PushTimer(w) \/ V!flushAndPush(w) \/ V!Git(w)

LEMMA CalmStep ==
  ASSUME V!VaultTypeOK, Calm
  PROVE  CalmNext
<1> USE DEF V!git, V!timers, V!ledger, V!bounds
<1>1. UNCHANGED <<tree, unannounced, troubles>>
  BY DEF Calm, Quiet, V!vars
<1>2. tree \in Nat /\ troubles \in Nat
  BY DEF V!VaultTypeOK
<1>3. ~V!Write /\ ~V!Announce
  BY <1>1, <1>2 DEF V!Write, V!Announce, V!notifyChange
<1>t. troubles' # troubles + 1
  BY <1>1, <1>2
<1>4. ~V!ForeignPush /\ ~V!Restart
  BY ONLY <1>t DEF V!ForeignPush, V!Restart
<1>5. \A w \in V!Worker : ~V!FlushFails(w) /\ ~V!PushFails(w)
  BY ONLY <1>t DEF V!FlushFails, V!PushFails
<1> QED
  BY <1>3, <1>4, <1>5 DEF Calm, CalmNext, V!Next, V!Timer

\* The writes and the announcements of before are all there will be.
LEMMA CalmKeeps ==
  ASSUME VaultInv, Calm
  PROVE  /\ Clear => Clear'
         /\ Behind' => Behind
         /\ queue'.commits \subseteq queue.commits
         /\ UNCHANGED <<tree, failed, restarted>>
         /\ dropped \subseteq dropped'
<1> USE DEF Clear, Behind, V!git, V!timers, V!ledger, V!bounds
<1>1. queue \in V!Queue /\ V!VaultTypeOK
  BY DEF VaultInv, V!VaultTypeOK
<1>2. CalmNext
  BY <1>1, CalmStep
<1>3. CASE UNCHANGED V!vars \/ V!SaveQueue \/ V!QueuePull
  BY <1>3 DEF V!vars, V!SaveQueue, V!QueuePull
<1>b. CASE V!BackgroundPull
  <2>1. foreign' = foreign \/ ~foreign'
    BY <1>b DEF V!BackgroundPull
  <2>2. UNCHANGED <<tree, failed, restarted, queue, dropped>>
    BY <1>b DEF V!BackgroundPull
  <2> QED
    BY <2>1, <2>2
<1>4. ASSUME NEW w \in V!Worker, V!CommitTimer(w) \/ V!PushTimer(w) \/ V!flushAndPush(w)
      PROVE  UNCHANGED <<tree, failed, restarted, foreign, queue, dropped>>
  BY <1>4 DEF V!CommitTimer, V!PushTimer, V!flushAndPush
<1>5. ASSUME NEW w \in V!Worker,
             V!Add(w) \/ V!Status(w) \/ V!Rejected(w) \/ V!PullRebase(w)
      PROVE  /\ UNCHANGED <<tree, failed, restarted, queue, dropped>>
             /\ foreign' => foreign
  <2>1. CASE V!Add(w) \/ V!Status(w)
    BY <2>1 DEF V!Add, V!Status
  <2>2. CASE V!Rejected(w) \/ V!PullRebase(w)
    BY <2>2 DEF V!Rejected, V!PullRebase
  <2> QED
    BY <1>5, <2>1, <2>2
<1>6. ASSUME NEW w \in V!Worker, V!Clean(w) \/ V!Commit(w)
      PROVE  /\ UNCHANGED <<tree, failed, restarted, foreign>>
             /\ queue'.commits = {} /\ dropped \subseteq dropped'
  <2>1. CASE V!Clean(w)
    BY <2>1 DEF V!Clean, V!Discard
  <2>2. CASE V!Commit(w)
    BY <2>2 DEF V!Commit, V!Discard
  <2> QED
    BY <1>6, <2>1, <2>2
<1>7. ASSUME NEW w \in V!Worker, V!Push(w)
      PROVE  /\ UNCHANGED <<tree, failed, restarted, foreign, dropped>>
             /\ queue'.commits = queue.commits
  BY <1>1, <1>7 DEF V!Push, V!Queue
<1> QED
  BY <1>2, <1>3, <1>b, <1>4, <1>5, <1>6, <1>7 DEF CalmNext, V!Git

\* What a git command makes of its run.
LEMMA GitMoves ==
  ASSUME V!VaultTypeOK, NEW w \in V!Worker, V!Git(w)
  PROVE  /\ \/ Adding(w) /\ Checking(w)'
            \/ Checking(w) /\ Ending(w)'
            \/ Ending(w) /\ Clear' /\ (Pushes(w)' \/ Rests(w)')
            \/ Pushes(w) /\ Behind /\ Pulls(w)'
            \/ Pulls(w) /\ ~Behind' /\ Again(w)'
            \/ (Pushes(w) \/ Again(w)) /\ ~Behind /\ ~queue'.push /\ Rests(w)'
            \/ Again(w) /\ Behind /\ PushSet' /\ Rests(w)'
         /\ \A u \in V!Worker \ {w} : worker'[u] = worker[u]
         /\ PushSet' => PushSet \/ Clear' \/ Behind
         /\ PushSet => PushSet'
<1> USE GotoStep DEF V!At, V!git, V!timers, V!ledger, V!bounds, Clear, Behind, PushSet,
                     Rests, Adding, Checking, Ending, Pushes, Pulls, Again
<1>0. worker \in [V!Worker -> V!Run] /\ queue \in V!Queue
  BY DEF V!VaultTypeOK
<1>1a. CASE V!Add(w)
  BY <1>0, <1>1a DEF V!Add
<1>1b. CASE V!Status(w)
  BY <1>0, <1>1b DEF V!Status
<1>2. CASE V!Clean(w)
  BY <1>0, <1>2 DEF V!Clean, V!Discard, V!AfterFlush
<1>3. CASE V!Commit(w)
  BY <1>0, <1>3 DEF V!Commit, V!Discard, V!AfterFlush
<1>4. CASE V!Push(w)
  <2>1. queue'.push = FALSE
    BY <1>0, <1>4 DEF V!Push, V!Queue
  <2> QED
    BY <1>0, <1>4, <2>1 DEF V!Push
<1>5. CASE V!Rejected(w)
  <2>1. foreign /\ foreign' = foreign
    BY <1>5 DEF V!Rejected
  <2>2. CASE V!At(w, "push") /\ V!Goto(w, "pull") /\ UNCHANGED pushTimer
    BY <1>0, <2>1, <2>2
  <2>3. CASE V!At(w, "push again") /\ V!Goto(w, "idle") /\ pushTimer' = TRUE
    BY <1>0, <2>1, <2>3
  <2> QED
    BY <1>5, <2>2, <2>3 DEF V!Rejected, V!Backoff
<1>6. CASE V!PullRebase(w)
  BY <1>0, <1>6 DEF V!PullRebase
<1> QED
  BY <1>1a, <1>1b, <1>2, <1>3, <1>4, <1>5, <1>6 DEF V!Git

\* What becomes of one run in a step of any of them.
LEMMA TurnOf ==
  ASSUME VaultInv, Calm, NEW w \in V!Worker
  PROVE  \/ worker'[w] = worker[w]
         \/ V!Git(w)
         \/ Rests(w) /\ Rests(w)'
         \/ Rests(w) /\ ~Clear /\ Adding(w)'
         \/ Rests(w) /\ Pushes(w)' /\ (Clear \/ (PushSet /\ ~PushSet'))
<1> USE DEF Rests, Adding, Pushes, Clear, PushSet
<1>0. V!VaultTypeOK /\ worker \in [V!Worker -> V!Run]
  BY DEF VaultInv, V!VaultTypeOK
<1>1. CalmNext
  BY <1>0, CalmStep
<1>2. CASE UNCHANGED V!vars \/ V!SaveQueue \/ V!QueuePull \/ V!BackgroundPull
  BY <1>2 DEF V!vars, V!SaveQueue, V!QueuePull, V!BackgroundPull
<1>3. ASSUME NEW u \in V!Worker, V!Git(u)
      PROVE  worker'[w] = worker[w] \/ V!Git(w)
  BY <1>0, <1>3, GitMoves
<1>4. ASSUME NEW u \in V!Worker, V!CommitTimer(u) \/ V!flushAndPush(u)
      PROVE  \/ worker'[w] = worker[w]
             \/ Rests(w) /\ Rests(w)'
             \/ Rests(w) /\ ~Clear /\ Adding(w)'
             \/ Rests(w) /\ Pushes(w)' /\ Clear
  <2>1. V!At(u, "idle") /\ \E push \in BOOLEAN : V!StartFlush(u, push)
    BY <1>4 DEF V!CommitTimer, V!flushAndPush, V!Free
  <2>2. /\ worker'[u].stage \in IF queue.commits # {} THEN {"add"} ELSE {"push", "idle"}
        /\ \A v \in V!Worker \ {u} : worker'[v] = worker[v]
    BY <1>0, <2>1, StartStep
  <2> QED
    BY <2>1, <2>2 DEF V!At
<1>5. ASSUME NEW u \in V!Worker, V!PushTimer(u)
      PROVE  \/ worker'[w] = worker[w]
             \/ Rests(w) /\ Rests(w)'
             \/ Rests(w) /\ Pushes(w)' /\ PushSet /\ ~PushSet'
  <2>1. /\ V!At(u, "idle") /\ V!Goto(u, V!AfterFlush(TRUE, queue.push))
        /\ pushTimer /\ pushTimer' = FALSE
    BY <1>5 DEF V!PushTimer, V!Free
  <2>2. worker'[u].stage \in {"push", "idle"} /\ \A v \in V!Worker \ {u} : worker'[v] = worker[v]
    BY <1>0, <2>1, GotoStep DEF V!AfterFlush
  <2> QED
    BY <2>1, <2>2 DEF V!At
<1> QED
  BY <1>1, <1>2, <1>3, <1>4, <1>5 DEF CalmNext

\* Nor does anything change at the remote, or in the list of the announcements.
Steady == Calm /\ (Behind' <=> Behind) /\ (Clear' <=> Clear)

\* A push is due in a process that has not been restarted.
Owed == queue.push /\ ~restarted

\* Every stage of a run is left for the next one only.
Turn(w) ==
  /\ Rests(w) => \/ Rests(w)' \/ (~Clear /\ Adding(w)')
                 \/ Pushes(w)' /\ (Clear \/ (PushSet /\ ~PushSet'))
  /\ Adding(w) => Adding(w)' \/ Checking(w)'
  /\ Checking(w) => Checking(w)' \/ Ending(w)'
  /\ Ending(w) => Ending(w)' \/ (Clear /\ (Pushes(w)' \/ Rests(w)'))
  /\ Pushes(w) => Pushes(w)' \/ (Behind /\ Pulls(w)') \/ (~Behind /\ ~Owed' /\ Rests(w)')
  /\ Pulls(w) => Pulls(w)' \/ (~Behind /\ Again(w)')
  /\ Again(w) => \/ Again(w)' \/ (~Behind /\ ~Owed' /\ Rests(w)')
                 \/ Behind /\ PushSet' /\ Rests(w)'

LEMMA RunStep ==
  ASSUME VaultInv, [Steady]_(V!vars), NEW w \in V!Worker
  PROVE  Turn(w)
<1>1. CASE worker'[w] = worker[w]
  BY <1>1 DEF Turn, Rests, Adding, Checking, Ending, Pushes, Pulls, Again
<1>2. CASE UNCHANGED V!vars
  BY <1>1, <1>2 DEF V!vars
<1>3. CASE Steady /\ V!Git(w)
  <2>1. /\ \/ Adding(w) /\ Checking(w)'
           \/ Checking(w) /\ Ending(w)'
           \/ Ending(w) /\ Clear' /\ (Pushes(w)' \/ Rests(w)')
           \/ Pushes(w) /\ Behind /\ Pulls(w)'
           \/ Pulls(w) /\ ~Behind' /\ Again(w)'
           \/ (Pushes(w) \/ Again(w)) /\ ~Behind /\ ~queue'.push /\ Rests(w)'
           \/ Again(w) /\ Behind /\ PushSet' /\ Rests(w)'
    BY <1>3, GitMoves DEF VaultInv
  <2>2. ~queue'.push => ~Owed'
    BY DEF Owed
  <2>3. (Clear' <=> Clear) /\ (Behind' <=> Behind)
    BY <1>3 DEF Steady
  <2> QED
    BY ONLY <2>1, <2>2, <2>3 DEF Turn, Rests, Adding, Checking, Ending, Pushes, Pulls, Again
<1>4. CASE Steady /\ Rests(w) /\ ~V!Git(w) /\ worker'[w] # worker[w]
  <2>1. \/ Rests(w)'
        \/ ~Clear /\ Adding(w)'
        \/ Pushes(w)' /\ (Clear \/ (PushSet /\ ~PushSet'))
    BY <1>4, TurnOf DEF Steady
  <2> QED
    BY ONLY <1>4, <2>1 DEF Turn, Rests, Adding, Checking, Ending, Pushes, Pulls, Again
<1> QED
  BY <1>1, <1>2, <1>3, <1>4, TurnOf DEF Steady

\* A git command leaves its stage.
Left(w) ==
  /\ Adding(w) => ~Adding(w)'
  /\ Checking(w) => ~Checking(w)'
  /\ Ending(w) => ~Ending(w)'
  /\ Pushes(w) => ~Pushes(w)'
  /\ Pulls(w) => ~Pulls(w)'
  /\ Again(w) => ~Again(w)'

LEMMA GitLeaves ==
  ASSUME VaultInv, NEW w \in V!Worker, V!Git(w)
  PROVE  Left(w)
BY GitMoves DEF Left, VaultInv, Rests, Adding, Checking, Ending, Pushes, Pulls, Again

\* The stages are different, and there is no other.
Kinds(w) ==
  /\ \/ Rests(w) \/ Adding(w) \/ Checking(w) \/ Ending(w)
     \/ Pushes(w) \/ Pulls(w) \/ Again(w)
  /\ Rests(w) => ~(Adding(w) \/ Checking(w) \/ Ending(w) \/ Pushes(w) \/ Pulls(w) \/ Again(w))
  /\ Flushing(w) <=> Adding(w) \/ Checking(w) \/ Ending(w)
  /\ Pushing(w) <=> Pushes(w) \/ Pulls(w) \/ Again(w)

LEMMA StagesOfRun ==
  ASSUME VaultInv, NEW w \in V!Worker
  PROVE  Kinds(w)
<1>1. worker[w].stage \in V!Stage
  BY DEF VaultInv, V!VaultTypeOK, V!Run
<1> QED
  BY <1>1 DEF Kinds, V!Stage, Rests, Adding, Checking, Ending, Pushes, Pulls, Again, Flushing, Pushing

-----------------------------------------------------------------------------
(***************************************************************************)
(* What the timers and the git commands come to.                           *)
(***************************************************************************)
CommitTimers == \E w \in V!Worker : V!CommitTimer(w)
PushTimers   == \E w \in V!Worker : V!PushTimer(w)

\* Whatever is announced has had a commit that failed.
Spent == queue.commits \subseteq failed

NoFlush == \A w \in V!Worker : ~Flushing(w)
NoSend  == \A w \in V!Worker : ~Pushes(w) /\ ~Pulls(w)
NoPush  == \A w \in V!Worker : ~Pushing(w)

Timers ==
  /\ <<CommitTimers>>_(V!vars) /\ ~Clear => ~NoFlush'
  /\ <<PushTimers>>_(V!vars) => PushSet /\ ~PushSet'
  /\ PushSet /\ ~PushSet' => ~NoSend' \/ ~Owed'
  /\ PushSet' => PushSet \/ Clear \/ Behind

LEMMA TimerStep ==
  ASSUME VaultInv, [Steady]_(V!vars)
  PROVE  Timers
<1> USE DEF Clear, PushSet, Behind
<1>0. V!VaultTypeOK /\ worker \in [V!Worker -> V!Run]
  BY DEF VaultInv, V!VaultTypeOK
<1>1. ASSUME NEW w \in V!Worker, V!CommitTimer(w), ~Clear
      PROVE  ~NoFlush'
  <2>1. worker'[w].stage = "add"
    BY <1>0, <1>1, StartStep DEF V!CommitTimer
  <2> QED
    BY <2>1 DEF NoFlush, Flushing
<1>2. ASSUME NEW w \in V!Worker, V!PushTimer(w)
      PROVE  PushSet /\ ~PushSet' /\ (~NoSend' \/ ~Owed')
  <2>1. /\ pushTimer /\ pushTimer' = FALSE
        /\ worker'[w].stage = V!AfterFlush(TRUE, queue.push)
        /\ queue' = queue
    BY <1>0, <1>2, GotoStep DEF V!PushTimer
  <2> QED
    BY <2>1 DEF NoSend, Pushes, Owed, V!AfterFlush
<1>3. CASE UNCHANGED pushTimer
  <2>1. ~PushTimers
    BY <1>2, <1>3 DEF PushTimers
  <2> QED
    BY <1>1, <1>3, <2>1 DEF Timers, CommitTimers
<1>4. ASSUME NEW w \in V!Worker, V!Git(w), Steady
      PROVE  (PushSet => PushSet') /\ (PushSet' => PushSet \/ Clear \/ Behind)
  BY <1>0, <1>4, GitMoves DEF Steady
<1>5. Steady => CalmNext
  BY <1>0, CalmStep DEF Steady
<1>6. CASE Steady
  <2>1. ASSUME UNCHANGED V!vars \/ V!SaveQueue \/ V!QueuePull \/ V!BackgroundPull
        PROVE  UNCHANGED pushTimer
    BY <2>1 DEF V!vars, V!timers, V!SaveQueue, V!QueuePull, V!BackgroundPull
  <2>2. ASSUME NEW w \in V!Worker, V!CommitTimer(w) \/ V!flushAndPush(w)
        PROVE  UNCHANGED pushTimer
    BY <2>2 DEF V!CommitTimer, V!flushAndPush, V!timers
  <2>3. ASSUME NEW w \in V!Worker, V!Git(w)
        PROVE  Timers
    BY <1>1, <1>2, <1>4, <1>6, <2>3 DEF Timers, CommitTimers, PushTimers
  <2>4. ASSUME NEW w \in V!Worker, V!PushTimer(w)
        PROVE  Timers
    BY <1>1, <1>2, <2>4 DEF Timers, CommitTimers
  <2> QED
    BY <1>3, <1>5, <1>6, <2>1, <2>2, <2>3, <2>4 DEF CalmNext
<1> QED
  BY <1>3, <1>6 DEF V!vars, V!timers

\* The fair steps can run while these guards hold: ENABLED is beyond the provers, so
\* that this is a hypothesis of the theorems below.
GitCan(w) == ~Rests(w) => ENABLED <<V!Git(w)>>_(V!vars)
CanRun ==
  /\ unannounced # {} => ENABLED <<V!Announce>>_(V!vars)
  /\ file # queue => ENABLED <<V!SaveQueue>>_(V!vars)
  /\ commitTimer /\ (\E w \in V!Worker : Rests(w)) => ENABLED <<CommitTimers>>_(V!vars)
  /\ PushSet /\ (\E w \in V!Worker : Rests(w)) => ENABLED <<PushTimers>>_(V!vars)
  /\ \A w \in V!Worker : GitCan(w)

GitAll == \A w \in V!Worker : V!GitFair(w)

\* The theorems' hypothesis in the form of the temporal steps, and what it comes to.
Settling == V!FairSpec /\ []CanRun /\ <>[][Quiet]_(V!vars)
Held ==
  /\ [](LiveInv /\ CanRun)
  /\ [][Steady]_(V!vars)
  /\ []Behind \/ []~Behind
  /\ []Clear \/ []~Clear
  /\ WF_(V!vars)(CommitTimers)
  /\ WF_(V!vars)(PushTimers)
  /\ GitAll

LEMMA GitAlways == GitAll => []GitAll
<1>1. ASSUME NEW w \in V!Worker
      PROVE  V!GitFair(w) => []V!GitFair(w)
  BY PTL DEF V!GitFair
<1>2. GitAll => \A w \in V!Worker : []V!GitFair(w)
  BY <1>1 DEF GitAll
<1>3. (\A w \in V!Worker : []V!GitFair(w)) => [](\A w \in V!Worker : V!GitFair(w))
  OBVIOUS
<1> QED
  BY <1>2, <1>3 DEF GitAll

LEMMA CalmAtLast ==
  ASSUME Bounded
  PROVE  Settling => [](LiveInv /\ CanRun) /\ <>[][Calm]_(V!vars)
<1>1. [V!Next]_(V!vars) /\ [Quiet]_(V!vars) => [Calm]_(V!vars)
  BY DEF Calm
<1> QED
  BY <1>1, LiveAlways, PTL DEF Settling, V!FairSpec, V!Spec

LEMMA HeldAtLast ==
  ASSUME Bounded
  PROVE  Settling => <>Held
<1>1. LiveInv /\ [Calm]_(V!vars) => (Clear => Clear') /\ (~Behind => ~Behind')
  BY CalmKeeps DEF LiveInv, SavedInv, V!vars, V!git, Clear, Behind
<1>2. [Calm]_(V!vars) /\ (Clear' <=> Clear) /\ (Behind' <=> Behind) => [Steady]_(V!vars)
  BY DEF Steady
<1>3. V!FairSpec => /\ WF_(V!vars)(CommitTimers) /\ WF_(V!vars)(PushTimers)
                    /\ GitAll
  BY PTL DEF V!FairSpec, CommitTimers, PushTimers, GitAll
<1> QED
  BY <1>1, <1>2, <1>3, GitAlways, CalmAtLast, PTL DEF Settling, Held

LEMMA RunOf ==
  ASSUME NEW w \in V!Worker
  PROVE  /\ LiveInv /\ [Steady]_(V!vars) => Turn(w)
         /\ LiveInv /\ <<V!Git(w)>>_(V!vars) => Left(w)
         /\ LiveInv => Kinds(w)
         /\ CanRun => GitCan(w)
<1>1. LiveInv => VaultInv
  BY DEF LiveInv, SavedInv
<1> QED
  BY <1>1, RunStep, GitLeaves, StagesOfRun DEF CanRun

LEMMA FairRunOf ==
  ASSUME NEW w \in V!Worker
  PROVE  GitAll => V!GitFair(w)
BY DEF GitAll

\* As long as announcements stay, no run is about to commit them.
LEMMA NobodyFlushes == Held /\ []~Clear => []NoFlush
<1>1. ASSUME NEW w \in V!Worker
      PROVE  Held /\ []~Clear => []~Flushing(w)
  <2>1. /\ LiveInv /\ [Steady]_(V!vars) => Turn(w)
        /\ LiveInv /\ <<V!Git(w)>>_(V!vars) => Left(w)
        /\ LiveInv => Kinds(w)
        /\ CanRun => GitCan(w)
    BY RunOf
  <2>2. GitAll => V!GitFair(w)
    BY FairRunOf
  <2> QED
    BY <2>1, <2>2, PTL DEF Held, Turn, Left, Kinds, GitCan, V!GitFair
<1>2. Held /\ []~Clear => \A w \in V!Worker : []~Flushing(w)
  BY <1>1
<1>3. (\A w \in V!Worker : []~Flushing(w)) => [](\A w \in V!Worker : ~Flushing(w))
  OBVIOUS
<1> QED
  BY <1>2, <1>3 DEF NoFlush

\* Then a run that no push keeps busy finds the commit timer, unless the commit of
\* all that is announced has failed.
LEMMA SpentAtLast ==
  ASSUME Bounded, MaxRuns # 0
  PROVE  Held => <>Spent
<1>0. 1 \in V!Worker
  BY DEF Bounded, V!Worker
<1>1. /\ LiveInv /\ [Steady]_(V!vars) => Turn(1)
      /\ LiveInv /\ <<V!Git(1)>>_(V!vars) => Left(1)
      /\ LiveInv => Kinds(1)
      /\ CanRun => GitCan(1)
  BY <1>0, RunOf
<1>2. LiveInv /\ [Steady]_(V!vars) => Timers
  BY TimerStep DEF LiveInv, SavedInv
<1>3. Clear => Spent
  BY DEF Clear, Spent
<1>4. LiveInv /\ NoFlush /\ ~Spent => commitTimer
  BY DEF LiveInv, InHand, NoFlush, Spent
<1>5. CanRun /\ commitTimer /\ Rests(1) => ENABLED <<CommitTimers>>_(V!vars)
  BY <1>0 DEF CanRun
<1>6. NoFlush => ~Flushing(1)
  BY <1>0 DEF NoFlush
<1>7. GitAll => V!GitFair(1)
  BY <1>0, FairRunOf
<1> QED
  BY <1>1, <1>2, <1>3, <1>4, <1>5, <1>6, <1>7, NobodyFlushes, PTL
  DEF Held, Turn, Left, Kinds, GitCan, V!GitFair, Timers

\* Nor is a run about to push what stays unpushed, or pulling first.
LEMMA NobodySends == Held /\ []Owed => []NoSend
<1>1. ASSUME NEW w \in V!Worker
      PROVE  Held /\ []Owed => [](~Pushes(w) /\ ~Pulls(w))
  <2>1. /\ LiveInv /\ [Steady]_(V!vars) => Turn(w)
        /\ LiveInv /\ <<V!Git(w)>>_(V!vars) => Left(w)
        /\ LiveInv => Kinds(w)
        /\ CanRun => GitCan(w)
    BY RunOf
  <2>2. GitAll => V!GitFair(w)
    BY FairRunOf
  <2> QED
    BY <2>1, <2>2, PTL DEF Held, Turn, Left, Kinds, GitCan, V!GitFair
<1>2. Held /\ []Owed => \A w \in V!Worker : [](~Pushes(w) /\ ~Pulls(w))
  BY <1>1
<1>3. (\A w \in V!Worker : [](~Pushes(w) /\ ~Pulls(w)))
      => [](\A w \in V!Worker : ~Pushes(w) /\ ~Pulls(w))
  OBVIOUS
<1> QED
  BY <1>2, <1>3 DEF NoSend

\* A push that is tried again and rejected sets the timer, which nobody takes.
LEMMA PushSetAtLast == Held /\ []Owed => <>[]PushSet
<1>1. ASSUME NEW w \in V!Worker
      PROVE  Held /\ []Owed /\ []~PushSet => []~Pushing(w)
  <2>1. /\ LiveInv /\ [Steady]_(V!vars) => Turn(w)
        /\ LiveInv /\ <<V!Git(w)>>_(V!vars) => Left(w)
        /\ LiveInv => Kinds(w)
        /\ CanRun => GitCan(w)
    BY RunOf
  <2>2. GitAll => V!GitFair(w)
    BY FairRunOf
  <2>3. NoSend => ~Pushes(w) /\ ~Pulls(w)
    BY DEF NoSend
  <2> QED
    BY <2>1, <2>2, <2>3, NobodySends, PTL DEF Held, Turn, Left, Kinds, GitCan, V!GitFair
<1>2. Held /\ []Owed /\ []~PushSet => \A w \in V!Worker : []~Pushing(w)
  BY <1>1
<1>3. (\A w \in V!Worker : []~Pushing(w)) => [](\A w \in V!Worker : ~Pushing(w))
  OBVIOUS
<1>4. Held /\ []Owed /\ []~PushSet => []NoPush
  BY <1>2, <1>3 DEF NoPush
<1>5. LiveInv /\ Owed /\ NoPush => PushSet
  BY DEF LiveInv, InHand, Owed, NoPush, PushSet
<1>6. LiveInv /\ [Steady]_(V!vars) => Timers
  BY TimerStep DEF LiveInv, SavedInv
<1> QED
  BY <1>4, <1>5, <1>6, NobodySends, GitAlways, PTL DEF Held, Timers

\* A push that is due is made.
LEMMA PushedAtLast ==
  ASSUME Bounded, MaxRuns # 0
  PROVE  Held => <>~Owed
<1>0. 1 \in V!Worker
  BY DEF Bounded, V!Worker
<1>1. /\ LiveInv /\ [Steady]_(V!vars) => Turn(1)
      /\ LiveInv /\ <<V!Git(1)>>_(V!vars) => Left(1)
      /\ LiveInv => Kinds(1)
      /\ CanRun => GitCan(1)
  BY <1>0, RunOf
<1>2. LiveInv /\ [Steady]_(V!vars) => Timers
  BY TimerStep DEF LiveInv, SavedInv
<1>3. NoSend => ~Pushes(1) /\ ~Pulls(1)
  BY <1>0 DEF NoSend
<1>4. NoFlush => ~Flushing(1)
  BY <1>0 DEF NoFlush
<1>5. CanRun /\ PushSet /\ Rests(1) => ENABLED <<PushTimers>>_(V!vars)
  BY <1>0 DEF CanRun
<1>6. GitAll => V!GitFair(1)
  BY <1>0, FairRunOf
<1>7. Held /\ []Owed => <>[]Rests(1)
  BY <1>1, <1>3, <1>4, <1>6, NobodyFlushes, NobodySends, PushSetAtLast, PTL
  DEF Held, Turn, Left, Kinds, GitCan, V!GitFair
<1> QED
  BY <1>2, <1>5, <1>7, NobodySends, PushSetAtLast, PTL DEF Held, Timers

LEMMA SpentForGood ==
  ASSUME Bounded, MaxRuns # 0
  PROVE  Settling => <>[]Spent
<1>1. LiveInv /\ [Steady]_(V!vars) => (Spent => Spent')
  <2>1. CASE UNCHANGED V!vars
    BY <2>1 DEF V!vars, V!ledger, Spent
  <2>2. ASSUME LiveInv, Steady, Spent PROVE Spent'
    BY <2>2, CalmKeeps DEF Spent, LiveInv, SavedInv, Steady
  <2> QED
    BY <2>1, <2>2
<1>2. Held => <>Spent
  BY SpentAtLast
<1> QED
  BY <1>1, <1>2, HeldAtLast, PTL DEF Held
-----------------------------------------------------------------------------
\* Once nobody writes and git works, what was saved is committed: a run takes
\* the announcements up, or a commit of them has failed, or they were discarded;
\* the queue is saved after that.
THEOREM SavedIsCommittedAtLast ==
  ASSUME Bounded, MaxRuns # 0
  PROVE  V!FairSpec /\ []CanRun /\ <>[][Quiet]_(V!vars) => SavedIsCommitted
<1> DEFINE Done == \A v \in file.commits : V!Committed(v)
<1>1. V!FairSpec => SavedStays
  BY SavedStaysUntilCommitted, PTL DEF V!FairSpec
<1>3. LiveInv /\ [Calm]_(V!vars) /\ Spent /\ Done => Done'
  <2> SUFFICES ASSUME LiveInv, [Calm]_(V!vars), Spent, Done, NEW v \in file'.commits
               PROVE  V!Committed(v)'
    OBVIOUS
  <2>1. V!VaultTypeOK /\ WorkAccounted /\ [V!Next]_(V!vars)
    BY DEF LiveInv, SavedInv, VaultInv, Calm
  <2>2. CalmNext
    BY <2>1, CalmStep DEF CalmNext
  <2>3. file' \in {file, queue}
    BY <2>2 DEF CalmNext, V!vars, V!SaveQueue, V!QueuePull, V!BackgroundPull, V!CommitTimer,
                V!PushTimer, V!flushAndPush, V!Git, V!Add, V!Status, V!Clean, V!Commit,
                V!Push, V!Rejected, V!PullRebase
  <2>4. v \in Nat /\ V!Committed(v)
    BY <2>1, <2>3 DEF Spent, V!Committed, V!Waits, V!VaultTypeOK, V!Queue, V!WriteNo
  <2> QED
    BY <2>1, <2>4, StaysCommitted
<1>4. Spent /\ <<V!SaveQueue>>_(V!vars) => file' = queue
  BY DEF V!SaveQueue
<1>5. LiveInv /\ [Calm]_(V!vars) /\ Spent /\ <<V!SaveQueue>>_(V!vars) => Done'
  <2> SUFFICES ASSUME LiveInv, Spent, V!SaveQueue PROVE Done'
    OBVIOUS
  <2>1. file'.commits \subseteq failed /\ failed' = failed
    BY DEF V!SaveQueue, V!ledger, Spent
  <2> QED
    BY <2>1 DEF V!Committed, V!Waits
<1>6. Spent /\ ~Done => file # queue
  BY DEF Spent, V!Committed, V!Waits
<1>2. Settling => <>[]Spent
  BY SpentForGood
<1>7. SavedIsCommitted <=> SavedStays /\ <>[]Done
  BY DEF SavedIsCommitted, Committed, Waits, V!Committed, V!Waits
<1> HIDE DEF Done
<1> QED
  BY <1>1, <1>2, <1>3, <1>5, <1>6, <1>7, CalmAtLast, PTL
  DEF Settling, V!FairSpec, CanRun

\* In a process that has not been restarted, every write reaches the remote once
\* nobody writes and git works, past pushes that failed and were rejected, unless
\* its announcement was dropped or its commit failed.
THEOREM ReachesRemoteAtLast ==
  ASSUME Bounded, MaxRuns # 0
  PROVE  V!FairSpec /\ []CanRun /\ <>[][Quiet]_(V!vars) => ReachesRemote
<1> DEFINE Done == ~restarted => \A v \in 1..tree : v <= remote \/ v \in dropped \cup failed
           Told == unannounced = {}
<1>1. [Calm]_(V!vars) => (Told => Told')
  BY DEF Calm, Quiet, V!vars
<1>2. [Calm]_(V!vars) => ~<<V!Announce>>_(V!vars)
  BY DEF Calm, Quiet, V!vars, V!Announce, V!notifyChange
<1>3. LiveInv /\ [Calm]_(V!vars) /\ Done => Done'
  <2> SUFFICES ASSUME LiveInv, Calm, Done PROVE Done'
    BY DEF V!vars, V!git, V!ledger, V!bounds
  <2>1. V!VaultTypeOK /\ remote <= head /\ VaultInv
    BY DEF LiveInv, SavedInv, VaultInv, InHand
  <2>2. UNCHANGED <<tree, failed, restarted>> /\ dropped \subseteq dropped'
    BY <2>1, CalmKeeps
  <2>3. CalmNext
    BY <2>1, CalmStep
  <2>4. remote' \in {remote, head}
    BY <2>3 DEF CalmNext, V!vars, V!git, V!SaveQueue, V!QueuePull, V!BackgroundPull,
                V!CommitTimer, V!PushTimer, V!flushAndPush, V!Git, V!Add, V!Status, V!Clean, V!Commit,
                V!Push, V!Rejected, V!PullRebase
  <2>5. remote <= remote'
    BY <2>1, <2>4 DEF V!VaultTypeOK
  <2>6. tree \in Nat /\ remote \in Nat /\ remote' \in Nat
    BY <2>1, <2>4 DEF V!VaultTypeOK
  <2> QED
    BY <2>2, <2>5, <2>6
<1>4. LiveInv /\ Spent /\ Told /\ ~Done => Owed
  <2> SUFFICES ASSUME LiveInv, Spent, Told, ~Done PROVE Owed
    OBVIOUS
  <2>1. V!VaultTypeOK /\ WorkAccounted
    BY DEF LiveInv, SavedInv, VaultInv
  <2>2. PICK v \in 1..tree : ~restarted /\ ~(v <= remote) /\ v \notin dropped /\ v \notin failed
    OBVIOUS
  <2>3. v <= head
    BY <2>1, <2>2 DEF WorkAccounted, Spent
  <2>4. head \in Nat /\ remote \in Nat /\ tree \in Nat
    BY <2>1 DEF V!VaultTypeOK
  <2> QED
    BY <2>1, <2>2, <2>3, <2>4 DEF WorkAccounted, Owed
<1>5. ReachesRemote <=> <>[]Done
  BY DEF ReachesRemote, Waits
<1>6. CanRun /\ ~Told => ENABLED <<V!Announce>>_(V!vars)
  BY DEF CanRun
<1> HIDE DEF Done, Told
<1>7. Settling => <>[]Told
  BY <1>1, <1>2, <1>6, CalmAtLast, PTL DEF Settling, V!FairSpec
<1>8. Settling => <>[]Spent
  BY SpentForGood
<1>9. [Steady]_(V!vars) => [Calm]_(V!vars)
  BY DEF Steady
<1>10. Held => <>~Owed
  BY PushedAtLast
<1> QED
  BY <1>3, <1>4, <1>5, <1>7, <1>8, <1>9, <1>10, CalmAtLast, HeldAtLast, GitAlways, PTL
  DEF Settling, Held
=============================================================================
