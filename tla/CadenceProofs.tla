---------------------------- MODULE CadenceProofs ----------------------------
(***************************************************************************)
(* Proofs about Cadence: the shape of its variables, that the value an     *)
(* undo needs survives both writers of the definition, and that a pause    *)
(* ends.                                                                   *)
(*                                                                         *)
(* The definition is copied by whoever reads it and written back later, so *)
(* the invariant speaks of all its copies: none holds a time that has not  *)
(* been given out, and while a single instance exists a copy that has the  *)
(* time of its completion also says so, which is what stops a replay.      *)
(***************************************************************************)
EXTENDS Cadence, TLAPS

Copies == {def, reading.base} \cup {s.base : s \in scheduling} \cup {q.base : q \in asking}

\* The rows of the instances.
RowsInv ==
  \A t \in Task :
    /\ task[t].rev <= clicks /\ task[t].at <= clicks
    /\ task[t].done => task[t].exists /\ task[t].at # 0

\* An effect that is current has the time of its row.
EffectsInv ==
  \A e \in effects :
    /\ task[e.task].exists
    /\ e.rev <= task[e.task].rev
    /\ e.rev = task[e.task].rev => e.done = task[e.task].done /\ e.at = task[e.task].at

\* No copy is ahead of the clock; a direct completion has a time of its own.
TimesInv ==
  /\ \A d \in Copies : d.last <= clicks /\ d.prev <= clicks
  /\ \A q \in asking :
       /\ q.act = "complete" => /\ q.base.last < q.at
                                /\ \A t \in Task : task[t].at # q.at
                                /\ q.at <= clicks
       /\ q.act = "instance" => q.task \in Task
       /\ q.act = "drop" => q.task = NoTask

ReadingInv ==
  /\ reading # NoRead => reading.state # "none"
  /\ reading.state = "none" => reading = NoRead
  /\ reading.state = "done" =>
       /\ reading.base.open \in Task /\ task[reading.base.open].exists
       /\ reading.at <= clicks

Clean(d) ==
  /\ d.last # 0 => d.prev # d.last
  /\ \A t \in Task : task[t].done /\ d.last = task[t].at => d.undoable /\ d.by = t
  /\ \A t \in Task : d.open = t /\ task[t].done => d.last # task[t].at

CleanInv ==
  /\ \A d \in Copies : Clean(d)
  /\ reading.state = "done" => reading.base.last # reading.at
  /\ \A s \in scheduling : task[s.task].done => s.base.last # task[s.task].at
  /\ \A q \in asking : q.act = "instance" /\ task[q.task].done =>
       q.base.last # task[q.task].at

Inv == TypeOK /\ RowsInv /\ EffectsInv /\ TimesInv /\ ReadingInv
       /\ (OneInstance /\ ~late => CleanInv)
-----------------------------------------------------------------------------
LEMMA Bounds == NoTask \notin Task /\ MaxClicks \in Nat /\ MaxRare \in Nat
  BY ConstantsAssumption

\* What the transitions make of a definition.
LEMMA Scheduled ==
  ASSUME NEW d \in Definition, NEW t \in Task \cup {NoTask}
  PROVE  /\ applySchedule(d, t) \in Definition
         /\ applySchedule(d, t).last = d.last /\ applySchedule(d, t).prev = d.prev
         /\ applySchedule(d, t).undoable = d.undoable /\ applySchedule(d, t).by = d.by
         /\ applySchedule(d, t).open = t
  BY DEF applySchedule, Definition

LEMMA Cleared ==
  ASSUME NEW d \in Definition
  PROVE  /\ clearOpenInstance(d) \in Definition
         /\ clearOpenInstance(d).last = d.last /\ clearOpenInstance(d).prev = d.prev
         /\ clearOpenInstance(d).undoable = d.undoable /\ clearOpenInstance(d).by = d.by
         /\ clearOpenInstance(d).open = NoTask
  BY DEF clearOpenInstance, Definition

LEMMA Completed ==
  ASSUME NEW d \in Definition, NEW at \in Time, NEW t \in Task \cup {NoTask}
  PROVE  /\ applyCompletion(d, at, t) \in Definition
         /\ applyCompletion(d, at, t).last = at
         /\ applyCompletion(d, at, t).prev = d.last
         /\ applyCompletion(d, at, t).undoable
         /\ applyCompletion(d, at, t).by = t
         /\ applyCompletion(d, at, t).open = NoTask
  BY DEF applyCompletion, clearOpenInstance, Definition

LEMMA Uncompleted ==
  ASSUME NEW d \in Definition, NEW t \in Task \cup {NoTask}
  PROVE  /\ applyUncompletion(d, t) \in Definition
         /\ applyUncompletion(d, t).open = t
         /\ \/ /\ applyUncompletion(d, t).last = d.prev
               /\ applyUncompletion(d, t).prev = 0
            \/ /\ applyUncompletion(d, t).last = d.last
               /\ applyUncompletion(d, t).prev = d.prev
<1>1. 0 \in Time
  BY Bounds DEF Time
<1> QED
  BY <1>1 DEF applyUncompletion, applySchedule, Definition
-----------------------------------------------------------------------------
(***************************************************************************)
(* The shape of the variables.                                             *)
(***************************************************************************)
LEMMA InitInv == Init => Inv
<1> SUFFICES ASSUME Init PROVE Inv
  OBVIOUS
<1> USE Bounds
<1>1. 0 \in Time /\ 0 \in 0..MaxClicks
  BY DEF Time
<1>2. /\ NoRead \in [base : Definition, state : {"none", "open", "done", "gone"}, at : Time]
      /\ NoRead.base \in Definition /\ NoRead.state = "none" /\ NoRead.base.last = 0
      /\ NoRead.base.prev = 0
      /\ NoRead.base.open = NoTask
  BY <1>1 DEF NoRead, Definition
<1>3. TypeOK
  <2> DEFINE new == [exists |-> FALSE, done |-> FALSE, at |-> 0, rev |-> 0,
                     lapsed |-> FALSE, minted |-> FALSE]
  <2>1. new \in Row
    BY <1>1 DEF Row
  <2>2. task = [t \in Task |-> new]
    BY DEF Init
  <2> HIDE DEF new
  <2>3. task \in [Task -> Row]
    BY <2>1, <2>2
  <2>4. def \in Definition /\ reading \in [base : Definition, state : {"none", "open", "done", "gone"}, at : Time]
    BY <1>2 DEF Init
  <2>5. effects = {} /\ scheduling = {} /\ asking = {} /\ late \in BOOLEAN
    BY DEF Init
  <2>6. clicks \in 0..MaxClicks /\ rare \in 0..MaxRare
    BY DEF Init
  <2> QED
    BY <2>3, <2>4, <2>5, <2>6 DEF TypeOK
<1>4. RowsInv /\ EffectsInv /\ ReadingInv
  BY <1>1, <1>2 DEF RowsInv, EffectsInv, ReadingInv, Init
<1>5. Copies = {NoRead.base}
  BY DEF Copies, Init
<1>6. TimesInv
  BY <1>2, <1>5 DEF TimesInv, Init
<1>7. CleanInv
  BY <1>2, <1>5 DEF CleanInv, Clean, Init
<1> QED
  BY <1>3, <1>4, <1>6, <1>7 DEF Inv

LEMMA TypeStep == Inv /\ [Next]_vars => TypeOK'
<1> SUFFICES ASSUME Inv, [Next]_vars PROVE TypeOK'
  OBVIOUS
<1>1. TypeOK /\ RowsInv
  BY DEF Inv
<1>2. NoRead \in [base : Definition, state : {"none", "open", "done", "gone"}, at : Time]
  BY Bounds DEF NoRead, Definition, Time
<1>3. ASSUME NEW t \in Task, ScheduleRead(t) PROVE TypeOK'
  BY <1>1, <1>3 DEF TypeOK, ScheduleRead, rows
<1>4. ASSUME NEW t \in Task, Mint(t) PROVE TypeOK'
  <2> DEFINE new == [task[t] EXCEPT !.exists = TRUE, !.minted = TRUE]
  <2>1. task[t] \in Row
    BY <1>1 DEF TypeOK
  <2>2. new \in Row
    BY <2>1 DEF Row
  <2>3. task' = [task EXCEPT ![t] = new]
    BY <1>1, <1>4 DEF TypeOK, Mint, Row
  <2> QED
    BY <1>1, <1>4, <2>2, <2>3 DEF TypeOK, Mint, lists
<1>5. ASSUME NEW t \in Task, AskInstance(t) PROVE TypeOK'
  <2>1. task' \in [Task -> Row]
    BY <1>1, <1>5 DEF TypeOK, AskInstance, Row
  <2>2. [act |-> "instance", task |-> t, at |-> 0, base |-> def]
          \in [act : Act, task : Task \cup {NoTask}, at : Time, base : Definition]
    BY <1>1, Bounds DEF TypeOK, Act, Time
  <2>3. late' \in BOOLEAN
    BY <1>5 DEF AskInstance
  <2>4. /\ asking' \subseteq [act : Act, task : Task \cup {NoTask}, at : Time, base : Definition]
        /\ clicks' \in 0..MaxClicks /\ rare' \in 0..MaxRare
        /\ UNCHANGED <<def, effects, lists>>
    BY <1>1, <1>5, <2>2, Bounds DEF TypeOK, AskInstance, Ask
  <2> QED
    BY <1>1, <2>1, <2>3, <2>4 DEF TypeOK, lists
<1>6. ASSUME NEW t \in Task, Toggle(t) PROVE TypeOK'
  <2>1. clicks + 1 \in Time /\ clicks' = clicks + 1 /\ clicks' \in 0..MaxClicks /\ 0 \in Time
    BY <1>1, <1>6, Bounds DEF Toggle, TypeOK, Time
  <2>2. task[t].rev + 1 \in 1..MaxClicks /\ task[t].rev + 1 \in 0..MaxClicks
    BY <1>1, <1>6, Bounds DEF Toggle, TypeOK, Row, RowsInv
  <2>3. (~task[t].done) \in BOOLEAN /\ (IF ~task[t].done THEN clicks' ELSE 0) \in Time
    BY <2>1
  <2> QED
    BY <1>1, <1>6, <2>1, <2>2, <2>3 DEF Toggle, TypeOK, Row, lists
<1>7. ASSUME NEW t \in Task, Lapse(t) PROVE TypeOK'
  BY <1>1, <1>7 DEF TypeOK, Row, Lapse, lists
<1>8. CASE AskComplete
  BY <1>1, <1>8, Bounds DEF TypeOK, AskComplete, Ask, Act, Time, lists
<1>9. ASSUME NEW act \in {"drop", "touch"}, AskOther(act) PROVE TypeOK'
  BY <1>1, <1>9, Bounds DEF TypeOK, AskOther, Ask, Act, Time, lists
<1>10. ASSUME NEW q \in asking, Answer(q) PROVE TypeOK'
  <2>1. q \in [act : Act, task : Task \cup {NoTask}, at : Time, base : Definition]
    BY <1>1 DEF TypeOK
  <2>2. Transition(q) \in Definition
    <3> DEFINE by == IF q.base.open # NoTask THEN q.base.open ELSE q.base.by
    <3>1. by \in Task \cup {NoTask}
      BY <2>1 DEF Definition
    <3>2. applySchedule(q.base, q.task) \in Definition
      BY <2>1, Scheduled
    <3>3. applyCompletion(q.base, q.at, by) \in Definition
      BY <2>1, <3>1, Completed
    <3> HIDE DEF by
    <3>4. Transition(q) \in {applySchedule(q.base, q.task), applyCompletion(q.base, q.at, by), q.base}
      BY <2>1 DEF Transition, Act, by
    <3> QED
      BY <2>1, <3>2, <3>3, <3>4
  <2> QED
    BY <1>1, <1>10, <2>2 DEF TypeOK, Answer, lists
<1>11. ASSUME NEW s \in scheduling,
              ScheduleCreate(s) \/ ScheduleStamp(s) \/ LoseStamp(s)
       PROVE  TypeOK'
  <2>1. s \in [task : Task, base : Definition]
    BY <1>1 DEF TypeOK
  <2>2. applySchedule(s.base, s.task) \in Definition
    BY <2>1, Scheduled
  <2>3. CASE ScheduleCreate(s)
    BY <1>1, <2>1, <2>3 DEF TypeOK, Row, ScheduleCreate, lists
  <2>4. CASE ScheduleStamp(s)
    BY <1>1, <2>2, <2>4 DEF TypeOK, ScheduleStamp
  <2>5. CASE LoseStamp(s)
    BY <1>1, <2>5, Bounds DEF TypeOK, LoseStamp, rows
  <2> QED
    BY <1>11, <2>3, <2>4, <2>5
<1>12. ASSUME NEW e \in effects, NEW again \in BOOLEAN, Propagate(e, again) PROVE TypeOK'
  <2>1. e \in [task : Task, done : BOOLEAN, at : Time, rev : 1..MaxClicks]
    BY <1>1 DEF TypeOK
  <2>2. applyCompletion(def, e.at, e.task) \in Definition
    BY <1>1, <2>1, Completed DEF TypeOK
  <2>3. applyUncompletion(def, e.task) \in Definition
    BY <1>1, <2>1, Uncompleted DEF TypeOK
  <2>4. def' \in Definition
    BY <1>1, <1>12, <2>2, <2>3 DEF Propagate, TypeOK
  <2> QED
    BY <1>1, <1>12, <2>4 DEF TypeOK, Propagate, lists
<1>13. ASSUME NEW e \in effects, LoseEffect(e) PROVE TypeOK'
  BY <1>1, <1>13, Bounds DEF TypeOK, LoseEffect, lists, rows
<1>14. CASE ReconcileRead
  <2>1. def.open \in Task
    BY <1>1, <1>14 DEF ReconcileRead, TypeOK, Definition
  <2> QED
    BY <1>1, <1>14, <2>1 DEF TypeOK, Row, ReconcileRead, resolveInstanceState, rows
<1>15. CASE ReconcileWrite
  <2>1. reading.base \in Definition /\ reading.at \in Time /\ reading.base.open \in Task \cup {NoTask}
    BY <1>1 DEF TypeOK, Definition
  <2>2. /\ applyCompletion(reading.base, reading.at, reading.base.open) \in Definition
        /\ clearOpenInstance(reading.base) \in Definition
    BY <2>1, Completed, Cleared
  <2>3. reading.state \in {"open", "done", "gone"}
    BY <1>1, <1>15 DEF TypeOK, ReconcileWrite, Inv, ReadingInv
  <2>4. def' \in Definition
    BY <1>1, <1>15, <2>2, <2>3 DEF ReconcileWrite, TypeOK
  <2> QED
    BY <1>1, <1>2, <1>15, <2>4 DEF TypeOK, ReconcileWrite
<1>16. CASE UNCHANGED vars
  BY <1>1, <1>16 DEF TypeOK, vars, rows, lists
<1> QED
  BY <1>3, <1>4, <1>5, <1>6, <1>7, <1>8, <1>9, <1>10, <1>11, <1>12, <1>13, <1>14,
     <1>15, <1>16 DEF Next, Eager, Derived
-----------------------------------------------------------------------------
(***************************************************************************)
(* What the copies of the definition hold.                                 *)
(***************************************************************************)
\* A request that has just read the definition.
NewRequest(q) ==
  /\ q.base = def
  /\ q.act = "complete" => q.at = clicks + 1 /\ clicks' = clicks + 1
  /\ q.act = "instance" => q.task \in Task /\ (~late' => ~task[q.task].done)
  /\ q.act = "drop" => q.task = NoTask

\* Every step but a completion or a reopen leaves the times of the rows alone.
LEMMA OtherStep ==
  ASSUME Inv, TypeOK',
         clicks <= clicks', late => late',
         \A t \in Task : /\ task'[t].done = task[t].done /\ task'[t].at = task[t].at
                         /\ task'[t].rev = task[t].rev
                         /\ task[t].exists => task'[t].exists,
         effects' \subseteq effects,
         def'.last <= clicks', def'.prev <= clicks', OneInstance /\ ~late' => Clean(def'),
         \A s \in scheduling' \ scheduling : s.base = def /\ ~task[s.task].done,
         \A q \in asking' \ asking : NewRequest(q),
         \/ reading' \in {reading, NoRead}
         \/ /\ reading'.base = def /\ reading'.state # "none"
            /\ reading'.state = "done" => /\ def.open \in Task /\ task[def.open].done
                                          /\ reading'.at = task[def.open].at
  PROVE  Inv'
<1>1. TypeOK /\ RowsInv /\ EffectsInv /\ TimesInv /\ ReadingInv
  BY DEF Inv
<1>2. OneInstance' /\ ~late' => OneInstance /\ ~late /\ CleanInv
  BY DEF OneInstance, Inv
<1>3. NoRead.base.last = 0 /\ NoRead.base.prev = 0 /\ NoRead.state = "none" /\ NoRead.base.open = NoTask
  BY DEF NoRead
<1>4. \A d \in Copies' : d \in Copies \/ d = def' \/ d = NoRead.base
  BY DEF Copies, NewRequest
<1>5. clicks \in Nat /\ clicks' \in Nat
  BY <1>1, Bounds DEF TypeOK
<1>6. RowsInv'
  BY <1>1, <1>5 DEF RowsInv, TypeOK, Row, Time
<1>7. EffectsInv'
  BY <1>1 DEF EffectsInv, TypeOK
<1>8. Copies \subseteq Definition /\ Copies' \subseteq Definition
  BY <1>1 DEF Copies, TypeOK
<1>9. \A d \in Definition : d.last \in Nat /\ d.prev \in Nat
  BY Bounds DEF Definition, Time
<1>10. TimesInv'
  <2>1. \A d \in Copies' : d.last <= clicks' /\ d.prev <= clicks'
    BY <1>1, <1>3, <1>4, <1>5, <1>8, <1>9 DEF TimesInv
  <2>2. ASSUME NEW q \in asking' PROVE
          /\ q.act = "complete" => /\ q.base.last < q.at
                                   /\ \A t \in Task : task'[t].at # q.at
                                   /\ q.at <= clicks'
          /\ q.act = "instance" => q.task \in Task
          /\ q.act = "drop" => q.task = NoTask
    <3>1. q.at \in Nat
      BY <1>1, <1>5, Bounds DEF TypeOK, Time
    <3>2. CASE q \in asking
      BY <1>1, <1>5, <3>1, <3>2 DEF TimesInv
    <3>3. CASE NewRequest(q)
      <4>1. def \in Copies /\ def.last <= clicks /\ def.last \in Nat
        BY <1>1, <1>8, <1>9 DEF Copies, TimesInv
      <4>2. \A t \in Task : task'[t].at <= clicks /\ task'[t].at \in Nat
        BY <1>1, Bounds DEF RowsInv, TypeOK, Row, Time
      <4> QED
        BY <1>5, <3>3, <4>1, <4>2 DEF NewRequest
    <3> QED
      BY <3>2, <3>3
  <2> QED
    BY <2>1, <2>2 DEF TimesInv
<1>11. ReadingInv'
  <2>1. \A t \in Task : task[t].at \in Nat /\ task[t].at <= clicks
    BY <1>1, Bounds DEF RowsInv, TypeOK, Row, Time
  <2>2. reading.at \in Nat
    BY <1>1, Bounds DEF TypeOK, Time
  <2>3. CASE reading' \in {reading, NoRead}
    BY <1>1, <1>3, <1>5, <2>2, <2>3 DEF ReadingInv
  <2>4. CASE /\ reading'.base = def /\ reading'.state # "none"
             /\ reading'.state = "done" => /\ def.open \in Task /\ task[def.open].done
                                           /\ reading'.at = task[def.open].at
    <3>1. reading'.state = "done" => /\ reading'.base.open \in Task
                                     /\ task'[reading'.base.open].exists
                                     /\ reading'.at <= clicks'
      BY <1>1, <1>5, <2>1, <2>4 DEF RowsInv
    <3> QED
      BY <2>4, <3>1 DEF ReadingInv
  <2> QED
    BY <2>3, <2>4
<1>12. ASSUME OneInstance', ~late' PROVE CleanInv'
  <2>1. CleanInv /\ Clean(def) /\ Clean(def')
    BY <1>2, <1>12 DEF CleanInv, Copies
  <2>2. \A d \in Copies' : Clean(d)
    <3>1. Clean(NoRead.base)
      BY <1>1, <1>3, Bounds DEF Clean, RowsInv
    <3> QED
      BY <1>4, <2>1, <3>1 DEF CleanInv
  <2>3. (\A d \in Copies : Clean(d))'
    <3>1. ASSUME NEW d, Clean(d) PROVE Clean(d)'
      BY <3>1 DEF Clean
    <3> QED
      BY <2>2, <3>1
  <2>4. reading'.state = "done" => reading'.base.last # reading'.at
    BY <1>3, <2>1 DEF CleanInv, Clean
  <2>5. \A x \in scheduling' : task'[x.task].done => x.base.last # task'[x.task].at
    <3>1. \A x \in scheduling' : x.task \in Task
      BY DEF TypeOK
    <3> QED
      BY <2>1, <3>1 DEF CleanInv
  <2>6. \A q \in asking' : q.act = "instance" /\ task'[q.task].done =>
          q.base.last # task'[q.task].at
    BY <1>1, <1>12, <2>1 DEF CleanInv, NewRequest, TimesInv
  <2> QED
    BY <2>3, <2>4, <2>5, <2>6 DEF CleanInv
<1> QED
  BY <1>6, <1>7, <1>10, <1>11, <1>12 DEF Inv

\* A completion has a time that no copy has.
LEMMA ToggleStep ==
  ASSUME Inv, TypeOK', NEW t \in Task, Toggle(t)
  PROVE  Inv'
<1>1. TypeOK /\ RowsInv /\ EffectsInv /\ TimesInv /\ ReadingInv
  BY DEF Inv
<1>2. clicks \in Nat /\ clicks' = clicks + 1 /\ task[t].exists
  BY <1>1, Bounds DEF Toggle, TypeOK
<1>3. /\ task'[t].done = ~task[t].done
      /\ task'[t].at = IF task[t].done THEN 0 ELSE clicks'
      /\ task'[t].rev = task[t].rev + 1
      /\ task'[t].exists = task[t].exists
  BY <1>1 DEF Toggle, TypeOK, Row
<1>15. task'[t].exists /\ (task'[t].done <=> ~task[t].done)
  BY <1>2, <1>3
<1>4. \A u \in Task \ {t} : task'[u] = task[u]
  BY <1>1 DEF Toggle, TypeOK
<1>5. effects' = effects \cup {[task |-> t, done |-> ~task[t].done,
                               at |-> task'[t].at, rev |-> task'[t].rev]}
  BY <1>3 DEF Toggle
<1>6. UNCHANGED <<def, scheduling, reading, asking, late>>
  BY DEF Toggle, lists
<1>7. Copies' = Copies /\ Copies \subseteq Definition
  BY <1>1, <1>6 DEF Copies, TypeOK
<1>8. \A d \in Copies : /\ d.last \in Nat /\ d.last <= clicks
                        /\ d.prev \in Nat /\ d.prev <= clicks
  BY <1>1, <1>7, Bounds DEF Definition, Time, TimesInv
<1>9. \A u \in Task : task[u].at \in Nat /\ task[u].at <= clicks /\ task[u].rev \in Nat
  BY <1>1, Bounds DEF RowsInv, TypeOK, Row, Time
<1>10. RowsInv'
  <2> SUFFICES ASSUME NEW u \in Task
               PROVE  /\ task'[u].rev <= clicks' /\ task'[u].at <= clicks'
                      /\ task'[u].done => task'[u].exists /\ task'[u].at # 0
    BY DEF RowsInv
  <2>1. CASE u = t
    <3>1. task[t].rev <= clicks
      BY <1>1 DEF RowsInv
    <3>2. task'[t].rev <= clicks'
      BY <1>2, <1>3, <1>9, <3>1
    <3>3. task'[t].at \in {0, clicks'} /\ (task'[t].done => task'[t].at = clicks')
      BY <1>3
    <3> QED
      BY <1>2, <1>15, <2>1, <3>2, <3>3
  <2>2. CASE u # t
    BY <1>1, <1>2, <1>4, <1>9, <2>2 DEF RowsInv
  <2> QED
    BY <2>1, <2>2
<1>11. EffectsInv'
  <2> SUFFICES ASSUME NEW e \in effects'
               PROVE  /\ task'[e.task].exists
                      /\ e.rev <= task'[e.task].rev
                      /\ e.rev = task'[e.task].rev =>
                           e.done = task'[e.task].done /\ e.at = task'[e.task].at
    BY DEF EffectsInv
  <2>1. CASE e \in effects
    <3>1. e.task \in Task /\ e.rev \in Nat
      BY <1>1, <2>1 DEF TypeOK
    <3>2. task[e.task].exists /\ e.rev <= task[e.task].rev
      BY <1>1, <2>1 DEF EffectsInv
    <3>3. CASE e.task = t
      <4>1. e.rev < task'[t].rev
        BY <1>3, <1>9, <3>1, <3>2, <3>3
      <4> QED
        BY <1>15, <1>9, <1>3, <3>1, <3>3, <4>1
    <3>4. CASE e.task # t
      BY <1>1, <1>4, <2>1, <3>1, <3>4 DEF EffectsInv
    <3> QED
      BY <3>3, <3>4
  <2>2. CASE e \notin effects
    <3>1. e = [task |-> t, done |-> ~task[t].done, at |-> task'[t].at, rev |-> task'[t].rev]
      BY <1>5, <2>2
    <3>2. e.task = t /\ e.done = task'[t].done /\ e.at = task'[t].at /\ e.rev = task'[t].rev
      BY <1>3, <3>1
    <3> QED
      BY <1>3, <1>9, <1>15, <3>2
  <2> QED
    BY <2>1, <2>2
<1>12. TimesInv'
  <2>1. \A q \in asking : q.at \in Nat
    BY <1>1, Bounds DEF TypeOK, Time
  <2>2. \A q \in asking, u \in Task : q.act = "complete" =>
          task'[u].at # q.at /\ q.at <= clicks'
    <3> SUFFICES ASSUME NEW q \in asking, NEW u \in Task, q.act = "complete"
                 PROVE  task'[u].at # q.at /\ q.at <= clicks'
      OBVIOUS
    <3>1. q.at <= clicks /\ q.base.last < q.at /\ task[u].at # q.at /\ q.base.last \in Nat
      BY <1>1, <1>8 DEF TimesInv, Copies
    <3> QED
      BY <1>2, <1>3, <1>4, <2>1, <3>1
  <2> QED
    BY <1>1, <1>2, <1>6, <1>7, <1>8, <2>1, <2>2 DEF TimesInv
<1>13. ReadingInv'
  <2>1. reading.at \in Nat
    BY <1>1, Bounds DEF TypeOK, Time
  <2>2. \A u \in Task : task[u].exists => task'[u].exists
    BY <1>3, <1>4
  <2> QED
    BY <1>1, <1>2, <1>6, <2>1, <2>2 DEF ReadingInv
<1>14. ASSUME OneInstance', ~late' PROVE CleanInv'
  <2>1. OneInstance
    BY <1>3, <1>4, <1>14 DEF OneInstance
  <2>2. CleanInv
    BY <1>6, <1>14, <2>1 DEF Inv
  <2>3. \A d \in Copies : d.last # clicks'
    BY <1>2, <1>8
  <2>4. ASSUME NEW d \in Copies, Clean(d) PROVE Clean(d)'
    BY <1>2, <1>3, <1>4, <2>3, <2>4 DEF Clean
  <2>5. (\A d \in Copies : Clean(d))'
    BY <1>7, <2>2, <2>4 DEF CleanInv
  <2>6. \A s \in scheduling : task'[s.task].done => s.base.last # task'[s.task].at
    BY <1>1, <1>2, <1>3, <1>4, <2>2, <2>3 DEF CleanInv, TypeOK, Copies
  <2>7. \A q \in asking : q.act = "instance" /\ task'[q.task].done =>
          q.base.last # task'[q.task].at
    <3> SUFFICES ASSUME NEW q \in asking, q.act = "instance", task'[q.task].done
                 PROVE  q.base.last # task'[q.task].at
      OBVIOUS
    <3>1. q.task \in Task /\ q.base.last # clicks'
      BY <1>1, <2>3 DEF TimesInv, Copies
    <3>2. CASE q.task = t
      BY <1>3, <3>1, <3>2
    <3>3. CASE q.task # t
      BY <1>4, <2>2, <3>1, <3>3 DEF CleanInv
    <3> QED
      BY <3>2, <3>3
  <2> QED
    BY <1>6, <2>2, <2>5, <2>6, <2>7 DEF CleanInv
<1> QED
  BY <1>10, <1>11, <1>12, <1>13, <1>14 DEF Inv

\* Every step keeps the invariant.
LEMMA InvStep == Inv /\ [Next]_vars => Inv'
<1> SUFFICES ASSUME Inv, [Next]_vars PROVE Inv'
  OBVIOUS
<1>1. TypeOK /\ RowsInv /\ EffectsInv /\ TimesInv /\ ReadingInv /\ TypeOK'
  BY TypeStep DEF Inv
<1>2. /\ Copies \subseteq Definition
      /\ \A d \in Copies : /\ d.last \in Nat /\ d.last <= clicks
                            /\ d.prev \in Nat /\ d.prev <= clicks
  BY <1>1, Bounds DEF Copies, TypeOK, TimesInv, Definition, Time
<1>3. clicks \in Nat
  BY <1>1, Bounds DEF TypeOK
<1>4. OneInstance /\ ~late => \A d \in Copies : Clean(d)
  BY DEF Inv, CleanInv
<1>5. def \in Copies /\ reading.base \in Copies
  BY DEF Copies
<1>6. ASSUME NEW t \in Task, ScheduleRead(t) PROVE Inv'
  <2>1. ~task[t].done
    BY <1>1, <1>6 DEF RowsInv, ScheduleRead
  <2> QED
    BY <1>1, <1>2, <1>3, <1>4, <1>5, <1>6, <2>1, OtherStep DEF ScheduleRead, rows
<1>7. ASSUME NEW t \in Task, Mint(t) PROVE Inv'
  <2>1. \A u \in Task : /\ task'[u].done = task[u].done /\ task'[u].at = task[u].at
                        /\ task'[u].rev = task[u].rev
                        /\ task[u].exists => task'[u].exists
    BY <1>1, <1>7 DEF Mint, TypeOK, Row
  <2> QED
    BY <1>1, <1>2, <1>3, <1>4, <1>5, <1>7, <2>1, OtherStep DEF Mint, lists
<1>8. ASSUME NEW t \in Task, AskInstance(t) PROVE Inv'
  <2>1. \A u \in Task : /\ task'[u].done = task[u].done /\ task'[u].at = task[u].at
                        /\ task'[u].rev = task[u].rev
                        /\ task[u].exists => task'[u].exists
    BY <1>1, <1>8 DEF AskInstance, TypeOK, Row
  <2>2. \A q \in asking' \ asking : NewRequest(q)
    <3>1. \A q \in asking' \ asking :
            q = [act |-> "instance", task |-> t, at |-> 0, base |-> def]
      BY <1>8 DEF AskInstance, Ask
    <3>2. ~late' => ~task[t].done
      BY <1>8 DEF AskInstance
    <3> QED
      BY <3>1, <3>2 DEF NewRequest
  <2>3. (late => late') /\ clicks' = clicks + 1
    BY <1>8 DEF AskInstance, Ask
  <2>4. UNCHANGED <<def, effects, scheduling, reading>>
    BY <1>8 DEF AskInstance, Ask, lists
  <2> QED
    BY <1>1, <1>2, <1>3, <1>4, <1>5, <2>1, <2>2, <2>3, <2>4, OtherStep
<1>9. ASSUME NEW t \in Task, Lapse(t) PROVE Inv'
  <2>1. \A u \in Task : /\ task'[u].done = task[u].done /\ task'[u].at = task[u].at
                        /\ task'[u].rev = task[u].rev
                        /\ task[u].exists => task'[u].exists
    BY <1>1, <1>9 DEF Lapse, TypeOK, Row
  <2> QED
    BY <1>1, <1>2, <1>3, <1>4, <1>5, <1>9, <2>1, OtherStep DEF Lapse, lists
<1>10. CASE AskComplete
  <2>1. \A q \in asking' \ asking : NewRequest(q)
    BY <1>10 DEF AskComplete, Ask, NewRequest
  <2> QED
    BY <1>1, <1>2, <1>3, <1>4, <1>5, <1>10, <2>1, OtherStep DEF AskComplete, Ask, lists
<1>11. ASSUME NEW act \in {"drop", "touch"}, AskOther(act) PROVE Inv'
  <2>1. \A q \in asking' \ asking : NewRequest(q)
    BY <1>11 DEF AskOther, Ask, NewRequest
  <2> QED
    BY <1>1, <1>2, <1>3, <1>4, <1>5, <1>11, <2>1, OtherStep DEF AskOther, Ask, lists
<1>12. ASSUME NEW q \in asking, Answer(q) PROVE Inv'
  <2>1. q \in [act : Act, task : Task \cup {NoTask}, at : Time, base : Definition]
    BY <1>1 DEF TypeOK
  <2>2. q.base \in Copies /\ q.base \in Definition
    BY <2>1 DEF Copies
  <2>3. def'.last <= clicks' /\ def'.prev <= clicks' /\ (OneInstance /\ ~late' => Clean(def'))
    <3> DEFINE by == IF q.base.open # NoTask THEN q.base.open ELSE q.base.by
    <3>1. UNCHANGED <<clicks, late, task>> /\ def' = Transition(q)
      BY <1>12 DEF Answer
    <3>2. OneInstance /\ ~late => Clean(q.base) /\ CleanInv
      BY <1>4, <2>2 DEF Inv
    <3>3. CASE q.act \in {"instance", "drop"}
      <4>1. def' = applySchedule(q.base, q.task)
        BY <3>1, <3>3 DEF Transition
      <4>2. /\ def'.last = q.base.last /\ def'.prev = q.base.prev /\ def'.by = q.base.by
            /\ def'.undoable = q.base.undoable /\ def'.open = q.task
        BY <2>1, <4>1, Scheduled
      <4>3. q.act = "drop" => q.task \notin Task
        BY <1>1, Bounds DEF TimesInv
      <4> QED
        BY <1>2, <2>2, <3>1, <3>2, <3>3, <4>2, <4>3 DEF Clean, CleanInv
    <3>4. CASE q.act = "complete"
      <4>1. def' = applyCompletion(q.base, q.at, by)
        BY <3>1, <3>4 DEF Transition
      <4>2. by \in Task \cup {NoTask}
        BY <2>1 DEF Definition
      <4> HIDE DEF by
      <4>3. def'.last = q.at /\ def'.prev = q.base.last /\ def'.open = NoTask
        BY <2>1, <4>1, <4>2, Completed
      <4>4. /\ q.base.last < q.at /\ q.at <= clicks
            /\ \A t \in Task : task[t].at # q.at
        BY <1>1, <3>4 DEF TimesInv
      <4>5. q.at \in Nat /\ q.base.last \in Nat
        BY <1>2, <2>1, <2>2, Bounds DEF Time
      <4> QED
        BY <1>3, <3>1, <4>3, <4>4, <4>5, Bounds DEF Clean
    <3>5. CASE q.act = "touch"
      BY <1>2, <2>2, <3>1, <3>2, <3>5 DEF Transition
    <3> QED
      BY <2>1, <3>3, <3>4, <3>5 DEF Act
  <2> QED
    BY <1>1, <1>3, <1>12, <2>3, OtherStep DEF Answer, lists
<1>13. ASSUME NEW s \in scheduling, ScheduleCreate(s) PROVE Inv'
  <2>1. \A u \in Task : /\ task'[u].done = task[u].done /\ task'[u].at = task[u].at
                        /\ task'[u].rev = task[u].rev
                        /\ task[u].exists => task'[u].exists
    BY <1>1, <1>13 DEF ScheduleCreate, TypeOK, Row
  <2> QED
    BY <1>1, <1>2, <1>3, <1>4, <1>5, <1>13, <2>1, OtherStep DEF ScheduleCreate, lists
<1>14. ASSUME NEW s \in scheduling, ScheduleStamp(s) PROVE Inv'
  <2>1. s \in [task : Task, base : Definition] /\ s.base \in Copies
    BY <1>1 DEF TypeOK, Copies
  <2>2. /\ def'.last = s.base.last /\ def'.prev = s.base.prev /\ def'.by = s.base.by
        /\ def'.undoable = s.base.undoable /\ def'.open = s.task
    BY <1>14, <2>1, Scheduled DEF ScheduleStamp
  <2>3. OneInstance /\ ~late => Clean(def')
    BY <1>4, <2>1, <2>2 DEF Clean, Inv, CleanInv
  <2> QED
    BY <1>1, <1>2, <1>3, <1>14, <2>1, <2>2, <2>3, OtherStep DEF ScheduleStamp
<1>15. ASSUME NEW s \in scheduling, LoseStamp(s) PROVE Inv'
  BY <1>1, <1>2, <1>3, <1>4, <1>5, <1>15, OtherStep DEF LoseStamp, rows
<1>16. ASSUME NEW e \in effects, NEW again \in BOOLEAN, Propagate(e, again) PROVE Inv'
  <2>1. /\ e.task \in Task /\ e.at \in Time
        /\ task[e.task].exists
        /\ e.rev = task[e.task].rev => e.done = task[e.task].done /\ e.at = task[e.task].at
    BY <1>1 DEF TypeOK, EffectsInv
  <2>2. UNCHANGED <<clicks, late, task>> /\ effects' \subseteq effects
    BY <1>16 DEF Propagate
  <2>3. def'.last <= clicks' /\ def'.prev <= clicks' /\ (OneInstance /\ ~late' => Clean(def'))
    <3>1. CASE ~StillCurrent(e) \/ Replayed(e)
      BY <1>2, <1>4, <1>5, <1>16, <2>2, <3>1 DEF Propagate
    <3>2. CASE StillCurrent(e) /\ ~Replayed(e) /\ e.done
      <4>1. task[e.task].done /\ e.at = task[e.task].at
        BY <2>1, <3>2 DEF StillCurrent
      <4>2. /\ def'.last = e.at /\ def'.prev = def.last /\ def'.undoable
            /\ def'.by = e.task /\ def'.open = NoTask
        BY <1>1, <1>16, <2>1, <3>2, Completed DEF Propagate, TypeOK
      <4>3. def'.last <= clicks' /\ def'.prev <= clicks'
        BY <1>1, <1>2, <1>5, <2>1, <2>2, <4>1, <4>2 DEF RowsInv
      <4>4. ASSUME OneInstance, ~late PROVE Clean(def')
        <5>1. Clean(def)
          BY <1>4, <1>5, <4>4
        <5>2. def.last # e.at
          BY <2>1, <3>2, <4>1, <5>1 DEF Clean, Replayed
        <5>3. \A t \in Task : task[t].done => t = e.task
          BY <1>1, <2>1, <4>4 DEF RowsInv, OneInstance
        <5> QED
          BY <4>2, <5>2, <5>3, Bounds DEF Clean
      <4> QED
        BY <2>2, <4>3, <4>4
    <3>3. CASE StillCurrent(e) /\ ~e.done
      <4>1. ~task[e.task].done
        BY <2>1, <3>3 DEF StillCurrent
      <4>2. /\ def'.open = e.task
            /\ \/ def'.last = def.prev /\ def'.prev = 0
               \/ def'.last = def.last /\ def'.prev = def.prev
        BY <1>1, <1>16, <2>1, <3>3, Uncompleted DEF Propagate, TypeOK, Replayed
      <4>3. def'.last <= clicks' /\ def'.prev <= clicks'
        BY <1>2, <1>3, <1>5, <2>2, <4>2
      <4>4. ASSUME OneInstance, ~late PROVE Clean(def')
        <5>1. Clean(def)
          BY <1>4, <1>5, <4>4
        <5>2. \A t \in Task : ~task[t].done
          BY <1>1, <2>1, <4>1, <4>4 DEF RowsInv, OneInstance
        <5> QED
          BY <4>2, <5>1, <5>2 DEF Clean
      <4> QED
        BY <2>2, <4>3, <4>4
    <3> QED
      BY <3>1, <3>2, <3>3
  <2> QED
    BY <1>1, <1>3, <1>16, <2>2, <2>3, OtherStep DEF Propagate, lists
<1>17. ASSUME NEW e \in effects, LoseEffect(e) PROVE Inv'
  BY <1>1, <1>2, <1>3, <1>4, <1>5, <1>17, OtherStep DEF LoseEffect, rows, lists
<1>18. CASE ReconcileRead
  <2>1. def.open \in Task
    BY <1>1, <1>18 DEF ReconcileRead, TypeOK, Definition
  <2>2. /\ reading'.base = def /\ reading'.state = resolveInstanceState(def.open)
        /\ reading'.at = task[def.open].at
    BY <1>18 DEF ReconcileRead
  <2>3. /\ reading'.state # "none"
        /\ reading'.state = "done" => task[def.open].done
    BY <2>2 DEF resolveInstanceState
  <2> QED
    BY <1>1, <1>2, <1>3, <1>4, <1>5, <1>18, <2>1, <2>2, <2>3, OtherStep
    DEF ReconcileRead, rows
<1>19. CASE ReconcileWrite
  <2>1. reading.base \in Definition /\ reading.at \in Time /\ reading.base.open \in Task \cup {NoTask}
    BY <1>1 DEF TypeOK, Definition
  <2>2. reading.state \in {"open", "done", "gone"}
    BY <1>1, <1>19 DEF TypeOK, ReconcileWrite, ReadingInv
  <2>3. UNCHANGED <<clicks, late, task>>
    BY <1>19 DEF ReconcileWrite
  <2>4. def'.last <= clicks' /\ def'.prev <= clicks' /\ (OneInstance /\ ~late' => Clean(def'))
    <3>1. CASE reading.state = "open"
      BY <1>2, <1>4, <1>5, <1>19, <2>3, <3>1 DEF ReconcileWrite
    <3>2. CASE reading.state = "gone"
      <4>1. def' = clearOpenInstance(reading.base)
        BY <1>19, <3>2 DEF ReconcileWrite
      <4>2. /\ def'.last = reading.base.last /\ def'.prev = reading.base.prev
            /\ def'.by = reading.base.by /\ def'.undoable = reading.base.undoable
            /\ def'.open = NoTask
        BY <2>1, <4>1, Cleared
      <4> QED
        BY <1>2, <1>4, <1>5, <2>3, <4>2, Bounds DEF Clean
    <3>3. CASE reading.state = "done"
      <4>1. def' = applyCompletion(reading.base, reading.at, reading.base.open)
        BY <1>19, <3>3 DEF ReconcileWrite
      <4>2. /\ def'.last = reading.at /\ def'.prev = reading.base.last /\ def'.undoable
            /\ def'.by = reading.base.open /\ def'.open = NoTask
        BY <2>1, <4>1, Completed
      <4>3. reading.base.open \in Task /\ task[reading.base.open].exists
        BY <1>1, <3>3 DEF ReadingInv
      <4>4. ASSUME OneInstance, ~late PROVE Clean(def')
        <5>1. reading.base.last # reading.at
          BY <3>3, <4>4 DEF Inv, CleanInv
        <5>2. \A t \in Task : task[t].done => t = reading.base.open
          BY <1>1, <4>3, <4>4 DEF RowsInv, OneInstance
        <5> QED
          BY <4>2, <5>1, <5>2, Bounds DEF Clean
      <4>5. reading.at <= clicks
        BY <1>1, <3>3 DEF ReadingInv
      <4> QED
        BY <1>2, <1>5, <2>3, <4>2, <4>4, <4>5
    <3> QED
      BY <2>2, <3>1, <3>2, <3>3
  <2>5. UNCHANGED <<effects, scheduling, asking>> /\ reading' = NoRead
    BY <1>19 DEF ReconcileWrite
  <2> QED
    BY <1>1, <1>3, <2>3, <2>4, <2>5, OtherStep
<1>20. CASE UNCHANGED vars
  BY <1>1, <1>2, <1>3, <1>4, <1>5, <1>20, OtherStep DEF vars, rows, lists
<1> QED
  BY <1>1, <1>6, <1>7, <1>8, <1>9, <1>10, <1>11, <1>12, <1>13, <1>14, <1>15, <1>16,
     <1>17, <1>18, <1>19, <1>20, ToggleStep DEF Next, Eager, Derived
-----------------------------------------------------------------------------
LEMMA Always == Spec => []Inv
<1>1. Init => Inv
  BY InitInv
<1>2. Inv /\ [Next]_vars => Inv'
  BY InvStep
<1> QED
  BY <1>1, <1>2, PTL DEF Spec

\* Every variable of Cadence keeps its shape, for any instances and bounds.
THEOREM TypeCorrect == Spec => []TypeOK
<1>1. Inv => TypeOK
  BY DEF Inv
<1> QED
  BY <1>1, Always, PTL

\* propagateResponsibilityDone, resolveOpenInstances and the routes of the
\* responsibility write the definition from old reads, lose their updates and
\* apply a completion twice; for any number of them, the value that an undo
\* needs is not overwritten by the completion it is to undo.
THEOREM UndoAlwaysKept == Spec => []UndoKept
<1>1. Inv => UndoKept
  BY DEF Inv, CleanInv, Clean, Copies, UndoKept
<1> QED
  BY <1>1, Always, PTL

-----------------------------------------------------------------------------
(***************************************************************************)
(* Towards PauseEnds: what becomes of the read of the list.                *)
(***************************************************************************)
\* The derived half can run while the list is being read, or has something to find:
\* ENABLED is beyond the provers, so that this is a hypothesis of the theorem below.
Reconciles == reading # NoRead \/ def.open # NoTask
CanReconcile == Reconciles => ENABLED <<Derived>>_vars

NotReading == reading = NoRead
ReadOpen   == reading # NoRead /\ reading.state = "open"
ReadOver   == reading # NoRead /\ reading.state \in {"done", "gone"}

\* While the pause is stuck, a read finds its instance over; the write that follows
\* ends the pause, whatever people and the eager half do meanwhile.
LEMMA StuckRead ==
  ASSUME Inv, [Next]_vars, Stuck, Stuck'
  PROVE  /\ NotReading => NotReading' \/ ReadOver'
         /\ ReadOver => ReadOver' /\ ~<<Derived>>_vars
         /\ ReadOpen => ReadOpen' \/ NotReading'
         /\ NotReading /\ <<Derived>>_vars => ReadOver'
         /\ ReadOpen /\ <<Derived>>_vars => NotReading'
<1>1. CASE ReconcileRead
  <2>1. NotReading /\ reading'.state = resolveInstanceState(def.open)
    BY <1>1 DEF ReconcileRead, NotReading
  <2>2. reading'.state \in {"done", "gone"}
    BY <2>1 DEF Stuck, resolveInstanceState
  <2>3. ReadOver'
    BY <2>2 DEF ReadOver, NoRead
  <2> QED BY <2>1, <2>3 DEF NotReading, ReadOver, ReadOpen
<1>2. CASE ReconcileWrite
  <2>1. reading # NoRead /\ NotReading'
    BY <1>2 DEF ReconcileWrite, NotReading
  <2>2. ~ReadOver
    <3> SUFFICES ASSUME ReadOver PROVE FALSE
      OBVIOUS
    <3>1. reading.base \in Definition /\ reading.base.open \in Task \cup {NoTask}
      BY DEF Inv, TypeOK, Definition
    <3>2. \/ def' = clearOpenInstance(reading.base)
          \/ def' = applyCompletion(reading.base, reading.at, reading.base.open)
      BY <1>2 DEF ReconcileWrite, ReadOver
    <3>3. reading.at \in Time
      BY DEF Inv, TypeOK
    <3>4. def'.open = NoTask
      BY <3>1, <3>2, <3>3, Cleared, Completed
    <3> QED BY <3>4 DEF Stuck
  <2> QED BY <2>1, <2>2 DEF NotReading, ReadOpen
<1>3. CASE UNCHANGED reading /\ ~Derived
  BY <1>3 DEF NotReading, ReadOver, ReadOpen
<1>4. [Next]_vars => Derived \/ UNCHANGED reading
  BY DEF vars, lists, rows, Next, Eager, Derived, ScheduleRead, ScheduleCreate, ScheduleStamp,
         LoseStamp, Mint, Ask, AskInstance, AskComplete, AskOther, Answer, Toggle, Lapse,
         Propagate, LoseEffect
<1> QED BY <1>1, <1>2, <1>3, <1>4 DEF Derived

\* resolveOpenInstances, run on every read of the list, ends the pause of an instance
\* that is over, however the eager half fails or is repeated and however the routes of
\* the responsibility write an old pause back.
THEOREM PauseEndsAlways == FairSpec /\ []CanReconcile => PauseEnds
<1>1. PauseEnds <=> []<>~Stuck
  BY DEF PauseEnds
<1>2. Inv /\ [Next]_vars /\ Stuck /\ Stuck'
        => /\ NotReading => NotReading' \/ ReadOver'
           /\ ReadOver => ReadOver' /\ ~<<Derived>>_vars
           /\ ReadOpen => ReadOpen' \/ NotReading'
           /\ NotReading /\ <<Derived>>_vars => ReadOver'
           /\ ReadOpen /\ <<Derived>>_vars => NotReading'
  BY StuckRead
<1>3. Inv => NotReading \/ ReadOver \/ ReadOpen
  BY DEF Inv, TypeOK, ReadingInv, NotReading, ReadOver, ReadOpen
<1>4. Stuck => Reconciles
  BY DEF Stuck, Reconciles
<1> QED BY <1>1, <1>2, <1>3, <1>4, Always, PTL DEF FairSpec, Spec, CanReconcile
=============================================================================
