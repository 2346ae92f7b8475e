------------------------- MODULE WorkingQueueProofs -------------------------
(***************************************************************************)
(* What holds of WorkingQueue for every number of tasks, workspaces,       *)
(* devices, commands and troubles.                                         *)
(*                                                                         *)
(* Sound says what the database keeps true of the clock; each command      *)
(* leaves a sound database sound (the lemmas up to ExecuteSound), and so   *)
(* does every step of the system (NextInv).                                *)
(***************************************************************************)
EXTENDS WorkingQueue, TLAPS

Status == {"none", "queued", "foreground", "background", "blocked", "paused", "completed"}
Action == ClockAction \cup QueueAction \cup {"queue-claim"}
Cmd == [id : Identity, action : Action, task : Task, rev : Nat, at : Instant, remind : BOOLEAN,
        legacy : BOOLEAN, gen : Identity, fg : SUBSET Task]
QueueStatus == {"queued", "foreground", "background", "blocked", "paused", "completed"}
Entry == [task : Task, from : Instant, to : Instant]
Store == [row : [Task -> Row], item : [Task -> Item], rev : Nat, changed : Instant,
          entries : SUBSET Entry]

LEMMA Constants ==
  /\ AutoPause \in Nat /\ AutoPause > 0 /\ HardStop \in Nat /\ HardStop > 0 /\ Wait \in Nat
  /\ MaxTime \in Nat /\ MaxTime > 0 /\ MaxIds \in Nat /\ MaxTroubles \in Nat
BY ConstantsAssumption

LEMMA RowFacts ==
  ASSUME NEW r \in Row, NEW c \in Cmd
  PROVE  /\ Begun(r, c) \in Row /\ Halted(r, c) \in Row /\ CheckedIn(r, c) \in Row
         /\ Completed(r) \in Row
         /\ Stamp(r) \in StampShape
<1>1. c.at \in Instant /\ 0 \in Instant /\ c.id \in Identity
  BY Constants DEF Cmd, Instant
<1>2. Begun(r, c) \in Row /\ Halted(r, c) \in Row /\ CheckedIn(r, c) \in Row
  <2> DEFINE at == c.at
             id == c.id
  <2>1. at \in Instant /\ id \in Identity
    BY <1>1
  <2> HIDE DEF at, id
  <2>2. [r EXCEPT !.active = at, !.checkIn = 0, !.changed = at, !.op = id] \in Row
    BY <1>1, <2>1 DEF Row
  <2>3. [r EXCEPT !.active = 0, !.changed = at, !.op = id] \in Row
    BY <1>1, <2>1 DEF Row
  <2>4. [r EXCEPT !.checkIn = at, !.changed = at, !.op = id] \in Row
    BY <1>1, <2>1 DEF Row
  <2> QED BY <2>2, <2>3, <2>4 DEF Begun, Halted, CheckedIn, at, id
<1>3. [r EXCEPT !.done = TRUE, !.crev = @ + 1] \in Row
  <2>1. r.crev + 1 \in Nat
    BY DEF Row
  <2> QED BY <2>1, Zenon DEF Row
<1>4. Completed(r) \in Row
  BY <1>3 DEF Completed
<1>5. Stamp(r) \in StampShape
  BY DEF Stamp, StampShape, Row
<1> QED BY <1>2, <1>4, <1>5

LEMMA ClearFacts ==
  /\ NoStamp \in StampShape /\ NoItem \in Item /\ NewItem \in Item
  /\ NoItem.brk = NoStamp /\ NewItem.brk = NoStamp
  /\ \A i \in Item : /\ clearReminder(i) \in Item /\ clearReminder(i).brk = i.brk
                     /\ clearReminder(i).status = i.status
<1>1. NoStamp \in StampShape
  BY Constants DEF NoStamp, StampShape, Identity
<1>2. NewItem \in Item /\ NewItem.brk = NoStamp
  BY <1>1, Constants DEF NewItem, Item, Identity, Instant
<1>3. NoItem \in Item /\ NoItem.brk = NoStamp
  BY <1>2 DEF NoItem, Item
<1>4. \A i \in Item : /\ clearReminder(i) \in Item /\ clearReminder(i).brk = i.brk
                      /\ clearReminder(i).status = i.status
  <2>1. 0 \in 0..(MaxTime + Wait) /\ 0 \in Identity
    BY Constants DEF Identity
  <2> QED BY <1>1, <2>1 DEF clearReminder, Item
<1> QED BY <1>1, <1>2, <1>3, <1>4

LEMMA ItemFacts ==
  ASSUME NEW i \in Item, NEW r \in Row, NEW c \in Cmd
  PROVE  /\ Claimed(i) \in Item /\ Claimed(i).brk = i.brk /\ Claimed(i).status = i.status
         /\ Remind(i, r, c.at + Wait, c) \in Item
         /\ Remind(i, r, c.at + Wait, c).brk = i.brk
         /\ Remind(i, r, c.at + Wait, c).status = i.status
<1>1. Stamp(r) \in StampShape
  BY RowFacts
<1>2. Claimed(i) \in Item /\ Claimed(i).brk = i.brk /\ Claimed(i).status = i.status
  <2>1. (i.notified \/ Claimable(i)) \in BOOLEAN
    BY DEF Claimable, Item
  <2> QED BY <2>1, Zenon DEF Claimed, Item
<1>3. /\ Remind(i, r, c.at + Wait, c) \in Item
      /\ Remind(i, r, c.at + Wait, c).brk = i.brk
      /\ Remind(i, r, c.at + Wait, c).status = i.status
  <2>1. c.at + Wait \in 0..(MaxTime + Wait) /\ c.id \in Identity
    BY Constants DEF Cmd, Instant
  <2> QED BY <1>1, <2>1 DEF Remind, Item
<1> QED BY <1>2, <1>3

LEMMA StatusFacts ==
  ASSUME NEW i \in Item, NEW r \in Row, NEW c \in Cmd,
         NEW status \in QueueStatus
  PROVE  /\ setStatus(i, r, status, c) \in Item
         /\ setStatus(i, r, status, c).brk = NoStamp
<1>1. Stamp(r) \in StampShape /\ NoStamp \in StampShape
  BY RowFacts, ClearFacts
<1> DEFINE j == clearReminder(IF i = NoItem THEN NewItem ELSE i)
           st == IF c.action = "needs-you" /\ i.status = "blocked" THEN "blocked" ELSE status
           b == [j EXCEPT !.status = st, !.brk = NoStamp]
           d == IF c.remind THEN c.at + Wait ELSE 0
           g == IF c.remind THEN c.id ELSE 0
           w == IF status \in {"background", "blocked"}
                THEN [b EXCEPT !.mark = Stamp(r), !.due = d, !.gen = g] ELSE b
           n == [w EXCEPT !.due = c.at, !.gen = c.id, !.mark = Stamp(r)]
<1>2. j \in Item
  BY ClearFacts
<1>3. /\ d \in 0..(MaxTime + Wait) /\ c.at \in 0..(MaxTime + Wait)
      /\ g \in Identity /\ c.id \in Identity
  BY Constants DEF Cmd, Instant, Identity
<1>4. setStatus(i, r, status, c) = IF c.action = "needs-you" THEN n ELSE w
  BY DEF setStatus, ensure
<1>5. st \in QueueStatus
  BY DEF QueueStatus
<1> HIDE DEF j, st, d, g
<1>6. b \in Item /\ b.brk = NoStamp
  BY <1>1, <1>2, <1>5 DEF Item, QueueStatus
<1> HIDE DEF b
<1>7. w \in Item /\ w.brk = NoStamp
  BY <1>1, <1>3, <1>6 DEF Item
<1> HIDE DEF w
<1>8. n \in Item /\ n.brk = NoStamp
  BY <1>1, <1>3, <1>7 DEF Item
<1> QED BY <1>4, <1>7, <1>8

\* A task that holds the foreground: running, completed or not, or on a break.
Fore(r, i) == ~r.gone /\ (r.active # 0 \/ isForegroundBreak(r, i))

OneFore(s) == \A t, u \in Task :
  Fore(s.row[t], s.item[t]) /\ Fore(s.row[u], s.item[u]) => t = u

\* The operations that only the completion route writes.
WriteIds == {MaxIds + 2 * k + 2 : k \in Nat}

\* A break is that of a pause, and of a revision the row has had.
BreaksOK(s) == \A t \in Task : s.item[t].brk.set =>
  s.item[t].brk.rev <= s.row[t].crev /\ s.item[t].brk.op \notin WriteIds

\* Sessions are recorded one after another, up to k; the one that runs began later.
ClockOK(s, k) ==
  /\ \A e \in s.entries : e.from < e.to /\ e.to <= k
  /\ \A e, f \in s.entries : e # f => e.to <= f.from \/ f.to <= e.from
  /\ \A t \in Running(s) : s.row[t].active <= k /\ \A e \in s.entries : e.to <= s.row[t].active

Sound(s, k) == s \in Store /\ BreaksOK(s) /\ OneFore(s) /\ ClockOK(s, k)

Within(s, z) == \A t \in Task : Fore(z.row[t], z.item[t]) => Fore(s.row[t], s.item[t])

\* What ran in s and does not in z is in the record.
Recorded(s, z) ==
  /\ s.entries \subseteq z.entries
  /\ \A t \in Task : s.row[t].active \notin {0, z.row[t].active} =>
       \E e \in z.entries : e.task = t /\ e.from = s.row[t].active

LEMMA NoBreak ==
  ASSUME NEW r \in Row, NEW i \in Item, i.brk = NoStamp
  PROVE  ~isForegroundBreak(r, i)
BY DEF isForegroundBreak, NoStamp, Stamp

LEMMA StartedFacts ==
  ASSUME NEW s \in Store, NEW t \in Task, NEW c \in Cmd
  PROVE  LET z == Started(s, t, c) IN
         /\ z \in Store
         /\ z.item = s.item /\ z.entries = s.entries /\ z.changed = s.changed /\ z.rev = s.rev
         /\ \A u \in Task : z.row[u] = IF u = t THEN Begun(s.row[u], c) ELSE s.row[u]
BY RowFacts DEF Started, Store

LEMMA PutFacts ==
  ASSUME NEW s \in Store, NEW t \in Task, NEW c \in Cmd,
         NEW status \in QueueStatus
  PROVE  LET z == Put(s, t, status, c) IN
         /\ z \in Store
         /\ z.row = s.row /\ z.entries = s.entries /\ z.changed = s.changed /\ z.rev = s.rev
         /\ \A u \in Task : z.item[u] = IF u = t THEN setStatus(s.item[t], s.row[t], status, c)
                                      ELSE s.item[u]
         /\ z.item[t].brk = NoStamp
<1>1. s.item[t] \in Item /\ s.row[t] \in Row
  BY DEF Store
<1>2. /\ setStatus(s.item[t], s.row[t], status, c) \in Item
      /\ setStatus(s.item[t], s.row[t], status, c).brk = NoStamp
  BY <1>1, StatusFacts DEF QueueStatus
<1> DEFINE n == setStatus(s.item[t], s.row[t], status, c)
<1>3. Put(s, t, status, c) = [s EXCEPT !.item = [s.item EXCEPT ![t] = n]]
  BY DEF Put, Store
<1> HIDE DEF n
<1>4. [s.item EXCEPT ![t] = n] \in [Task -> Item]
  BY <1>2 DEF Store, n
<1> QED BY <1>2, <1>3, <1>4 DEF Store, n

LEMMA AsideFacts ==
  ASSUME NEW s \in Store, NEW T \in SUBSET Task, NEW c \in Cmd
  PROVE  LET z == SetAside(s, T, c) IN
         /\ z \in Store
         /\ z.row = s.row /\ z.entries = s.entries /\ z.changed = s.changed /\ z.rev = s.rev
         /\ \A u \in Task \ T : z.item[u] = s.item[u]
         /\ \A u \in T : z.item[u].brk = NoStamp
<1>1. \A u \in Task : s.item[u] \in Item /\ s.row[u] \in Row
  BY DEF Store
<1>2. \A u \in Task : /\ setStatus(s.item[u], s.row[u], "background", c) \in Item
                     /\ setStatus(s.item[u], s.row[u], "background", c).brk = NoStamp
  BY <1>1, StatusFacts DEF QueueStatus
<1> QED BY <1>2 DEF SetAside, Store

\* Setting an item aside, or giving it a status, ends a break.
LEMMA PutWithin ==
  ASSUME NEW s \in Store, NEW z \in Store, z.row = s.row, z.entries = s.entries,
         \A u \in Task : z.item[u] = s.item[u] \/ z.item[u].brk = NoStamp
  PROVE  /\ Within(s, z)
         /\ OneFore(s) => OneFore(z)
         /\ BreaksOK(s) => BreaksOK(z)
         /\ \A k : ClockOK(s, k) => ClockOK(z, k)
         /\ Recorded(s, z)
<1>1. \A u \in Task : z.item[u] \in Item /\ z.row[u] \in Row
  BY DEF Store
<1>2. Within(s, z)
  BY <1>1, NoBreak DEF Within, Fore
<1>3. OneFore(s) => OneFore(z)
  BY <1>2 DEF Within, OneFore
<1>4. BreaksOK(s) => BreaksOK(z)
  BY DEF BreaksOK, NoStamp
<1>5. Running(z) = Running(s)
  BY DEF Running
<1>6. \A k : ClockOK(s, k) => ClockOK(z, k)
  BY <1>5 DEF ClockOK
<1>7. Recorded(s, z)
  BY DEF Recorded
<1> QED BY <1>2, <1>3, <1>4, <1>6, <1>7

\* A break that the reconciled item shows was there before.
LEMMA ReconciledFacts ==
  ASSUME NEW r \in Row, NEW i \in Item
  PROVE  /\ ReconciledItem(r, i) \in Item
         /\ ReconciledItem(r, i).brk \in {i.brk, NoStamp}
         /\ Fore(r, ReconciledItem(r, i)) => Fore(r, i)
<1> DEFINE item == IF i = NoItem THEN NewItem ELSE i
           base == clearReminder(item)
           settled ==
             CASE r.done -> [base EXCEPT !.status = "completed"]
               [] ~r.done /\ r.active # 0 -> [base EXCEPT !.status = "foreground"]
               [] ~r.done /\ r.active = 0
                  /\ \/ item.status = "completed"
                     \/ item.status = "foreground" /\ ~isForegroundBreak(r, item) ->
                    [base EXCEPT !.status = "paused"]
               [] OTHER -> item
           z == IF settled.due # 0 /\ settled.mark # Stamp(r) THEN clearReminder(settled)
                                                            ELSE settled
<1>1. ReconciledItem(r, i) = z
  BY DEF ReconciledItem, ensure
<1>2. item \in Item /\ item.brk \in {i.brk, NoStamp}
  BY ClearFacts
<1>3. isForegroundBreak(r, item) => isForegroundBreak(r, i)
  BY ClearFacts, NoBreak
<1> HIDE DEF item
<1>4. base \in Item /\ base.brk = item.brk
  BY <1>2, ClearFacts
<1> HIDE DEF base
<1>5. /\ settled \in Item /\ settled.brk = item.brk
      /\ settled.status = "foreground" => r.active # 0 \/ isForegroundBreak(r, item)
  <2>1. CASE r.done
    <3>1. settled = [base EXCEPT !.status = "completed"]
      BY <2>1
    <3> QED BY <1>4, <3>1 DEF Item
  <2>2. CASE ~r.done /\ r.active # 0
    <3>1. settled = [base EXCEPT !.status = "foreground"]
      BY <2>2
    <3> QED BY <1>4, <2>2, <3>1 DEF Item
  <2>3. CASE ~r.done /\ r.active = 0
    <3>1. CASE \/ item.status = "completed"
               \/ item.status = "foreground" /\ ~isForegroundBreak(r, item)
      <4>1. settled = [base EXCEPT !.status = "paused"]
        BY <2>3, <3>1
      <4> QED BY <1>4, <4>1 DEF Item
    <3>2. CASE ~(\/ item.status = "completed"
                 \/ item.status = "foreground" /\ ~isForegroundBreak(r, item))
      <4>1. settled = item
        BY <2>3, <3>2
      <4> QED BY <1>2, <3>2, <4>1
    <3> QED BY <3>1, <3>2
  <2> QED BY <2>1, <2>2, <2>3
<1> HIDE DEF settled
<1>6. z \in Item /\ z.brk = item.brk /\ z.status = settled.status
  BY <1>5, ClearFacts
<1>7. Fore(r, z) => Fore(r, i)
  BY <1>3, <1>5, <1>6 DEF Fore, isForegroundBreak
<1> QED BY <1>1, <1>2, <1>6, <1>7

\* The queue is brought in line with the rows: no break begins.
LEMMA ReconcileSound ==
  ASSUME NEW s \in Store, NEW w
  PROVE  LET z == reconcile(s, w) IN
         /\ z \in Store
         /\ z.row = s.row /\ z.entries = s.entries /\ z.changed = s.changed /\ z.rev = s.rev
         /\ \A k : Sound(s, k) => Sound(z, k)
         /\ Recorded(s, z)
<1> DEFINE z == reconcile(s, w)
<1>1. \A t \in Task : s.item[t] \in Item /\ s.row[t] \in Row
  BY DEF Store
<1>3. ASSUME NEW r \in Row, NEW i \in Item
      PROVE  /\ ReconciledItem(r, i) \in Item
             /\ ReconciledItem(r, i).brk \in {i.brk, NoStamp}
             /\ Fore(r, ReconciledItem(r, i)) => Fore(r, i)
  BY ReconciledFacts
<1>4. NoItem \in Item /\ NoItem.brk = NoStamp
  BY ClearFacts
<1>5. z \in Store /\ z.row = s.row /\ z.entries = s.entries /\ z.changed = s.changed
      /\ z.rev = s.rev
  BY <1>1, <1>3, <1>4 DEF reconcile, Store
<1>6. \A t \in Task : z.item[t] \in {s.item[t], NoItem, ReconciledItem(s.row[t], s.item[t])}
  BY <1>1, <1>3, <1>4 DEF reconcile, Store
<1>7. Within(s, z)
  BY <1>1, <1>3, <1>4, <1>5, <1>6, NoBreak DEF Within, Fore
<1>8. BreaksOK(s) => BreaksOK(z)
  BY <1>1, <1>3, <1>4, <1>5, <1>6 DEF BreaksOK, NoStamp
<1>9. OneFore(s) => OneFore(z)
  BY <1>7 DEF Within, OneFore
<1>10. \A k : ClockOK(s, k) => ClockOK(z, k)
  BY <1>5 DEF ClockOK, Running
<1>11. Recorded(s, z)
  BY <1>5 DEF Recorded
<1> HIDE DEF z
<1> QED BY <1>5, <1>8, <1>9, <1>10, <1>11 DEF Sound, z

LEMMA CutoffFacts ==
  ASSUME NEW r \in Row, NEW at \in Instant, at > r.active
  PROVE  /\ Cutoff(r, at) \in Instant
         /\ r.active < Cutoff(r, at) /\ Cutoff(r, at) <= at
<1>1. r.active \in Nat /\ r.checkIn \in Nat /\ at \in Nat /\ at <= MaxTime
  BY Constants DEF Row, Instant
<1>2. autoPauseAt(r, at) \in Nat /\ autoPauseAt(r, at) > r.active
  BY <1>1, Constants DEF autoPauseAt, anchor
<1> QED BY <1>1, <1>2, Constants DEF Cutoff, Instant

DoneKept(s, z) == \A t \in Task : z.row[t].done = s.row[t].done

\* What a step of a command leaves true.
Moves(s, z) == Recorded(s, z) /\ z.rev = s.rev /\ z.changed = s.changed

LEMMA MovesOn ==
  ASSUME NEW s, NEW a, NEW z, Moves(s, a), Moves(a, z)
  PROVE  Moves(s, z)
BY DEF Moves, Recorded

\* The sessions of T end: they are recorded one after another.
LEMMA ClosedFacts ==
  ASSUME NEW s, NEW k \in Instant, Sound(s, k), NEW c \in Cmd,
         NEW T \in SUBSET Running(s), MayClose(s, T, c), k <= c.at
  PROVE  LET z == Closed(s, T, c) IN
         /\ Sound(z, c.at)
         /\ Within(s, z) /\ Moves(s, z) /\ DoneKept(s, z)
         /\ z.item = s.item
         /\ \A t \in Task : z.row[t] = IF t \in T THEN Halted(s.row[t], c) ELSE s.row[t]
<1> DEFINE z == Closed(s, T, c)
           E(t) == [task |-> t, from |-> s.row[t].active, to |-> Cutoff(s.row[t], c.at)]
           rows == [t \in Task |-> IF t \in T THEN Halted(s.row[t], c) ELSE s.row[t]]
           new  == {E(t) : t \in T}
<1>1. s \in Store /\ c.at \in Instant /\ T \subseteq Task
  BY DEF Sound, Cmd, Running
<1>2. \A t \in Task : s.row[t] \in Row /\ s.item[t] \in Item
  BY <1>1 DEF Store
<1>3. rows \in [Task -> Row]
  BY <1>2, RowFacts
<1>4. \A t \in T : /\ E(t) \in Entry /\ E(t).task = t /\ E(t).from = s.row[t].active
                   /\ E(t).from < E(t).to /\ E(t).to <= c.at
  BY <1>1, <1>2, CutoffFacts DEF MayClose, Entry, Row, Instant
<1> HIDE DEF E
<1>5. z = [s EXCEPT !.row = rows, !.entries = s.entries \cup new]
  BY <1>1 DEF Closed, Store, E
<1>6. new \subseteq Entry
  BY <1>4
<1> HIDE DEF new, rows
<1>7. /\ z \in Store /\ z.row = rows /\ z.item = s.item /\ z.entries = s.entries \cup new
      /\ z.rev = s.rev /\ z.changed = s.changed
  BY <1>1, <1>3, <1>5, <1>6 DEF Store
<1> HIDE DEF z
<1>8. \A t \in Task : z.row[t] = IF t \in T THEN Halted(s.row[t], c) ELSE s.row[t]
  BY <1>7 DEF rows
<1>9. \A t \in T : z.row[t].active = 0 /\ z.row[t].crev = s.row[t].crev
                   /\ z.row[t].done = s.row[t].done /\ z.row[t].gone = s.row[t].gone
  BY <1>1, <1>2, <1>8 DEF Halted, Row
<1>10. Within(s, z)
  BY <1>1, <1>7, <1>8 DEF Within, Fore, Running
<1>11. DoneKept(s, z)
  BY <1>1, <1>8, <1>9 DEF DoneKept
<1>12. BreaksOK(z)
  BY <1>1, <1>7, <1>8, <1>9 DEF BreaksOK, Sound
<1>13. OneFore(z)
  BY <1>10 DEF Within, OneFore, Sound
<1>14. Recorded(s, z)
  <2>1. \A t \in T : E(t) \in z.entries /\ E(t).task = t /\ E(t).from = s.row[t].active
    BY <1>4, <1>7 DEF new
  <2> QED BY <1>7, <1>8, <2>1 DEF Recorded
<1>15. ClockOK(z, c.at)
  <2>1. Running(z) \subseteq Running(s) \ T
    BY <1>1, <1>8, <1>9 DEF Running
  <2>2. \A t, u \in Running(s) : t = u
    BY DEF Running, Sound, OneFore, Fore
  <2>3. CASE T = {}
    <3>1. new = {}
      BY <2>3 DEF new
    <3>2. \A e \in s.entries : e.to \in Nat
      BY <1>1 DEF Store, Entry, Instant
    <3>3. \A t \in Task : s.row[t].active \in Nat /\ z.row[t] = s.row[t]
      BY <1>2, <1>8, <2>3 DEF Row, Instant
    <3> QED BY <1>1, <1>7, <2>1, <3>1, <3>2, <3>3 DEF ClockOK, Sound, Running, Instant
  <2>4. CASE T # {}
    <3>1. PICK t \in T : T = {t}
      BY <2>2, <2>4
    <3>2. new = {E(t)} /\ Running(z) = {}
      BY <2>1, <2>2, <3>1 DEF new
    <3>3. \A e \in s.entries : e.from < e.to /\ e.to <= k /\ e.to <= E(t).from
      BY <1>4, <3>1 DEF ClockOK, Sound
    <3>4. \A e \in s.entries : e.to \in Nat
      BY <1>1 DEF Store, Entry, Instant
    <3>5. \A e \in s.entries : e.to <= c.at
      BY <1>1, <3>3, <3>4 DEF Instant
    <3>6. \A e, f \in s.entries : e # f => e.to <= f.from \/ f.to <= e.from
      BY DEF ClockOK, Sound
    <3> QED BY <1>4, <1>7, <3>1, <3>2, <3>3, <3>5, <3>6 DEF ClockOK
  <2> QED BY <2>3, <2>4
<1> QED BY <1>7, <1>8, <1>10, <1>11, <1>12, <1>13, <1>14, <1>15 DEF Sound, Moves, z

LEMMA StoreParts ==
  ASSUME NEW s, NEW k, Sound(s, k), NEW t \in Task
  PROVE  s \in Store /\ s.row[t] \in Row /\ s.item[t] \in Item
BY DEF Sound, Store

\* A row is written without a session or a break beginning.
LEMMA RowSound ==
  ASSUME NEW s, NEW k, Sound(s, k), NEW t \in Task, NEW n \in Row,
         n.crev >= s.row[t].crev,
         Fore(n, s.item[t]) => Fore(s.row[t], s.item[t]),
         n.active # 0 /\ ~n.gone => n.active = s.row[t].active /\ ~s.row[t].gone
  PROVE  LET z == [s EXCEPT !.row[t] = n] IN
         /\ Sound(z, k) /\ Within(s, z)
         /\ z.rev = s.rev /\ z.changed = s.changed /\ z.entries = s.entries /\ z.item = s.item
         /\ \A u \in Task : z.row[u] = IF u = t THEN n ELSE s.row[u]
<1> DEFINE z    == [s EXCEPT !.row[t] = n]
           rows == [s.row EXCEPT ![t] = n]
<1>1. s \in Store /\ s.row[t] \in Row
  BY StoreParts
<1>2. z = [s EXCEPT !.row = rows]
  BY <1>1 DEF Store
<1>3. rows \in [Task -> Row] /\ \A u \in Task : rows[u] = IF u = t THEN n ELSE s.row[u]
  BY <1>1 DEF Store
<1> HIDE DEF z, rows
<1>4. /\ z \in Store /\ z.row = rows /\ z.item = s.item /\ z.entries = s.entries
      /\ z.rev = s.rev /\ z.changed = s.changed
  BY <1>1, <1>2, <1>3 DEF Store
<1>5. Within(s, z)
  BY <1>3, <1>4 DEF Within
<1>6. OneFore(z)
  BY <1>5 DEF Within, OneFore, Sound
<1>7. BreaksOK(z)
  <2>1. \A u \in Task : s.item[u].brk.rev \in Nat /\ s.row[u].crev \in Nat
    BY <1>1 DEF Store, Item, StampShape, Row
  <2>2. n.crev \in Nat
    BY DEF Row
  <2> QED BY <1>3, <1>4, <2>1, <2>2 DEF BreaksOK, Sound
<1>8. \A u \in Running(z) : u \in Running(s) /\ z.row[u].active = s.row[u].active
  BY <1>3, <1>4 DEF Running
<1>9. ClockOK(z, k)
  BY <1>4, <1>8 DEF ClockOK, Sound
<1> QED BY <1>3, <1>4, <1>5, <1>6, <1>7, <1>9 DEF Sound, z

\* A status, or being set aside, leaves everything else as it was.
LEMMA PutSound ==
  ASSUME NEW s, NEW k, Sound(s, k), NEW t \in Task, NEW c \in Cmd,
         NEW status \in QueueStatus
  PROVE  LET z == Put(s, t, status, c) IN
         Sound(z, k) /\ Within(s, z) /\ Moves(s, z) /\ z.row = s.row
<1> DEFINE z == Put(s, t, status, c)
<1>1. s \in Store
  BY DEF Sound
<1>2. /\ z \in Store
      /\ z.row = s.row /\ z.entries = s.entries /\ z.changed = s.changed /\ z.rev = s.rev
      /\ \A u \in Task : z.item[u] = IF u = t THEN setStatus(s.item[t], s.row[t], status, c)
                                   ELSE s.item[u]
      /\ z.item[t].brk = NoStamp
  BY <1>1, PutFacts
<1> HIDE DEF z
<1>3. \A u \in Task : z.item[u] = s.item[u] \/ z.item[u].brk = NoStamp
  BY <1>2
<1>4. Within(s, z) /\ OneFore(z) /\ BreaksOK(z) /\ ClockOK(z, k) /\ Recorded(s, z)
  BY <1>1, <1>2, <1>3, PutWithin DEF Sound
<1> QED BY <1>2, <1>4 DEF Sound, Moves, z

LEMMA AsideSound ==
  ASSUME NEW s, NEW k, Sound(s, k), NEW T \in SUBSET Task, NEW c \in Cmd
  PROVE  LET z == SetAside(s, T, c) IN
         /\ Sound(z, k) /\ Within(s, z) /\ Moves(s, z) /\ z.row = s.row
         /\ \A u \in T : z.item[u].brk = NoStamp
<1> DEFINE z == SetAside(s, T, c)
<1>1. s \in Store
  BY DEF Sound
<1>2. /\ z \in Store
      /\ z.row = s.row /\ z.entries = s.entries /\ z.changed = s.changed /\ z.rev = s.rev
      /\ \A u \in Task \ T : z.item[u] = s.item[u]
      /\ \A u \in T : z.item[u].brk = NoStamp
  BY <1>1, AsideFacts
<1> HIDE DEF z
<1>3. \A u \in Task : z.item[u] = s.item[u] \/ z.item[u].brk = NoStamp
  BY <1>2
<1>4. Within(s, z) /\ OneFore(z) /\ BreaksOK(z) /\ ClockOK(z, k) /\ Recorded(s, z)
  BY <1>1, <1>2, <1>3, PutWithin DEF Sound
<1> QED BY <1>2, <1>4 DEF Sound, Moves, z

\* A session may begin when nothing else is in the foreground.
LEMMA StartedSound ==
  ASSUME NEW s, NEW k \in Instant, Sound(s, k), NEW t \in Task, NEW c \in Cmd, k <= c.at,
         s.row[t].active = 0,
         \A u \in Task \ {t} : ~Fore(s.row[u], s.item[u])
  PROVE  LET z == Started(s, t, c) IN
         /\ Sound(z, c.at) /\ Moves(s, z) /\ DoneKept(s, z)
         /\ \A u \in Task \ {t} : z.row[u] = s.row[u] /\ z.item[u] = s.item[u]
<1> DEFINE z == Started(s, t, c)
<1>1. /\ s \in Store /\ \A u \in Task : s.row[u] \in Row /\ s.item[u] \in Item
      /\ c.at \in Instant
  BY StoreParts DEF Cmd
<1>2. /\ z \in Store
      /\ z.item = s.item /\ z.entries = s.entries /\ z.changed = s.changed /\ z.rev = s.rev
      /\ \A u \in Task : z.row[u] = IF u = t THEN Begun(s.row[u], c) ELSE s.row[u]
  BY <1>1, StartedFacts
<1> HIDE DEF z
<1>3. /\ z.row[t].active = c.at /\ z.row[t].crev = s.row[t].crev
      /\ z.row[t].done = s.row[t].done
  BY <1>1, <1>2 DEF Begun, Row
<1>4. BreaksOK(z)
  BY <1>2, <1>3 DEF BreaksOK, Sound
<1>5. OneFore(z)
  BY <1>2 DEF OneFore
<1>6. DoneKept(s, z)
  BY <1>2, <1>3 DEF DoneKept
<1>7. Recorded(s, z)
  BY <1>2 DEF Recorded
<1>8. ClockOK(z, c.at)
  <2>1. Running(z) \subseteq {t}
    BY <1>2 DEF Running, Fore
  <2>2. \A e \in s.entries : e.to \in Nat /\ e.to <= k /\ e.from < e.to
    BY <1>1 DEF Store, Entry, Instant, Sound, ClockOK
  <2>3. \A e \in s.entries : e.to <= c.at
    BY <1>1, <2>2 DEF Instant
  <2>4. \A e, f \in s.entries : e # f => e.to <= f.from \/ f.to <= e.from
    BY DEF ClockOK, Sound
  <2>5. c.at <= c.at
    BY <1>1 DEF Instant
  <2> QED BY <1>2, <1>3, <2>1, <2>2, <2>3, <2>4, <2>5 DEF ClockOK
<1> QED BY <1>2, <1>4, <1>5, <1>6, <1>7, <1>8 DEF Sound, Moves, z

LEMMA ClosingFacts ==
  ASSUME NEW s, NEW t \in Task
  PROVE  Closing(s, t) \in SUBSET Running(s)
BY DEF Closing

\* What an outcome of a command that moves the clock keeps.
ClockOutcome(s, z, c) ==
  /\ Sound(z, c.at) /\ Moves(s, z)
  /\ c.action # "done" => DoneKept(s, z)

LEMMA AsideOutcome ==
  ASSUME NEW s, NEW k \in Instant, Sound(s, k), NEW c \in Cmd, k <= c.at,
         NEW z \in ApplyAside(s, c)
  PROVE  ClockOutcome(s, z, c)
<1> DEFINE closing == Closing(s, c.task)
           a       == Closed(s, closing, c)
           lane    == IF c.action = "queue-block" THEN "blocked" ELSE "background"
<1>1. MayClose(s, closing, c) /\ z = Put(a, c.task, lane, c)
  BY DEF ApplyAside
<1>2. c.task \in Task
  BY DEF Cmd
<1>3. Sound(a, c.at) /\ Moves(s, a) /\ DoneKept(s, a)
  BY <1>1, <1>2, ClosingFacts, ClosedFacts
<1> HIDE DEF a
<1>4. Sound(z, c.at) /\ Moves(a, z) /\ z.row = a.row
  BY <1>1, <1>2, <1>3, PutSound DEF QueueStatus
<1> QED BY <1>3, <1>4, MovesOn DEF ClockOutcome, DoneKept

LEMMA DoneOutcome ==
  ASSUME NEW s, NEW k \in Instant, Sound(s, k), NEW c \in Cmd, k <= c.at,
         c.action = "done", NEW z \in ApplyDone(s, c)
  PROVE  ClockOutcome(s, z, c)
<1> DEFINE closing == Closing(s, c.task)
           a       == Closed(s, closing, c)
           b       == [a EXCEPT !.row[c.task] = Completed(@)]
<1>1. MayClose(s, closing, c) /\ z = Put(b, c.task, "completed", c)
  BY DEF ApplyDone
<1>2. c.task \in Task
  BY DEF Cmd
<1>3. Sound(a, c.at) /\ Moves(s, a)
  BY <1>1, <1>2, ClosingFacts, ClosedFacts
<1> HIDE DEF a
<1>4. a.row[c.task] \in Row /\ a \in Store
  BY <1>2, <1>3, StoreParts
<1>5. Completed(a.row[c.task]) \in Row
  BY <1>2, <1>4, RowFacts
<1> DEFINE done == Completed(a.row[c.task])
<1>6. /\ done.active = a.row[c.task].active /\ done.gone = a.row[c.task].gone
      /\ done.op = a.row[c.task].op /\ done.done = TRUE
      /\ done.crev >= a.row[c.task].crev
  BY <1>2, <1>4 DEF Completed, Row
<1>7. b = [a EXCEPT !.row[c.task] = done]
  OBVIOUS
<1> HIDE DEF done
<1>8. Fore(done, a.item[c.task]) => Fore(a.row[c.task], a.item[c.task])
  BY <1>6 DEF Fore, isForegroundBreak
<1>9. /\ Sound(b, c.at) /\ b.rev = a.rev /\ b.changed = a.changed /\ b.entries = a.entries
      /\ \A u \in Task : b.row[u].active = a.row[u].active
  BY <1>2, <1>3, <1>5, <1>6, <1>7, <1>8, RowSound DEF done
<1> HIDE DEF b
<1>10. Moves(a, b)
  BY <1>9 DEF Moves, Recorded
<1>11. Sound(z, c.at) /\ Moves(b, z)
  BY <1>1, <1>2, <1>9, PutSound DEF QueueStatus
<1> QED BY <1>3, <1>10, <1>11, MovesOn DEF ClockOutcome

LEMMA StartOutcome ==
  ASSUME NEW s, NEW k \in Instant, Sound(s, k), NEW c \in Cmd, k <= c.at,
         NEW z \in ApplyStart(s, c)
  PROVE  ClockOutcome(s, z, c)
<1> DEFINE t         == c.task
           displaced == {u \in Task : Home[u] = Home[t] /\ InForeground(s, u)} \ {t}
           closing   == Running(s) \ {t}
           aside     == closing \cup {u \in displaced : isForegroundBreak(s.row[u], s.item[u])}
           a         == Closed(s, closing, c)
           b         == SetAside(a, aside, c)
           d         == IF s.row[t].active # 0 THEN b ELSE Started(b, t, c)
<1>1. /\ ~otherWorkspaceForeground(s, Home[t]) /\ MayClose(s, closing, c)
      /\ z = Put(d, t, "foreground", c)
  BY DEF ApplyStart
<1>2. t \in Task /\ c.at \in Instant
  BY DEF Cmd
<1>3. closing \in SUBSET Running(s) /\ aside \in SUBSET Task
  BY DEF Running
<1> HIDE DEF closing, displaced, aside
<1>4. /\ Sound(a, c.at) /\ Within(s, a) /\ Moves(s, a) /\ DoneKept(s, a) /\ a.item = s.item
      /\ \A u \in Task : a.row[u] = IF u \in closing THEN Halted(s.row[u], c) ELSE s.row[u]
  BY <1>1, <1>3, ClosedFacts
<1> HIDE DEF a
<1>5. /\ Sound(b, c.at) /\ Within(a, b) /\ Moves(a, b) /\ b.row = a.row
      /\ \A u \in aside : b.item[u].brk = NoStamp
  BY <1>3, <1>4, AsideSound
<1> HIDE DEF b
<1>6. \A u \in Task : b.row[u] \in Row /\ b.item[u] \in Item /\ s.row[u] \in Row
  BY <1>5 DEF Sound, Store
<1>7. ASSUME NEW u \in Task \ {t}
      PROVE  ~Fore(b.row[u], b.item[u])
  <2>1. SUFFICES ASSUME Fore(b.row[u], b.item[u]) PROVE FALSE
    OBVIOUS
  <2>2. Fore(s.row[u], s.item[u])
    BY <1>4, <1>5, <2>1 DEF Within
  <2>3. u \in Running(s) \/ InForeground(s, u)
    BY <2>2 DEF Fore, Running, InForeground, isForegroundBreak
  <2>4. Home[u] = Home[t]
    BY <1>1, <2>3 DEF otherWorkspaceForeground
  <2>5. u \in aside
    BY <2>2, <2>3, <2>4 DEF Fore, Running, InForeground, closing, displaced, aside
  <2>6. ~isForegroundBreak(b.row[u], b.item[u])
    BY <1>5, <1>6, <2>5, NoBreak
  <2>7. b.row[u].active = 0
    <3>1. CASE u \in closing
      BY <1>4, <1>5, <1>6, <3>1 DEF Halted, Row
    <3>2. CASE u \notin closing
      BY <1>4, <1>5, <2>2, <3>2 DEF Running, Fore, closing
    <3> QED BY <3>1, <3>2
  <2> QED BY <2>1, <2>6, <2>7 DEF Fore
<1>8. b.row[t] = s.row[t]
  BY <1>2, <1>4, <1>5 DEF closing
<1>9. Sound(d, c.at) /\ Moves(b, d) /\ DoneKept(b, d)
  <2>1. CASE s.row[t].active # 0
    <3>1. d = b
      BY <2>1
    <3> QED BY <1>5, <3>1 DEF Moves, Recorded, DoneKept
  <2>2. CASE s.row[t].active = 0
    <3>1. d = Started(b, t, c)
      BY <2>2
    <3>2. c.at <= c.at
      BY <1>2 DEF Instant
    <3> QED BY <1>2, <1>5, <1>7, <1>8, <2>2, <3>1, <3>2, StartedSound
  <2> QED BY <2>1, <2>2
<1> HIDE DEF d
<1>10. Sound(z, c.at) /\ Moves(d, z) /\ z.row = d.row
  BY <1>1, <1>2, <1>9, PutSound DEF QueueStatus
<1>11. Moves(s, z)
  BY <1>4, <1>5, <1>9, <1>10, MovesOn
<1>12. DoneKept(s, z)
  BY <1>4, <1>5, <1>9, <1>10 DEF DoneKept
<1> QED BY <1>10, <1>11, <1>12 DEF ClockOutcome

LEMMA PauseOutcome ==
  ASSUME NEW s, NEW k \in Instant, Sound(s, k), NEW c \in Cmd, k <= c.at,
         c.id \notin WriteIds, NEW z \in ApplyPause(s, c)
  PROVE  ClockOutcome(s, z, c)
<1> DEFINE t       == c.task
           closing == Closing(s, t)
           a       == Closed(s, closing, c)
           hold    == /\ c.action = "pause" /\ ~s.row[t].done
                      /\ closing # {} \/ InForeground(s, t)
           i       == [setStatus(a.item[t], a.row[t], "foreground", c) EXCEPT
                         !.brk = Stamp(a.row[t])]
           held    == [a EXCEPT !.item[t] =
                         [setStatus(@, a.row[t], "foreground", c) EXCEPT
                            !.brk = Stamp(a.row[t])]]
<1>1. MayClose(s, closing, c) /\ z = IF hold THEN held ELSE Put(a, t, "paused", c)
  BY DEF ApplyPause
<1>2. t \in Task
  BY DEF Cmd
<1>3. /\ Sound(a, c.at) /\ Within(s, a) /\ Moves(s, a) /\ DoneKept(s, a) /\ a.item = s.item
      /\ \A u \in Task : a.row[u] = IF u \in closing THEN Halted(s.row[u], c) ELSE s.row[u]
  BY <1>1, <1>2, ClosingFacts, ClosedFacts
<1>4. ASSUME ~hold PROVE ClockOutcome(s, z, c)
  <2>1. z = Put(a, t, "paused", c)
    BY <1>1, <1>4
  <2> HIDE DEF a
  <2>2. Sound(z, c.at) /\ Moves(a, z) /\ z.row = a.row
    BY <1>2, <1>3, <2>1, PutSound DEF QueueStatus
  <2> QED BY <1>3, <2>2, MovesOn DEF ClockOutcome, DoneKept
<1>5. ASSUME hold PROVE ClockOutcome(s, z, c)
  <2> DEFINE items == [a.item EXCEPT ![t] = i]
  <2>1. z = held
    BY <1>1, <1>5
  <2> HIDE DEF a
  <2>2. a \in Store /\ a.row[t] \in Row /\ a.item[t] \in Item
    BY <1>2, <1>3 DEF Sound, Store
  <2>3. i \in Item /\ i.brk = Stamp(a.row[t])
    <3> DEFINE j == setStatus(a.item[t], a.row[t], "foreground", c)
    <3>1. j \in Item /\ Stamp(a.row[t]) \in StampShape
      BY <2>2, StatusFacts, RowFacts DEF QueueStatus
    <3> HIDE DEF j
    <3>2. [j EXCEPT !.brk = Stamp(a.row[t])] \in Item
          /\ [j EXCEPT !.brk = Stamp(a.row[t])].brk = Stamp(a.row[t])
      BY <3>1 DEF Item
    <3> QED BY <3>2 DEF j
  <2>4. z = [a EXCEPT !.item = items]
    BY <2>1, <2>2 DEF Store
  <2> HIDE DEF i
  <2>5. items \in [Task -> Item] /\ \A u \in Task : items[u] = IF u = t THEN i ELSE a.item[u]
    BY <2>2, <2>3 DEF Store
  <2> HIDE DEF items
  <2>6. /\ z \in Store /\ z.item = items /\ z.row = a.row /\ z.entries = a.entries
        /\ z.rev = a.rev /\ z.changed = a.changed
    BY <2>2, <2>4, <2>5 DEF Store
  <2>7. Fore(s.row[t], s.item[t])
    BY <1>5 DEF Fore, InForeground, Closing, Running
  <2>8. Within(s, z)
    BY <1>3, <2>5, <2>6, <2>7 DEF Within
  <2>9. OneFore(z)
    BY <2>8 DEF Within, OneFore, Sound
  <2>10. a.row[t].op \notin WriteIds /\ a.row[t].crev <= a.row[t].crev
    <3>1. a.row[t].crev <= a.row[t].crev
      BY <2>2 DEF Row
    <3>2. CASE t \in closing
      <4>1. a.row[t] = Halted(s.row[t], c) /\ s.row[t] \in Row
        BY <1>2, <1>3, <3>2 DEF Sound, Store
      <4>2. a.row[t].op = c.id
        BY <4>1 DEF Halted, Row
      <4> QED BY <3>1, <4>2
    <3>3. CASE t \notin closing
      <4>1. a.row[t] = s.row[t]
        BY <1>2, <1>3, <3>3
      <4>2. isForegroundBreak(s.row[t], s.item[t])
        BY <1>2, <2>7, <3>3 DEF Fore, Closing, Running
      <4>3. s.item[t].brk = Stamp(s.row[t])
        BY <4>2 DEF isForegroundBreak
      <4>4. s.item[t].brk.set /\ s.item[t].brk.op = s.row[t].op
        BY <4>3 DEF Stamp
      <4> QED BY <1>2, <3>1, <4>1, <4>4 DEF Sound, BreaksOK
    <3> QED BY <3>2, <3>3
  <2>11. BreaksOK(z)
    <3>1. i.brk.rev = a.row[t].crev /\ i.brk.op = a.row[t].op
      BY <2>3 DEF Stamp
    <3> QED BY <1>3, <2>5, <2>6, <2>10, <3>1 DEF BreaksOK, Sound
  <2>12. ClockOK(z, c.at)
    BY <1>3, <2>6 DEF ClockOK, Sound, Running
  <2>13. Moves(a, z)
    BY <2>6 DEF Moves, Recorded
  <2> QED BY <1>3, <2>6, <2>9, <2>11, <2>12, <2>13, MovesOn DEF ClockOutcome, DoneKept, Sound
<1> QED BY <1>4, <1>5

\* Attention goes on, or the session ends where it lapsed and another begins.
LEMMA ContinueOutcome ==
  ASSUME NEW s, NEW k \in Instant, Sound(s, k), NEW c \in Cmd, k <= c.at,
         ~s.row[c.task].gone, NEW z \in ApplyContinue(s, c)
  PROVE  ClockOutcome(s, z, c)
<1> DEFINE t == c.task
           r == s.row[t]
           a == Closed(s, {t}, c)
           b == Put(a, t, "paused", c)
<1>1. /\ r.active # 0 /\ c.at > r.active /\ c.at >= r.changed
      /\ z = [s EXCEPT !.row[t] = CheckedIn(@, c)] \/ z = Started(b, t, c)
  <2>1. r.active # 0 /\ ~(c.at <= r.active) /\ ~(c.at < r.changed)
    BY DEF ApplyContinue
  <2>2. z = [s EXCEPT !.row[t] = CheckedIn(@, c)] \/ z = Started(b, t, c)
    BY <2>1 DEF ApplyContinue
  <2>3. r.active \in Nat /\ r.changed \in Nat /\ c.at \in Nat
    BY DEF Sound, Store, Row, Cmd, Instant
  <2> QED BY <2>1, <2>2, <2>3
<1>2. t \in Task /\ t \in Running(s) /\ c.at \in Instant /\ s \in Store /\ r \in Row
  BY <1>1 DEF Cmd, Running, Sound, Store
<1>3. CASE z = [s EXCEPT !.row[t] = CheckedIn(@, c)]
  <2> DEFINE n == CheckedIn(r, c)
             rows == [s.row EXCEPT ![t] = n]
  <2>1. n \in Row
    BY <1>2, RowFacts
  <2>2. /\ n.active = r.active /\ n.gone = r.gone /\ n.done = r.done /\ n.crev = r.crev
    BY <1>2 DEF CheckedIn, Row
  <2>3. z = [s EXCEPT !.row = rows]
    BY <1>2, <1>3 DEF Store
  <2> HIDE DEF n
  <2>4. rows \in [Task -> Row] /\ \A u \in Task : rows[u] = IF u = t THEN n ELSE s.row[u]
    BY <1>2, <2>1 DEF Store
  <2> HIDE DEF rows
  <2>5. /\ z \in Store /\ z.row = rows /\ z.item = s.item /\ z.entries = s.entries
        /\ z.rev = s.rev /\ z.changed = s.changed
    BY <1>2, <2>3, <2>4 DEF Store
  <2>6. \A u \in Task : /\ z.row[u].active = s.row[u].active /\ z.row[u].gone = s.row[u].gone
                        /\ z.row[u].done = s.row[u].done /\ z.row[u].crev = s.row[u].crev
    BY <2>2, <2>4, <2>5
  <2>7. Within(s, z)
    BY <1>1, <1>2, <2>2, <2>4, <2>5 DEF Within, Fore
  <2>8. OneFore(z)
    BY <2>7 DEF Within, OneFore, Sound
  <2>9. BreaksOK(z)
    BY <2>5, <2>6 DEF BreaksOK, Sound
  <2>10. Running(z) = Running(s)
    BY <2>6 DEF Running
  <2>11. ClockOK(z, c.at)
    <3>1. \A e \in s.entries : e.to \in Nat /\ e.to <= k
      BY <1>2 DEF Store, Entry, Instant, Sound, ClockOK
    <3>2. \A u \in Running(s) : s.row[u].active \in Nat /\ s.row[u].active <= k
      BY <1>2 DEF Store, Row, Instant, Sound, ClockOK, Running
    <3>3. /\ \A e \in s.entries : e.to <= c.at
          /\ \A u \in Running(s) : s.row[u].active <= c.at
      BY <1>2, <3>1, <3>2 DEF Instant
    <3> QED BY <2>5, <2>6, <2>10, <3>3 DEF ClockOK, Sound, Running
  <2> QED BY <2>5, <2>6, <2>8, <2>9, <2>11 DEF ClockOutcome, Sound, Moves, Recorded, DoneKept
<1>4. CASE z = Started(b, t, c)
  <2>1. {t} \in SUBSET Running(s) /\ MayClose(s, {t}, c)
    BY <1>1, <1>2 DEF MayClose
  <2>2. /\ Sound(a, c.at) /\ Within(s, a) /\ Moves(s, a) /\ DoneKept(s, a)
        /\ \A u \in Task : a.row[u] = IF u \in {t} THEN Halted(s.row[u], c) ELSE s.row[u]
    BY <2>1, ClosedFacts
  <2> HIDE DEF a
  <2>3. Sound(b, c.at) /\ Within(a, b) /\ Moves(a, b) /\ b.row = a.row
    BY <1>2, <2>2, PutSound DEF QueueStatus
  <2> HIDE DEF b
  <2>4. b.row[t].active = 0
    BY <1>2, <2>2, <2>3 DEF Halted, Row
  <2>5. \A u \in Task \ {t} : ~Fore(b.row[u], b.item[u])
    <3>1. Fore(s.row[t], s.item[t])
      BY <1>2 DEF Fore, Running
    <3>2. \A u \in Task : Fore(b.row[u], b.item[u]) => Fore(s.row[u], s.item[u])
      BY <2>2, <2>3 DEF Within
    <3> QED BY <1>2, <3>1, <3>2 DEF Sound, OneFore
  <2>6. c.at <= c.at
    BY <1>2 DEF Instant
  <2>7. Sound(z, c.at) /\ Moves(b, z) /\ DoneKept(b, z)
    BY <1>2, <1>4, <2>3, <2>4, <2>5, <2>6, StartedSound
  <2>8. Moves(s, z)
    BY <2>2, <2>3, <2>7, MovesOn
  <2>9. DoneKept(s, z)
    BY <2>2, <2>3, <2>7 DEF DoneKept
  <2> QED BY <2>7, <2>8, <2>9 DEF ClockOutcome
<1> QED BY <1>1, <1>3, <1>4

\* An item is written without a break beginning: no clock moves.
LEMMA ItemSound ==
  ASSUME NEW s, NEW k \in Instant, Sound(s, k), NEW t \in Task, NEW n \in Item,
         n.brk = NoStamp \/ (n.brk = s.item[t].brk /\ n.status = s.item[t].status),
         NEW z, z = [s EXCEPT !.item = [s.item EXCEPT ![t] = n]]
  PROVE  Sound(z, k) /\ Moves(s, z) /\ DoneKept(s, z)
<1> DEFINE i == s.item[t]
<1>1. t \in Task /\ s \in Store /\ s.row[t] \in Row /\ i \in Item
  BY DEF Sound, Store
<1>2. n.brk = NoStamp \/ (n.brk = i.brk /\ n.status = i.status)
  OBVIOUS
<1> DEFINE items == [s.item EXCEPT ![t] = n]
<1>3. items \in [Task -> Item] /\ \A u \in Task : items[u] = IF u = t THEN n ELSE s.item[u]
  BY <1>1, <1>2 DEF Store
<1>4. z = [s EXCEPT !.item = items]
  OBVIOUS
<1> HIDE DEF items
<1>5. /\ z \in Store /\ z.item = items /\ z.row = s.row /\ z.entries = s.entries
      /\ z.rev = s.rev /\ z.changed = s.changed
  BY <1>1, <1>3, <1>4 DEF Store
<1>6. isForegroundBreak(s.row[t], n) => isForegroundBreak(s.row[t], i)
  BY <1>1, <1>2, NoBreak DEF isForegroundBreak
<1>7. Within(s, z)
  BY <1>3, <1>5, <1>6 DEF Within, Fore
<1>8. OneFore(z)
  BY <1>7 DEF Within, OneFore, Sound
<1>9. BreaksOK(z)
  BY <1>2, <1>3, <1>5 DEF BreaksOK, Sound, NoStamp
<1>10. ClockOK(z, k)
  BY <1>5 DEF ClockOK, Sound, Running
<1> QED BY <1>5, <1>8, <1>9, <1>10 DEF Sound, Moves, Recorded, DoneKept

\* What a command writes of an item, its status aside.
Edited(s, c) ==
  LET i == s.item[c.task] IN
  {Claimed(i), Remind(i, s.row[c.task], c.at + Wait, c), NoItem, clearReminder(i),
   ensure(i), Returned(i), i}

LEMMA EditedFacts ==
  ASSUME NEW s, NEW k, Sound(s, k), NEW c \in Cmd, NEW n \in Edited(s, c)
  PROVE  LET i == s.item[c.task] IN
         n \in Item /\ (n.brk = NoStamp \/ (n.brk = i.brk /\ n.status = i.status))
<1> DEFINE i == s.item[c.task]
           r == s.row[c.task]
<1>1. i \in Item /\ r \in Row
  BY DEF Cmd, Sound, Store
<1>2. /\ Claimed(i) \in Item /\ Claimed(i).brk = i.brk /\ Claimed(i).status = i.status
      /\ Remind(i, r, c.at + Wait, c) \in Item
      /\ Remind(i, r, c.at + Wait, c).brk = i.brk
      /\ Remind(i, r, c.at + Wait, c).status = i.status
  BY <1>1, ItemFacts
<1>3. NoItem \in Item /\ NoItem.brk = NoStamp
  BY ClearFacts
<1>4. /\ clearReminder(i) \in Item /\ clearReminder(i).brk = i.brk
      /\ clearReminder(i).status = i.status
  BY <1>1, ClearFacts
<1>5. ensure(i) \in Item /\ (ensure(i).brk = NoStamp \/ ensure(i) = i)
  BY <1>1, ClearFacts DEF ensure
<1>6. Returned(i) \in Item /\ Returned(i).brk = NoStamp
  BY <1>1, ClearFacts DEF Returned, Item
<1> HIDE DEF i, r
<1>7. \/ n = Claimed(i) \/ n = Remind(i, r, c.at + Wait, c) \/ n = NoItem
      \/ n = clearReminder(i) \/ n = ensure(i) \/ n = Returned(i) \/ n = i
  BY DEF Edited, i, r
<1>8. CASE n = Claimed(i)
  BY <1>2, <1>8, Zenon DEF i
<1>9. CASE n = Remind(i, r, c.at + Wait, c)
  BY <1>2, <1>9, Zenon DEF i
<1>10. CASE n = NoItem
  BY <1>3, <1>10, Zenon DEF i
<1>11. CASE n = clearReminder(i)
  BY <1>4, <1>11, Zenon DEF i
<1>12. CASE n = ensure(i)
  BY <1>1, <1>5, <1>12, Zenon DEF i
<1>13. CASE n = Returned(i)
  BY <1>6, <1>13, Zenon DEF i
<1>14. CASE n = i
  BY <1>1, <1>14, Zenon DEF i
<1> QED BY <1>7, <1>8, <1>9, <1>10, <1>11, <1>12, <1>13, <1>14

\* A command of the list or of a check-back moves no clock.
LEMMA QueueOutcome ==
  ASSUME NEW s, NEW k \in Instant, Sound(s, k), NEW c \in Cmd,
         c.action \notin ClockAction, NEW z \in Applied(s, c)
  PROVE  Sound(z, k) /\ Moves(s, z) /\ DoneKept(s, z)
<1>1. /\ c.task \in Task /\ s \in Store
      /\ c.action \in QueueAction \cup {"queue-claim"}
  BY DEF Cmd, Action, Sound
<1>2. CASE c.action = "queue-unblock"
  <2>1. z = Put(s, c.task, "queued", c)
    BY <1>2 DEF Applied, ApplyUnblock, ClockAction
  <2> QED BY <1>1, <2>1, PutSound DEF QueueStatus, DoneKept
<1>3. CASE c.action # "queue-unblock"
  <2>1. \E n \in Edited(s, c) : z = [s EXCEPT !.item = [s.item EXCEPT ![c.task] = n]]
    <3> DEFINE i == s.item[c.task]
               With(n) == [s EXCEPT !.item = [s.item EXCEPT ![c.task] = n]]
    <3>1. CASE c.action = "queue-claim"
      <4>1. z = With(Claimed(i))
        BY <1>1, <3>1 DEF Applied, ApplyClaim, ClockAction, Store
      <4> QED BY <4>1 DEF Edited
    <3>2. CASE c.action = "queue-snooze"
      <4>1. z = With(Remind(i, s.row[c.task], c.at + Wait, c))
        BY <1>1, <3>2 DEF Applied, ApplySnooze, ClockAction, Store
      <4> QED BY <4>1 DEF Edited
    <3>3. CASE c.action = "queue-remove"
      <4>1. z = With(NoItem)
        BY <1>1, <3>3 DEF Applied, ApplyRemove, ClockAction, Store
      <4> QED BY <4>1 DEF Edited
    <3>4. CASE c.action = "queue-dismiss"
      <4>1. z = With(clearReminder(i))
        BY <1>1, <3>4 DEF Applied, ApplyDismiss, ClockAction, Store
      <4> QED BY <4>1 DEF Edited
    <3>5. CASE c.action = "queue-add"
      <4>1. z = With(ensure(i))
        BY <1>1, <3>5 DEF Applied, ApplyAdd, ClockAction, Store
      <4> QED BY <4>1 DEF Edited
    <3>6. CASE c.action = "queue-return"
      <4>1. z = With(Returned(i))
        BY <1>1, <3>6 DEF Applied, ApplyReturn, ClockAction, Store
      <4> QED BY <4>1 DEF Edited
    <3>7. CASE c.action = "queue-note"
      <4>1. z = s
        BY <1>1, <3>7 DEF Applied, ApplyNote, ClockAction
      <4>2. s = With(i)
        BY <1>1 DEF Store
      <4> QED BY <4>1, <4>2 DEF Edited
    <3> QED BY <1>1, <1>3, <3>1, <3>2, <3>3, <3>4, <3>5, <3>6, <3>7 DEF QueueAction
  <2>2. PICK n \in Edited(s, c) : z = [s EXCEPT !.item = [s.item EXCEPT ![c.task] = n]]
    BY <2>1
  <2>3. n \in Item /\ (n.brk = NoStamp
                       \/ (n.brk = s.item[c.task].brk /\ n.status = s.item[c.task].status))
    BY EditedFacts
  <2> QED BY <1>1, <2>2, <2>3, ItemSound
<1> QED BY <1>2, <1>3

\* A command leaves the clock and the breaks as sound as they were.
LEMMA ExecuteSound ==
  ASSUME Sound(store, store.changed), NEW c \in Cmd, c.id \notin WriteIds,
         NEW z \in Execute(c)
  PROVE  /\ Sound(z, z.changed) /\ Recorded(store, z)
         /\ c.action # "done" => DoneKept(store, z)
<1> DEFINE r == reconcile(store, Home[c.task])
<1>1. PICK y \in Applied(r, c) :
        z = [y EXCEPT !.rev = @ + 1,
                      !.changed = IF c.action \in ClockAction /\ c.at > @ THEN c.at ELSE @]
  BY DEF Execute
<1>2. /\ ~store.row[c.task].gone
      /\ c.action \in ClockAction => ~(c.at < store.changed)
  BY DEF Execute
<1>3. store \in Store /\ store.changed \in Instant /\ c.at \in Instant /\ c.task \in Task
      /\ c.action \in Action
  BY DEF Sound, Store, Cmd
<1>4. store.rev + 1 \in Nat
  BY <1>3 DEF Store
<1>5. /\ Sound(r, store.changed) /\ r.row = store.row /\ Moves(store, r)
  BY <1>3, ReconcileSound DEF Moves
<1> HIDE DEF r
<1>6. CASE c.action \in ClockAction
  <2>1. store.changed <= c.at
    BY <1>2, <1>3, <1>6 DEF Instant
  <2>2. ClockOutcome(r, y, c)
    <3>1. CASE c.action = "start"
      <4>1. y \in ApplyStart(r, c)
        BY <1>1, <3>1 DEF Applied
      <4> QED BY <1>3, <1>5, <2>1, <4>1, StartOutcome
    <3>2. CASE c.action \in {"pause", "needs-you"}
      <4>1. y \in ApplyPause(r, c)
        BY <1>1, <3>2 DEF Applied
      <4> QED BY <1>3, <1>5, <2>1, <4>1, PauseOutcome
    <3>3. CASE c.action = "continue"
      <4>1. y \in ApplyContinue(r, c)
        BY <1>1, <3>3 DEF Applied
      <4>2. ~r.row[c.task].gone
        BY <1>2, <1>5
      <4> QED BY <1>3, <1>5, <2>1, <4>1, <4>2, ContinueOutcome
    <3>4. CASE c.action = "done"
      <4>1. y \in ApplyDone(r, c)
        BY <1>1, <3>4 DEF Applied
      <4> QED BY <1>3, <1>5, <2>1, <3>4, <4>1, DoneOutcome
    <3>5. CASE c.action \in {"background-start", "queue-block"}
      <4>1. y \in ApplyAside(r, c)
        BY <1>1, <3>5 DEF Applied
      <4> QED BY <1>3, <1>5, <2>1, <4>1, AsideOutcome
    <3> QED BY <1>6, <3>1, <3>2, <3>3, <3>4, <3>5 DEF ClockAction
  <2>3. y \in Store /\ y.rev = store.rev /\ y.changed = store.changed
    BY <1>5, <2>2 DEF ClockOutcome, Moves, Sound
  <2>4. z = [y EXCEPT !.rev = store.rev + 1, !.changed = c.at]
    <3>1. (IF c.action \in ClockAction /\ c.at > y.changed THEN c.at ELSE y.changed) = c.at
      BY <1>3, <1>6, <2>1, <2>3 DEF Instant
    <3> QED BY <1>1, <2>3, <3>1
  <2>5. /\ z \in Store /\ z.row = y.row /\ z.item = y.item /\ z.entries = y.entries
        /\ z.changed = c.at
    BY <1>3, <1>4, <2>3, <2>4 DEF Store
  <2>6. Sound(z, z.changed)
    BY <2>2, <2>5 DEF ClockOutcome, Sound, BreaksOK, OneFore, ClockOK, Running
  <2>7. Recorded(store, y)
    BY <1>5, <2>2, MovesOn DEF ClockOutcome, Moves
  <2>8. Recorded(store, z)
    BY <2>5, <2>7 DEF Recorded
  <2>9. c.action # "done" => DoneKept(store, z)
    BY <1>5, <2>2, <2>5 DEF ClockOutcome, DoneKept
  <2> QED BY <2>6, <2>8, <2>9
<1>7. CASE c.action \notin ClockAction
  <2>1. Sound(y, store.changed) /\ Moves(r, y) /\ DoneKept(r, y)
    BY <1>1, <1>3, <1>5, <1>7, QueueOutcome
  <2>2. y \in Store /\ y.rev = store.rev /\ y.changed = store.changed
    BY <1>5, <2>1 DEF Moves, Sound
  <2>3. z = [y EXCEPT !.rev = store.rev + 1, !.changed = store.changed]
    BY <1>1, <1>7, <2>2
  <2>4. /\ z \in Store /\ z.row = y.row /\ z.item = y.item /\ z.entries = y.entries
        /\ z.changed = store.changed
    BY <1>3, <1>4, <2>2, <2>3 DEF Store
  <2>5. Sound(z, z.changed)
    BY <2>1, <2>4 DEF Sound, BreaksOK, OneFore, ClockOK, Running
  <2>6. Recorded(store, y)
    BY <1>5, <2>1, MovesOn DEF Moves
  <2>7. Recorded(store, z)
    BY <2>4, <2>6 DEF Recorded
  <2>8. DoneKept(store, z)
    BY <1>5, <2>1, <2>4 DEF DoneKept
  <2> QED BY <2>5, <2>7, <2>8
<1> QED BY <1>6, <1>7

-----------------------------------------------------------------------------
(***************************************************************************)
(* The inductive invariant.                                                *)
(***************************************************************************)
Counters == now \in 1..MaxTime /\ ids \in 0..MaxIds /\ troubles \in 0..MaxTroubles

Ledgers ==
  /\ receipts \subseteq [id : 1..ids, done : BOOLEAN]
  /\ refused \subseteq 1..ids /\ astray \subseteq 1..ids
  /\ propagated \subseteq 1..ids

\* Commands are told apart by their identities; one that is not answered was not
\* refused, and if it completes a task its device waits for the answer.
CommandsOK ==
  /\ pending \in [Device -> Cmd \cup {NoCommand}]
  /\ commands \subseteq Cmd
  /\ \A c \in commands : c.id \in 1..ids /\ c.id \notin refused
  /\ \A c, b \in commands : c.id = b.id => c = b
  /\ \A c \in commands : c.action = "done" => \E d \in Device : pending[d] = c
  /\ late \subseteq Cmd
  /\ \A c \in late : c.id \in 1..ids

SettlingOK ==
  \A x \in settling :
    /\ x \in [task : Task, row : Row, id : Identity, at : Instant]
    /\ \E k \in 0..(MaxTroubles - 1) : x.id = MaxIds + 2 * k + 2

IInv ==
  /\ Counters /\ Ledgers /\ CommandsOK /\ SettlingOK
  /\ Sound(store, store.changed)
  /\ RefusedNotDone /\ EffectOwed

\* The invariant implies what is claimed.
LEMMA Implied ==
  ASSUME IInv
  PROVE  TypeOK /\ OneForeground /\ WorkCountedOnce
<1>1. /\ store.row \in [Task -> Row] /\ store.item \in [Task -> Item]
      /\ store.rev \in Nat /\ store.changed \in Instant
      /\ store.entries \subseteq [task : Task, from : Instant, to : Instant]
  BY DEF IInv, Sound, Store, Entry
<1>2. 1..ids \subseteq Identity /\ ids \in Identity
  BY Constants DEF IInv, Counters, Identity
<1>3. TypeOK
  BY <1>1, <1>2 DEF TypeOK, IInv, Counters, Ledgers
<1>4. OneForeground
  <2>1. \A t \in Task : InForeground(store, t) => Fore(store.row[t], store.item[t])
    BY DEF InForeground, Fore
  <2>2. \A t \in Running(store) : t \in Task /\ Fore(store.row[t], store.item[t])
    BY DEF Running, Fore
  <2> QED BY <2>1, <2>2 DEF IInv, Sound, OneFore, OneForeground
<1>5. WorkCountedOnce
  BY DEF IInv, Sound, ClockOK, WorkCountedOnce
<1> QED BY <1>3, <1>4, <1>5

LEMMA InitInv == ASSUME Init PROVE IInv
<1> DEFINE r0 == [active |-> 0, checkIn |-> 0, changed |-> 0, op |-> 0, done |-> FALSE,
                  crev |-> 0, gone |-> FALSE]
<1>1. 0 \in Instant /\ 0 \in Identity
  BY Constants DEF Instant, Identity
<1>2. r0 \in Row /\ r0.active = 0
  BY <1>1 DEF Row
<1>3. NoItem \in Item /\ NoItem.brk = NoStamp /\ ~NoStamp.set
  BY ClearFacts DEF NoStamp
<1>4. /\ store \in Store /\ store.entries = {} /\ store.changed = 0
      /\ \A t \in Task : store.row[t] = r0 /\ store.item[t] = NoItem
  BY <1>1, <1>2, <1>3 DEF Init, Store
<1>5. ~isForegroundBreak(r0, NoItem)
  BY <1>2, <1>3, NoBreak
<1> HIDE DEF r0
<1>6. OneFore(store) /\ Running(store) = {}
  BY <1>2, <1>4, <1>5 DEF OneFore, Fore, Running
<1>7. BreaksOK(store)
  BY <1>3, <1>4 DEF BreaksOK
<1>8. ClockOK(store, store.changed)
  BY <1>4, <1>6 DEF ClockOK
<1>9. Counters
  BY Constants DEF Init, Counters
<1>10. Ledgers /\ CommandsOK /\ SettlingOK /\ RefusedNotDone /\ EffectOwed
  BY DEF Init, Ledgers, CommandsOK, SettlingOK, RefusedNotDone, EffectOwed
<1> QED BY <1>4, <1>6, <1>7, <1>8, <1>9, <1>10 DEF IInv, Sound

LEMMA CommandFacts ==
  ASSUME IInv, ids < MaxIds, NEW action \in Action, NEW t \in Task,
         NEW remind \in BOOLEAN
  PROVE  LET c == Command(action, t, remind) IN
         c \in Cmd /\ c.id = ids + 1 /\ c.action = action
<1>1. /\ ids + 1 \in Identity /\ store.rev \in Nat /\ now \in Instant
      /\ store.item[t].gen \in Identity
  BY Constants DEF IInv, Counters, Sound, Store, Item, Instant, Identity
<1> DEFINE f == {u \in Task \ {t} :
                   action = "start" /\ Home[u] = Home[t] /\ InForeground(store, u)}
           g == IF action \in CheckBack THEN store.item[t].gen ELSE 0
<1>2. f \in SUBSET Task /\ g \in Identity
  BY <1>1, Constants DEF Identity
<1> HIDE DEF f, g
<1> DEFINE r == [id |-> ids + 1, action |-> action, task |-> t, rev |-> store.rev, at |-> now,
                 remind |-> remind, legacy |-> FALSE, gen |-> g, fg |-> f]
<1>3. r \in Cmd /\ r.id = ids + 1 /\ r.action = action
  BY <1>1, <1>2 DEF Cmd
<1> QED BY <1>3 DEF Command, f, g

\* A command that is sent: its device waits for it, or it completes nothing.
LEMMA SentInv ==
  ASSUME IInv, ids < MaxIds, NEW c \in Cmd, c.id = ids + 1,
         commands' = commands \cup {c}, ids' = ids + 1,
         \/ \E d \in Device : pending[d] = NoCommand /\ pending' = [pending EXCEPT ![d] = c]
         \/ c.action # "done" /\ pending' = pending,
         troubles' = troubles \/ (troubles < MaxTroubles /\ troubles' = troubles + 1),
         UNCHANGED <<now, store, receipts, propagated, settling, refused, astray, late>>
  PROVE  IInv'
<1>1. Counters' /\ ids \in Nat
  BY Constants DEF IInv, Counters
<1>2. 1..ids \subseteq 1..ids' /\ ids + 1 \in 1..ids' /\ ids + 1 \notin 1..ids
  BY <1>1
<1>3. Ledgers'
  BY <1>2 DEF IInv, Ledgers
<1>4. CommandsOK'
  <2>1. pending' \in [Device -> Cmd \cup {NoCommand}]
    BY DEF IInv, CommandsOK
  <2>2. \A b \in commands : b.id \in 1..ids /\ b.id # c.id
    BY <1>2 DEF IInv, CommandsOK
  <2>3. c.id \notin refused
    BY <1>2 DEF IInv, Ledgers
  <2>4. \A b \in commands : b.action = "done" => \E d \in Device : pending'[d] = b
    <3>1. SUFFICES ASSUME NEW b \in commands, NEW d \in Device, pending[d] = b
                   PROVE  \E e \in Device : pending'[e] = b
      BY DEF IInv, CommandsOK
    <3>2. b.id # 0
      BY <1>1, <2>2
    <3>3. b # NoCommand
      BY <3>2 DEF NoCommand
    <3> QED BY <3>1, <3>3 DEF IInv, CommandsOK
  <2>5. c.action = "done" => \E d \in Device : pending'[d] = c
    BY DEF IInv, CommandsOK
  <2>6. \A b \in commands' : b.id \in 1..ids' /\ b.id \notin refused'
    BY <1>2, <2>2, <2>3 DEF IInv, CommandsOK
  <2>7. \A a, b \in commands' : a.id = b.id => a = b
    BY <2>2 DEF IInv, CommandsOK
  <2>8. late' \subseteq Cmd /\ \A b \in late' : b.id \in 1..ids'
    BY <1>2 DEF IInv, CommandsOK
  <2>9. commands' \subseteq Cmd /\ (\A b \in commands' : b.action = "done" =>
                                  \E d \in Device : pending'[d] = b)
    BY <2>4, <2>5 DEF IInv, CommandsOK
  <2> QED BY <2>1, <2>6, <2>7, <2>8, <2>9 DEF CommandsOK
<1>5. EffectOwed'
  <2>1. SUFFICES ASSUME NEW r \in receipts, r.done, NEW d \in Device, pending[d].id = r.id
                 PROVE  \E e \in Device : pending'[e].id = r.id
    BY DEF IInv, EffectOwed
  <2>2. r.id \in 1..ids
    BY DEF IInv, Ledgers
  <2>3. pending[d] # NoCommand
    BY <1>1, <2>1, <2>2 DEF NoCommand
  <2>4. pending'[d] = pending[d]
    BY <2>3 DEF IInv, CommandsOK
  <2> QED BY <2>1, <2>4
<1> QED BY <1>1, <1>3, <1>4, <1>5 DEF IInv, SettlingOK, RefusedNotDone

LEMMA SendInv == ASSUME IInv, NEW d \in Device, Send(d) PROVE IInv'
<1>1. PICK t \in Task, action \in ClockAction \cup QueueAction :
        pending' = [pending EXCEPT ![d] =
          Command(action, t, action \in {"background-start", "queue-block"})]
  BY DEF Send
<1> DEFINE remind == action \in {"background-start", "queue-block"}
           c == Command(action, t, remind)
<1>2. ids < MaxIds /\ action \in Action /\ remind \in BOOLEAN
  BY DEF Send, Action
<1> HIDE DEF remind
<1>3. c \in Cmd /\ c.id = ids + 1
  BY <1>2, CommandFacts
<1> HIDE DEF c
<1>4. pending[d] = NoCommand /\ pending' = [pending EXCEPT ![d] = c]
  BY <1>1 DEF Send, c, remind
<1>5. pending'[d] = c
  BY <1>4 DEF IInv, CommandsOK
<1>6. commands' = commands \cup {c}
  BY <1>5 DEF Send
<1> QED BY <1>2, <1>3, <1>4, <1>6, SentInv DEF Send, told

LEMMA SendClaimInv == ASSUME IInv, SendClaim PROVE IInv'
<1>1. PICK t \in Task : commands' = commands \cup {Command("queue-claim", t, FALSE)}
  BY DEF SendClaim
<1> DEFINE c == Command("queue-claim", t, FALSE)
<1>2. ids < MaxIds /\ "queue-claim" \in Action
  BY DEF SendClaim, Action
<1>3. c \in Cmd /\ c.id = ids + 1 /\ c.action = "queue-claim"
  BY <1>2, CommandFacts
<1> HIDE DEF c
<1>4. commands' = commands \cup {c}
  BY <1>1 DEF c
<1> QED BY <1>2, <1>3, <1>4, SentInv DEF SendClaim, told

LEMMA SendLegacyInv == ASSUME IInv, SendLegacy PROVE IInv'
<1>1. PICK t \in Task, action \in {"start", "pause"} :
        commands' = commands \cup {LegacyCommand(ids + 1, action, t, now)}
  BY DEF SendLegacy
<1> DEFINE c == LegacyCommand(ids + 1, action, t, now)
<1>2. ids < MaxIds /\ action \in Action /\ action # "done"
  BY DEF SendLegacy, Action, ClockAction
<1>3. c \in Cmd /\ c.id = ids + 1 /\ c.action # "done"
  BY <1>2, Constants DEF IInv, Counters, Cmd, LegacyCommand, Instant, Identity
<1> HIDE DEF c
<1>4. commands' = commands \cup {c}
  BY <1>1 DEF c
<1> QED BY <1>2, <1>3, <1>4, SentInv DEF SendLegacy, told

\* A transaction of the coordinator: what it adds is the receipt of its command,
\* and only a command that completes a task has a receipt of a completion.
LEMMA CommitFacts ==
  ASSUME IInv, NEW c \in commands \cup late, Commit(c, Outcome(c))
  PROVE  /\ Sound(store', store'.changed) /\ Recorded(store, store')
         /\ receipts \subseteq receipts' /\ receipts' \subseteq [id : 1..ids, done : BOOLEAN]
         /\ \A r \in receipts' \ receipts : /\ r.id = c.id
                                            /\ r.done => c.action = "done"
                                            /\ Outcome(c) # {}
<1>1. c \in Cmd /\ c.id \in 1..ids /\ c.task \in Task
  BY DEF IInv, CommandsOK, Cmd
<1>2. CASE Outcome(c) = {}
  BY <1>2 DEF Commit, Recorded, IInv, Ledgers
<1>3. CASE Outcome(c) # {}
  <2>1. PICK z \in Execute(c) : store' = z /\ receipts' = receipts \cup {NewReceipt(c, z)}
    BY <1>3 DEF Commit, Outcome
  <2>2. c.id \notin WriteIds
    BY <1>1, Constants DEF IInv, Counters, WriteIds
  <2>3. /\ Sound(z, z.changed) /\ Recorded(store, z)
        /\ c.action # "done" => DoneKept(store, z)
    BY <1>1, <2>1, <2>2, ExecuteSound DEF IInv
  <2> DEFINE r == NewReceipt(c, z)
             dn == z.row[c.task].done /\ ~store.row[c.task].done
  <2>4. z.row[c.task].done \in BOOLEAN /\ store.row[c.task].done \in BOOLEAN
    BY <1>1, <2>3 DEF IInv, Sound, Store, Row
  <2>5. dn \in BOOLEAN
    OBVIOUS
  <2>6. c.action # "done" => ~dn
    BY <1>1, <2>3, <2>4 DEF DoneKept
  <2>7. r = [id |-> c.id, done |-> dn]
    BY DEF NewReceipt
  <2> HIDE DEF dn, r
  <2>8. r \in [id : 1..ids, done : BOOLEAN] /\ r.id = c.id /\ (r.done => c.action = "done")
    BY <1>1, <2>5, <2>6, <2>7
  <2>9. receipts' = receipts \cup {r}
    BY <2>1 DEF r
  <2> QED BY <1>3, <2>1, <2>3, <2>8, <2>9 DEF IInv, Ledgers
<1> QED BY <1>2, <1>3

LEMMA PropagateFacts ==
  ASSUME IInv, NEW c \in commands \cup late, Propagate(c), receipts' \subseteq [id : 1..ids, done : BOOLEAN]
  PROVE  /\ propagated \subseteq propagated' /\ propagated' \subseteq 1..ids
         /\ \A r \in receipts' : r.id = c.id /\ r.done => r.id \in propagated'
BY DEF Propagate, IInv, Ledgers

LEMMA ServeInv == ASSUME IInv, NEW c \in commands, Serve(c) PROVE IInv'
<1>1. /\ Commit(c, Outcome(c)) /\ Propagate(c)
      /\ refused' = IF Served(c, Outcome(c)) THEN refused ELSE refused \cup {c.id}
      /\ commands' = commands \ {c}
      /\ pending' = [d \in Device |-> IF pending[d] = c THEN NoCommand ELSE pending[d]]
      /\ late' \subseteq late \cup {c}
      /\ UNCHANGED <<now, settling, astray, ids, troubles>>
  BY DEF Serve, LeftBehind, StillLate
<1>2. /\ Sound(store', store'.changed)
      /\ receipts \subseteq receipts' /\ receipts' \subseteq [id : 1..ids, done : BOOLEAN]
      /\ \A r \in receipts' \ receipts : /\ r.id = c.id
                                         /\ r.done => c.action = "done"
                                         /\ Outcome(c) # {}
  BY <1>1, CommitFacts
<1>3. /\ propagated \subseteq propagated' /\ propagated' \subseteq 1..ids
      /\ \A r \in receipts' : r.id = c.id /\ r.done => r.id \in propagated'
  BY <1>1, <1>2, PropagateFacts
<1>4. c.id \in 1..ids /\ c.id \notin refused
  BY DEF IInv, CommandsOK
<1>5. refused' = refused \/ refused' = refused \cup {c.id}
  BY <1>1
<1>6. Ledgers'
  BY <1>1, <1>2, <1>3, <1>4, <1>5 DEF IInv, Ledgers
<1>7. CommandsOK'
  <2>1. pending' \in [Device -> Cmd \cup {NoCommand}]
    BY <1>1 DEF IInv, CommandsOK
  <2>2. \A b \in commands' : b \in commands /\ b.id # c.id /\ b # c
    BY <1>1 DEF IInv, CommandsOK
  <2>3. \A b \in commands' : b.id \in 1..ids' /\ b.id \notin refused'
    BY <1>1, <1>5, <2>2 DEF IInv, CommandsOK
  <2>4. \A b \in commands' : b.action = "done" => \E d \in Device : pending'[d] = b
    BY <1>1, <2>2 DEF IInv, CommandsOK
  <2>5. late' \subseteq Cmd /\ \A b \in late' : b.id \in 1..ids'
    BY <1>1, <1>4 DEF IInv, CommandsOK
  <2> QED BY <2>1, <2>2, <2>3, <2>4, <2>5 DEF IInv, CommandsOK
<1>8. RefusedNotDone'
  <2>1. \A r \in receipts : r.id \in refused => r.id \in astray'
    BY <1>1 DEF IInv, RefusedNotDone
  <2>2. CASE Served(c, Outcome(c))
    BY <1>1, <1>2, <1>4, <2>1, <2>2 DEF RefusedNotDone
  <2>3. CASE ~Served(c, Outcome(c))
    <3>1. Outcome(c) = {} /\ \A r \in receipts : r.id # c.id
      BY <2>3 DEF Served, Receipt
    <3> QED BY <1>1, <1>2, <2>1, <2>3, <3>1 DEF RefusedNotDone
  <2> QED BY <2>2, <2>3
<1>9. EffectOwed'
  <2>1. SUFFICES ASSUME NEW r \in receipts', r.done, r.id # c.id
                 PROVE  r.id \in propagated' \cup astray' \/ \E d \in Device : pending'[d].id = r.id
    BY <1>3 DEF EffectOwed
  <2>2. r \in receipts
    BY <1>2, <2>1
  <2> QED BY <1>1, <1>3, <2>1, <2>2 DEF IInv, EffectOwed
<1> QED BY <1>1, <1>2, <1>6, <1>7, <1>8, <1>9 DEF IInv, Counters, SettlingOK

LEMMA LoseAnswerInv == ASSUME IInv, NEW c \in commands, LoseAnswer(c) PROVE IInv'
<1>1. /\ Commit(c, Outcome(c)) /\ troubles < MaxTroubles /\ troubles' = troubles + 1
      /\ \/ Propagate(c) /\ settling' = settling
         \/ propagated' = propagated /\ settling' = {}
      /\ late' \subseteq late
      /\ UNCHANGED <<now, commands, pending, refused, astray, ids>>
  BY DEF LoseAnswer, Die, StillLate, told
<1>2. /\ Sound(store', store'.changed)
      /\ receipts \subseteq receipts' /\ receipts' \subseteq [id : 1..ids, done : BOOLEAN]
      /\ \A r \in receipts' \ receipts : r.id = c.id /\ (r.done => c.action = "done")
  BY <1>1, CommitFacts
<1>3. propagated \subseteq propagated' /\ propagated' \subseteq 1..ids
  BY <1>1, <1>2, PropagateFacts DEF IInv, Ledgers
<1>4. Ledgers'
  BY <1>1, <1>2, <1>3 DEF IInv, Ledgers
<1>5. CommandsOK'
  BY <1>1 DEF IInv, CommandsOK
<1>6. RefusedNotDone'
  BY <1>1, <1>2 DEF IInv, RefusedNotDone, CommandsOK
<1>7. EffectOwed'
  <2>1. ASSUME NEW r \in receipts' \ receipts, r.done
        PROVE  \E d \in Device : pending'[d].id = r.id
    BY <1>1, <1>2, <2>1 DEF IInv, CommandsOK
  <2> QED BY <1>1, <1>3, <2>1 DEF IInv, EffectOwed
<1>8. Counters'
  BY <1>1, Constants DEF IInv, Counters
<1>9. SettlingOK'
  BY <1>1 DEF IInv, SettlingOK
<1> QED BY <1>2, <1>4, <1>5, <1>6, <1>7, <1>8, <1>9 DEF IInv

\* A late copy that is carried out: its command goes astray.
LEMMA ServeLateInv == ASSUME IInv, NEW c \in late, ServeLate(c) PROVE IInv'
<1>1. /\ Commit(c, Outcome(c)) /\ late' = {} /\ astray' = astray \cup {c.id}
      /\ \/ Propagate(c) /\ settling' = settling /\ troubles' = troubles
         \/ /\ propagated' = propagated /\ settling' = {}
            /\ troubles < MaxTroubles /\ troubles' = troubles + 1
      /\ UNCHANGED <<now, commands, pending, refused, ids>>
  BY DEF ServeLate, Die
<1>2. /\ Sound(store', store'.changed)
      /\ receipts \subseteq receipts' /\ receipts' \subseteq [id : 1..ids, done : BOOLEAN]
      /\ \A r \in receipts' \ receipts : r.id = c.id
  BY <1>1, CommitFacts
<1>3. propagated \subseteq propagated' /\ propagated' \subseteq 1..ids
  BY <1>1, <1>2, PropagateFacts DEF IInv, Ledgers
<1>4. c.id \in 1..ids /\ c.id \in astray'
  BY <1>1 DEF IInv, CommandsOK
<1>5. Ledgers'
  BY <1>1, <1>2, <1>3, <1>4 DEF IInv, Ledgers
<1>6. CommandsOK'
  BY <1>1 DEF IInv, CommandsOK
<1>7. RefusedNotDone' /\ EffectOwed'
  <2>1. \A r \in receipts' : r \in receipts \/ r.id \in astray'
    BY <1>2, <1>4
  <2> QED BY <1>1, <1>3, <2>1 DEF IInv, RefusedNotDone, EffectOwed
<1>8. Counters'
  BY <1>1, Constants DEF IInv, Counters
<1>9. SettlingOK'
  BY <1>1 DEF IInv, SettlingOK
<1> QED BY <1>2, <1>5, <1>6, <1>7, <1>8, <1>9 DEF IInv

LEMMA ToggleInv == ASSUME IInv, NEW t \in Task, Toggle(t) PROVE IInv'
<1> DEFINE r == store.row[t]
           n == [r EXCEPT !.done = ~@, !.crev = @ + 1]
           x(click) == [task |-> t, row |-> n, id |-> MaxIds + 2 * troubles + 2, at |-> click]
<1>1. /\ r \in Row /\ r.done \in BOOLEAN /\ r.crev \in Nat /\ store.item[t] \in Item
      /\ store \in Store
  BY DEF IInv, Sound, Store, Row
<1>2. n.active = r.active /\ n.gone = r.gone /\ n.crev = r.crev + 1
  BY <1>1 DEF Row
<1>3. n \in Row
  <2> DEFINE done == ~r.done
             crev == r.crev + 1
  <2>1. done \in BOOLEAN /\ crev \in Nat
    BY <1>1
  <2> HIDE DEF done, crev
  <2>2. [r EXCEPT !.done = done, !.crev = crev] \in Row
    BY <1>1, <2>1, Zenon DEF Row
  <2> QED BY <2>2 DEF done, crev
<1>4. /\ store' = [store EXCEPT !.row[t] = n]
      /\ \E click \in 1..now : settling' = settling \/ settling' = settling \cup {x(click)}
      /\ troubles' = troubles + 1 /\ troubles < MaxTroubles
      /\ UNCHANGED <<now, receipts, commands, late, propagated, pending, refused, astray, ids>>
  <2>1. PICK click \in 1..now :
          /\ store' = [store EXCEPT !.row[t] = n]
          /\ settling' = settling \cup (IF click < n.changed THEN {} ELSE {x(click)})
    BY DEF Toggle
  <2>2. settling' = settling \/ settling' = settling \cup {x(click)}
    BY <2>1
  <2> QED BY <2>1, <2>2 DEF Toggle, told
<1>5. Counters' /\ troubles \in Nat /\ troubles \in 0..(MaxTroubles - 1)
  BY <1>4, Constants DEF IInv, Counters
<1>6. ~isForegroundBreak(n, store.item[t])
  <2>1. store.item[t].brk.set => store.item[t].brk.rev <= r.crev
    BY DEF IInv, Sound, BreaksOK
  <2>2. Stamp(n).set /\ Stamp(n).rev = r.crev + 1
    BY <1>2 DEF Stamp
  <2>3. store.item[t].brk # Stamp(n)
    BY <1>1, <2>1, <2>2
  <2> QED BY <2>3 DEF isForegroundBreak
<1>7. SettlingOK'
  <2>1. MaxIds + 2 * troubles + 2 \in Identity /\ 1..now \subseteq Instant
    BY <1>5, Constants DEF IInv, Counters, Identity, Instant
  <2> HIDE DEF n
  <2>2. \A click \in 1..now :
          /\ x(click) \in [task : Task, row : Row, id : Identity, at : Instant]
          /\ x(click).id = MaxIds + 2 * troubles + 2
    BY <1>3, <2>1
  <2> HIDE DEF x
  <2> QED BY <1>4, <1>5, <2>2 DEF IInv, SettlingOK
<1> HIDE DEF n, x
<1>8. n.crev >= r.crev
  BY <1>1, <1>2
<1>9. /\ Fore(n, store.item[t]) => Fore(r, store.item[t])
      /\ n.active # 0 /\ ~n.gone => n.active = r.active /\ ~r.gone
  BY <1>2, <1>6 DEF Fore
<1>10. Sound(store', store'.changed)
  BY <1>3, <1>4, <1>8, <1>9, RowSound DEF IInv
<1> QED BY <1>4, <1>5, <1>7, <1>10
        DEF IInv, Ledgers, CommandsOK, RefusedNotDone, EffectOwed

LEMMA DeleteInv == ASSUME IInv, NEW t \in Task, Delete(t) PROVE IInv'
<1> DEFINE r == store.row[t]
           n == [r EXCEPT !.gone = TRUE]
<1>1. r \in Row /\ store \in Store
  BY DEF IInv, Sound, Store
<1>2. n \in Row /\ n.gone /\ n.crev = r.crev /\ r.crev \in Nat
  BY <1>1 DEF Row
<1>3. store' = [store EXCEPT !.row[t] = n]
      /\ troubles' = troubles + 1 /\ troubles < MaxTroubles
      /\ UNCHANGED <<now, receipts, commands, late, propagated, settling, pending, refused,
                     astray, ids>>
  BY DEF Delete, told
<1> HIDE DEF n
<1>4. n.crev >= r.crev
  BY <1>2
<1>5. Sound(store', store'.changed)
  BY <1>2, <1>3, <1>4, RowSound DEF IInv, Fore
<1>6. Counters'
  BY <1>3, Constants DEF IInv, Counters
<1> QED BY <1>3, <1>5, <1>6
        DEF IInv, Ledgers, CommandsOK, SettlingOK, RefusedNotDone, EffectOwed

\* The pause that settles a completion is a command with an identity of its own.
LEMMA SettlePauseFacts ==
  ASSUME IInv, NEW x \in settling, SettlePause(x)
  PROVE  /\ Sound(store', store'.changed) /\ Recorded(store, store')
         /\ \/ settling' = settling \ {x}
            \/ \E r \in Row : settling' = (settling \ {x}) \cup {[x EXCEPT !.row = r]}
<1> DEFINE c == LegacyCommand(x.id - 1, "pause", x.task, x.at)
<1>1. x \in [task : Task, row : Row, id : Identity, at : Instant]
  BY DEF IInv, SettlingOK
<1>2. x.id - 1 \in Identity /\ x.id - 1 \notin WriteIds
  <2>1. PICK k \in 0..(MaxTroubles - 1) : x.id = MaxIds + 2 * k + 2
    BY DEF IInv, SettlingOK
  <2> QED BY <1>1, <2>1, Constants DEF Identity, WriteIds
<1>3. c \in Cmd /\ c.id = x.id - 1 /\ c.action = "pause" /\ c.task = x.task
  <2>1. 0 \in Identity /\ "pause" \in Action
    BY Constants DEF Identity, Action, ClockAction
  <2> QED BY <1>1, <1>2, <2>1 DEF Cmd, LegacyCommand
<1>4. \/ \E z \in Execute(c) : /\ store' = z
                               /\ settling' = (settling \ {x}) \cup
                                    {[x EXCEPT !.row = z.row[x.task]]}
      \/ settling' = settling \ {x} /\ store' = store
  BY DEF SettlePause
<1> HIDE DEF c
<1>5. CASE settling' = settling \ {x} /\ store' = store
  BY <1>5 DEF IInv, Recorded
<1>6. ASSUME NEW z \in Execute(c), store' = z,
             settling' = (settling \ {x}) \cup {[x EXCEPT !.row = z.row[x.task]]}
      PROVE  /\ Sound(store', store'.changed) /\ Recorded(store, store')
             /\ \E r \in Row : settling' = (settling \ {x}) \cup {[x EXCEPT !.row = r]}
  <2>1. Sound(z, z.changed) /\ Recorded(store, z)
    BY <1>2, <1>3, ExecuteSound DEF IInv
  <2>2. z.row[x.task] \in Row
    BY <1>1, <2>1 DEF Sound, Store
  <2> QED BY <1>6, <2>1, <2>2
<1> QED BY <1>4, <1>5, <1>6

LEMMA SettlePauseInv == ASSUME IInv, NEW x \in settling, SettlePause(x) PROVE IInv'
<1>1. /\ Sound(store', store'.changed)
      /\ \/ settling' = settling \ {x}
         \/ \E r \in Row : settling' = (settling \ {x}) \cup {[x EXCEPT !.row = r]}
  BY SettlePauseFacts
<1>2. UNCHANGED <<now, receipts, commands, late, propagated, pending, refused, astray, ids,
                  troubles>>
  BY DEF SettlePause, told
<1>3. SettlingOK'
  <2>1. x \in [task : Task, row : Row, id : Identity, at : Instant]
        /\ \E k \in 0..(MaxTroubles - 1) : x.id = MaxIds + 2 * k + 2
    BY DEF IInv, SettlingOK
  <2>2. ASSUME NEW r \in Row
        PROVE  /\ [x EXCEPT !.row = r] \in [task : Task, row : Row, id : Identity, at : Instant]
               /\ [x EXCEPT !.row = r].id = x.id
    BY <2>1
  <2> QED BY <1>1, <2>1, <2>2 DEF IInv, SettlingOK
<1> QED BY <1>1, <1>2, <1>3
        DEF IInv, Counters, Ledgers, CommandsOK, RefusedNotDone, EffectOwed

LEMMA SettleWriteInv == ASSUME IInv, NEW x \in settling, SettleWrite(x) PROVE IInv'
<1> DEFINE r == store.row[x.task]
           n == Halted(r, x)
<1>1. /\ x \in [task : Task, row : Row, id : Identity, at : Instant] /\ x.id \in WriteIds
      /\ x.task \in Task
  BY DEF IInv, SettlingOK, WriteIds
<1>2. r \in Row /\ store.item[x.task] \in Item
  BY <1>1 DEF IInv, Sound, Store
<1>3. /\ settling' = settling \ {x}
      /\ store' = IF r.gone THEN store ELSE [store EXCEPT !.row[x.task] = n]
      /\ UNCHANGED <<now, receipts, commands, late, propagated, pending, refused, astray, ids,
                     troubles>>
  BY DEF SettleWrite, told
<1>4. /\ n.active = 0 /\ n.op = x.id /\ n.crev = r.crev /\ r.crev \in Nat
  BY <1>2 DEF Halted, Row
<1>5. n \in Row
  <2> DEFINE at == x.at
             id == x.id
  <2>1. at \in Instant /\ id \in Identity /\ 0 \in Instant
    BY <1>1, Constants DEF Instant
  <2> HIDE DEF at, id
  <2>2. [r EXCEPT !.active = 0, !.changed = at, !.op = id] \in Row
    BY <1>2, <2>1 DEF Row
  <2> QED BY <2>2 DEF Halted, at, id
<1> HIDE DEF n
<1>6. ~isForegroundBreak(n, store.item[x.task])
  <2>1. store.item[x.task].brk.set => store.item[x.task].brk.op \notin WriteIds
    BY <1>1 DEF IInv, Sound, BreaksOK
  <2>2. Stamp(n).set /\ Stamp(n).op = x.id
    BY <1>4 DEF Stamp
  <2> QED BY <1>1, <2>1, <2>2 DEF isForegroundBreak
<1>7. Sound(store', store'.changed)
  <2>1. CASE r.gone
    BY <1>3, <2>1 DEF IInv
  <2>2. CASE ~r.gone
    <3>1. n.crev >= r.crev /\ ~Fore(n, store.item[x.task])
      BY <1>4, <1>6 DEF Fore
    <3> QED BY <1>1, <1>3, <1>4, <1>5, <2>2, <3>1, RowSound DEF IInv
  <2> QED BY <2>1, <2>2
<1> QED BY <1>3, <1>7
        DEF IInv, Counters, Ledgers, CommandsOK, SettlingOK, RefusedNotDone, EffectOwed

LEMMA TickInv == ASSUME IInv, Tick PROVE IInv'
<1>1. Counters'
  BY Constants DEF Tick, IInv, Counters
<1> QED BY <1>1 DEF Tick, told, IInv, Ledgers, CommandsOK, SettlingOK, RefusedNotDone, EffectOwed

LEMMA NextInv == ASSUME IInv, [Next]_vars PROVE IInv'
<1>1. CASE UNCHANGED vars
  BY <1>1 DEF vars, told, IInv, Counters, Ledgers, CommandsOK, SettlingOK, RefusedNotDone, EffectOwed
<1>2. CASE Next
  BY <1>2, SendInv, SendClaimInv, SendLegacyInv, ServeInv, LoseAnswerInv, ServeLateInv,
     ToggleInv, DeleteInv, SettlePauseInv, SettleWriteInv, TickInv DEF Next
<1> QED BY <1>1, <1>2

LEMMA Inductive == Spec => []IInv
BY InitInv, NextInv, PTL DEF Spec
-----------------------------------------------------------------------------
\* The variables keep their shape.
THEOREM TypeCorrect == Spec => []TypeOK
BY Inductive, Implied, PTL

\* One task at a time is in the foreground, whatever is completed elsewhere,
\* repeated, late or lost, over any workspaces.
THEOREM OneForegroundAlways == Spec => []OneForeground
BY Inductive, Implied, PTL

\* No instant is recorded as work twice.
THEOREM CountedOnceAlways == Spec => []WorkCountedOnce
BY Inductive, Implied, PTL

\* A command that its device was told is refused was not carried out, unless a copy
\* that the device had given up on came after the refusal (`astray`).
THEOREM RefusedNotDoneAlways == Spec => []RefusedNotDone
BY Inductive, PTL DEF IInv

\* A completion reaches the cadence clock before its device has an answer, unless
\* its command was refused and carried out by such a copy after that.
THEOREM EffectOwedAlways == Spec => []EffectOwed
BY Inductive, PTL DEF IInv

\* A session of work ends up in the record, unless the completion route's late
\* write drops it.
THEOREM NoWorkLostEver == Spec => NoWorkLost
<1> DEFINE Step == \A t \in Task :
       store.row[t].active \notin {0, store'.row[t].active} =>
         \/ \E e \in store'.entries : e.task = t /\ e.from = store.row[t].active
         \/ \E x \in settling : x.task = t /\ x \notin settling'
<1>1. ASSUME IInv, [Next]_vars PROVE Step
  <2>1. ASSUME Recorded(store, store') PROVE Step
    BY <2>1 DEF Recorded
  <2>2. ASSUME store' = store PROVE Step
    BY <2>2
  <2>3. ASSUME NEW c \in commands \cup late, Serve(c) \/ LoseAnswer(c) \/ ServeLate(c)
        PROVE  Step
    BY <1>1, <2>1, <2>3, CommitFacts DEF Serve, LoseAnswer, ServeLate
  <2>4. ASSUME NEW t \in Task, Toggle(t) \/ Delete(t) PROVE Step
    <3>1. \A u \in Task : store'.row[u].active = store.row[u].active
      <4>1. store \in Store /\ \A u \in Task : store.row[u] \in Row
        BY <1>1 DEF IInv, Sound, Store
      <4>2. CASE Toggle(t)
        BY <4>1, <4>2 DEF Toggle, Store, Row
      <4>3. CASE Delete(t)
        BY <4>1, <4>3 DEF Delete, Store, Row
      <4> QED BY <2>4, <4>2, <4>3
    <3> QED BY <3>1
  <2>5. ASSUME NEW x \in settling, SettlePause(x) PROVE Step
    BY <1>1, <2>1, <2>5, SettlePauseFacts
  <2>6. ASSUME NEW x \in settling, SettleWrite(x) PROVE Step
    <3>1. \A t \in Task : t # x.task => store'.row[t] = store.row[t]
      BY <1>1, <2>6 DEF SettleWrite, IInv, Sound, Store
    <3>2. x \notin settling'
      BY <2>6 DEF SettleWrite
    <3> QED BY <3>1, <3>2
  <2>7. CASE UNCHANGED vars
    BY <2>2, <2>7 DEF vars
  <2>8. CASE Next
    BY <2>2, <2>3, <2>4, <2>5, <2>6, <2>8 DEF Next, Send, SendClaim, SendLegacy, Tick
  <2> QED BY <1>1, <2>7, <2>8
<1> QED BY <1>1, Inductive, PTL DEF Spec, NoWorkLost
=============================================================================
