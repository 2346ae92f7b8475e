------------------------------- MODULE Cadence ------------------------------
(***************************************************************************)
(* The cadence clock of one repeating responsibility and its instances.    *)
(*                                                                         *)
(* While an instance is in flight the responsibility is paused; completing *)
(* the instance resets the clock, reopening it puts the clock back.  Two   *)
(* writers keep the definition row: the eager one of db.js                 *)
(* (propagateResponsibilityDone), which runs after the task's transaction  *)
(* has committed, and the derived one of responsibility-store.js           *)
(* (resolveOpenInstances), which runs on every read of the list.  Beside   *)
(* them the routes of the responsibility itself (complete, skip, pause,    *)
(* resume, edit, instance) each read the row and write it whole.  The      *)
(* property transitions are those of lib/recurrence.js.                    *)
(*                                                                         *)
(* A completion time is the number of the completion, counted over all     *)
(* instances and direct completions; 0 is null.  What skip, pause, resume  *)
(* and the form change is left out: each writes the rest as it was read.   *)
(***************************************************************************)
EXTENDS Naturals, FiniteSets

CONSTANTS
  Task,         \* the instances that can be scheduled
  NoTask,
  MaxClicks,    \* bound: completions and reopens of instances, and requests on
                \* the responsibility itself
  MaxRare       \* bound: the latter and the updates of the definition that
                \* fail or die with the process, together

ASSUME ConstantsAssumption ==
  /\ NoTask \notin Task
  /\ {MaxClicks, MaxRare} \subseteq Nat

VARIABLES
  task,      \* the instance rows
  def,       \* the definition row
  effects,   \* eager updates between the task's commit and the definition
  scheduling,  \* requests to schedule under way, with the definition they read
  reading,   \* the read of the list under way: what it read and found
  asking,    \* requests on the responsibility under way, with what they read
  late,      \* history: an instance was registered after its completion
  clicks, rare

rows  == <<task, def>>
lists == <<scheduling, reading>>
vars  == <<rows, effects, lists, asking, late, clicks, rare>>

NoRead == [base |-> [last |-> 0, prev |-> 0, undoable |-> FALSE, by |-> NoTask,
                     open |-> NoTask],
           state |-> "none", at |-> 0]

-----------------------------------------------------------------------------
(***************************************************************************)
(* lib/recurrence.js.                                                      *)
(***************************************************************************)
applySchedule(d, t) == [d EXCEPT !.open = t]

clearOpenInstance(d) == [d EXCEPT !.open = NoTask]

\* Variant for mutation testing: the time and the task change places.
applyCompletionSwapped(d, at, t) ==
  clearOpenInstance(
    [d EXCEPT !.prev = d.last, !.last = t, !.by = at, !.undoable = TRUE])

applyCompletion(d, at, t) ==
  clearOpenInstance(
    [d EXCEPT !.prev = d.last, !.last = at, !.by = t, !.undoable = TRUE])

\* Only a completion that is there to undo is undone.
applyUncompletion(d, t) ==
  LET undo == d.undoable \/ d.by # NoTask \/ d.prev # 0
  IN  applySchedule(
        IF undo THEN [d EXCEPT !.last = d.prev, !.prev = 0, !.by = NoTask,
                               !.undoable = FALSE]
                ELSE d, t)

\* Variant for mutation testing: a lapsed instance counts as open.
resolveNeverGone(t) == IF task[t].done THEN "done" ELSE "open"

\* Done first, so that tidying a finished instance away does not un-say it.
resolveInstanceState(t) ==
  IF task[t].done THEN "done" ELSE IF task[t].lapsed THEN "gone" ELSE "open"

-----------------------------------------------------------------------------
(***************************************************************************)
(* People.                                                                 *)
(***************************************************************************)
\* scheduleResponsibilityTask is offered only while nothing is in flight.  It
\* has the definition from the route, and reads the day: an undone instance
\* there is the answer.
ScheduleRead(t) ==
  /\ def.open = NoTask
  /\ ~task[t].exists /\ \A s \in scheduling : s.task # t
  /\ \A u \in Task : task[u].exists => task[u].done \/ task[u].lapsed
  /\ scheduling' = scheduling \cup {[task |-> t, base |-> def]}
  /\ UNCHANGED <<rows, effects, reading, asking, late, clicks, rare>>

\* Then it creates the instance,
ScheduleCreate(s) ==
  /\ ~task[s.task].exists
  /\ task' = [task EXCEPT ![s.task].exists = TRUE]
  /\ UNCHANGED <<def, effects, lists, asking, late, clicks, rare>>

\* and stamps the definition with it: updateBlock replaces all the properties,
\* from what was read.
ScheduleStamp(s) ==
  /\ task[s.task].exists
  /\ scheduling' = scheduling \ {s}
  /\ def' = applySchedule(s.base, s.task)
  /\ UNCHANGED <<task, effects, reading, asking, late, clicks, rare>>

\* "A task on the day beats a failed stamp."
LoseStamp(s) ==
  /\ task[s.task].exists
  /\ rare < MaxRare
  /\ rare' = rare + 1
  /\ scheduling' = scheduling \ {s}
  /\ UNCHANGED <<rows, effects, reading, asking, late, clicks>>

\* A completion transition of the instance's row commits (setTaskCompletion or
\* updateBlock): it has its own revision, and its eager update is due.
Toggle(t) ==
  /\ task[t].exists
  /\ clicks < MaxClicks
  /\ clicks' = clicks + 1
  /\ LET done == ~task[t].done
         at   == IF done THEN clicks' ELSE 0
     IN  /\ task' = [task EXCEPT ![t].done = done, ![t].at = at, ![t].rev = @ + 1]
         /\ effects' = effects \cup
              {[task |-> t, done |-> done, at |-> at, rev |-> task[t].rev + 1]}
  /\ UNCHANGED <<def, lists, asking, late, rare>>

\* The instance is deleted, or its day goes by.
Lapse(t) ==
  /\ task[t].exists /\ ~task[t].lapsed
  /\ task' = [task EXCEPT ![t].lapsed = TRUE]
  /\ UNCHANGED <<def, effects, lists, asking, late, clicks, rare>>

-----------------------------------------------------------------------------
(***************************************************************************)
(* The eager half: propagateResponsibilityDone, one transaction that locks *)
(* the task and the definition.                                            *)
(***************************************************************************)
StillCurrent(e) == task[e.task].done = e.done /\ task[e.task].rev = e.rev

\* Variant for mutation testing: no completion is recognised as applied.
NeverReplayed(e) == FALSE

\* The very completion is on the definition already.
Replayed(e) == e.done /\ def.undoable /\ def.by = e.task /\ def.last = e.at

\* `again`: the transition is kept with its command's receipt, and is delivered
\* once more when the command is retried (conversation-store.js).
Propagate(e, again) ==
  /\ effects' = IF again THEN effects ELSE effects \ {e}
  /\ def' = IF ~StillCurrent(e) \/ Replayed(e) THEN def
            ELSE IF e.done THEN applyCompletion(def, e.at, e.task)
            ELSE applyUncompletion(def, e.task)
  /\ UNCHANGED <<task, lists, asking, late, clicks, rare>>

\* It fails, which is not an error for the task, or the process dies first.
LoseEffect(e) ==
  /\ rare < MaxRare
  /\ rare' = rare + 1
  /\ effects' = effects \ {e}
  /\ UNCHANGED <<rows, lists, asking, late, clicks>>

-----------------------------------------------------------------------------
(***************************************************************************)
(* The derived half: resolveOpenInstances.                                 *)
(***************************************************************************)
\* The list is read, then the instance that is in flight.
ReconcileRead ==
  /\ reading = NoRead
  /\ def.open # NoTask
  /\ reading' = [base  |-> def,
                 state |-> resolveInstanceState(def.open),
                 at    |-> task[def.open].at]
  /\ UNCHANGED <<rows, effects, scheduling, asking, late, clicks, rare>>

\* The definition is settled, from what was read: updateBlock replaces all of
\* its properties.
ReconcileWrite ==
  /\ reading # NoRead
  /\ reading' = NoRead
  /\ def' = CASE reading.state = "open" -> def
              [] reading.state = "done" ->
                   applyCompletion(reading.base, reading.at, reading.base.open)
              [] reading.state = "gone" -> clearOpenInstance(reading.base)
  /\ UNCHANGED <<task, effects, scheduling, asking, late, clicks, rare>>
-----------------------------------------------------------------------------
(***************************************************************************)
(* The responsibility itself: respLifecycle of routes/blocks.js and        *)
(* applyLifecycle of the store, and the PATCH of its form.                 *)
(***************************************************************************)
\* The browser makes an instance of its own (insertTaskNow), and registers it
\* when the row and its subtasks have been stored.
Mint(t) ==
  /\ ~task[t].exists /\ \A s \in scheduling : s.task # t
  /\ task' = [task EXCEPT ![t] = [@ EXCEPT !.exists = TRUE, !.minted = TRUE]]
  /\ UNCHANGED <<def, effects, lists, asking, late, clicks, rare>>

\* The request reads the definition.
Ask(act, t, at) ==
  /\ rare < MaxRare /\ clicks < MaxClicks
  /\ rare' = rare + 1
  /\ clicks' = clicks + 1
  /\ asking' = asking \cup {[act |-> act, task |-> t, at |-> at, base |-> def]}
  /\ UNCHANGED <<def, effects, lists>>

AskInstance(t) ==
  /\ task[t].minted
  /\ task' = [task EXCEPT ![t].minted = FALSE]
  /\ late' = (late \/ task[t].done)
  /\ Ask("instance", t, 0)

\* A completion with no instance, at the browser's time.
AskComplete ==
  /\ Ask("complete", NoTask, clicks + 1)
  /\ UNCHANGED <<task, late>>

\* "drop" posts an instance that is none; skip, pause, resume and the form
\* "touch" the row.
AskOther(act) ==
  /\ Ask(act, NoTask, 0)
  /\ UNCHANGED <<task, late>>

\* What a request makes of the row it has read.
Transition(q) ==
  LET by == IF q.base.open # NoTask THEN q.base.open ELSE q.base.by
  IN  CASE q.act \in {"instance", "drop"} -> applySchedule(q.base, q.task)
        [] q.act = "complete" -> applyCompletion(q.base, q.at, by)
        [] q.act = "touch" -> q.base

\* ... replaces all the properties, whatever has become of them since.
Answer(q) ==
  /\ def' = Transition(q)
  /\ asking' = asking \ {q}
  /\ UNCHANGED <<task, effects, lists, late, clicks, rare>>
-----------------------------------------------------------------------------
Init ==
  /\ task = [t \in Task |-> [exists |-> FALSE, done |-> FALSE, at |-> 0,
                             rev |-> 0, lapsed |-> FALSE, minted |-> FALSE]]
  /\ def = NoRead.base
  /\ effects = {}
  /\ scheduling = {}
  /\ reading = NoRead
  /\ asking = {}
  /\ late = FALSE
  /\ clicks = 0 /\ rare = 0

Eager   == \E e \in effects : Propagate(e, FALSE)
Derived == ReconcileRead \/ ReconcileWrite

Next ==
  \/ \E t \in Task : ScheduleRead(t) \/ Mint(t) \/ AskInstance(t) \/ Toggle(t) \/ Lapse(t)
  \/ AskComplete
  \/ \E act \in {"drop", "touch"} : AskOther(act)
  \/ \E q \in asking : Answer(q)
  \/ \E s \in scheduling : ScheduleCreate(s) \/ ScheduleStamp(s) \/ LoseStamp(s)
  \/ Eager
  \/ \E e \in effects : Propagate(e, TRUE)
  \/ \E e \in effects : LoseEffect(e)
  \/ Derived

Spec == Init /\ [][Next]_vars

\* The list is read again and again; an eager update that is not lost runs.
FairSpec == Spec /\ WF_vars(Eager) /\ WF_vars(Derived)
-----------------------------------------------------------------------------
Time == 0..MaxClicks
Row == [exists : BOOLEAN, done : BOOLEAN, at : Time, rev : 0..MaxClicks,
        lapsed : BOOLEAN, minted : BOOLEAN]
Definition == [last : Time, prev : Time, undoable : BOOLEAN,
               by : Task \cup {NoTask}, open : Task \cup {NoTask}]
Act == {"instance", "drop", "complete", "touch"}

\* The shape of every variable.
TypeOK ==
  /\ task \in [Task -> Row]
  /\ def \in Definition
  /\ effects \subseteq [task : Task, done : BOOLEAN, at : Time, rev : 1..MaxClicks]
  /\ scheduling \subseteq [task : Task, base : Definition]
  /\ reading \in [base : Definition, state : {"none", "open", "done", "gone"},
                  at : Time]
  /\ asking \subseteq [act : Act, task : Task \cup {NoTask}, at : Time, base : Definition]
  /\ late \in BOOLEAN
  /\ clicks \in 0..MaxClicks /\ rare \in 0..MaxRare
 

OneInstance == \A t, u \in Task : task[t].exists /\ task[u].exists => t = u

\* Both halves may apply the same completion, in either order, from old reads
\* and again from a command's receipt, while the routes of the responsibility
\* write back what they have read; the clock's previous value survives it, so
\* that reopening can still put the clock back ("Preserve the original undo
\* timestamp on that exact replay", db.js).  Stated for the first instance (the
\* completion of an earlier one, delivered after that of a later one has been
\* applied and undone, is not recognised as a replay) and for registrations
\* that come in before the completion of what they register.
UndoKept ==
  OneInstance /\ ~late /\ def.last # 0 => def.prev # def.last

\* The instance that is in flight is over.
Stuck == def.open # NoTask /\ (task[def.open].done \/ task[def.open].lapsed)

\* A pause ends: an instance that stays done, or stays lapsed, does not keep
\* its responsibility paused, even when the eager update was lost or the
\* pause was written back from an old read.
PauseEnds == []<>~Stuck
=============================================================================
