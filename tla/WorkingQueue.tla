---------------------------- MODULE WorkingQueue ----------------------------
(***************************************************************************)
(* The activity coordinator of one account (conversation-store.js), the    *)
(* working queue it keeps (lib/working-queue.js) and the work clock of the *)
(* task rows (lib/task-timing.js).                                         *)
(*                                                                         *)
(* Devices send commands, each with an identity of its own and the revision *)
(* it was made at; the coordinator serves one at a time under an advisory  *)
(* lock, in one transaction, and keeps a receipt.  A request may come late *)
(* or twice, an answer may be lost, a copy that the device has given up on *)
(* may come after a later one was answered, and the process may die        *)
(* between the commit and the answer.  Completions also come from outside  *)
(* the coordinator, through the completion route, which settles the clock  *)
(* in a later transaction.                                                 *)
(*                                                                         *)
(* Instants and identities are small numbers; 0 is null.  The order of the *)
(* list, notes, priorities and worker reports are left out.                *)
(***************************************************************************)
EXTENDS Naturals, FiniteSets

CONSTANTS
  Task, Workspace,
  Home,          \* the workspace a task belongs to
  Device,
  AutoPause,     \* the unattended time that still counts as work
  HardStop,      \* the longest session
  Wait,          \* the wait before a check-back
  MaxTime,       \* bound: instants
  MaxIds,        \* bound: commands
  MaxLate,       \* bound: copies on their way that their device has given up on
  MaxTroubles    \* bound: completions, deletions and commands elsewhere, answers lost

ASSUME ConstantsAssumption ==
  /\ Home \in [Task -> Workspace]
  /\ {AutoPause, HardStop, Wait, MaxTime} \subseteq Nat \ {0}
  /\ {MaxIds, MaxLate, MaxTroubles} \subseteq Nat

VARIABLES
  now,
  store,      \* the database: rows, queue items, activity state, time entries
  receipts,   \* the commands committed (conversation_events)
  commands,   \* the commands sent and not answered: each may arrive, and again
  late,       \* refused commands of which a copy is on its way and may be carried out
  propagated, \* the completions handed on to the cadence clock
  settling,   \* completions elsewhere whose clock is not settled yet
  pending,    \* per device, the command it has no answer to
  refused,    \* the commands a device was told are refused
  astray,     \* history: the refused commands of which such a copy was carried out
  ids, troubles

told == <<refused, astray>>
vars == <<now, store, receipts, commands, late, propagated, settling, pending, told,
          ids, troubles>>

NoCommand == [id |-> 0]
NoStamp == [op |-> 0, rev |-> 0, set |-> FALSE]
NewItem == [status |-> "queued", brk |-> NoStamp, due |-> 0, gen |-> 0,
            notified |-> FALSE, mark |-> NoStamp]
NoItem == [NewItem EXCEPT !.status = "none"]
-----------------------------------------------------------------------------
(***************************************************************************)
(* Reading a row and its item.                                             *)
(***************************************************************************)
\* What a pause or a break was recorded against.
Stamp(r) == [op |-> r.op, rev |-> r.crev, set |-> TRUE]

isForegroundBreak(r, i) ==
  i.status = "foreground" /\ r.active = 0 /\ i.brk = Stamp(r) /\ ~r.done

\* classify, of a task that is not removed: running or on a break.
InForeground(s, t) ==
  LET r == s.row[t] IN
  ~r.gone /\ ~r.done /\ (r.active # 0 \/ isForegroundBreak(r, s.item[t]))

Running(s) == {t \in Task : ~s.row[t].gone /\ s.row[t].active # 0}

\* Variant for mutation testing: a break elsewhere is overlooked.
ClockElsewhere(s, w) == \E t \in Task : Home[t] # w /\ t \in Running(s)

otherWorkspaceForeground(s, w) ==
  \E t \in Task : Home[t] # w /\ (t \in Running(s) \/ InForeground(s, t))

\* checkInState: the last sign of attention, what may follow it, and the hard stop.
anchor(r, at) == IF r.checkIn >= r.active /\ r.checkIn <= at THEN r.checkIn ELSE r.active

autoPauseAt(r, at) ==
  IF anchor(r, at) + AutoPause < r.active + HardStop THEN anchor(r, at) + AutoPause
                                                     ELSE r.active + HardStop

Cutoff(r, at) == IF autoPauseAt(r, at) < at THEN autoPauseAt(r, at) ELSE at

ValidReminder(r, i) ==
  /\ i.due # 0 /\ i.mark = Stamp(r)
  /\ ~r.done /\ r.active = 0 /\ ~isForegroundBreak(r, i)
-----------------------------------------------------------------------------
(***************************************************************************)
(* lib/working-queue.js.                                                   *)
(***************************************************************************)
ensure(i) == IF i = NoItem THEN NewItem ELSE i

clearReminder(i) ==
  [i EXCEPT !.due = 0, !.gen = 0, !.notified = FALSE, !.mark = NoStamp]

Remind(i, r, due, c) ==
  [i EXCEPT !.due = due, !.gen = c.id, !.notified = FALSE, !.mark = Stamp(r)]

\* The queue of one workspace is brought in line with its rows.
ReconciledItem(r, i) ==
  LET item == ensure(i)
      settled ==
        CASE r.done -> [clearReminder(item) EXCEPT !.status = "completed"]
          [] ~r.done /\ r.active # 0 -> [clearReminder(item) EXCEPT !.status = "foreground"]
          [] ~r.done /\ r.active = 0
             /\ \/ item.status = "completed"
                \/ item.status = "foreground" /\ ~isForegroundBreak(r, item) ->
               [clearReminder(item) EXCEPT !.status = "paused"]
          [] OTHER -> item
  IN  IF settled.due # 0 /\ settled.mark # Stamp(r) THEN clearReminder(settled)
                                                     ELSE settled

reconcile(s, w) ==
  [s EXCEPT !.item = [t \in Task |->
     IF Home[t] # w THEN s.item[t]
     ELSE IF s.row[t].gone \/ (s.item[t] = NoItem /\ s.row[t].active = 0) THEN NoItem
     ELSE ReconciledItem(s.row[t], s.item[t])]]

\* The item of a task gets a status; a pause that asks for a check-back is
\* remembered with what it was recorded against.
setStatus(i, r, status, c) ==
  LET base == [clearReminder(ensure(i)) EXCEPT
                   !.status = IF c.action = "needs-you" /\ i.status = "blocked"
                              THEN "blocked" ELSE status,
                   !.brk = NoStamp]
      away == IF status \in {"background", "blocked"}
              THEN [base EXCEPT !.mark = Stamp(r),
                                !.due = IF c.remind THEN c.at + Wait ELSE 0,
                                !.gen = IF c.remind THEN c.id ELSE 0]
              ELSE base
  IN  IF c.action = "needs-you"
      THEN [away EXCEPT !.due = c.at, !.gen = c.id, !.mark = Stamp(r)]
      ELSE away

Put(s, t, status, c) ==
  [s EXCEPT !.item[t] = setStatus(@, s.row[t], status, c)]

SetAside(s, T, c) ==
  [s EXCEPT !.item = [t \in Task |->
     IF t \in T THEN setStatus(s.item[t], s.row[t], "background", c) ELSE s.item[t]]]
-----------------------------------------------------------------------------
(***************************************************************************)
(* The clock: pauseForeground with pauseWork, startWork, continueWork.     *)
(***************************************************************************)
Begun(r, c) ==
  [r EXCEPT !.active = c.at, !.checkIn = 0, !.changed = c.at, !.op = c.id]

Halted(r, c) == [r EXCEPT !.active = 0, !.changed = c.at, !.op = c.id]

CheckedIn(r, c) == [r EXCEPT !.checkIn = c.at, !.changed = c.at, !.op = c.id]

Started(s, t, c) == [s EXCEPT !.row[t] = Begun(@, c)]

MayClose(s, T, c) ==
  \A t \in T : c.at > s.row[t].active /\ c.at >= s.row[t].changed

\* The sessions of T end and are recorded, up to where attention ended.
Closed(s, T, c) ==
  [s EXCEPT !.row = [t \in Task |-> IF t \in T THEN Halted(s.row[t], c) ELSE s.row[t]],
            !.entries = @ \cup {[task |-> t, from |-> s.row[t].active,
                                 to |-> Cutoff(s.row[t], c.at)] : t \in T}]

Closing(s, t) == {t} \cap Running(s)
-----------------------------------------------------------------------------
(***************************************************************************)
(* The commands: what each does to the database, as the set of its outcomes; *)
(* the empty set is a refusal, which rolls everything back.                *)
(***************************************************************************)
ApplyStart(s, c) ==
  LET displaced == {t \in Task : Home[t] = Home[c.task] /\ InForeground(s, t)} \ {c.task}
      closing == Running(s) \ {c.task}
      aside   == closing \cup {t \in displaced : isForegroundBreak(s.row[t], s.item[t])}
      away    == SetAside(Closed(s, closing, c), aside, c)
      alone   == IF s.row[c.task].active # 0 THEN away ELSE Started(away, c.task, c)
  IN  IF \/ otherWorkspaceForeground(s, Home[c.task])
         \/ s.row[c.task].done
         \/ ~c.legacy /\ displaced # c.fg
         \/ ~MayClose(s, closing, c)
         \/ c.at < s.row[c.task].changed
      THEN {} ELSE {Put(alone, c.task, "foreground", c)}

\* A pause without a lane of its own keeps the task in the foreground, on a
\* break, which lasts until the row changes.
ApplyPause(s, c) ==
  LET closing == Closing(s, c.task)
      after   == Closed(s, closing, c)
      hold    == /\ c.action = "pause" /\ ~s.row[c.task].done
                 /\ closing # {} \/ InForeground(s, c.task)
      held    == [after EXCEPT !.item[c.task] =
                    [setStatus(@, after.row[c.task], "foreground", c) EXCEPT
                       !.brk = Stamp(after.row[c.task])]]
  IN  IF ~MayClose(s, closing, c) THEN {}
      ELSE {IF hold THEN held ELSE Put(after, c.task, "paused", c)}

\* Variant for mutation testing: after an absence the session starts over.
ContinueAnew(s, c) ==
  LET r == s.row[c.task] IN
  IF r.active = 0 \/ c.at <= r.active \/ c.at < r.changed THEN {}
  ELSE {Started(s, c.task, c)}

ApplyContinue(s, c) ==
  LET r == s.row[c.task] IN
  IF r.active = 0 \/ c.at <= r.active \/ c.at < r.changed THEN {}
  ELSE IF c.at < autoPauseAt(r, c.at)
  THEN {[s EXCEPT !.row[c.task] = CheckedIn(@, c)]}
  ELSE IF r.done THEN {}
  ELSE {Started(Put(Closed(s, {c.task}, c), c.task, "paused", c), c.task, c)}

\* The canonical completion of the row, in the same transaction.
Completed(r) ==
  IF r.done THEN r ELSE [r EXCEPT !.done = TRUE, !.crev = @ + 1]

ApplyDone(s, c) ==
  LET closing == Closing(s, c.task)
      closed  == Closed(s, closing, c)
      after   == [closed EXCEPT !.row[c.task] = Completed(@)]
  IN  IF c.at < s.row[c.task].changed \/ ~MayClose(s, closing, c) THEN {}
      ELSE {Put(after, c.task, "completed", c)}

ApplyAside(s, c) ==
  LET closing == Closing(s, c.task)
      lane    == IF c.action = "queue-block" THEN "blocked" ELSE "background"
  IN  IF s.row[c.task].done \/ ~MayClose(s, closing, c) THEN {}
      ELSE {Put(Closed(s, closing, c), c.task, lane, c)}

\* A check-back is acted on only as the generation that was seen.
Current(s, c) ==
  LET r == s.row[c.task]
      i == s.item[c.task]
  IN  i # NoItem /\ ~r.done /\ r.active = 0 /\ i.gen = c.gen

Claimable(i) == i.due <= now /\ ~i.notified
Claimed(i) == [i EXCEPT !.notified = @ \/ Claimable(i)]

ApplyClaim(s, c) ==
  IF Current(s, c) /\ ValidReminder(s.row[c.task], s.item[c.task])
  THEN {[s EXCEPT !.item[c.task] = Claimed(@)]}
  ELSE {}

\* Variant for mutation testing: the wait is added to the instant it was due.
SnoozeFromDue(s, c) ==
  IF Current(s, c)
  THEN {[s EXCEPT !.item[c.task] = Remind(@, s.row[c.task], @.due + Wait, c)]}
  ELSE {}

ApplySnooze(s, c) ==
  IF Current(s, c)
  THEN {[s EXCEPT !.item[c.task] = Remind(@, s.row[c.task], c.at + Wait, c)]}
  ELSE {}

ApplyRemove(s, c) ==
  IF s.item[c.task] = NoItem \/ s.row[c.task].active # 0 THEN {}
  ELSE {[s EXCEPT !.item[c.task] = NoItem]}

ApplyDismiss(s, c) ==
  IF Current(s, c) /\ ValidReminder(s.row[c.task], s.item[c.task])
  THEN {[s EXCEPT !.item[c.task] = clearReminder(@)]}
  ELSE {}

ApplyAdd(s, c) ==
  IF s.row[c.task].done THEN {} ELSE {[s EXCEPT !.item[c.task] = ensure(@)]}

\* Back to the list, from a break as well.
Returned(i) == [i EXCEPT !.status = "queued", !.brk = NoStamp]

ApplyReturn(s, c) ==
  LET r == s.row[c.task]
      i == s.item[c.task]
  IN  IF i = NoItem \/ r.active # 0 \/ r.done \/ i.status = "blocked" \/ ValidReminder(r, i)
      THEN {} ELSE {[s EXCEPT !.item[c.task] = Returned(@)]}

ApplyUnblock(s, c) ==
  IF s.item[c.task] = NoItem THEN {} ELSE {Put(s, c.task, "queued", c)}

\* A note changes nothing here but the revision.
ApplyNote(s, c) == IF s.item[c.task] = NoItem THEN {} ELSE {s}

ClockAction == {"start", "pause", "needs-you", "continue", "done", "background-start",
                "queue-block"}

QueueAction == {"queue-snooze", "queue-remove", "queue-dismiss", "queue-add",
                "queue-return", "queue-unblock", "queue-note"}

Applied(s, c) ==
  CASE c.action = "start" -> ApplyStart(s, c)
    [] c.action \in {"pause", "needs-you"} -> ApplyPause(s, c)
    [] c.action = "continue" -> ApplyContinue(s, c)
    [] c.action = "done" -> ApplyDone(s, c)
    [] c.action \in {"background-start", "queue-block"} -> ApplyAside(s, c)
    [] c.action = "queue-claim" -> ApplyClaim(s, c)
    [] c.action = "queue-snooze" -> ApplySnooze(s, c)
    [] c.action = "queue-remove" -> ApplyRemove(s, c)
    [] c.action = "queue-dismiss" -> ApplyDismiss(s, c)
    [] c.action = "queue-add" -> ApplyAdd(s, c)
    [] c.action = "queue-return" -> ApplyReturn(s, c)
    [] c.action = "queue-unblock" -> ApplyUnblock(s, c)
    [] c.action = "queue-note" -> ApplyNote(s, c)

\* Variant for mutation testing: a command may be older than the clock's last change.
ExecuteLate(c) ==
  IF store.row[c.task].gone \/ (~c.legacy /\ store.rev # c.rev) THEN {}
  ELSE {[s EXCEPT !.rev = @ + 1,
                  !.changed = IF c.action \in ClockAction /\ c.at > @ THEN c.at ELSE @] :
          s \in Applied(reconcile(store, Home[c.task]), c)}

\* execute, of a command that has no receipt.
Execute(c) ==
  IF \/ store.row[c.task].gone
     \/ ~c.legacy /\ store.rev # c.rev
     \/ c.action \in ClockAction /\ c.at < store.changed
  THEN {}
  ELSE {[s EXCEPT !.rev = @ + 1,
                  !.changed = IF c.action \in ClockAction /\ c.at > @ THEN c.at ELSE @] :
          s \in Applied(reconcile(store, Home[c.task]), c)}
-----------------------------------------------------------------------------
(***************************************************************************)
(* Devices.                                                                *)
(***************************************************************************)
\* The actions that name the generation of a check-back.
CheckBack == {"queue-claim", "queue-snooze", "queue-dismiss"}

\* A device reads the state and makes a command of it.
Command(action, t, remind) ==
  [id |-> ids + 1, action |-> action, task |-> t, rev |-> store.rev, at |-> now,
   remind |-> remind, legacy |-> FALSE,
   gen |-> IF action \in CheckBack THEN store.item[t].gen ELSE 0,
   fg |-> {u \in Task \ {t} : action = "start" /\ Home[u] = Home[t] /\ InForeground(store, u)}]

\* The controls a card has.  A task with a check-back ahead can be returned only
\* when it was not snoozed, which is left out.
Offered(action, t) ==
  LET r == store.row[t]
      i == store.item[t]
  IN  /\ ~r.gone /\ ~r.done
      /\ CASE action = "start" -> r.active = 0
           [] action \in {"pause", "background-start"} -> InForeground(store, t)
           [] action = "continue" -> r.active # 0
           [] action \in {"queue-snooze", "needs-you", "queue-remove"} ->
                i # NoItem /\ ~InForeground(store, t)
           [] action = "queue-dismiss" -> ValidReminder(r, i)
           [] action = "queue-add" -> i = NoItem
           [] action = "queue-return" -> i # NoItem /\ r.active = 0 /\ i.due = 0
           [] action = "queue-unblock" -> i.status = "blocked"
           [] action = "queue-note" -> i # NoItem
           [] action \in {"done", "queue-block"} -> TRUE

\* One unanswered command at a time; it is kept in local storage and sent again
\* until there is an answer.
Send(d) ==
  /\ pending[d] = NoCommand
  /\ ids < MaxIds
  /\ \E t \in Task, action \in ClockAction \cup QueueAction :
       /\ Offered(action, t)
       /\ pending' = [pending EXCEPT ![d] =
            Command(action, t, action \in {"background-start", "queue-block"})]
  /\ commands' = commands \cup {pending'[d]}
  /\ ids' = ids + 1
  /\ UNCHANGED <<now, store, receipts, propagated, settling, told, late, troubles>>

\* tick: a check-back that is due is claimed before it is announced.
SendClaim ==
  /\ ids < MaxIds
  /\ \E t \in Task :
       /\ ValidReminder(store.row[t], store.item[t]) /\ Claimable(store.item[t])
       /\ commands' = commands \cup {Command("queue-claim", t, FALSE)}
  /\ ids' = ids + 1
  /\ UNCHANGED <<now, store, receipts, propagated, settling, pending, told, late, troubles>>

\* coordinate (lib/task-timing.js): a command with no revision, of nothing seen.
LegacyCommand(id, action, t, at) ==
  [id |-> id, action |-> action, task |-> t, rev |-> 0, at |-> at,
   remind |-> FALSE, legacy |-> TRUE, gen |-> 0, fg |-> {}]

\* The older surfaces start and pause a task in this way.
SendLegacy ==
  /\ ids < MaxIds
  /\ troubles < MaxTroubles
  /\ troubles' = troubles + 1
  /\ \E t \in Task, action \in {"start", "pause"} :
       /\ Offered(action, t)
       /\ commands' = commands \cup {LegacyCommand(ids + 1, action, t, now)}
  /\ ids' = ids + 1
  /\ UNCHANGED <<now, store, receipts, propagated, settling, pending, told, late>>
-----------------------------------------------------------------------------
(***************************************************************************)
(* The coordinator.                                                        *)
(***************************************************************************)
Receipt(c) == {r \in receipts : r.id = c.id}

\* A command with a receipt changes nothing, any other is carried out, or
\* refused, whole.
Outcome(c) == IF Receipt(c) # {} THEN {} ELSE Execute(c)

NewReceipt(c, s) ==
  [id |-> c.id, done |-> s.row[c.task].done /\ ~store.row[c.task].done]

\* Variant for mutation testing: the revision is looked at before the receipts.
ServedRevisionFirst(c, out) == c.legacy \/ store.rev = c.rev

\* The device is told that its command was carried out: of one that was committed
\* before, its receipt tells.
Served(c, out) == Receipt(c) # {} \/ out # {}

\* The transaction.  It counts the revision up, so that a copy which was late before
\* is refused for good.
Commit(c, out) ==
  IF out = {} THEN UNCHANGED <<store, receipts>>
  ELSE \E s \in out :
         /\ store' = s
         /\ receipts' = receipts \cup {NewReceipt(c, s)}

\* Variant for mutation testing: a replay does not hand its completion on.
PropagateFirst(c) ==
  propagated' = propagated \cup
    {r.id : r \in {x \in receipts' \ receipts : x.id = c.id /\ x.done}}

\* After the commit the completion is handed on to the cadence clock, of a
\* replay as well.
Propagate(c) ==
  propagated' = propagated \cup
    {r.id : r \in {x \in receipts' : x.id = c.id /\ x.done}}

\* A device gives a request up after fifteen seconds and sends the same body again
\* later.  A first copy that arrives before the answer is one whose answer is lost
\* (LoseAnswer); one of a command that was carried out finds the receipt.  One that
\* comes after a refusal may be carried out while the revision is the same.
LeftBehind(c) ==
  /\ \E d \in Device : pending[d] = c
  /\ store.rev = c.rev
  /\ Cardinality(late) < MaxLate
  /\ late' = late \cup {c}

\* The copies that may still be carried out.
StillLate(out) == IF out = {} THEN late ELSE {}

\* The command is served and the device has its answer.
Serve(c) ==
  LET out == Outcome(c) IN
  /\ Commit(c, out)
  /\ Propagate(c)
  /\ refused' = IF Served(c, out) THEN refused ELSE refused \cup {c.id}
  /\ commands' = commands \ {c}
  /\ pending' = [d \in Device |-> IF pending[d] = c THEN NoCommand ELSE pending[d]]
  /\ \/ late' = StillLate(out)
     \/ ~Served(c, out) /\ LeftBehind(c)
  /\ UNCHANGED <<now, settling, astray, ids, troubles>>

\* The process dies between the commit and what follows it.
Die ==
  /\ troubles < MaxTroubles
  /\ troubles' = troubles + 1
  /\ settling' = {}
  /\ UNCHANGED propagated

\* The answer is lost: after everything was done, or because the process died.  The
\* loss of a refusal leaves everything as it is, and is left out.
LoseAnswer(c) ==
  /\ Served(c, Outcome(c))
  /\ Commit(c, Outcome(c))
  /\ late' = StillLate(Outcome(c))
  /\ \/ /\ troubles < MaxTroubles
        /\ troubles' = troubles + 1
        /\ Propagate(c)
        /\ UNCHANGED settling
     \/ Die
  /\ UNCHANGED <<now, commands, pending, told, ids>>

\* Such a copy arrives after all and is carried out: nobody hears the answer.  One
\* that is refused again might as well not come.
ServeLate(c) ==
  /\ Outcome(c) # {}
  /\ Commit(c, Outcome(c))
  /\ late' = {}
  /\ astray' = astray \cup {c.id}
  /\ \/ Propagate(c) /\ UNCHANGED <<settling, troubles>>
     \/ Die
  /\ UNCHANGED <<now, commands, pending, refused, ids>>
-----------------------------------------------------------------------------
(***************************************************************************)
(* The completion route and deletion: outside the coordinator's revision.  *)
(***************************************************************************)
\* POST /api/tasks/:taskRef/completion commits the transition of the row; the
\* clock is settled after the commit, from the row that was returned, as of the
\* click, unless the row's clock has changed since that (isStaleWorkEvent).
Toggle(t) ==
  /\ troubles < MaxTroubles
  /\ ~store.row[t].gone
  /\ \E click \in 1..now :
       LET r == [store.row[t] EXCEPT !.done = ~@, !.crev = @ + 1]
           x == [task |-> t, row |-> r, id |-> MaxIds + 2 * troubles + 2, at |-> click]
       IN  /\ store' = [store EXCEPT !.row[t] = r]
           /\ settling' = settling \cup (IF click < r.changed THEN {} ELSE {x})
  /\ troubles' = troubles + 1
  /\ UNCHANGED <<now, receipts, commands, propagated, pending, told, late, ids>>

\* normalizeCompletionWork, completeWork: a session that was running is paused
\* through the coordinator, as an operation of its own; when that is refused the
\* request ends.
SettlePause(x) ==
  /\ x.row.done /\ x.row.active # 0
  /\ LET c == LegacyCommand(x.id - 1, "pause", x.task, x.at)
     IN  \/ \E s \in Execute(c) :
              /\ store' = s
              /\ settling' = (settling \ {x}) \cup {[x EXCEPT !.row = s.row[x.task]]}
         \/ /\ Execute(c) = {}
            /\ settling' = settling \ {x}
            /\ UNCHANGED store
  /\ UNCHANGED <<now, receipts, commands, propagated, pending, told, late, ids, troubles>>

\* Then the bag that was read is written back without a running session;
\* reopenWork does the same.
SettleWrite(x) ==
  /\ x.row.done => x.row.active = 0
  /\ settling' = settling \ {x}
  /\ store' = IF store.row[x.task].gone THEN store
              ELSE [store EXCEPT !.row[x.task] = Halted(@, x)]
  /\ UNCHANGED <<now, receipts, commands, propagated, pending, told, late, ids, troubles>>

\* A task whose clock has been paused is deleted.
Delete(t) ==
  /\ store.row[t].active = 0 /\ ~store.row[t].gone
  /\ troubles < MaxTroubles
  /\ troubles' = troubles + 1
  /\ store' = [store EXCEPT !.row[t] = [@ EXCEPT !.gone = TRUE]]
  /\ UNCHANGED <<now, receipts, commands, propagated, settling, pending, told, late, ids>>

Tick ==
  /\ now < MaxTime
  /\ now' = now + 1
  /\ UNCHANGED <<store, receipts, commands, propagated, settling, pending, told, late,
                 ids, troubles>>
-----------------------------------------------------------------------------
Init ==
  /\ now = 1
  /\ store = [row  |-> [t \in Task |-> [active |-> 0, checkIn |-> 0, changed |-> 0,
                                       op |-> 0, done |-> FALSE, crev |-> 0,
                                       gone |-> FALSE]],
              item |-> [t \in Task |-> NoItem],
              rev |-> 0, changed |-> 0, entries |-> {}]
  /\ receipts = {}
  /\ commands = {}
  /\ late = {}
  /\ propagated = {}
  /\ settling = {}
  /\ pending = [d \in Device |-> NoCommand]
  /\ refused = {} /\ astray = {}
  /\ ids = 0
  /\ troubles = 0

Next ==
  \/ \E d \in Device : Send(d)
  \/ SendClaim
  \/ SendLegacy
  \/ \E c \in commands : Serve(c) \/ LoseAnswer(c)
  \/ \E c \in late : ServeLate(c)
  \/ \E t \in Task : Toggle(t) \/ Delete(t)
  \/ \E x \in settling : SettlePause(x) \/ SettleWrite(x)
  \/ Tick

Spec == Init /\ [][Next]_vars

-----------------------------------------------------------------------------
Instant == 0..MaxTime
Identity == 0..(MaxIds + 2 * MaxTroubles)
StampShape == [op : Identity, rev : Nat, set : BOOLEAN]

Row == [active : Instant, checkIn : Instant, changed : Instant, op : Identity,
        done : BOOLEAN, crev : Nat, gone : BOOLEAN]

Item == [status : {"none", "queued", "foreground", "background", "blocked", "paused",
                   "completed"},
         brk : StampShape, due : 0..(MaxTime + Wait), gen : Identity,
         notified : BOOLEAN, mark : StampShape]

\* The shape of the variables the coordinator keeps.
TypeOK ==
  /\ now \in 1..MaxTime
  /\ store.row \in [Task -> Row]
  /\ store.item \in [Task -> Item]
  /\ store.rev \in Nat /\ store.changed \in Instant
  /\ store.entries \subseteq [task : Task, from : Instant, to : Instant]
  /\ receipts \subseteq [id : Identity, done : BOOLEAN]
  /\ propagated \subseteq Identity
  /\ refused \subseteq Identity /\ astray \subseteq Identity
  /\ ids \in Identity /\ troubles \in 0..MaxTroubles

\* "One foreground task spans the account" (docs/conversational-integration.md):
\* at most one task is shown in the foreground, running or on a break, over all
\* workspaces; and at most one clock runs, without the database's index having
\* to refuse anything.
OneForeground ==
  /\ \A t, u \in Task : InForeground(store, t) /\ InForeground(store, u) => t = u
  /\ \A t, u \in Running(store) : t = u

\* No instant is recorded as work twice: sessions do not overlap one another,
\* nor the session that is running.
WorkCountedOnce ==
  /\ \A e, f \in store.entries : e # f => e.to <= f.from \/ f.to <= e.from
  /\ \A e \in store.entries :
       e.from < e.to /\ \A t \in Running(store) : e.to <= store.row[t].active

\* A command that its device was told is refused was not carried out, whatever
\* was lost or repeated on the way; unless a copy that the device had given up on
\* came after the refusal, at the revision it was made at, which nothing keeps from
\* being carried out.
RefusedNotDone == \A r \in receipts : r.id \in refused => r.id \in astray

\* A session that was running ends up in the record.  Only the completion
\* route's late write of the row can drop one, when a session was started, or a
\* completion left unsettled, behind its back.
NoWorkLost ==
  [][\A t \in Task :
       store.row[t].active \notin {0, store'.row[t].active} =>
         \/ \E e \in store'.entries : e.task = t /\ e.from = store.row[t].active
         \/ \E x \in settling : x.task = t /\ x \notin settling']_vars

\* A completion committed by a command reaches the cadence clock before its
\* device has an answer, so that a process that dies after the commit leaves the
\* device asking again ("A crash after commit can be recovered by the same
\* idempotent retry", conversation-store.js).  A command that was carried out by such
\* a copy after it was refused is not asked for again.
EffectOwed ==
  \A r \in receipts :
    r.done => r.id \in propagated \cup astray \/ \E d \in Device : pending[d].id = r.id

=============================================================================
