# A formal model of Daily Command Center

Daily Command Center is a planner: a Node/Express server over PostgreSQL, a
browser app that goes on working while it is offline, a handwriting notebook
and a Markdown vault kept in git. This directory holds TLA+ modules that model
the parts of it where several actors share state, the TLC configurations that
check them on small instances, and theorems that TLAPS proves for every value
of the constants.

## 1. Inventory

Paths are relative to the repository. "Model" names the module, or says that
there is none yet; `PROJECT.json` has the same list with every source file.

| Component | State | Operations | Talks to | Model |
|---|---|---|---|---|
| Completion boundary (`db.js`, `lib/task-completion.js`) | `blocks.properties`: `done`, `completionRevision`, `completionMutationId` | `setTaskCompletion`, `updateBlock`, `preserveCompletionProps` | the offline client by HTTP, the cadence by a callback after commit | `Completion` |
| Offline completion client (`public/js/block-store.js`) | write-ahead log and dead letters in localStorage, day cache, request chains, rollback rows | click, send, replay, retry, reject, roll back, read | the server by HTTP, other tabs by localStorage and `navigator.locks` | `Completion` |
| Delta sync (`sync-store.js`, `pg-schema.js`, `block-store.js`) | `sync_events`, `sync_prune_watermarks`, the tab's cursor and day cache | trigger, prune, `bootstrap`, `pull`, `pullSyncChanges` | a broadcast that may be lost, a five-minute timer | `DeltaSync` |
| Ink notebook (`public/js/ink/`) | pages in IndexedDB with `dirty`, the canvas, the upload loop | draw, save, turn, add, delete, `syncNow`, `markSynced` | the vault's ingest route | `InkSync` |
| Cadence of repeating responsibilities (`responsibility-store.js`, `lib/recurrence.js`, `db.js`) | one definition row: last and previous completion, the instance in flight | schedule, mint and register, complete, reopen, skip, pause, resume, `propagateResponsibilityDone`, `resolveOpenInstances` | the completion transaction, each read of the list | `Cadence` |
| Vault git sync (`sync-manager.js`) | working tree, index, HEAD, remote; the queue and its file; two timers | `notifyChange`, commit, push, pull, flush, init | writers of the vault, the git remote, other clones | `VaultSync` |
| Task trees (`db.js`, `routes/blocks.js`) | rows with parents, receipts of deletions, locks | delete a tree, restore it, add a subtask; complete with descendants, prerequisite links | completion, moves | `TaskTree`, without completion and links |
| Subtree reschedule and batches (`db.js`, `lib/reschedule.js`) | rows with dates and versions, tombstones, locks | plan and `rescheduleBlocks`, `batchOp` | each other, deletions | `TaskTree` |
| Conversation commands, working queue (`conversation-store.js`, `lib/working-queue.js`, `lib/task-timing.js`) | receipts and revision, queue items with breaks and check-backs, the clock of each row, time entries | `execute` with fifteen kinds of command; the completion route's settling of the clock | devices that repeat, older surfaces, the cadence after commit | `WorkingQueue` |
| Points for completed tasks (`slot-store.js`, `lib/task-credit-keys.js`) | a ledger and a balance | `earnTaskCredit` with its top-up, `revokeTaskCredit` | every surface that completes a task, each with its own spelling of the task's key | `TaskCredit` |
| Slot machine, reward bank (`slot-store.js`, `reward-vault-store.js`) | spins, balance, bank | spin, store, withdraw | the balance | not modelled |
| Budget tank | waterline, claims | claim, roll over | one transaction each | not modelled |
| Live channel, refresh coordination (`public/js/live-channel.js`, `refresh-coordinator.js`, `lib/public-sse.js`) | the stream, the probe and the read under way of a page; the hub's streams and pings | open, probe, resume, revoke, coalesce; register, ping, close | writers of the day by a broadcast, the feed by HTTP | `LiveView` |
| Reimbursements, social grants, meetings, sessions, feature stores, planning algorithms, user interface | see `PROJECT.json` | | | not modelled |

### What makes each part hard, and what makes it correct

- **Completion.** Answers get lost, requests arrive after their tab has given
  up, tabs share one log, tabs crash, ordinary edits send the whole properties
  bag. Correct means: no click vanishes; only a click moves the row, once, to
  the state it asks for; one device's clicks act in their order; a pending
  click stays visible; everything settles.
- **Delta sync.** Event numbers are handed out before commit; the three queries
  of a pull are separate; the prune runs between them; the tab writes, changes
  day and drops answers while it pulls. Correct means: a tab whose view is
  wrong still has the event that corrects it ahead of its cursor.
- **Ink.** Every IndexedDB operation is read, then write, in two transactions.
  Correct means: a record that is not queued holds strokes that have arrived.
- **Cadence.** Two writers keep one row, one of them with locks and revisions
  and the other without, and the responsibility's own routes write it back from an
  old read; updates are lost and redelivered. Correct means: a
  completion counts once, reopening can put the clock back, no pause outlives
  its instance.
- **Vault.** Commits and pushes overlap, fail and are rejected; the process
  dies between them. Correct means: what is not on the remote is reported as
  pending, and gets there.
- **Task trees.** A move plans outside its transaction, over rows that others move,
  edit, delete and extend; requests lock rows in different orders; each may
  come again. Correct means: a tree stays together, nothing is undone, a deletion
  acts once, nobody waits for ever.
- **Working queue.** Commands come late, twice, from several devices and without a
  revision; the process dies between commit and effect; the completion route
  writes beside the coordinator. Correct means: one task in the foreground over all
  workspaces, no instant worked twice or lost, no refusal of what was done.
- **Live view.** A stream says only that something changed, breaks, hangs, is
  refused; a probe outlives the stream it was started for. Correct means: nothing
  is missed while connected, a page is never without a way back, a revoked page
  stays cleared.
- **Points.** Two spellings of a key, labels that several rows share, and an earn
  that is four separate queries. Correct means: a task is paid once, the
  balance is what the ledger explains, a revoke takes its own task's credit.

`PROJECT.json` lists the hazards, each at its line, with the properties that
watch it or the reason why none does.

## 2. The modules and the code

### CompletionRegister, Completion

`CompletionRegister` is the promise: clicks ask for a state of one task,
each click moves the row at most once and to the state it asked for.

`Completion` is one task row, its server half and any number of tabs.

| Model | Code |
|---|---|
| `row`, `Outcome`, `Committed`, `ServeRequest`, `ServeLate` | `setTaskCompletion` and `completedProps`/`reopenedProps` of `db.js` |
| `OrdinaryWrite`, `PreserveCompletion` | `updateBlock`, `preserveCompletionProps` |
| `wal`, `Superseding`, `Without`, `Bury` | `walPush`, `walRemove`, `walMoveToDeadLetter` |
| `cache`, `Overlay` | `cacheSet`, `overlayPendingCompletion` |
| `chain`, `SendLive`, `SendReplay`, `LockFree` | the per-row chain of requests and the `navigator.locks` section |
| `ReceiveOk`, `Retry`, `Reject`, `ReceiveRefusal`, `LoseConnection` | the branches after an answer, in live requests and in replays |
| `base`, `Kept` | the rollback row |
| `StartReplay` | `replayWAL`, whichever trigger calls it |
| `Refresh`, `SlowRead`, `SlowAnswer` | a read of the row: at once, or with its answer overtaken |

A request that its sender gives up on may be dead, or may still be on its way:
`late` holds the second kind, and `ServeLate` may serve it at any time, never
or after everything else. Revisions are random ids in the code and numbers
here; mutation ids are the positions of the clicks. `log` and `acked` are
history.

### DeltaSync

The statement of a write takes its event's number (`Begin`) and makes it
visible later (`Commit`, `Abort`), so that numbers and visibility may be in
different orders. A pull goes through the stages of `sync-store.js`
(`ReadFloor`, `ReadEvents`, `ReadRows`), each of them a query of its own, or
through `bootstrap`, which is one snapshot; then its answer is applied or
dropped (`ReceiveDelta`, `ReceiveSnapshot`). `Save` and `Saved` are the tab's
own writes, `Notice` the broadcast, `LoadDay` the timer and the navigation. The
version of a row stands for its content.

### InkSync

`SaveRead`/`SavePut`, `DeleteRead`/`DeletePut` and `MarkRead`/`MarkPut` are the
read and write transactions of `savePage`, `deletePage` and `markSynced`; the
sync loop is `List`, `Take`, `Ingest` or `UploadFails`, `EndPass`. The strokes
of a page are the number of the change that made them, so that the content
hash is an exact comparison (the collision of two 32-bit hashes is left out).

### Cadence

The transitions of `lib/recurrence.js` are operators of the same names.
`Toggle` commits an instance's row and leaves an effect to be propagated;
`Propagate` is the eager writer with its revision check and its replay check;
`ReconcileRead`/`ReconcileWrite` are the derived writer, which writes what it
computed from an earlier read. `ScheduleRead`, `ScheduleCreate` and
`ScheduleStamp` are the three steps of scheduling on the server; `Mint` and
`AskInstance` are the browser's: it makes the instance and registers it when the
row and its subtasks are stored. `AskComplete` and `AskOther` are the other requests
on the responsibility: each reads the row (`Ask`) and writes all of it back (`Answer`).
Of skip, pause, resume and the form only that matters here.

### VaultSync

Writes of the vault are numbered; the tree, the index, HEAD and the remote are
the number of the last write that they have. `worker` holds the runs of the
timers and of the flush route that are under way at once; `_runGit` runs one
command at a time, which is what one action is; the order in which the commands
of different runs get their turn is left open. Every pull is with `--rebase
--autostash`, and the stash is applied without `--index`: what a run has added and
not yet committed may be no longer staged afterwards. `Unstage` says so, in the pull
of a rejected push (`PullRebase`), in one that fails (`PushFails`), in `init()`
(`Restart`) and in that of the five-minute timer. The last one looks at the queue
before it joins the commands of `_runGit` (`PullDue`, `QueuePull`: `pulling`), so
that its turn (`BackgroundPull`) may come between the commands of a run that
started since.

`dropped` and `failed` are history. A commit clears `pendingCommits` whatever it
has: `dropped` has the announcements it discards without their write, because they
came in while it ran or because a pull had unstaged the write, and `failed` those that
were pending when a commit failed. The state, its shape and the properties are in
`VaultState`, so that the proofs can speak of them.

### TaskCredit

A key is a row or a label (`properties.local_id`); `Named` is the candidate set of
the closure query, `Spellings` its keys, `Ambiguous` its count of live rows.
`run` holds the calls under way. Each query of `earnTaskCredit` is an action,
because each is a transaction: `Find` (or `FindExact`, when the closure query
fails), `Insert`, `FindAgain` after a lost race, `Raise` for the top-up, `Bank` for
the balance. `revokeTaskCredit` is `FindToRevoke` and `Delete`, the second one with
the debit. `Die` ends a call between two of its queries. The date half of a key
is left out: the closure holds it fixed. A row that has no label in the code
has one here that nobody presents.

The properties name the windows that the code leaves open, by three histories:
`blind` (a task for which an earn could not see another spelling that was about
to be inserted, or whose closure query failed), `stale` (a top-up overwrote a
row that was not as it was read), `died` (an earn ended between ledger and
balance).

### WorkingQueue

| Model | Code |
|---|---|
| `Execute`, `Outcome`, `Commit`, `Receipt` | `execute` of `conversation-store.js`: the receipt first, then the revision and the instant, then the command, in one transaction under the account's lock |
| `ApplyStart`, `ApplyPause`, `ApplyContinue`, `ApplyDone`, `ApplyAside` | its branches, with `pauseForeground`, `pauseWork` and `startWork` |
| `ApplyClaim`, `ApplySnooze`, `ApplyDismiss`, `ApplyAdd`, `ApplyRemove`, `ApplyReturn`, `ApplyUnblock`, `ApplyNote` | `metadata` of `lib/working-queue.js` |
| `reconcile`, `setStatus`, `isForegroundBreak`, `Stamp` | the queue brought in line with its rows; a break or a check-back holds as long as the row's operation and revision are those it was recorded against |
| `anchor`, `autoPauseAt`, `Cutoff` | `checkInState`: time unattended, or beyond the eight-hour hard stop, is not work |
| `Send`, `SendClaim`, `SendLegacy` | a device with its one unanswered command, the check-back timer, `coordinate` for the older surfaces |
| `LoseAnswer`, `Propagate` | the answer is lost, or the process dies after the commit; the effect on the cadence clock follows the commit, of a replay as well |
| `LeftBehind`, `ServeLate`, `late` | a copy of a command that its device has given up on after fifteen seconds, and that comes after the retry was refused; `late` keeps those that may still be carried out, which ends when the revision is counted up (`StillLate`) |
| `Toggle`, `SettlePause`, `SettleWrite` | the completion route, with the check of `isStaleWorkEvent`, then `normalizeCompletionWork`, whose last write is of the bag it read |

`store` is the database, and a command a function from it to the set of its outcomes
(empty for a refusal, which rolls back). Instants and identities are small
numbers. `astray` is history: the commands that such a copy carried out after they were
refused. `Cadence` models what becomes of the effect that `propagated` only names.

### TaskTree

A request is a process with a phase. A move reads its root (`ReadParent`), the rows
that go with it (`ReadPool`, by the rules of `getRescheduleSubtreePool` and
`collectSubtreeBlockIds`), the tombstone (`LookForTombstone`), and then begins its
transaction; `Lock` takes one row lock at a time in the order that each kind of
request has, and refuses what is stale; `CommitMove`, `CommitDelete`,
`CommitRestore`, `CommitEdit` are the writes. `Deadlock` is PostgreSQL's. A version
stands for `updated_at` and differs for every write; `edits` stands for the
properties, which a move writes back as it read them. `apart` is history: rows
that may lie on another day than their parent, because they were moved on their
own, were added after a move of their tree had read its rows, came back to a
tree that may have moved, or were deleted a second time, with a tree that had moved
without them. `tombs` is a bag, since nothing in the schema makes a tombstone unique;
that there is one of a row on a day is proved. `BeginDelete` reads which rows are live
and takes its advisory lock in one step. `Forest` is what the constants assume of the
rows: a parent of each but the roots, and no circle.

### LiveView

The page is one record and the code's functions are operators on it: `Refreshed`,
`Continued` and `ReadEnded` are `refresh` of the coordinator with its trailing read;
`Opened`, `Probe`, `Probed`, `Reported`, `resume`, `Cleared` are those of the
channel; a probe awaits the read it started or the one after the read under way.
`wire` is what the server has written and the browser not yet delivered. On the
server `Commit` is followed by `Broadcast`, which sets one ping for several changes
(`Ping`), and `Disable` by `CloseStreams`. `Crash` forgets the first and the second;
`Silence`, `Break` and `LoseRead` are the network's. A delay is left out: a timer
that is set may fire at any time, but for the watchdog, which fires only when no
event comes.

## 3. What is checked

`MCCompletion`, `MCDeltaSync`, `MCInkSync`, `MCCadence`, `MCTaskCredit`, `MCWorkingQueue`
and `MCTaskTree` give the constants their values; `VaultSync` and `LiveView` have only
numbers and need no such module.

| Run | Instance | Properties | What it shows |
|---|---|---|---|
| `completion_devices` | 2 tabs of 2 browsers, 3 clicks, 1 fault, a row with no revision | `TypeOK`, `LogInClickOrder`, `RegisterSpec` | the row implements the register; a device's clicks move it in their order |
| `completion_tabs` | 2 tabs of 1 browser, 2 clicks, 1 fault, 1 ordinary edit | `Accounted`, `ShowsPending`, `MovedAsAsked`, `Settles` | no click vanishes, a pending one stays visible, all settles |
| `completion_lost_ack` | 1 tab, 2 clicks, 1 fault | `NewestIntentStands` | a finding, below |
| `delta_sync` | 2 rows, 2 days, pages of 1 event, 2 writes, 1 trouble, 1 day change | `TypeOK`, `NothingElseMissed`, `Converges` | the cursor is honest outside three named windows, and the tab converges |
| `ink_sync` | 2 pages, 2 strokes, 1 fault, 1 deletion | `TypeOK`, `NeverLeftBehind`, `VaultInStep`, `Drains` | a page is queued or has arrived; the queue drains |
| `ink_lost_stroke` | 1 page, 2 strokes, no fault | `ShownIsQueued` | a finding |
| `cadence` | 2 instances, 3 clicks, 1 of: lost update, request on the responsibility | `TypeOK`, `UndoKept`, `PauseEnds` | the undo value survives replays; pauses end |
| `vault_sync` | 2 runs at once and a pull of the timer, 2 writes, 2 troubles | `VaultTypeOK`, `PendingIsTold`, `SavedIsCommitted`, `ReachesRemote` | pending work is told, a saved announcement leaves the file only with a commit and does not stay in it, writes reach the remote; `dropped` and `failed` are all that is lost until the next write |
| `task_credit` | 2 calls at once, 5 in all, 2 tasks that share a label and 1 that does not, scores 1 and 2, 1 fault | `TypeOK`, `PaidOnce`, `BalanceExplained`, `RevokesItsOwn` | points are paid and taken back once, outside the named windows |
| `working_queue` | 2 tasks of 1 workspace and 1 of another, 1 device, 3 commands, 1 copy given up on, 3 instants, 1 trouble (a command of the older surfaces is one) | `TypeOK`, `OneForeground`, `WorkCountedOnce`, `RefusedNotDone`, `EffectOwed`, `NoWorkLost` | one foreground, no instant twice, no refusal of what is done but through a late copy, no effect forgotten, no session dropped but by the route's late write |
| `task_tree` | a task, a subtask and one added later, 2 days, 2 requests at once, 3 in all, 1 sent again | `TypeOK`, `NotStranded`, `NoneIsStuck`, `EditsKept`, `DeletedOnce` | trees stay together, edits stay, a deletion acts once, deadlocks end |
| `live_view` | 2 versions, 1 trouble | `TypeOK`, `NothingMissed`, `NeverAdrift`, `CatchesUp` | a connected page is up to date, a page always has a way back, the safety poll suffices |

Every property of a passing run has a mutant in `PROJECT.json`: a variant of a
mapped definition, kept next to it in the module, with which the property
fails. Some examples: a revision that is not compared, a log entry that is not
removed, a prune watermark that is not looked at, a content check that only
looks whether the page exists.

### Why the bounds are enough for the cases that matter

- Two tabs are the least that race for a log, or for a row. Two clicks make an
  older and a newer intent; the third lets a device overtake its own retry
  after another device has moved the row.
- One fault is spent on any of: a lost request, a lost answer, a late serving,
  a refusal, an overtaken read, a reload. The model only bounds the number.
- A page of one event makes two events two pages. Two open transactions are
  the least that commit in another order than they took their numbers.
- One deletion among two pages renumbers the other. Two strokes are an upload
  under way and an edit behind its back.
- Two instances of a responsibility are an older and a newer one; three
  clicks complete one, reopen it and complete one again, or complete it, reopen it
  and let a request on the responsibility write back what it read in between. Lost
  updates and such requests have one bound together; `UndoKept` is proved without any.
- Two runs of the vault overlap at every pair of git commands, and a pull of one of
  them or of the timer comes between any two of the other; two troubles
  are a rejected push whose second attempt fails, or a failure and a restart.
- Two spellings and two scores are the least for a double payment and a top-up;
  two calls race at every pair of queries, and five in all let a credit be
  banked, topped up and revoked, and earned again by a race. What two calls
  cannot show of `PaidOnce` and `RevokesItsOwn` is proved for any number. Two rows
  behind one label are what the strict lookup is about, and the third task
  shows that a revoke through an unambiguous label still works.

- Two tasks of one workspace displace one another, and a third in another
  workspace must not be overlooked; three instants let a session outlast the
  automatic pause of one and be ended by a later command. Three commands are
  one that breaks, one that starts and one that is late or repeated; one at a time may
  come once more after it was refused, and is carried out when a completion from
  outside has ended what it was refused for. One trouble is
  a completion or a deletion from outside, a command of the older surfaces, or a lost
  answer. With three instants and
  an automatic pause of one no check-in extends a session and the hard stop is never
  what ends it: these two are covered by the proofs alone. What more commands,
  instants and troubles could do is covered by the proofs, which reach every property
  of this run.
- Two requests overlap at every pair of queries and locks, and a third undoes what
  they did. The order of the ids is not that of the tree, so that id order and
  root-first order differ. What takes a fourth request (a row deleted twice, with a
  tree that moved in between) or a deeper tree is covered by the proofs.
- The first version is what a page reads when it opens, the second is missed or
  not. One trouble is a restart, a broken or silent stream, a full hub or a lost
  read; that safety holds for any number is proved.

`completion_devices` uses the symmetry of the tabs, `task_credit` that of the
two tasks with one label, `working_queue` that of the two tasks of one workspace and
`task_tree` that of the requests; they check no liveness, and their properties name
no particular tab, task or request. `CHECK_DEADLOCK FALSE` everywhere: with
the bounds spent, and nothing pending, each of these systems is at rest.

### Fairness, and what in the code justifies it

- `Completion`: a queued request is sent and answered and its answer handled
  (a `fetch` ends with an answer or an error, and the lock is released in every
  branch; `block-store.js` sets no timeout of its own, so that a hanging
  request ends rests on the browser and the server); the log is swept every 30
  seconds; a tab is told of changes, or loads its day again; a slow answer
  comes. No fairness for people or faults, and none for late requests, which
  may never arrive.
- `DeltaSync`: a pull's queries are answered, transactions commit, the tab's own write
  is acknowledged, and the timer of `public/js/sse.js` reloads the day shown every
  five minutes. The code has the timer pass while the page is hidden (276-277), while
  a person edits, drags or has a dialog open, during a reschedule and while writes are
  pending (52-59); only the last of these is in the model. So `Converges` is about a
  tab that is visible and not kept busy for ever. The broadcast has no fairness: it
  may be lost.
- `InkSync`: the debounce timer saves, IndexedDB requests finish, timers run,
  the server answers. Nothing makes the person draw, delete or restart.
- `Cadence`: the list is read again and again; an eager update that is not lost
  runs. Scheduling has no fairness: a request may die at any step.
- `VaultSync`: every git command ends (`_runGit` has a timeout), timers fire,
  writes are announced, the queue is saved. Pulls of the background timer are
  not needed for progress, and have no fairness: a rejected push pulls.
- `LiveView`: a process that stopped is started again, a read is answered or fails
  (the `fetch` at `public-todo-share.js:49` has no timeout and the coordinator has one
  read at a time, so that a hanging read ends rests on the browser), and the interval
  of the coordinator runs (the safety poll of 30 seconds). No fairness for the stream,
  its timers or the broadcast: `CatchesUp` holds without them.

`TaskCredit`, `WorkingQueue` and `TaskTree` have no fairness and no liveness: every
call may die, a device may stay away. The rest is weak fairness.

## 4. What is proved

`CompletionProofs`, `DeltaSyncProofs`, `TaskTreeProofs`, `VaultProofs` (of `InkSync` and,
by INSTANCE, of `VaultSync`: the two halves of a stroke's way to the git remote),
`TaskCreditProofs`, `CadenceProofs`, `LiveViewProofs` and `WorkingQueueProofs` hold
theorems of the specifications `Spec`, and five of `FairSpec`, for every value of the
constants that the modules' `ConstantsAssumption` allows (which for `VaultSync` the theorems
state as `Bounded`): any set of tabs and browsers, any finite set of
tasks and any sharing of labels, any finite forest of rows, any bounds.
The only bound that says more than its type is `MaxClicks <= 50`: the dead-letter
list keeps its last 50 entries, and with more clicks than that the oldest could be cut
off, which the model leaves out and `NoClickLost` would have to exclude.

| Theorem | States |
|---|---|
| `CompletionProofs!TypeCorrect` | `Spec => []TypeOK` |
| `CompletionProofs!NoClickLost` | `Spec => []Accounted` |
| `CompletionProofs!OnlyClicksMove` | `Spec => MovedAsAsked` |
| `CompletionProofs!PendingShown` | `Spec => []ShowsPending` |
| `CompletionProofs!ClicksInOrder` | `Spec => []LogInClickOrder`, if `OneTabEach` |
| `CompletionProofs!ImplementsRegister` | `Spec => RegisterSpec`, if `OneTabEach` |
| `DeltaSyncProofs!TypeCorrect` | `Spec => []TypeOK` |
| `DeltaSyncProofs!OnlyTheOvertakenMissed` | `Spec => []NothingElseMissed` |
| `TaskTreeProofs!TypeCorrect` | `Spec => []TypeOK` |
| `TaskTreeProofs!NotStrandedEver` | `Spec => []NotStranded` |
| `TaskTreeProofs!EditsKeptAlways` | `Spec => EditsKept` |
| `TaskTreeProofs!DeletedOnceOnly` | `Spec => DeletedOnce` |
| `TaskTreeProofs!NoneWaitsInVainEver` | `Spec => []NoneWaitsInVain`, if the requests at once are finitely many |
| `VaultProofs!VaultTypeCorrect` | `V!Spec => []VaultTypeOK` |
| `VaultProofs!PendingTold` | `V!Spec => []PendingIsTold` |
| `VaultProofs!SavedStaysUntilCommitted` | `V!Spec => SavedStays` |
| `TaskCreditProofs!TypeCorrect` | `Spec => []TypeOK` |
| `TaskCreditProofs!PaidOnceAlways` | `Spec => []PaidOnce` |
| `TaskCreditProofs!OwnCreditOnly` | `Spec => RevokesItsOwn` |
| `TaskCreditProofs!BalanceAlwaysExplained` | `Spec => []BalanceExplained`, if the labels are finite |
| `VaultProofs!TypeCorrect` | `Spec => []TypeOK` |
| `VaultProofs!NeverLeftBehindAlways` | `Spec => []NeverLeftBehind` |
| `VaultProofs!VaultAlwaysInStep` | `Spec => []VaultInStep` |
| `CadenceProofs!TypeCorrect` | `Spec => []TypeOK` |
| `CadenceProofs!UndoAlwaysKept` | `Spec => []UndoKept` |
| `WorkingQueueProofs!TypeCorrect` | `Spec => []TypeOK` |
| `WorkingQueueProofs!OneForegroundAlways` | `Spec => []OneForeground` |
| `WorkingQueueProofs!CountedOnceAlways` | `Spec => []WorkCountedOnce` |
| `WorkingQueueProofs!RefusedNotDoneAlways` | `Spec => []RefusedNotDone` |
| `WorkingQueueProofs!EffectOwedAlways` | `Spec => []EffectOwed` |
| `WorkingQueueProofs!NoWorkLostEver` | `Spec => NoWorkLost` |
| `LiveViewProofs!TypeCorrect` | `Spec => []TypeOK` |
| `LiveViewProofs!NeverAdriftAlways` | `Spec => []NeverAdrift` |
| `LiveViewProofs!NothingMissedAlways` | `Spec => []NothingMissed` |
| `DeltaSyncProofs!ConvergesAtLast` | `FairSpec /\ []CanRun => Converges`, once `Quiet` and the cursor moves up no more |
| `VaultProofs!SavedIsCommittedAtLast` | `V!FairSpec /\ []CanRun => SavedIsCommitted`, once `Quiet` |
| `VaultProofs!ReachesRemoteAtLast` | `V!FairSpec /\ []CanRun => ReachesRemote`, once `Quiet` |
| `CadenceProofs!PauseEndsAlways` | `FairSpec /\ []CanReconcile => PauseEnds` |
| `LiveViewProofs!CatchesUpAtLast` | `FairSpec /\ []CanRun => CatchesUp`, once `Quiet` |

**Completion.** `TypeOK` alone is not inductive: an answer can only be acted on
if there is a request and an entry at the head of the queue. `QueueOK` adds
that only the head of a tab's queue is on the network, that only a sent
request has an answer, and that there is a rollback row as long as a live
click is queued (a refusal puts that row into the cache, so without this the
cache could lose its type). `IInv == TypeOK /\ QueueOK` is inductive; each
action has a lemma of its own, over lemmas about the chains of requests.
`Accounted` then needs `IInv` at each step: a click leaves the log by an
answer (and is then in `acked`), by the dead letters, or because a newer click
of the browser took its place, and that click exists. `MovedAsAsked` follows
from one lemma about `Serve`: the row changes only in it and in
`OrdinaryWrite`, which puts the row's own completion back.

`ClicksInOrder` and `ImplementsRegister` assume that no two tabs share a browser
(`OneTabEach`, which holds in `completion_devices`); without it both are false, see
section 5. A click is `Spent` when it, or a later click of its browser, has moved the
row. Both theorems come down to this: a spent click never moves the row. Copies of it
may still be in the log, in the queue, on the network, in a late request and in an
answer; `SpentOK` says that each is with a revision which the row has left behind, so
the comparison in `setTaskCompletion` ends it. What could spoil that is a renewed
revision, and only two steps renew one: a live click reads the cache when it is
sent, but a live click is not spent before it is confirmed (`FreshOK`, from the order
of the queue, `OrderOK`); and a replay takes the revision of a conflict over one of its
predecessors, but then the row bears the mark of an older click, which it cannot once
the replayed click is spent (`MarkOK`). `RevsOK` adds that no revision anybody holds is
ahead of the row's, and `OwnOK` that a browser's log and queue hold its own clicks with
older ones as predecessors. `OrderInv` is the conjunction of the six; TLC checked it
on the run's instance before it was proved.

**Delta sync.** `NothingElseMissed` is about a tab that has caught up; the invariant
says the same of every place in the log. `ViewHonest`: up to the tab's cursor the view
is right, so a row that is shown wrong, is not in doubt and not `overtaken`, still has
an event after it, as long as the prune has not passed the cursor. `PageHonest`,
`DeltaHonest` and `SnapshotHonest` say it of a pull between its queries: of the page
it has read, of the answer on its way, and of a snapshot, each up to the place the
answer will bring the tab to. To carry that through commits in any order one needs
the numbers (`NumbersOK`: an open write has a number of its own, after every event of
its row, and neither the cursor nor the watermark rests on it), that the last event of
a row tells whether the row is gone (`EventsTellRows`), and what the tab may be told of
its own write (`SaveFollowed`). `IInv == ShapeOK /\ NumberedOK /\ Honest` is inductive;
TLC checked it with three writes before it was proved.

**Task trees.** `NotStranded` is about live rows, and is inductive neither over a
deletion followed by a restoration nor over a move that is under way. `Together`
extends it to rows that the same deletion took away with their parents;
`DeletionsOK` (a deletion leaves receipts for all of its rows or for none, and a row
that is gone has the receipt of the deletion it names) is why a restoration brings back
both or meets a newer token. For moves, `PlanHonest` says that what was seen of a
row is what the row is, or the row was written since, and `PlanWhole` that a plan
has with a row its parent, and leaves out no live child of a row that it has, unless
the parent was written since or the child is in `apart`. The lemmas `SubtreeClosed`
and `SubtreeWhole` get that from `getRescheduleSubtreePool` and
`collectSubtreeBlockIds`. `HeldOK` says that a row which a move has locked is as the
move has seen it; then a move that commits takes whole trees by the same number of
days, writes back the properties the rows have, and leaves a tombstone only where
there is none (`TombOK`). `ProcessKept` shows all of it for the requests a step
leaves alone. The attempt to prove `NotStranded` found the fourth reason in `apart`,
which takes more requests than the run has: see section 5.

`NoneWaitsInVain` is the part of `NoneIsStuck` that does without ENABLED: `CanGoOn` collects
the guards of the steps, and the other part, which TLC checks, is that a request
`CanGoOn` or is `InDeadlock` exactly when a step of it is enabled. That a
holder is under way is `LockedOK`; `StagesOK`, that only moves are planned and that a
process which has sent nothing is idle, leaves no stage without a step. Of the
requests that wait, each for one of them, the smallest set that nobody in it waits
out of is a circle (`Circle`).

**Vault.** `PendingIsTold` speaks of single writes; a commit preserves it only because
the index it takes is never older than HEAD, and a push only because what it pushes is
HEAD. A pull takes writes out of the index, but none that HEAD has (`UnstageStep`): a
run that then commits sets the push flag, clears the announcements, and those whose
write its index lacks are in `dropped`. `WorkAccounted` says so for the copies as a
whole: HEAD is not ahead of the index nor the index of the tree, and without a restart
an unpushed HEAD is remembered in the queue and every write that is not in HEAD is
unannounced, announced or dropped (for either reason). `VaultInv == VaultTypeOK /\
WorkAccounted` is inductive and implies the property. For `SavedStays`, the safety
half of `SavedIsCommitted`, `FileKept` says that an announcement in the file is still
in the queue or is committed, discarded or failed: a commit takes from the queue only
what it contains or discards, what is committed stays so because HEAD never goes back
(`WorkAccounted` again), and a restart only brings back what the file has.

**Points.** `PaidOnce` is about the ledger only and is not inductive: an earn that
is about to insert may break it. `RunsOK` says what such an earn knows:
`InsertOK`, that none of its tasks is in the ledger under the other spelling,
and `PairOK`, that no two earns are about to insert the same task under
different keys, both up to `blind`. `InsertOK` survives another call's insert only
by `PairOK`, and `PairOK` holds because `Find` records in `blind` what it could not
see. `CallOK` adds that a row is raised only above what was read, so that what
is owed is not negative and a raise never removes a row, and that a row to
delete names no foreign task. The last rests on the lemmas `UnambiguousLabel` and
`StrictlyItsOwn` about the closure query: where no label on the way has two
rows, everything it finds belongs to the tasks of the presented key.
`IInv == TypeOK /\ RunsOK /\ PaidOnce` is inductive; `OwnCreditOnly` follows from it
and from `LedgerStep`, by which only `Delete` takes away all the points of a key.

`BalanceExplained` adds up the ledger and what the calls owe. The sum is a fold of the
library, and what the proof needs is that a change at one key changes it by as much
(`TotalChanges`) and that it does not depend on the order (`TotalUnfolds`). Both are by
induction over the subsets of a finite set, stated with a set of good subsets in the
place of the operator parameter (`SubsetInduction`). Then every step moves both sides
alike (`BalanceStep`), given that only an earn about to bank owes anything (`OwedOK`).

**Ink.** `NeverLeftBehind` looks at the stored records, which are written from copies.
`ArrivedInv` says the same of the siblings that a deletion will write back, and that
what the loop is about to mark has arrived; that a save always marks its page dirty
is what closes it. `VaultInStep` needs more: that, until a deletion, the pages are
numbered without a gap and without repetition and every copy has the number of its
page (`Numbered`), and that what is still to be sent is dirty and is sent once
(`ToSend`); then an upload never touches the number of a clean page.

**Cadence.** The definition is copied by whoever reads it and written back later, so
`Inv` speaks of all the copies: the row, what the derived writer has read, and what
each request has. `Clean` says that a copy which has the time of a completed instance
also names it as the completion to undo, which is what stops a replay; `EffectsInv`
that an effect which is current has the time of its row, and `TimesInv` that a direct
completion has a time no instance has. `OtherStep` shows that a step which leaves the
rows' completions alone keeps all of this if the definition it writes is `Clean`;
`ToggleStep` that a new completion has a time no copy has.

**Working queue.** `Sound(s, k)` says what is true of the database up to the instant
`k`. `OneFore` is stronger than `OneForeground`: a running task that has been completed
elsewhere still holds the foreground, and a break counts too. `BreaksOK` is why a
break that ended never comes back: the operation recorded with it is a command's
and not one of the completion route's writes, and its completion revision is not ahead of
the row's, so neither `SettleWrite` nor `Toggle` can make the recorded stamp match
again. `ClockOK` orders the recorded sessions up to `k` and the running one after
them. Each kind of command has a lemma by which it leaves a sound database sound
up to its own instant (`StartOutcome` to `QueueOutcome`), and `ExecuteSound` puts them
together: the coordinator refuses a command older than `changed`, which is why
sessions never overlap. `CommandsOK` says that a command which is not answered has not
been refused and, if it completes a task, is one its device waits for; without it
neither `RefusedNotDone` nor `EffectOwed` is inductive. `NoWorkLost` follows from
`Recorded`, which the same lemmas carry.

**Live view.** `NothingMissed` is about a page at rest and says nothing of one that
reads. `Fresh(p, v)` does: on a connected page on which nothing calls for a read, a
read that has been answered was answered with `v`, and one that is idle left `v`
shown. `Told` says that the page is `Fresh` for the current version whenever no
change is to be broadcast and no ping is due. `Sound` is the rest about the page:
its shape, that a probe that waits and a read that is to follow do so during a
read (without which a late result could leave the page without a timer), and that
a revoked page is cleared. `IInv == Rest /\ Sound(page) /\ Told` is inductive; each
function of the page has a lemma saying that it keeps the page sound, and the
steps follow from those.

**Liveness.** Five of the seven properties that speak of the end are proved of
`FairSpec`, under two kinds of hypotheses that a reader should know. The first is
`CanRun` (`CanReconcile` in `Cadence`): while a guard written out there holds, the fair
step it belongs to is enabled. The prover takes ENABLED as an unknown, so this
is assumed; TLC found it true in every reachable state of the instances of
`delta_sync`, `vault_sync`, `cadence` and `live_view`. The second is `<>[][Quiet]_vars`:
from some point on nobody writes and nothing fails. In the models this is so of every
behaviour, since a bound in `Nat` is spent with each such step; but "a number that
only grows under a bound stops growing" is induction over data, so it is assumed.
`PauseEndsAlways` needs no such hypothesis. The two theorems of the vault
also assume one run at least, without which no commit can be made.

- `ConvergesAtLast`. With no transaction open and no write of its own (`Calm`; for this
  `SaveOwed` says that a save without an answer has its transaction open) the tab
  only pulls. A pull that began then is `Fresh`: it is not stale, a snapshot of it has
  the rows as they are, and a page of it brings the tab on unless the tab has all
  events. Once every pull is fresh, one that is applied leaves the view right, by
  `ViewHonest` or by the snapshot, and nothing else touches it. The one exception is a
  page that moves the cursor on: that those come to an end (the cursor is a number of
  an event, and each page is past the last) is the hypothesis
  `<>[][cursor' <= cursor]_vars`, which TLC finds true of every fair behaviour of the
  run. Days may go on changing: two pulls for two days can even take turns for ever,
  and a tab whose cursor the prune has passed for good lives on snapshots.
- `SavedIsCommittedAtLast`, `ReachesRemoteAtLast`. `InHand` says who is to do the work
  that is left: announced work has the commit timer or a run on its way to a commit,
  unless its commit failed, and committed work has the push timer or a run that pushes,
  unless the process was restarted. Each run leaves its stage with the next git
  command (`GitFair`), so if nothing were done a run would rest for good, the
  timer would fire in it and the work be done; until then the runs take the queue and
  the timers from each other, which is what `Turn` and `Left` follow. Hence nothing is left
  to commit (`SpentForGood`) and a push that is due is made (`PushedAtLast`): a push is
  rejected only while the remote has foreign commits, and those have stopped
  (they are counted with the troubles), so that a pull takes the last of them.
- `PauseEndsAlways`. While the pause of an instance that is over remains (`Stuck`), a
  read of the derived writer goes through three stages (`NotReading`, `ReadOver`,
  `ReadOpen`), each left for the next only, and what it writes after `ReadOver` names no
  open instance (`StuckRead`).
- `CatchesUpAtLast`. The link is on for good or gone for good; a read is `Wanted`,
  `SentOut`, `Good` or `Bad`, and a good one ends in a page that is current.

What stays with TLC: `Drains` and `Settles`, which need the number of pages in a
pass and the length of the chains to go down to 0 (induction over data); that
`CanRun` holds; and that the guards of `NoneIsStuck` enable a step, which speaks of
ENABLED as well. Every other property of the passing runs has a theorem.

## 5. Findings

Each is a run that TLC ends with a counterexample.

1. **`completion_lost_ack`.** `COMPLETION-PERSISTENCE-PLAN.md:40-41` says that
   lost acknowledgements cannot reverse user intent. A reopen is delayed, the
   person completes the task again, which is no transition for the row and
   keeps its revision (`db.js:500`), and the tab is told that its newest click
   stands; then the delayed reopen arrives with a revision that still matches.
2. **`ink_lost_stroke`.** `markSynced` (`public/js/ink/store.js:216`) compares
   the hash of the record it read and writes that record in a later
   transaction: a save in between is overwritten with old strokes and a clean
   mark. The comment at 209-211 says that this cannot happen.

Observed while modelling, and built into the properties as named exceptions or
noted under hazards without a run:

- With two tabs of one browser an older click can move the row after a newer
  one, and one click can move it twice: a queued live request does not look at
  the log (`block-store.js:1104`). TLC's shortest trace has no fault in it: a
  click waits for the lock of the browser, the sweep of the other tab sends it
  first and has it confirmed, a person reopens the task there, and then the first
  tab sends its click with the revision it has been told of meanwhile.
  `LogInClickOrder` and `RegisterSpec` are therefore checked, and proved, for one
  tab in each browser.
- The rollback row is taken from the cache (`block-store.js:1102`), which may
  already show an intent that was never confirmed.
- `DeltaSync` has three windows in which a change can pass the cursor: a
  transaction that commits after a later number was handed out, a prune in the
  middle of a pull, and an acknowledgement over a newer snapshot. `overtaken`
  names the rows; a snapshot (a change of day, or a reload) shows them again.
- Deleting a page renumbers the later ones and queues none of them, so the
  vault keeps their strokes under the old numbers. `VaultInStep` holds until a
  page is deleted.
- `COMPLETION-PERSISTENCE-PLAN.md:51-53` says that reconciliation locks the task again
  and requires its revision. The eager writer does; `resolveOpenInstances`
  (`responsibility-store.js:463`) does not: it can write the completion of an
  instance that was reopened since, and the clock then rests on it.
- `sync-manager.js:6` says that a crash loses no work in flight. After a crash
  between commit and push `init()` sets the commit timer (79), whose commit has
  nothing to do and sets no push timer: the commit is pushed with the next write,
  or by the flush route.
- The comment at `slot-store.js:2560-2567` has the top-up look at `rowCount`, so that
  no points are banked that no ledger row explains. Two completions that find the
  same lower credit both update the row, which counts one row each time, and both
  add the difference: the row has it once, the balance twice. `stale` names it.
- The completion route settles the clock after its commit, from the bag it read
  (`routes/blocks.js:287-307`, `lib/task-timing.js:944-1022`): a session that was
  started in between is erased with no entry, which the comment at `db.js:1066` says
  of stale bags must never happen. `NoWorkLost` names the window.
- A task on a break that is deleted and restored comes back on its break. If another
  workspace has started a task meanwhile, two are in the foreground, against
  `docs/conversational-integration.md:57`. Restoring is left out of `WorkingQueue`.
- A delete and a repeated restore of the same rows lock them in different orders
  (`routes/blocks.js:1461` and `db.js:1915`); PostgreSQL ends one of them.
- A delete that arrives for the first time after its own undo deletes the rows: a
  restore of live rows records nothing (`db.js:1383`).
- `deleteBlock` (`db.js:1341`) does not ask whether a row is deleted already. If a
  deletion of a task and its subtask is delayed, the subtask is deleted by another one
  and the task is moved meanwhile, the first deletion still stamps the subtask with its
  own token, and undoing it brings both back on different days.
- `updated_at`, the version of a row, is a millisecond taken before the locks
  (`db.js:1974`): two writes may have the same, and a plan made between them passes.
- A probe that ends late sets the state to polling while a new stream runs, and its
  reopen timer replaces that stream (`live-channel.js:80-94`). The page heals itself.
- After a `capacity` event the watchdog is off and a retry that hangs is not
  watched until the browser gives up; the safety poll goes on.
- `GET .../events` may register a stream after the link was closed; the page learns of
  it by the read that follows `connected`.
- A failed commit is not scheduled again (`sync-manager.js:279-282`), and an
  announcement that comes in while a commit runs is discarded with it (274).
  Both wait for the next write.
- A pull between a run's `git add` and its commit (of another run, 310, or of the
  timer, 337) unstages modified files. `git status` still lists them, the commit has
  nothing in it and does not throw, `pendingCommits` is emptied and the next push
  clears `pendingPush`: until the next write, the change is neither on the remote nor
  reported as pending. `dropped` names it.
- A command that its device gives up on after fifteen seconds
  (`public/js/working-queue.js:28`) is sent again, and the first copy may come after
  the retry was refused: a `queue-block` stalls, the task is completed by the route
  (which does not count the account's revision up when no clock runs), the retry is
  refused (`conversation-store.js:522`), the task is reopened, and the copy is carried
  out at a revision that matches. The device has told the person that it was
  refused. `RefusedNotDone` names these commands by `astray`.
- The derived writer can overwrite a newer completion as well as a reopen, and
  a stamp of scheduling can, too (`responsibility-store.js:706`). The replay
  check knows only the last completion, so `UndoKept` is stated for the first
  instance of a responsibility.
- The browser registers an instance after it has stored the row and its subtasks
  (`public/js/responsibilities.js:665-676`). If the instance is completed before that,
  the registration puts it in flight again, the next read of the list completes it
  once more, and the value to undo is overwritten with the same time. `late` names it.
- A direct completion takes over the task of the completion before it
  (`lib/recurrence.js:386`); reopening that task then undoes the direct completion.

## 6. What the models leave out

- `Completion`: descendants, companions and dependencies of a task, the refusals
  of the work-state and guided checks, dateless tasks, the other kinds of log
  entries, and the cap of the dead letters.
- `DeltaSync`: day state, pets and routines that the same events carry; the guards of
  the timer, see section 3. While a pull runs, every call for another day waits and
  calls again when it ends (`block-store.js:85-91`); the model keeps the last of them.
- `InkSync`: more than one notebook, images, the strokes themselves. Adding a page is
  one step and does not overlap with a deletion, although `app.js:356-365` awaits in
  between. An upload whose app has given up on it, or was closed, is taken at once or
  never: that the server takes it after a newer upload of the same page
  (`routes/vault.js:1822-1935` has no revision to refuse it by) is left out, and
  `VaultInStep` and `NeverLeftBehind` are not claimed for it.
- `Cadence`: due dates and urgency, what skip, pause, resume and the form change (they
  write the rest of the row as they read it), removal, the `uncomplete` route, which
  no client calls, and calendar-driven repeats, whose routes lock the series.
- `VaultSync`: what a pull unstages is the last writes, although git keeps new files
  staged and unstages modified ones wherever they are in the order; a write in the
  middle of a pull's stash and unstash; a timed-out command that goes on beside the
  next one, or a timed-out commit that took effect after all, a rebase left in
  progress, a clone with no remote, a queue file that cannot be written, two saves
  at once that share its `.tmp` name, LFS, and shutdown (`close()`).
- `WorkingQueue`: the order of the list and its limit of 100 items, the text of notes,
  priorities, snoozing all at once, delegated work and
  worker reports, the `correct` and `reconcile` commands, guided tasks, time reported
  by hand, the restoring of deleted tasks, and several days or users. A late copy that
  comes before the answer of its retry is a lost answer (`LoseAnswer`); one that comes
  after its command was carried out finds the receipt, or after the revision was
  counted up is refused again, and both are left out, as is the loss of a refusal.
- `TaskTree`: completion of descendants and companions, prerequisite links, plain
  deletions without an id, the hide overlay of a day, places in the order of a day
  and times of day, equal versions. A request is sent again when the first one was
  served: two copies that run side by side are left out. A move always takes the
  owner's lock on moves (`db.js:1981` does when it has a `queueOwner`), and does not
  pause clocks nor look at settled keys (2015-2037). A restoration waits for the
  deletion it undoes; `state.js:2134-2145` sends one after a lost or cancelled deletion
  as well (section 5 has what may follow). `DeletedOnce` is about the row: a repeated
  deletion pauses a clock and closes links again (`routes/blocks.js:1399-1460`).
- `LiveView`: delays, backoff and jitter, the timer of a lease that lapses, answers
  other than found, gone and failed, browsers without EventSource, the owner's own
  stream (`sse.js`), which uses the same coordinator without its trailing read. A stream
  that ends over capacity counts as held by the hub until it ends, although
  `lib/public-sse.js:13-19` never registers it: the page may get a ping too many.
- `TaskCredit`: what a task scores, keys with no date (`shell:` keys match exactly
  only), the sidecar keys of migrated ledger rows, deleted rows, rows that
  change their label, and everything else that moves the balance.
- The prerequisite links between tasks (`waiting-items.js`, `waiting-cascade.js`)
  were surveyed and not modelled. What a model should look at: a ready link that is
  given a new blocker goes back to open with no new mark on the dependents
  (`routes/blocks.js:2858`), from a row read before the transaction; a batch deletion
  removes `dependencyWaitingItemId` and not `dependencyWaitingItemIds` (1431-1434); a
  released link that is made again can meet the unique index of
  `pg-schema.js:1298-1307` when its blocker is reopened; reopening a blocker revives
  released links and may close a cycle.

### Not modelled

Each component marked `not_modelled` in `PROJECT.json` has its reason there. They are of
three kinds. The budget tank, reimbursements, social grants, guided sessions and
the other feature stores are one transaction under one lock for each operation: two
requests never interleave within them, and what is left is arithmetic and
permission checks that unit tests reach. Meetings, Slack and calendar are driven by
outside services whose behaviour the repository does not define. Scheduling and
planning are pure functions over dates and intervals; they are candidates for
checks against a reference definition (section 7). The user interface is rendering.

Outside the code, and modelled from how it is used: localStorage and
`navigator.locks` (one holder for each name), IndexedDB (atomic transactions),
PostgreSQL (row locks, a sequence that does not roll back, one snapshot under
REPEATABLE READ), git.

## 7. Plan

Done, of the earlier plan: the working queue, the live channel with its
coordinator, moves, deletions and restorations of trees. Next, in the order of
what matters most:

1. The completion of a tree: descendants, companions and prerequisite links, as an
   extension of `Completion`'s server half.
2. `LiveView` for the owner's page, composed with `DeltaSync` in the place of its timer
   and broadcast.
3. The pure algorithms (recurrence, free slots, the budget's waterline) against
   reference definitions over bounded inputs.

Proofs: every safety property of the passing runs is proved, and five of the seven
liveness properties under the hypotheses of section 4. What comes next are the
properties of what the plan adds, and, where an invariant leaves a window open
(`overtaken`, `blind`, `stale`, `late`, `apart`), a proof that outside the window's
own circumstances the property holds without it.

## 8. Running it

    tlc -workers 2 -config MCCompletionDevices.cfg MCCompletion
    tlc -workers 2 -config VaultSync.cfg VaultSync
    tlapm CompletionProofs.tla

`PROJECT.json` lists the run, the module and the configuration of each row of the
table in section 3. The longest run takes about three minutes with two workers;
the proofs take one to five minutes each from nothing.
