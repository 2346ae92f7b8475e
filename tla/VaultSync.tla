------------------------------ MODULE VaultSync -----------------------------
(***************************************************************************)
(* sync-manager.js: the vault's working tree is committed and pushed to a  *)
(* git remote in the background.                                           *)
(*                                                                         *)
(* A write of the vault is announced (notifyChange), announcements wait in *)
(* a queue that is saved to disk, a timer commits, another timer pushes,   *)
(* and /api/vault/flush does both at once.  Git commands run one at a time *)
(* (_runGit), but several flushes and pushes may be between two commands,  *)
(* with a pull of the five-minute timer waiting for its turn.              *)
(* VaultState declares the state.                                          *)
(***************************************************************************)
EXTENDS VaultState

ASSUME ConstantsAssumption == Bounded

git    == <<tree, index, head, remote, foreign>>
timers == <<commitTimer, pushTimer>>
bounds == <<restarted, troubles>>
ledger == <<dropped, failed>>
vars   == <<git, unannounced, queue, file, timers, worker, pulling, ledger, bounds>>

Idle == [stage |-> "idle", push |-> FALSE]
At(w, stage) == worker[w].stage = stage
Goto(w, stage) == worker' = [worker EXCEPT ![w].stage = stage]

-----------------------------------------------------------------------------
(***************************************************************************)
(* Writers of the vault, and other clones.                                 *)
(***************************************************************************)
Write ==
  /\ tree < MaxWrites
  /\ tree' = tree + 1
  /\ unannounced' = unannounced \cup {tree'}
  /\ UNCHANGED <<index, head, remote, foreign, queue, file, timers, worker,
                 pulling, ledger, bounds>>

notifyChange(v) ==
  /\ v \in unannounced
  /\ unannounced' = unannounced \ {v}
  /\ queue' = [queue EXCEPT !.commits = @ \cup {v}]
  /\ commitTimer' = TRUE
  /\ UNCHANGED <<git, file, pushTimer, worker, pulling, ledger, bounds>>

\* _saveQueue writes the queue as it is by the time of the write.
SaveQueue ==
  /\ file # queue
  /\ file' = queue
  /\ UNCHANGED <<git, unannounced, queue, timers, worker, pulling, ledger, bounds>>

ForeignPush ==
  /\ troubles < MaxTroubles
  /\ troubles' = troubles + 1
  /\ foreign' = TRUE
  /\ UNCHANGED <<tree, index, head, remote, unannounced, queue, file, timers,
                 worker, pulling, ledger, restarted>>

\* git pull --rebase --autostash: the stash is applied without --index, so that
\* what a run has added and not committed may be no longer staged.
Unstage == index' \in head..index

\* _backgroundPull keeps out of the way of pending work, as it is when the pull
\* joins the git commands: the runs that are under way may go on before its turn.
PullDue == queue.commits = {} /\ ~queue.push
QueuePull ==
  /\ PullDue
  /\ \E w \in Worker : ~At(w, "idle")
  /\ ~pulling /\ pulling' = TRUE
  /\ UNCHANGED <<git, unannounced, queue, file, timers, worker, ledger, bounds>>

\* The pull, which may fail: its turn comes, or no run is before it.
BackgroundPull ==
  /\ pulling \/ (PullDue /\ \A w \in Worker : At(w, "idle"))
  /\ pulling' = FALSE
  /\ foreign' \in {foreign, FALSE}
  /\ Unstage
  /\ UNCHANGED <<tree, head, remote, unannounced, queue, file, timers, worker,
                 ledger, bounds>>

-----------------------------------------------------------------------------
(***************************************************************************)
(* Runs: the commit timer, the push timer, and flushAndPush.               *)
(***************************************************************************)
\* Runs are alike: a new one takes the first free number.
Free(w) == At(w, "idle") /\ \A u \in 1..w - 1 : ~At(u, "idle")

\* Where a run goes when its _flushCommit is over, or had nothing to do.
AfterFlush(push, pending) == IF push /\ pending THEN "push" ELSE "idle"

StartFlush(w, push) ==
  worker' = [worker EXCEPT ![w] =
    [push |-> push, stage |-> IF queue.commits # {} THEN "add"
                              ELSE AfterFlush(push, queue.push)]]

CommitTimer(w) ==
  /\ commitTimer
  /\ Free(w)
  /\ commitTimer' = FALSE
  /\ StartFlush(w, FALSE)
  /\ UNCHANGED <<git, unannounced, queue, file, pushTimer, pulling, ledger, bounds>>

flushAndPush(w) ==
  /\ Free(w)
  /\ queue.commits # {} \/ queue.push
  /\ StartFlush(w, TRUE)
  /\ UNCHANGED <<git, unannounced, queue, file, timers, pulling, ledger, bounds>>

PushTimer(w) ==
  /\ pushTimer
  /\ Free(w)
  /\ pushTimer' = FALSE
  /\ Goto(w, AfterFlush(TRUE, queue.push))
  /\ UNCHANGED <<git, unannounced, queue, file, commitTimer, pulling, ledger, bounds>>

\* git add .
Add(w) ==
  /\ At(w, "add")
  /\ index' = tree
  /\ Goto(w, "status")
  /\ UNCHANGED <<tree, head, remote, foreign, unannounced, queue, file, timers,
                 pulling, ledger, bounds>>

\* git status tells whether anything differs from HEAD.
Status(w) ==
  /\ At(w, "status")
  /\ Goto(w, IF tree = head THEN "clean" ELSE "commit")
  /\ UNCHANGED <<git, unannounced, queue, file, timers, pulling, ledger, bounds>>

\* Variant for mutation testing: pendingPush is not set.
DiscardOnly(at, push) ==
  /\ queue' = [commits |-> {}, push |-> FALSE]
  /\ dropped' = dropped \cup {v \in queue.commits : v > at}

\* pendingCommits = []: whatever is announced goes too, also what came in since the
\* run added the files and what a pull has unstaged.
Discard(at, push) ==
  /\ queue' = [commits |-> {}, push |-> push]
  /\ dropped' = dropped \cup {v \in queue.commits : v > at}

Clean(w) ==
  /\ At(w, "clean")
  /\ Discard(head, queue.push)
  /\ Goto(w, AfterFlush(worker[w].push, queue.push))
  /\ UNCHANGED <<git, unannounced, file, timers, pulling, failed, bounds>>

\* git commit takes the index, and finds nothing in it when a pull came between
\* (which is no error); the push is due.
Commit(w) ==
  /\ At(w, "commit")
  /\ head' = index
  /\ Discard(index, TRUE)
  /\ pushTimer' = TRUE
  /\ Goto(w, AfterFlush(worker[w].push, TRUE))
  /\ UNCHANGED <<tree, index, remote, foreign, unannounced, file, commitTimer,
                 pulling, failed, bounds>>

\* A failing command ends the flush; nothing sets the commit timer again.
FlushFails(w) ==
  /\ \E stage \in {"add", "status", "commit"} : At(w, stage)
  /\ troubles < MaxTroubles
  /\ troubles' = troubles + 1
  /\ failed' = failed \cup queue.commits
  /\ Goto(w, "idle")
  /\ UNCHANGED <<git, unannounced, queue, file, timers, pulling, dropped, restarted>>

\* git push: rejected while the remote has commits the clone lacks.
Push(w) ==
  /\ At(w, "push") \/ At(w, "push again")
  /\ ~foreign
  /\ remote' = head
  /\ queue' = [queue EXCEPT !.push = FALSE]
  /\ Goto(w, "idle")
  /\ UNCHANGED <<tree, index, head, foreign, unannounced, file, timers, pulling,
                 ledger, bounds>>

\* Variant for mutation testing: a failed push is left at that.
NoRetry == UNCHANGED pushTimer

\* The backoff: the push timer is set again.
Backoff == pushTimer' = TRUE

\* A rejected push is tried once more after a pull.
Rejected(w) ==
  /\ foreign
  /\ \/ At(w, "push") /\ Goto(w, "pull") /\ UNCHANGED pushTimer
     \/ At(w, "push again") /\ Goto(w, "idle") /\ Backoff
  /\ UNCHANGED <<git, unannounced, queue, file, commitTimer, pulling, ledger, bounds>>

PullRebase(w) ==
  /\ At(w, "pull")
  /\ foreign' = FALSE
  /\ Unstage
  /\ Goto(w, "push again")
  /\ UNCHANGED <<tree, head, remote, unannounced, queue, file, timers,
                 pulling, ledger, bounds>>

\* No network, expired credentials, a timeout (the remote may have taken the
\* push), a conflict of the rebase: the push timer is set again.
PushFails(w) ==
  /\ \E stage \in {"push", "pull", "push again"} : At(w, stage)
  /\ troubles < MaxTroubles
  /\ troubles' = troubles + 1
  /\ IF At(w, "pull") THEN UNCHANGED remote /\ Unstage
     ELSE remote' \in {remote} \cup {h \in {head} : ~foreign} /\ UNCHANGED index
  /\ Backoff
  /\ Goto(w, "idle")
  /\ UNCHANGED <<tree, head, foreign, unannounced, queue, file, commitTimer,
                 pulling, ledger, restarted>>

\* Variant for mutation testing: only an unfinished push counts.
PushPending(q) == q.push

\* What makes init() set the commit timer.
AnyPending(q) == q.commits # {} \/ q.push

\* Variant for mutation testing: the flag of the push is not read back.
LoadedCommits(saved) == [commits |-> saved.commits]

\* _loadQueue reads both parts of the queue from the file.
LoadedQueue(saved) == [commits |-> saved.commits, push |-> saved.push]

\* The process dies and init() runs, with a pull: the queue is what was saved, and
\* pending work of either kind sets the commit timer.
Restart ==
  /\ troubles < MaxTroubles
  /\ troubles' = troubles + 1
  /\ restarted' = TRUE
  /\ queue' = LoadedQueue(file)
  /\ unannounced' = {}
  /\ commitTimer' = AnyPending(file)
  /\ pushTimer' = FALSE
  /\ worker' = [w \in Worker |-> Idle]
  /\ pulling' = FALSE
  /\ foreign' \in {foreign, FALSE}
  /\ Unstage
  /\ UNCHANGED <<tree, head, remote, file, ledger>>
-----------------------------------------------------------------------------
Init ==
  /\ tree = 0 /\ index = 0 /\ head = 0 /\ remote = 0
  /\ foreign = FALSE
  /\ unannounced = {}
  /\ queue = [commits |-> {}, push |-> FALSE]
  /\ file = queue
  /\ commitTimer = FALSE /\ pushTimer = FALSE
  /\ worker = [w \in Worker |-> Idle]
  /\ pulling = FALSE
  /\ dropped = {} /\ failed = {}
  /\ restarted = FALSE /\ troubles = 0

Git(w) == Add(w) \/ Status(w) \/ Clean(w) \/ Commit(w) \/ Push(w) \/ Rejected(w)
          \/ PullRebase(w)

Timer == \E w \in Worker : CommitTimer(w) \/ PushTimer(w)

Announce == \E v \in unannounced : notifyChange(v)

Next ==
  \/ Write
  \/ Announce
  \/ SaveQueue
  \/ ForeignPush
  \/ QueuePull
  \/ BackgroundPull
  \/ Timer
  \/ \E w \in Worker : Git(w) \/ flushAndPush(w) \/ FlushFails(w) \/ PushFails(w)
  \/ Restart

Spec == Init /\ [][Next]_vars

\* The next git command of a run ends, or times out.
GitFair(w) == WF_vars(Git(w))

\* Every git command ends, the timers run, a write is announced
\* once it is on the disk, and the queue is saved.
FairSpec ==
  /\ Spec
  /\ WF_vars(Announce)
  /\ WF_vars(SaveQueue)
  /\ WF_vars(\E w \in Worker : CommitTimer(w))
  /\ WF_vars(\E w \in Worker : PushTimer(w))
  /\ \A w \in Worker : GitFair(w)
=============================================================================
