----------------------------- MODULE VaultState -----------------------------
(***************************************************************************)
(* The state of sync-manager.js, what its status promises, and what is to  *)
(* become of a saved announcement and of a write.  VaultSync has the steps *)
(* and the fairness.                                                       *)
(*                                                                         *)
(* The n-th write of the vault is the number n, and a tree, an index or a  *)
(* branch is the number of the last write it has.  Commits that others     *)
(* push touch other files: `foreign` says that the remote has some that    *)
(* the clone does not.                                                     *)
(***************************************************************************)
EXTENDS Naturals

CONSTANTS
  MaxRuns,     \* bound: runs of a timer or route that are under way at once
  MaxWrites,   \* bound: writes of the vault
  MaxTroubles  \* bound: git commands that fail, pushes of other clones, restarts

Bounded == MaxRuns \in Nat /\ MaxWrites \in Nat /\ MaxTroubles \in Nat

VARIABLES
  tree, index, head, remote,   \* the last write each of them has
  foreign,       \* the remote has commits of other clones
  unannounced,   \* writes whose notifyChange is still to come
  queue,         \* pendingCommits and pendingPush
  file,          \* the queue as saved to disk
  commitTimer, pushTimer,
  worker,        \* where each run is, and whether it goes on to push
  pulling,       \* a pull of the five-minute timer waits for its turn
  dropped,       \* history: announcements discarded by a commit without their write
  failed,        \* history: announcements pending when a commit failed
  restarted,     \* history: the process has been restarted
  troubles       \* how much of MaxTroubles is spent
-----------------------------------------------------------------------------
Worker == 1..MaxRuns
WriteNo == 1..MaxWrites
Queue   == [commits : SUBSET WriteNo, push : BOOLEAN]
Stage   == {"idle", "add", "status", "clean", "commit", "push", "pull",
            "push again"}
Run     == [push : BOOLEAN, stage : Stage]

\* The shape of every variable.
VaultTypeOK ==
  /\ tree \in 0..MaxWrites /\ index \in 0..MaxWrites
  /\ head \in 0..MaxWrites /\ remote \in 0..MaxWrites
  /\ foreign \in BOOLEAN
  /\ unannounced \subseteq WriteNo
  /\ queue \in Queue /\ file \in Queue
  /\ commitTimer \in BOOLEAN /\ pushTimer \in BOOLEAN
  /\ worker \in [Worker -> Run]
  /\ pulling \in BOOLEAN
  /\ dropped \subseteq WriteNo
  /\ failed \subseteq WriteNo
  /\ restarted \in BOOLEAN
  /\ troubles \in 0..MaxTroubles

\* What getStatus reports as pending is never less than what is missing from
\* the remote, in a process that has not been restarted, except for the
\* announcements that went with a commit without their write: it came in while the
\* commit ran, or the autostash of a pull took it out of the index first.
PendingIsTold ==
  ~restarted =>
    \A v \in 1..tree :
      \/ v <= remote
      \/ v \in unannounced \cup queue.commits \cup dropped
      \/ v <= head /\ queue.push

\* In HEAD, or not before the next write: a commit discarded it, or failed.
Waits(v) == v \in dropped \cup failed
Committed(v) == v <= head \/ Waits(v)

\* A saved announcement survives crashes up to a commit, which has its write unless
\* it failed or discarded the announcement: it does not leave the file before
\* (_saveQueue replaces the whole file by a queue that runs have emptied and init()
\* has read back meanwhile).
SavedStays == [][\A v \in file.commits \ file'.commits : Committed(v)']_file

\* And none stays in the file for ever without a commit: init() takes it up again.
SavedIsCommitted == SavedStays /\ <>[](\A v \in file.commits : Committed(v))

\* Without a restart every write reaches the remote in the end, past failing
\* pushes and rejections, unless its announcement went with a commit without it
\* or its commit failed (these wait for the next write).
ReachesRemote ==
  <>[](~restarted => \A v \in 1..tree : v <= remote \/ Waits(v))
=============================================================================
