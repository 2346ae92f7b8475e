----------------------------- MODULE MCTaskTree -----------------------------
(***************************************************************************)
(* A small instance of TaskTree for TLC: a task, its subtask, and a second *)
(* one that is created later.  The order of the ids is not that of the     *)
(* tree.                                                                   *)
(***************************************************************************)
EXTENDS TaskTree, TLC

CONSTANTS root, child, late, p1, p2, nobody

MCRow == {root, child, late}
MCParent == (child :> root) @@ (late :> root)
MCAbove == [t \in MCRow |-> {t, root}]
MCPosition == (child :> 1) @@ (root :> 2) @@ (late :> 3)
MCDay == 1..2
Alike == Permutations({p1, p2})
=============================================================================
