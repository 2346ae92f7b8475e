---------------------------- MODULE MCTaskCredit ----------------------------
(***************************************************************************)
(* An instance of TaskCredit: two rows that share a label, and one that    *)
(* does not.                                                               *)
(***************************************************************************)
EXTENDS TaskCredit, TLC

CONSTANTS t1, t2, t3, l1, l2

MCTask    == {t1, t2, t3}
MCLabel   == {l1, l2}
MCLabelOf == t1 :> l1 @@ t2 :> l1 @@ t3 :> l2
MCTwins   == Permutations({t1, t2})
=============================================================================
