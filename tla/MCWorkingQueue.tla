--------------------------- MODULE MCWorkingQueue ---------------------------
(***************************************************************************)
(* A small instance of WorkingQueue for TLC: two tasks of one workspace    *)
(* and one of another.                                                     *)
(***************************************************************************)
EXTENDS WorkingQueue, TLC

CONSTANTS ta, tb, tc, w1, w2, d1

MCTask == {ta, tb, tc}
MCWorkspace == {w1, w2}
MCHome == [t \in MCTask |-> IF t = tc THEN w2 ELSE w1]
MCDevice == {d1}
Alike == Permutations({ta, tb})
=============================================================================
