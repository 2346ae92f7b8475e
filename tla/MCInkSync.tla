------------------------------ MODULE MCInkSync -----------------------------
(***************************************************************************)
(* A small instance of InkSync for TLC.                                    *)
(***************************************************************************)
EXTENDS InkSync

CONSTANTS p1, p2, none

MCPage == {p1, p2}
=============================================================================
