------------------------------ MODULE MCCadence -----------------------------
(***************************************************************************)
(* A small instance of Cadence for TLC.                                    *)
(***************************************************************************)
EXTENDS Cadence

CONSTANTS t1, t2, none

MCTask == {t1, t2}
=============================================================================
