---------------------------- MODULE MCDeltaSync -----------------------------
(***************************************************************************)
(* A small instance of DeltaSync for TLC.                                  *)
(***************************************************************************)
EXTENDS DeltaSync, TLC

CONSTANTS r1, r2, mon, tue, none

MCRow == {r1, r2}
MCDay == {mon, tue}
=============================================================================
