---------------------------- MODULE MCCompletion ----------------------------
(***************************************************************************)
(* Small instances of Completion for TLC.                                  *)
(***************************************************************************)
EXTENDS Completion

CONSTANTS t1, t2, b1, b2

\* Two devices: a tab and a localStorage each, and the pairs are
\* interchangeable.
MCTab       == {t1, t2}
MCBrowser   == {b1, b2}
MCDevices   == (t1 :> b1) @@ (t2 :> b2)
MCSymmetry  == {(t1 :> t2) @@ (t2 :> t1) @@ (b1 :> b2) @@ (b2 :> b1)}

\* Two tabs of one browser, and a single tab.
MCShared == (t1 :> b1) @@ (t2 :> b1)
MCSingle == t1 :> b1

\* A row without a revision (never touched by the completion boundary), an
\* open row without one, and a completed row with one.
MCUnrevised == [done : BOOLEAN, rev : {0}]
MCFresh     == [done : {FALSE}, rev : {0}]
MCCompleted == [done : {TRUE}, rev : {1}]
=============================================================================
