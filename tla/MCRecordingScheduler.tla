----------------------- MODULE MCRecordingScheduler -----------------------
(***************************************************************************)
(* Small instances of RecordingScheduler.  Times are in an arbitrary unit  *)
(* of which the margin of decide_orphan_action is one: a window of three   *)
(* has an instant where an orphan is resumed and one where it is closed,   *)
(* and the clock goes past the last window.                                *)
(***************************************************************************)
EXTENDS RecordingScheduler, TLC

CONSTANTS r1, r2

Window1 == (r1 :> 0)
WindowEnd1 == (r1 :> 3)

\* r2 begins while r1 is captured, and outlives it.
Window2 == (r1 :> 0) @@ (r2 :> 1)
WindowEnd2 == (r1 :> 2) @@ (r2 :> 4)
=============================================================================
