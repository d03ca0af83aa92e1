------------------------- MODULE RecordingLifecycle -------------------------
(***************************************************************************)
(* What the server promises of a recording that is left to it: it is       *)
(* planned, captured once its window opens, and closed once and for all.   *)
(* Bytes come during the capture only, and what came is never lost; it is  *)
(* marked completed only with something to play, and stays so.             *)
(* RecordingScheduler implements it, whatever happens to the process.      *)
(***************************************************************************)
VARIABLES
    row,        \* "absent", "scheduled", "recording", "completed", "failed"
    data,       \* is there something of it on the disk ?
    playable    \* ... where its row says ?
lifeVars == <<row, data, playable>>

\* A recording the former server was making when it was replaced has its file.
Init ==
    \/ row = "absent" /\ data = FALSE /\ playable = FALSE
    \/ row = "recording" /\ data = TRUE /\ playable = TRUE

Moves(from, to) == row = from /\ row' = to

Plan  == Moves("absent", "scheduled") /\ UNCHANGED <<data, playable>>
Begin == Moves("scheduled", "recording") /\ UNCHANGED <<data, playable>>

\* Its window went by without a free slot, or while the server was down.
Miss == Moves("scheduled", "failed") /\ UNCHANGED <<data, playable>>

\* Bytes arrive, a file is converted, its name recorded.
Work ==
    /\ Moves("recording", "recording")
    /\ data => data'
    /\ playable' \in BOOLEAN /\ data' \in BOOLEAN

Complete ==
    /\ Moves("recording", "completed")
    /\ data /\ playable' = TRUE
    /\ UNCHANGED data

Fail == Moves("recording", "failed") /\ UNCHANGED <<data, playable>>

Next == Plan \/ Begin \/ Miss \/ Work \/ Complete \/ Fail

Spec == Init /\ [][Next]_lifeVars
=============================================================================
