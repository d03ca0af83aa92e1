------------------------- MODULE RecordingDecision -------------------------
(***************************************************************************)
(* The scheduler's pure decisions (services/recording_decision.rs): what   *)
(* to do with a planned recording at this tick, and what to do with a row  *)
(* left at "recording" that nothing captures.  Instants are naturals in an *)
(* arbitrary unit; margin is the 60 s under which resuming is pointless.   *)
(***************************************************************************)
EXTENDS Integers

RecordingActions == {"start", "wait", "fail", "none"}

decide_recording_action(at, start, end, active_count, max_concurrent) ==
    IF at > end THEN "fail"
    ELSE IF at <= start THEN "none"
    ELSE IF active_count >= max_concurrent THEN "wait"
    ELSE "start"

OrphanActions == {"resume", "finish", "fail"}

decide_orphan_action(at, end, has_file, margin) ==
    IF end - at > margin THEN "resume"
    ELSE IF has_file THEN "finish"
    ELSE "fail"
=============================================================================
