------------------------- MODULE RecordingScheduler -------------------------
(***************************************************************************)
(* The recording scheduler (services/recording_scheduler.rs) with the      *)
(* database rows and files it keeps, the HTTP handlers that act on the     *)
(* same recordings (api/recordings.rs), and the server's life cycle        *)
(* (main.rs).  Four kinds of activity run on different threads and meet    *)
(* only at a mutex, a row or a file:                                       *)
(*                                                                         *)
(*   - the 10 s tick, a single task: it stops what is over, reads the      *)
(*     pending rows ONCE, then visits them one by one with awaits between; *)
(*   - one capture task per started recording, which writes the .ts and    *)
(*     closes the recording itself (conversion to MKV, final status);      *)
(*   - closing tasks for captures that an earlier run of the server left;  *)
(*   - the handlers create, stop and delete.                               *)
(*                                                                         *)
(* Status, file path and files survive a crash; everything else is memory. *)
(* Disk rotation is off, as in the default RECORDINGS_QUOTA_GB=0.          *)
(***************************************************************************)
EXTENDS FiniteSets, RecordingDecision

CONSTANTS
    Recs,           \* recordings the users may plan
    NoRec,          \* "no recording", for the tick between two rows
    Start, End,     \* planned window of each recording
    MaxConcurrent,  \* MAX_CONCURRENT_RECORDINGS
    ResumeMargin,   \* the 60 s of decide_orphan_action, in clock units
    Legacy,         \* rows the former server may have left: "recording", with an .mkv
    StopRecs,       \* recordings a user may stop        (bound)
    DeleteRecs,     \* recordings a user may delete      (bound)
    MaxTime,        \* last instant of the clock         (bound)
    MaxExits        \* crashes and shutdowns altogether  (bound)

ASSUME RecsAssumption ==
    /\ IsFiniteSet(Recs)
    /\ NoRec \notin Recs
    /\ Legacy \subseteq Recs
    /\ StopRecs \subseteq Recs
    /\ DeleteRecs \subseteq Recs

\* POST /api/recordings refuses end <= start.
ASSUME WindowAssumption ==
    /\ Start \in [Recs -> Nat]
    /\ End \in [Recs -> Nat]
    /\ \A r \in Recs : Start[r] < End[r]

ASSUME NumberAssumption ==
    /\ MaxConcurrent \in Nat
    /\ ResumeMargin \in Nat
    /\ MaxTime \in Nat
    /\ MaxExits \in Nat

VARIABLES
    status,      \* tv_recordings.status, "absent" before create, "deleted" after
    path,        \* tv_recordings.file_path: which file of the recording, if any
    ts,          \* the capture file .ts
    mkv,         \* is there a converted .mkv ?
    tmp,         \* is there a .remux.mkv, the output of a conversion ?
    active,      \* RecordingScheduler.active
    finalizing,  \* RecordingScheduler.finalizing
    reason,      \* ActiveRecording.stop_reason
    worker,      \* where the capture task and the closing task of a recording are
    tick,        \* where run_tick is
    planned,     \* rows read "scheduled" by this tick and not visited yet
    running,     \* rows read "recording" by this tick and not visited yet
    cur,         \* the row the tick is working on
    curPath,     \* its file path, as recover_orphan read it
    resume,      \* start_recording's argument
    tickNow,     \* the instant the tick started
    stopReq,     \* the status a stop request in progress has read
    delReq,      \* how far a delete request in progress is
    delPath,     \* the file path it has read
    mode,        \* the process: up, stopping after SIGTERM, down
    now,         \* wall clock
    exits,       \* crashes and shutdowns so far
    verdict      \* history: recordings the scheduler itself has closed

rowVars  == <<status, path, verdict>>
fileVars == <<ts, mkv, tmp>>
capVars  == <<active, finalizing, reason>>
curVars  == <<cur, curPath, resume>>
tickVars == <<tick, planned, running, curVars, tickNow>>
reqVars  == <<stopReq, delReq, delPath>>
procVars == <<mode, now, exits>>
vars == <<rowVars, fileVars, capVars, worker, tickVars, reqVars, procVars>>

Open  == {"scheduled", "recording"}
Final == {"completed", "failed", "cancelled"}
Status == {"absent", "deleted"} \cup Open \cup Final

Paths   == {"none", "ts", "mkv"}
Reasons == {"none", "window", "user", "shutdown", "discard"}
Kinds   == {"capture", "orphan"}

\* A capture task is at Capturing while its recording is in `active`, at
\* "leaving" while it is in both tables, then at Closing, as closing tasks are.
Capturing == {"open", "run"}
Stores    == {"storeFailed", "storeTs", "storeMkv"}
Closing   == {"discard", "close", "remux", "convert", "renamed", "release"}
                \cup Stores
Pcs       == {"idle", "leaving"} \cup Capturing \cup Closing
TickPcs   == {"off", "idle", "read", "visit", "recover", "decide", "start", "path"}

TypeOK ==
    /\ status \in [Recs -> Status]
    /\ path \in [Recs -> Paths]
    /\ ts \in [Recs -> {"none", "empty", "data"}]
    /\ mkv \in [Recs -> BOOLEAN]
    /\ tmp \in [Recs -> BOOLEAN]
    /\ active \in SUBSET Recs
    /\ finalizing \in SUBSET Recs
    /\ reason \in [Recs -> Reasons]
    /\ worker \in [Kinds -> [Recs -> Pcs]]
    /\ tick \in TickPcs
    /\ planned \in SUBSET Recs
    /\ running \in SUBSET Recs
    /\ cur \in Recs \cup {NoRec}
    /\ tick \in {"recover", "decide", "start", "path"} => cur \in Recs
    /\ curPath \in Paths
    /\ resume \in BOOLEAN
    /\ tickNow \in Nat
    /\ stopReq \in [Recs -> Status \cup {"none"}]
    /\ delReq \in [Recs -> {"none", "files", "row"}]
    /\ delPath \in [Recs -> Paths]
    /\ mode \in {"up", "stopping", "down"}
    /\ now \in Nat
    /\ exits \in Nat
    /\ verdict \in SUBSET Recs

(***************************************************************************)
(* Rows, files and the two tables of the scheduler.                        *)
(***************************************************************************)
Exists(r) == status[r] \notin {"absent", "deleted"}

\* update_recording_status is UPDATE ... WHERE id: without a row, no effect.
\* COALESCE keeps the path when none is given.
UpdateStatus(r, s) ==
    status' = IF Exists(r) THEN [status EXCEPT ![r] = s] ELSE status
UpdateRow_KeepsPath(r, s, p) == UpdateStatus(r, s) /\ UNCHANGED path   \* mutant
UpdateRow(r, s, p) ==
    /\ UpdateStatus(r, s)
    /\ path' = IF Exists(r) THEN [path EXCEPT ![r] = p] ELSE path

IsCapturing(r) == r \in active \/ r \in finalizing

FileHasData(p, r) ==
    \/ p = "ts" /\ ts[r] = "data"
    \/ p = "mkv" /\ mkv[r]

\* stop_active_recording: the first reason given wins.
RequestStop(S, why) ==
    reason' = [r \in Recs |->
                 IF r \in S \cap active /\ reason[r] = "none" THEN why ELSE reason[r]]

Init ==
    /\ \E Left \in SUBSET Legacy :
        /\ status = [r \in Recs |-> IF r \in Left THEN "recording" ELSE "absent"]
        /\ path = [r \in Recs |-> IF r \in Left THEN "mkv" ELSE "none"]
        /\ mkv = [r \in Recs |-> r \in Left]
    /\ ts = [r \in Recs |-> "none"]
    /\ tmp = [r \in Recs |-> FALSE]
    /\ active = {}
    /\ finalizing = {}
    /\ reason = [r \in Recs |-> "none"]
    /\ worker = [k \in Kinds |-> [r \in Recs |-> "idle"]]
    /\ tick = "idle"
    /\ planned = {}
    /\ running = {}
    /\ cur = NoRec
    /\ curPath = "none"
    /\ resume = FALSE
    /\ tickNow = 0
    /\ stopReq = [r \in Recs |-> "none"]
    /\ delReq = [r \in Recs |-> "none"]
    /\ delPath = [r \in Recs |-> "none"]
    /\ mode = "up"
    /\ now = 0
    /\ exits = 0
    /\ verdict = {}

(***************************************************************************)
(* run_tick: stop what is over, read the pending rows, visit them.         *)
(***************************************************************************)
TickMoves(from, to) ==
    /\ mode # "down"
    /\ tick = from
    /\ tick' = to
    /\ UNCHANGED <<reqVars, procVars>>

TickBegin ==
    /\ mode = "up"
    /\ TickMoves("idle", "read")
    /\ tickNow' = now
    /\ RequestStop({r \in active : now > End[r]}, "window")
    /\ UNCHANGED <<rowVars, fileVars, active, finalizing, worker, planned, running, curVars>>

OpenRows_WithFile == {r \in Recs : status[r] = "recording" /\ path[r] # "none"}   \* mutant
OpenRows == {r \in Recs : status[r] = "recording"}

TickRead ==
    /\ TickMoves("read", "visit")
    /\ planned' = {r \in Recs : status[r] = "scheduled"}
    /\ running' = OpenRows
    /\ UNCHANGED <<rowVars, fileVars, capVars, worker, curVars, tickNow>>

\* get_pending_recordings: ORDER BY start_time ASC.
IsNext(r) == \A o \in planned \cup running : Start[r] <= Start[o]

Visit(r) ==
    /\ IsNext(r)
    /\ planned' = planned \ {r}
    /\ running' = running \ {r}

WorkOn_Forgets(r) == cur' = cur   \* mutant
WorkOn(r) == cur' = r

\* A row read "recording": left to its task, or an orphan.
VisitCaptured(r) ==
    /\ TickMoves("visit", "visit")
    /\ r \in running
    /\ Visit(r)
    /\ IsCapturing(r)
    /\ UNCHANGED <<rowVars, fileVars, capVars, worker, curVars, tickNow>>

VisitOrphan(r) ==
    /\ TickMoves("visit", "recover")
    /\ r \in running
    /\ Visit(r)
    /\ ~IsCapturing(r)
    /\ WorkOn(r)
    /\ UNCHANGED <<rowVars, fileVars, capVars, worker, curPath, resume, tickNow>>

\* A row read "scheduled", which nothing reads again before acting on it.
PlannedAction(r) ==
    decide_recording_action(tickNow, Start[r], End[r], Cardinality(active), MaxConcurrent)

VisitStart(r) ==
    /\ TickMoves("visit", "start")
    /\ r \in planned
    /\ Visit(r)
    /\ PlannedAction(r) = "start"
    /\ UpdateStatus(r, "recording")
    /\ WorkOn(r)
    /\ UNCHANGED <<path, verdict, fileVars, capVars, worker, curPath, resume, tickNow>>

VisitMissed(r) ==
    /\ TickMoves("visit", "visit")
    /\ r \in planned
    /\ Visit(r)
    /\ PlannedAction(r) = "fail"
    /\ UpdateStatus(r, "failed")
    /\ verdict' = verdict \cup {r}
    /\ UNCHANGED <<path, fileVars, capVars, worker, curVars, tickNow>>

VisitEarlyOrFull(r) ==
    /\ TickMoves("visit", "visit")
    /\ r \in planned
    /\ Visit(r)
    /\ PlannedAction(r) \in {"none", "wait"}
    /\ UNCHANGED <<rowVars, fileVars, capVars, worker, curVars, tickNow>>

TickEnd ==
    /\ TickMoves("visit", "idle")
    /\ planned \cup running = {}
    /\ UNCHANGED <<rowVars, fileVars, capVars, worker, planned, running, curVars, tickNow>>

\* What the tick was doing for a row is done.
Forget == cur' = NoRec /\ curPath' = "none" /\ resume' = FALSE

(***************************************************************************)
(* recover_orphan.  It reads the row again; from here to the decision no   *)
(* task can take the recording, only the handlers can touch its row.       *)
(***************************************************************************)
StillOrphan_Unread == ~IsCapturing(cur)   \* mutant
StillOrphan == status[cur] = "recording" /\ ~IsCapturing(cur)

RecoverRead ==
    /\ TickMoves("recover", "decide")
    /\ StillOrphan
    /\ curPath' = path[cur]
    /\ UNCHANGED <<rowVars, fileVars, capVars, worker, planned, running, cur, resume, tickNow>>

RecoverSkips ==
    /\ TickMoves("recover", "visit")
    /\ ~StillOrphan
    /\ Forget
    /\ UNCHANGED <<rowVars, fileVars, capVars, worker, planned, running, tickNow>>

OrphanDecision ==
    decide_orphan_action(tickNow, End[cur], FileHasData(curPath, cur), ResumeMargin)

SlotFree_Ignored == TRUE   \* mutant
SlotFree == Cardinality(active) < MaxConcurrent

RecoverResume ==
    /\ TickMoves("decide", "start")
    /\ OrphanDecision = "resume"
    /\ SlotFree
    /\ UpdateStatus(cur, "recording")
    /\ resume' = TRUE
    /\ UNCHANGED <<path, verdict, fileVars, capVars, worker, planned, running, cur,
                   curPath, tickNow>>

RecoverWaits ==
    /\ TickMoves("decide", "visit")
    /\ OrphanDecision = "resume"
    /\ ~SlotFree
    /\ Forget
    /\ UNCHANGED <<rowVars, fileVars, capVars, worker, planned, running, tickNow>>

\* A .ts is closed by a task of its own.
RecoverFinish ==
    /\ TickMoves("decide", "visit")
    /\ OrphanDecision = "finish"
    /\ curPath = "ts"
    /\ finalizing' = finalizing \cup {cur}
    /\ worker' = [worker EXCEPT !["orphan"][cur] = "close"]
    /\ Forget
    /\ UNCHANGED <<rowVars, fileVars, active, reason, planned, running, tickNow>>

\* An .mkv written by the former server is kept as it is; no file, no recording.
OrphanVerdict(s) ==
    /\ TickMoves("decide", "visit")
    /\ UpdateStatus(cur, s)
    /\ verdict' = verdict \cup {cur}
    /\ Forget
    /\ UNCHANGED <<path, fileVars, capVars, worker, planned, running, tickNow>>

RecoverKeeps ==
    /\ OrphanVerdict("completed")
    /\ OrphanDecision = "finish"
    /\ curPath # "ts"
RecoverFails ==
    /\ OrphanVerdict("failed")
    /\ OrphanDecision = "fail"

(***************************************************************************)
(* start_recording, from the "recording" it has just written.              *)
(***************************************************************************)

\* URL refused, volume full, directory not writable.
StartRefused ==
    /\ TickMoves("start", "visit")
    /\ UpdateStatus(cur, "failed")
    /\ verdict' = verdict \cup {cur}
    /\ Forget
    /\ UNCHANGED <<path, fileVars, capVars, worker, planned, running, tickNow>>

CaptureFile_Fresh == [ts EXCEPT ![cur] = "none"]   \* mutant
CaptureFile == IF resume THEN ts ELSE [ts EXCEPT ![cur] = "none"]

Activate ==
    /\ TickMoves("start", "path")
    /\ ts' = CaptureFile
    /\ active' = active \cup {cur}
    /\ reason' = [reason EXCEPT ![cur] = "none"]
    /\ UNCHANGED <<rowVars, mkv, tmp, finalizing, worker, planned, running, curVars, tickNow>>

RecordPath ==
    /\ TickMoves("path", "visit")
    /\ UpdateRow(cur, "recording", "ts")
    /\ worker' = [worker EXCEPT !["capture"][cur] = "open"]
    /\ Forget
    /\ UNCHANGED <<verdict, fileVars, capVars, planned, running, tickNow>>

\* shutdown aborts the timer, which takes effect where the tick awaits.
TickAborted ==
    /\ mode = "stopping"
    /\ tick \in {"idle", "start"}
    /\ TickMoves(tick, "off")
    /\ planned' = {}
    /\ running' = {}
    /\ Forget
    /\ UNCHANGED <<rowVars, fileVars, capVars, worker, tickNow>>

(***************************************************************************)
(* run_capture and end_capture.                                            *)
(***************************************************************************)
WorkerMoves(k, r, from, to) ==
    /\ worker[k][r] \in from
    /\ worker' = [worker EXCEPT ![k][r] = to]
    /\ UNCHANGED <<reason, tickVars, reqVars, procVars>>

CaptureOpen(r) ==
    /\ WorkerMoves("capture", r, {"open"}, "run")
    /\ ts' = [ts EXCEPT ![r] = IF ts[r] = "none" THEN "empty" ELSE ts[r]]
    /\ UNCHANGED <<rowVars, mkv, tmp, active, finalizing>>

\* Bytes reach the disk.  Nothing is seen of those written to a deleted file.
CaptureWrite(r) ==
    /\ WorkerMoves("capture", r, {"run"}, "run")
    /\ ts[r] = "empty"
    /\ ts' = [ts EXCEPT ![r] = "data"]
    /\ UNCHANGED <<rowVars, mkv, tmp, active, finalizing>>

MarkClosing_Late(r) == UNCHANGED finalizing   \* mutant
MarkClosing(r) == finalizing' = finalizing \cup {r}

\* The file cannot be created, a stop is requested or the window is over:
\* end_capture enters the recording in `finalizing` first ...
CaptureExit(r) ==
    /\ WorkerMoves("capture", r, Capturing, "leaving")
    /\ worker["capture"][r] = "run" => reason[r] # "none" \/ now >= End[r]
    /\ MarkClosing(r)
    /\ UNCHANGED <<rowVars, fileVars, active>>

AfterCapture(r) == CASE reason[r] = "shutdown" -> "release"
                     [] reason[r] = "discard" -> "discard"
                     [] OTHER -> "close"

\* ... and only then takes it out of `active`.
LeaveActive(r) ==
    /\ WorkerMoves("capture", r, {"leaving"}, AfterCapture(r))
    /\ active' = active \ {r}
    /\ UNCHANGED <<rowVars, fileVars, finalizing>>

Discard(r) ==
    /\ WorkerMoves("capture", r, {"discard"}, "release")
    /\ ts' = [ts EXCEPT ![r] = "none"]
    /\ UNCHANGED <<rowVars, mkv, tmp, active, finalizing>>

(***************************************************************************)
(* finalize_capture and remux_to_mkv, run by either kind of task.          *)
(***************************************************************************)
CloseEmpty(k, r) ==
    /\ WorkerMoves(k, r, {"close"}, "storeFailed")
    /\ ts[r] # "data"
    /\ ts' = [ts EXCEPT ![r] = "none"]
    /\ UNCHANGED <<rowVars, mkv, tmp, active, finalizing>>

\* An .mkv of that name is never overwritten, otherwise FFmpeg opens the .ts.
AfterData_Overwrites(r) == "remux"   \* mutant
AfterData(r) == IF mkv[r] THEN "storeTs" ELSE "remux"

CloseData(k, r) ==
    /\ WorkerMoves(k, r, {"close"}, AfterData(r))
    /\ ts[r] = "data"
    /\ UNCHANGED <<rowVars, fileVars, active, finalizing>>

RemuxOutput(k, r) ==
    /\ WorkerMoves(k, r, {"remux"}, "convert")
    /\ tmp' = [tmp EXCEPT ![r] = TRUE]
    /\ UNCHANGED <<rowVars, ts, mkv, active, finalizing>>

\* FFmpeg fails, or its output is truncated or gone.
\* A launch or a rename that fails leaves the output as it is.
RemuxFails(k, r) ==
    /\ WorkerMoves(k, r, {"remux", "convert"}, "storeTs")
    /\ tmp' \in {tmp, [tmp EXCEPT ![r] = FALSE]}
    /\ UNCHANGED <<rowVars, ts, mkv, active, finalizing>>

RemuxRename(k, r) ==
    /\ WorkerMoves(k, r, {"convert"}, "renamed")
    /\ tmp[r]
    /\ tmp' = [tmp EXCEPT ![r] = FALSE]
    /\ mkv' = [mkv EXCEPT ![r] = TRUE]
    /\ UNCHANGED <<rowVars, ts, active, finalizing>>

DeleteTs(k, r) ==
    /\ WorkerMoves(k, r, {"renamed"}, "storeMkv")
    /\ ts' = [ts EXCEPT ![r] = "none"]
    /\ UNCHANGED <<rowVars, mkv, tmp, active, finalizing>>

StoreFailed(k, r) ==
    /\ WorkerMoves(k, r, {"storeFailed"}, "release")
    /\ UpdateStatus(r, "failed")
    /\ verdict' = verdict \cup {r}
    /\ UNCHANGED <<path, fileVars, active, finalizing>>

ClosedFile_Capture(k, r) == "ts"   \* mutant
ClosedFile(k, r) == IF worker[k][r] = "storeMkv" THEN "mkv" ELSE "ts"

StoreCompleted(k, r) ==
    /\ WorkerMoves(k, r, {"storeTs", "storeMkv"}, "release")
    /\ UpdateRow(r, "completed", ClosedFile(k, r))
    /\ verdict' = verdict \cup {r}
    /\ UNCHANGED <<fileVars, active, finalizing>>

Unmark_Leaks(r) == UNCHANGED finalizing   \* mutant
Unmark(r) == finalizing' = finalizing \ {r}

Release(k, r) ==
    /\ WorkerMoves(k, r, {"release"}, "idle")
    /\ Unmark(r)
    /\ UNCHANGED <<rowVars, fileVars, active>>

(***************************************************************************)
(* The handlers (api/recordings.rs), served until the process is gone.     *)
(***************************************************************************)
Create(r) ==
    /\ mode # "down"
    /\ status[r] = "absent"
    /\ status' = [status EXCEPT ![r] = "scheduled"]
    /\ UNCHANGED <<path, verdict, fileVars, capVars, worker, tickVars, reqVars, procVars>>

StopRead(r) ==
    /\ mode # "down"
    /\ r \in StopRecs
    /\ stopReq[r] = "none"
    /\ Exists(r)
    /\ stopReq' = [stopReq EXCEPT ![r] = status[r]]
    /\ UNCHANGED <<rowVars, fileVars, capVars, worker, tickVars, delReq, delPath, procVars>>

\* The capture if it is active, otherwise the row by the status read before.
StopAct(r) ==
    /\ stopReq[r] # "none"
    /\ stopReq' = [stopReq EXCEPT ![r] = "none"]
    /\ IF r \in active
       THEN RequestStop({r}, "user") /\ UNCHANGED status
       ELSE /\ UNCHANGED reason
            /\ CASE stopReq[r] = "scheduled" -> UpdateStatus(r, "cancelled")
                 [] stopReq[r] = "recording" -> UpdateStatus(r, "completed")
                 [] OTHER -> UNCHANGED status
    /\ UNCHANGED <<path, verdict, fileVars, active, finalizing, worker, tickVars,
                   delReq, delPath, procVars>>

DeleteBegin(r) ==
    /\ mode # "down"
    /\ r \in DeleteRecs
    /\ delReq[r] = "none"
    /\ Exists(r)
    /\ delReq' = [delReq EXCEPT ![r] = "files"]
    /\ delPath' = [delPath EXCEPT ![r] = path[r]]
    /\ RequestStop({r}, "discard")
    /\ UNCHANGED <<rowVars, fileVars, active, finalizing, worker, tickVars, stopReq,
                   procVars>>

DeleteFiles(r) ==
    /\ delReq[r] = "files"
    /\ delReq' = [delReq EXCEPT ![r] = "row"]
    /\ IF delPath[r] = "none" THEN UNCHANGED fileVars
       ELSE /\ ts' = [ts EXCEPT ![r] = "none"]
            /\ mkv' = [mkv EXCEPT ![r] = FALSE]
            /\ tmp' = [tmp EXCEPT ![r] = FALSE]
    /\ UNCHANGED <<rowVars, capVars, worker, tickVars, stopReq, delPath, procVars>>

DeleteRow(r) ==
    /\ delReq[r] = "row"
    /\ delReq' = [delReq EXCEPT ![r] = "none"]
    /\ delPath' = [delPath EXCEPT ![r] = "none"]
    /\ status' = [status EXCEPT ![r] = "deleted"]
    /\ UNCHANGED <<path, verdict, fileVars, capVars, worker, tickVars, stopReq, procVars>>

(***************************************************************************)
(* The process (main.rs) and the clock.                                    *)
(***************************************************************************)

\* SIGTERM: shutdown stops the timers and the captures.
Shutdown ==
    /\ mode = "up"
    /\ exits < MaxExits
    /\ mode' = "stopping"
    /\ exits' = exits + 1
    /\ RequestStop(active, "shutdown")
    /\ UNCHANGED <<rowVars, fileVars, active, finalizing, worker, tickVars, reqVars, now>>

\* Memory is gone, whatever the tasks were doing; rows and files remain.
MemoryLost ==
    /\ mode' = "down"
    /\ active' = {}
    /\ finalizing' = {}
    /\ reason' = [r \in Recs |-> "none"]
    /\ worker' = [k \in Kinds |-> [r \in Recs |-> "idle"]]
    /\ tick' = "off"
    /\ planned' = {}
    /\ running' = {}
    /\ cur' = NoRec
    /\ curPath' = "none"
    /\ resume' = FALSE
    /\ stopReq' = [r \in Recs |-> "none"]
    /\ delReq' = [r \in Recs |-> "none"]
    /\ delPath' = [r \in Recs |-> "none"]
    /\ UNCHANGED <<rowVars, fileVars, tickNow, now>>

\* Within 8 s of the signal, whether or not the captures are closed.
Exit ==
    /\ mode = "stopping"
    /\ MemoryLost
    /\ UNCHANGED exits

Crash ==
    /\ mode # "down"
    /\ exits < MaxExits
    /\ exits' = exits + 1
    /\ MemoryLost

Restart ==
    /\ mode = "down"
    /\ mode' = "up"
    /\ tick' = "idle"
    /\ UNCHANGED <<rowVars, fileVars, capVars, worker, planned, running, curVars, tickNow,
                   reqVars, now, exits>>

Clock ==
    /\ now < MaxTime
    /\ now' = now + 1
    /\ UNCHANGED <<rowVars, fileVars, capVars, worker, tickVars, reqVars, mode, exits>>

-----------------------------------------------------------------------------
TickStep ==
    \/ TickBegin \/ TickRead \/ TickEnd
    \/ \E r \in Recs :
          \/ VisitCaptured(r) \/ VisitOrphan(r)
          \/ VisitStart(r) \/ VisitMissed(r) \/ VisitEarlyOrFull(r)
    \/ RecoverRead \/ RecoverSkips \/ RecoverResume \/ RecoverWaits
    \/ RecoverFinish \/ RecoverKeeps \/ RecoverFails
    \/ StartRefused \/ Activate \/ RecordPath

CaptureStep(r) == CaptureOpen(r) \/ CaptureExit(r) \/ LeaveActive(r) \/ Discard(r)

CloseStep(k, r) ==
    \/ CloseEmpty(k, r) \/ CloseData(k, r)
    \/ RemuxOutput(k, r) \/ RemuxFails(k, r) \/ RemuxRename(k, r) \/ DeleteTs(k, r)
    \/ StoreFailed(k, r) \/ StoreCompleted(k, r) \/ Release(k, r)

RequestStep(r) == StopAct(r) \/ DeleteFiles(r) \/ DeleteRow(r)

UserStep(r) == Create(r) \/ StopRead(r) \/ DeleteBegin(r)

ProcessStep == Shutdown \/ Exit \/ Crash \/ Restart \/ Clock

Next ==
    \/ TickStep
    \/ TickAborted
    \/ \E r \in Recs : CaptureStep(r) \/ CaptureWrite(r)
    \/ \E k \in Kinds, r \in Recs : CloseStep(k, r)
    \/ \E r \in Recs : RequestStep(r) \/ UserStep(r)
    \/ ProcessStep

\* The runtime keeps every task going, FFmpeg and name resolution return, the
\* clock advances, and a stopped server is started again.  Nobody has to create,
\* stop or delete, no byte has to arrive and nothing has to crash.
Fairness ==
    /\ WF_vars(TickStep)
    /\ \A r \in Recs : WF_vars(CaptureStep(r)) /\ WF_vars(RequestStep(r))
    /\ \A k \in Kinds, r \in Recs : WF_vars(CloseStep(k, r))
    /\ WF_vars(Exit) /\ WF_vars(Restart) /\ WF_vars(Clock)

Spec == Init /\ [][Next]_vars /\ Fairness

-----------------------------------------------------------------------------
(***************************************************************************)
(* What must hold.                                                         *)
(***************************************************************************)
HasData(r) == ts[r] = "data" \/ mkv[r]

\* At no time more captures than MAX_CONCURRENT_RECORDINGS, although the tick
\* awaits between counting the active captures and adding one.
CapacityRespected == Cardinality(active) <= MaxConcurrent

\* A capture task and a closing task never work on the same recording, nor is one
\* started while the other runs: they append to, convert and delete one .ts file.
OneWriter ==
    \A r \in Recs :
        /\ worker["capture"][r] = "idle" \/ worker["orphan"][r] = "idle"
        /\ tick = "path" /\ cur = r => \A k \in Kinds : worker[k][r] = "idle"

\* Whenever there is something to watch, the row says where: no crash leaves a
\* captured file that the row does not lead to.
DataIsReachable ==
    \A r \in Recs : Exists(r) /\ HasData(r) => path[r] # "none"

\* An existing MKV is never the output of a conversion (finalize_capture: never
\* overwrite it), even when a crash between the rename and the deletion of the
\* .ts, or the former server, left both files.
MkvIsNotOverwritten ==
    \A k \in Kinds, r \in Recs : worker[k][r] \in {"remux", "convert"} => ~mkv[r]

\* What was captured stays on disk as long as the row, unless a user deletes it.
CapturedDataIsKept ==
    [][\A r \in Recs : HasData(r) /\ Exists(r)' /\ delReq[r] = "none" => HasData(r)']_vars

\* A recording the scheduler has closed is never taken up again, although each
\* tick works on rows it read earlier.
SchedulerVerdictIsFinal == [][\A r \in verdict : status'[r] \notin Open]_vars

\* A recording marked completed can be played: the file its row names is there.
Playable(r) == status[r] = "completed" /\ delReq[r] = "none" => FileHasData(path[r], r)
CompletedIsPlayable == \A r \in Recs : Playable(r)

\* A recording that no user stops or deletes lives the life of RecordingLifecycle,
\* whatever users do to the others, and however often the server stops or crashes:
\* planned, captured, closed once; its bytes come while it is captured, none is lost,
\* and it is completed only with something to play.
LeftAlone == Recs \ (StopRecs \cup DeleteRecs)

Lifecycle(r) == INSTANCE RecordingLifecycle
    WITH row <- status[r], data <- HasData(r), playable <- FileHasData(path[r], r)

LifecycleIsKept ==
    /\ \A r \in LeftAlone : Lifecycle(r)!Init
    /\ [][\A r \in LeftAlone : [Lifecycle(r)!Next]_(Lifecycle(r)!lifeVars)]_vars

\* Whatever happens, no recording stays planned or in progress for ever.
EveryRecordingCloses == <>[](\A r \in Recs : status[r] \notin Open)

\* ... and no capture slot or closing mark is leaked.
SlotsAreFreed == <>[](active \cup finalizing = {})

(***************************************************************************)
(* Why they hold: the inductive invariants of the proofs.                  *)
(***************************************************************************)

\* A slot is free whenever a start is under way: only the tick fills slots.
CapacityInv ==
    /\ CapacityRespected
    /\ tick = "start" => Cardinality(active) < MaxConcurrent

Begun(r) == status[r] \notin {"absent", "scheduled"}

\* The tables say which task has a recording, and what the tick holds, a row of its
\* snapshot or the one it works on, no task has.
WriterInv ==
    /\ OneWriter
    /\ \A r \in Recs :
        /\ worker["capture"][r] \in Capturing \cup {"leaving"} => r \in active
        /\ worker["capture"][r] \in Closing => r \notin active
        /\ worker["capture"][r] \in Closing \cup {"leaving"} => r \in finalizing
        /\ worker["orphan"][r] # "idle" => r \in finalizing \ active
        /\ IsCapturing(r) => Begun(r)
        /\ r \in planned => ~IsCapturing(r) /\ status[r] # "absent"
        /\ r \in running => Begun(r)
    /\ tick \in {"recover", "decide", "start", "path"} => Begun(cur) /\ cur \notin planned
    /\ tick \in {"recover", "decide", "start"} => ~IsCapturing(cur)
    /\ tick = "path" => cur \in active \ finalizing

\* A path is recorded before a file can appear, and never taken back.
ReachInv ==
    /\ \A r \in Recs :
        \/ path[r] # "none"
        \/ status[r] = "deleted"
        \/ /\ ~HasData(r)
           /\ ts[r] = "none"
           /\ \A k \in Kinds : worker[k][r] = "idle"
    /\ tick = "decide" /\ curPath # "none" => path[cur] # "none"

\* A start that is not a resumption finds no .ts to remove; a capture is discarded,
\* and the .ts of a conversion removed without its MKV, under a deletion only.
BeingDeleted(r) == delReq[r] # "none" \/ status[r] = "deleted"

KeepInv ==
    /\ \A r \in Recs :
        /\ r \in planned \/ ~Begun(r) => ts[r] = "none"
        /\ reason[r] = "discard" => BeingDeleted(r)
        /\ worker["capture"][r] = "discard" => BeingDeleted(r)
        /\ \A k \in Kinds : worker[k][r] = "renamed" => mkv[r] \/ BeingDeleted(r)
    /\ tick = "start" /\ ~resume => ts[cur] = "none"

\* Left to the scheduler, a row is "recording" from the start of its capture until a
\* task or the tick closes it; a task about to name a file has it, and no task or
\* decision is left for a row that is closed.
PlayableInv ==
    \A r \in LeftAlone :
        /\ Playable(r)
        /\ status[r] # "deleted" /\ stopReq[r] = "none" /\ delReq[r] = "none"
        /\ reason[r] \notin {"user", "discard"}
        /\ r \in planned => status[r] = "scheduled"
        /\ tick \in {"decide", "start", "path"} /\ cur = r => status[r] = "recording"
        /\ tick = "decide" /\ cur = r => curPath = path[r]
        /\ \A k \in Kinds :
            /\ worker[k][r] # "discard"
            /\ worker[k][r] \notin {"idle", "release"} => status[r] = "recording"
            /\ worker[k][r] \in {"remux", "convert", "renamed", "storeTs"} => ts[r] = "data"
            /\ worker[k][r] \in {"renamed", "storeMkv"} => mkv[r]

\* What the tick may reopen, the scheduler has not closed.
VerdictInv ==
    /\ \A r \in verdict : status[r] \notin Open \cup {"absent"}
    /\ planned \cap verdict = {}
    /\ tick \in {"decide", "start", "path"} => cur \notin verdict

(***************************************************************************)
(* What the comments say and the code does not keep.                       *)
(***************************************************************************)

\* Stopping a planned recording cancels it: it is not captured afterwards.
CancelledIsNotCaptured ==
    [][\A r \in Recs : status[r] = "cancelled" => status'[r] # "recording"]_vars

\* OrphanAction::Fail is for an orphan of which nothing usable was captured.
OrphanFailsOnlyWhenEmpty ==
    [][\A r \in Recs :
          tick = "decide" /\ cur = r /\ status[r] = "recording" /\ status'[r] = "failed"
          => ~HasData(r)]_vars

\* Deleting a recording deletes its files with its row.
DeletedLeavesNoFile ==
    \A r \in Recs :
        /\ status[r] = "deleted"
        /\ ~IsCapturing(r)
        /\ \A k \in Kinds : worker[k][r] = "idle"
        => ts[r] = "none" /\ ~mkv[r] /\ ~tmp[r]
=============================================================================
