---------------------------- MODULE DiskRotation ----------------------------
(***************************************************************************)
(* The rotation of the recordings by RECORDINGS_QUOTA_GB, which a start of *)
(* recording does before it captures (check_disk_space_and_rotate), amidst *)
(* captures that write and close, users who stop and delete, restarts and  *)
(* what becomes of the orphans they leave. The tasks are those of          *)
(* RecordingScheduler, shortened here to what the rotation can see: a      *)
(* status, a path, the size of the files.                                  *)
(***************************************************************************)
EXTENDS Integers, FiniteSets, FiniteSetsExt

CONSTANTS
    DiskRecs,          \* in the order of their start: numbers
    QuotaBytes,
    FileMost,          \* size of the files of a recording, at most (bound)
    NoDiskRec

ASSUME DiskAssumption == NoDiskRec \notin DiskRecs

VARIABLES
    disk,         \* recording -> [status, path, size]
    held,         \* recordings that is_capturing knows: active or being closed
    due,          \* recordings a tick has read as scheduled
    rotation,     \* [pc, start, total, list, victim, freed]
    userStop      \* the status a request to stop has read: recording -> status
diskVars == <<disk, held, due, rotation, userStop>>

Statuses == {"absent", "scheduled", "recording", "completed", "failed", "cancelled"}
Resting  == [pc |-> "idle", start |-> NoDiskRec, total |-> 0, list |-> {},
             victim |-> NoDiskRec, freed |-> 0]
Blank    == [status |-> "absent", path |-> FALSE, size |-> 0]
DiskInit ==
    /\ disk = [r \in DiskRecs |-> [Blank EXCEPT !.status = "scheduled"]]
    /\ held = {} /\ due = {}
    /\ rotation = Resting
    /\ userStop = [r \in DiskRecs |-> "none"]

InUse == FoldSet(LAMBDA r, n : disk[r].size + n, 0, DiskRecs)
SetStatus(r, status) ==
    IF disk[r].status = "absent" THEN disk ELSE [disk EXCEPT ![r].status = status]

(***************************************************************************)
(* The tick visits the rows it has read, one start at a time.              *)
(***************************************************************************)
DueAreRead ==
    /\ rotation.pc = "idle"
    /\ due' = {r \in DiskRecs : disk[r].status = "scheduled"}
    /\ UNCHANGED <<disk, held, rotation, userStop>>
\* start_recording, from the copy: given up or deleted by now, all the same.
StartWrites(r) ==
    /\ rotation.pc = "idle" /\ r \in due
    /\ due' = due \ {r}
    /\ disk' = SetStatus(r, "recording")
    /\ rotation' = [Resting EXCEPT !.pc = "measure", !.start = r]
    /\ UNCHANGED <<held, userStop>>

\* recover_orphan reads the row again.
OrphanHere(r) == rotation.pc = "idle" /\ disk[r].status = "recording" /\ r \notin held
\* It keeps its files and goes through the same start.
OrphanResumes(r) ==
    /\ OrphanHere(r)
    /\ rotation' = [Resting EXCEPT !.pc = "measure", !.start = r]
    /\ UNCHANGED <<disk, held, due, userStop>>
OrphanCloses(r) ==
    /\ OrphanHere(r) /\ disk[r].path
    /\ held' = held \cup {r}
    /\ UNCHANGED <<disk, due, rotation, userStop>>
OrphanFails(r) ==
    /\ OrphanHere(r)
    /\ disk' = SetStatus(r, "failed")
    /\ UNCHANGED <<held, due, rotation, userStop>>

(***************************************************************************)
(* try_start_recording.                                                    *)
(***************************************************************************)
\* The whole directory, before the rows are read.
Measure ==
    /\ rotation.pc = "measure"
    /\ rotation' = [rotation EXCEPT !.pc = IF InUse <= QuotaBytes THEN "activate" ELSE "read",
                                    !.total = InUse]
    /\ UNCHANGED <<disk, held, due, userStop>>
\* get_finished_recordings_oldest_first.
FinishedRows == {r \in DiskRecs : disk[r].status \in {"completed", "failed", "cancelled"}}
ReadFinished ==
    /\ rotation.pc = "read"
    /\ rotation' = [rotation EXCEPT !.pc = "next", !.list = {r \in FinishedRows : disk[r].path}]
    /\ UNCHANGED <<disk, held, due, userStop>>

Oldest(S) == CHOOSE r \in S : \A o \in S : r <= o
IsCapturingHere_Never(r) == FALSE                     \* mutant: by the status alone
IsCapturingHere(r) == r \in held

RotationIsOver ==
    /\ rotation.pc = "next"
    /\ rotation.total <= QuotaBytes \/ rotation.list = {}
    /\ rotation' = [rotation EXCEPT !.pc = "activate"]
    /\ UNCHANGED <<disk, held, due, userStop>>
TakeOldest ==
    LET r == Oldest(rotation.list)
    IN  /\ rotation.pc = "next" /\ rotation.total > QuotaBytes /\ rotation.list # {}
        /\ rotation' = IF IsCapturingHere(r) THEN [rotation EXCEPT !.list = @ \ {r}]
                       ELSE [rotation EXCEPT !.pc = "files", !.victim = r, !.list = @ \ {r}]
        /\ UNCHANGED <<disk, held, due, userStop>>
\* What their sizes say is freed, even when somebody else has deleted them.
RotateFiles ==
    LET r == rotation.victim
    IN  /\ rotation.pc = "files"
        /\ rotation' = [rotation EXCEPT !.pc = "row", !.freed = disk[r].size]
        /\ disk' = [disk EXCEPT ![r].size = 0]
        /\ UNCHANGED <<held, due, userStop>>
RotateRow ==
    LET r == rotation.victim
    IN  /\ rotation.pc = "row"
        /\ disk' = [disk EXCEPT ![r].status = "absent"]
        /\ rotation' = [rotation EXCEPT !.pc = "next", !.victim = NoDiskRec, !.freed = 0,
                          !.total = IF @ < rotation.freed THEN 0 ELSE @ - rotation.freed]
        /\ UNCHANGED <<held, due, userStop>>

\* The volume is full or not writable.
StartFailsHere ==
    /\ rotation.pc = "activate"
    /\ disk' = SetStatus(rotation.start, "failed")
    /\ rotation' = Resting
    /\ UNCHANGED <<held, due, userStop>>
StartActivates ==
    LET r == rotation.start
    IN  /\ rotation.pc = "activate"
        /\ held' = held \cup {r}
        /\ rotation' = [rotation EXCEPT !.pc = "path"]
        /\ UNCHANGED <<disk, due, userStop>>
StartWritesPath ==
    LET r == rotation.start
    IN  /\ rotation.pc = "path"
        /\ disk' = IF disk[r].status = "absent" THEN disk
                   ELSE [disk EXCEPT ![r].status = "recording", ![r].path = TRUE]
        /\ rotation' = Resting
        /\ UNCHANGED <<held, due, userStop>>

(***************************************************************************)
(* The captures, the users and a restart.                                  *)
(***************************************************************************)
CaptureGrows(r) ==
    /\ r \in held /\ disk[r].size < FileMost
    /\ rotation.start = r => rotation.pc # "path"
    /\ disk' = [disk EXCEPT ![r].size = @ + 1]
    /\ UNCHANGED <<held, due, rotation, userStop>>
\* finalize_capture stores the status, then the recording leaves `finalizing`.
CaptureStores(r, status) ==
    /\ r \in held
    /\ rotation.start = r => rotation.pc # "path"
    /\ disk' = SetStatus(r, status)
    /\ UNCHANGED <<held, due, rotation, userStop>>
CaptureLeaves(r) ==
    /\ r \in held
    /\ rotation.start = r => rotation.pc # "path"
    /\ disk[r].status # "recording"
    /\ held' = held \ {r}
    /\ UNCHANGED <<disk, due, rotation, userStop>>

\* POST stop: the row by the status read before, when no capture is active.
StopReads(r) ==
    /\ userStop[r] = "none" /\ disk[r].status \in {"scheduled", "recording"}
    /\ userStop' = [userStop EXCEPT ![r] = disk[r].status]
    /\ UNCHANGED <<disk, held, due, rotation>>
StopWrites(r) ==
    /\ userStop[r] # "none" /\ userStop' = [userStop EXCEPT ![r] = "none"]
    /\ disk' = IF r \in held THEN disk
               ELSE SetStatus(r, IF userStop[r] = "scheduled" THEN "cancelled" ELSE "completed")
    /\ UNCHANGED <<held, due, rotation>>
\* DELETE, whatever the status; of a capture that runs, see RecordingScheduler.
UserDeletesFiles(r) ==
    /\ disk[r].status # "absent" /\ r \notin held
    /\ disk' = [disk EXCEPT ![r] = Blank]
    /\ UNCHANGED <<held, due, rotation, userStop>>

\* A crash, or a stop of the server: the rows and the files stay.
ServerRestarts ==
    /\ held' = {} /\ due' = {} /\ rotation' = Resting
    /\ userStop' = [r \in DiskRecs |-> "none"]
    /\ UNCHANGED disk

DiskNext ==
    \/ DueAreRead \/ ServerRestarts
    \/ Measure \/ ReadFinished \/ RotationIsOver \/ TakeOldest \/ RotateFiles \/ RotateRow
    \/ StartFailsHere \/ StartActivates \/ StartWritesPath
    \/ \E r \in DiskRecs :
         \/ StartWrites(r) \/ OrphanResumes(r) \/ OrphanCloses(r) \/ OrphanFails(r)
         \/ CaptureGrows(r) \/ CaptureLeaves(r) \/ StopReads(r)
         \/ StopWrites(r) \/ UserDeletesFiles(r)
         \/ \E status \in {"completed", "failed"} : CaptureStores(r, status)

DiskSpec == DiskInit /\ [][DiskNext]_diskVars

(***************************************************************************)
(* Properties.                                                             *)
(***************************************************************************)
\* « Jamais un actif »: the rotation never takes the files or the row of a
\* recording that is captured or being closed, whatever its row says.
RotationSparesCaptures == rotation.victim \notin held
=============================================================================
