---------------------- MODULE RecordingSchedulerProofs ----------------------
(***************************************************************************)
(* What the runs of RecordingScheduler check on one or two recordings,     *)
(* proved for any finite set of recordings, any windows, any capacity and  *)
(* any number of crashes.                                                  *)
(***************************************************************************)
EXTENDS RecordingScheduler, FiniteSetTheorems, TLAPS

USE DEF Open, Final, Status, Paths, Reasons, Kinds, Capturing, Stores, Closing, Pcs,
        TickPcs, rowVars, fileVars, capVars, curVars, tickVars, reqVars, procVars

\* The tick's own steps keep every variable in its type.
LEMMA TickStepType == TypeOK /\ TickStep => TypeOK'
<1> SUFFICES ASSUME TypeOK, TickStep PROVE TypeOK'
    OBVIOUS
<1> USE DEF TypeOK, TickMoves, Forget, UpdateStatus
<1>1. CASE TickBegin
    BY <1>1 DEF TickBegin, RequestStop
<1>2. CASE TickRead
    BY <1>2 DEF TickRead, OpenRows
<1>3. CASE TickEnd
    BY <1>3 DEF TickEnd
<1>4. ASSUME NEW r \in Recs, VisitCaptured(r) PROVE TypeOK'
    BY <1>4 DEF VisitCaptured, Visit
<1>5. ASSUME NEW r \in Recs, VisitOrphan(r) PROVE TypeOK'
    BY <1>5 DEF VisitOrphan, Visit, WorkOn
<1>6. ASSUME NEW r \in Recs, VisitStart(r) PROVE TypeOK'
    BY <1>6 DEF VisitStart, Visit, WorkOn
<1>7. ASSUME NEW r \in Recs, VisitMissed(r) PROVE TypeOK'
    BY <1>7 DEF VisitMissed, Visit
<1>8. ASSUME NEW r \in Recs, VisitEarlyOrFull(r) PROVE TypeOK'
    BY <1>8 DEF VisitEarlyOrFull, Visit
<1>9. CASE RecoverRead
    BY <1>9 DEF RecoverRead
<1>10. CASE RecoverSkips
    BY <1>10 DEF RecoverSkips
<1>11. CASE RecoverResume
    BY <1>11 DEF RecoverResume
<1>12. CASE RecoverWaits
    BY <1>12 DEF RecoverWaits
<1>13. CASE RecoverFinish
    BY <1>13 DEF RecoverFinish
<1>14. CASE RecoverKeeps
    BY <1>14 DEF RecoverKeeps, OrphanVerdict
<1>15. CASE RecoverFails
    BY <1>15 DEF RecoverFails, OrphanVerdict
<1>16. CASE StartRefused
    BY <1>16 DEF StartRefused
<1>17. CASE Activate
    BY <1>17 DEF Activate, CaptureFile
<1>18. CASE RecordPath
    BY <1>18 DEF RecordPath, UpdateRow
<1> QED
    BY <1>1, <1>2, <1>3, <1>4, <1>5, <1>6, <1>7, <1>8, <1>9, <1>10, <1>11, <1>12,
       <1>13, <1>14, <1>15, <1>16, <1>17, <1>18 DEF TickStep

\* So do the capture and closing tasks,
LEMMA WorkerStepType ==
    ASSUME TypeOK, NEW k \in Kinds, NEW r \in Recs,
           CaptureStep(r) \/ CaptureWrite(r) \/ CloseStep(k, r)
    PROVE  TypeOK'
<1> USE DEF TypeOK, WorkerMoves, UpdateStatus, UpdateRow
<1>1. CASE CaptureOpen(r)
    BY <1>1 DEF CaptureOpen
<1>2. CASE CaptureWrite(r)
    BY <1>2 DEF CaptureWrite
<1>3. CASE CaptureExit(r)
    BY <1>3 DEF CaptureExit, MarkClosing
<1>4. CASE LeaveActive(r)
    BY <1>4 DEF LeaveActive, AfterCapture
<1>5. CASE Discard(r)
    BY <1>5 DEF Discard
<1>6. CASE CloseEmpty(k, r)
    BY <1>6 DEF CloseEmpty
<1>7. CASE CloseData(k, r)
    BY <1>7 DEF CloseData, AfterData
<1>8. CASE RemuxOutput(k, r)
    BY <1>8 DEF RemuxOutput
<1>9. CASE RemuxFails(k, r)
    BY <1>9 DEF RemuxFails
<1>10. CASE RemuxRename(k, r)
    BY <1>10 DEF RemuxRename
<1>11. CASE DeleteTs(k, r)
    BY <1>11 DEF DeleteTs
<1>12. CASE StoreFailed(k, r)
    BY <1>12 DEF StoreFailed
<1>13. CASE StoreCompleted(k, r)
    BY <1>13 DEF StoreCompleted, ClosedFile
<1>14. CASE Release(k, r)
    BY <1>14 DEF Release, Unmark
<1> QED
    BY <1>1, <1>2, <1>3, <1>4, <1>5, <1>6, <1>7, <1>8, <1>9, <1>10, <1>11, <1>12,
       <1>13, <1>14 DEF CaptureStep, CloseStep

\* the handlers,
LEMMA HandlerStepType ==
    ASSUME TypeOK, NEW r \in Recs, RequestStep(r) \/ UserStep(r)
    PROVE  TypeOK'
<1> USE DEF TypeOK, UpdateStatus, RequestStop
<1>1. CASE StopAct(r)
    BY <1>1 DEF StopAct
<1>2. CASE DeleteFiles(r)
  <2>1. /\ ts' \in [Recs -> {"none", "empty", "data"}]
        /\ mkv' \in [Recs -> BOOLEAN]
        /\ tmp' \in [Recs -> BOOLEAN]
    <3>1. CASE delPath[r] = "none"
        BY <1>2, <3>1 DEF DeleteFiles
    <3>2. CASE delPath[r] # "none"
      <4>1. ts' = [ts EXCEPT ![r] = "none"]
          BY <1>2, <3>2 DEF DeleteFiles
      <4>2. mkv' = [mkv EXCEPT ![r] = FALSE] /\ tmp' = [tmp EXCEPT ![r] = FALSE]
          BY <1>2, <3>2 DEF DeleteFiles
      <4> QED
          BY <4>1, <4>2
    <3> QED
        BY <3>1, <3>2
  <2>2. UNCHANGED <<rowVars, capVars, worker, tickVars, stopReq, delPath, procVars>>
      BY <1>2 DEF DeleteFiles
  <2>3. delReq' \in [Recs -> {"none", "files", "row"}]
      BY <1>2 DEF DeleteFiles
  <2> QED
      BY <2>1, <2>2, <2>3
<1>3. CASE DeleteRow(r)
    BY <1>3 DEF DeleteRow
<1>4. CASE Create(r)
    BY <1>4 DEF Create
<1>5. CASE StopRead(r)
    BY <1>5 DEF StopRead
<1>6. CASE DeleteBegin(r)
    BY <1>6 DEF DeleteBegin
<1> QED
    BY <1>1, <1>2, <1>3, <1>4, <1>5, <1>6 DEF RequestStep, UserStep

\* and the life cycle of the process.
LEMMA ProcessStepType == TypeOK /\ (ProcessStep \/ TickAborted) => TypeOK'
<1> SUFFICES ASSUME TypeOK, ProcessStep \/ TickAborted PROVE TypeOK'
    OBVIOUS
<1> USE DEF TypeOK, RequestStop, MemoryLost
<1>1. CASE Shutdown
    BY <1>1 DEF Shutdown
<1>2. CASE Exit
    BY <1>2 DEF Exit
<1>3. CASE Crash
  <2>1. exits' \in Nat
      BY <1>3 DEF Crash
  <2>2. MemoryLost
      BY <1>3 DEF Crash
  <2> QED
      BY <2>1, <2>2
<1>4. CASE Restart
    BY <1>4 DEF Restart
<1>5. CASE Clock
    BY <1>5 DEF Clock
<1>6. CASE TickAborted
    BY <1>6 DEF TickAborted, TickMoves, Forget
<1> QED
    BY <1>1, <1>2, <1>3, <1>4, <1>5, <1>6 DEF ProcessStep

\* Type correctness of every row, file, table and cursor.
THEOREM TypeCorrect == Spec => []TypeOK
<1>1. Init => TypeOK
  <2> SUFFICES ASSUME Init PROVE TypeOK
      OBVIOUS
  <2>1. mkv \in [Recs -> BOOLEAN]
      BY DEF Init
  <2>2. status \in [Recs -> Status] /\ path \in [Recs -> Paths]
      BY DEF Init
  <2>3. /\ active \in SUBSET Recs /\ finalizing \in SUBSET Recs
        /\ planned \in SUBSET Recs /\ running \in SUBSET Recs /\ verdict \in SUBSET Recs
      BY DEF Init
  <2>4. worker \in [Kinds -> [Recs -> Pcs]]
      BY DEF Init
  <2> QED
      BY <2>1, <2>2, <2>3, <2>4 DEF Init, TypeOK
<1>2. TypeOK /\ [Next]_vars => TypeOK'
  <2> SUFFICES ASSUME TypeOK, [Next]_vars PROVE TypeOK'
      OBVIOUS
  <2>1. CASE UNCHANGED vars
      BY <2>1 DEF vars, TypeOK
  <2>2. CASE Next
      BY <2>2, TickStepType, WorkerStepType, HandlerStepType, ProcessStepType DEF Next
  <2> QED
      BY <2>1, <2>2
<1> QED
    BY <1>1, <1>2, PTL DEF Spec

-----------------------------------------------------------------------------
(***************************************************************************)
(* Capacity.                                                               *)
(***************************************************************************)

\* A step that changes neither the captures nor what a start relies on.
LEMMA CapacityQuiet ==
    ASSUME CapacityInv, active' = active, tick' = "start" => tick = "start"
    PROVE  CapacityInv'
BY DEF CapacityInv, CapacityRespected

\* A start finds a free slot and takes one.
LEMMA CapacityTick == TypeOK /\ CapacityInv /\ TickStep => CapacityInv'
<1> SUFFICES ASSUME TypeOK, CapacityInv, TickStep PROVE CapacityInv'
    OBVIOUS
<1>1. /\ IsFiniteSet(active)
      /\ Cardinality(active) \in Nat
      /\ MaxConcurrent \in Nat
    BY RecsAssumption, NumberAssumption, FS_Subset, FS_CardinalityType DEF TypeOK
<1>2. ASSUME NEW r \in Recs, VisitStart(r) PROVE CapacityInv'
  <2>1. Cardinality(active) < MaxConcurrent
      BY <1>1, <1>2 DEF VisitStart, PlannedAction, decide_recording_action
  <2>2. active' = active
      BY <1>2 DEF VisitStart
  <2> QED
      BY <2>1, <2>2, <1>1 DEF CapacityInv, CapacityRespected
<1>3. CASE RecoverResume
    BY <1>3, <1>1 DEF RecoverResume, SlotFree, CapacityInv, CapacityRespected
<1>4. CASE Activate
  <2>1. Cardinality(active) < MaxConcurrent
      BY <1>4 DEF Activate, TickMoves, CapacityInv
  <2>2. active' = active \cup {cur} /\ tick' = "path"
      BY <1>4 DEF Activate, TickMoves
  <2>3. Cardinality(active \cup {cur}) <= Cardinality(active) + 1
      BY <1>1, FS_AddElement
  <2>4. Cardinality(active \cup {cur}) \in Nat
      BY <1>1, FS_AddElement, FS_CardinalityType
  <2>5. Cardinality(active') <= MaxConcurrent
      BY <2>1, <2>2, <2>3, <2>4, <1>1
  <2> QED
      BY <2>2, <2>5 DEF CapacityInv, CapacityRespected
<1>5. CASE \/ TickBegin \/ TickRead \/ TickEnd
           \/ RecoverRead \/ RecoverSkips \/ RecoverWaits
  <2>1. active' = active /\ tick' # "start"
      BY <1>5 DEF TickBegin, TickRead, TickEnd, RecoverRead, RecoverSkips, RecoverWaits,
                  TickMoves
  <2> QED
      BY <2>1, CapacityQuiet
<1>6. CASE RecoverFinish \/ RecoverKeeps \/ RecoverFails \/ StartRefused \/ RecordPath
  <2>1. active' = active /\ tick' # "start"
      BY <1>6 DEF RecoverFinish, RecoverKeeps, RecoverFails, OrphanVerdict, StartRefused,
                  RecordPath, TickMoves
  <2> QED
      BY <2>1, CapacityQuiet
<1>7. ASSUME NEW r \in Recs,
             \/ VisitCaptured(r) \/ VisitOrphan(r)
             \/ VisitMissed(r) \/ VisitEarlyOrFull(r)
      PROVE  CapacityInv'
  <2>1. active' = active /\ tick' # "start"
      BY <1>7 DEF VisitCaptured, VisitOrphan, VisitMissed, VisitEarlyOrFull, TickMoves
  <2> QED
      BY <2>1, CapacityQuiet
<1> QED
    BY <1>2, <1>3, <1>4, <1>5, <1>6, <1>7 DEF TickStep

\* A task frees a slot.
LEMMA CapacityWorker ==
    ASSUME TypeOK, CapacityInv, NEW k \in Kinds, NEW r \in Recs,
           CaptureStep(r) \/ CaptureWrite(r) \/ CloseStep(k, r)
    PROVE  CapacityInv'
<1>1. CASE LeaveActive(r)
  <2>1. active' \subseteq active /\ tick' = tick
      BY <1>1 DEF LeaveActive, WorkerMoves
  <2>2. IsFiniteSet(active) /\ MaxConcurrent \in Nat
      BY RecsAssumption, NumberAssumption, FS_Subset DEF TypeOK
  <2>3. Cardinality(active') <= Cardinality(active)
      BY <2>1, <2>2, FS_Subset
  <2>4. Cardinality(active') \in Nat /\ Cardinality(active) \in Nat
      BY <2>1, <2>2, FS_Subset, FS_CardinalityType
  <2> QED
      BY <2>1, <2>2, <2>3, <2>4 DEF CapacityInv, CapacityRespected
<1>2. CASE CaptureOpen(r) \/ CaptureWrite(r) \/ CaptureExit(r) \/ Discard(r)
  <2>1. active' = active /\ tick' = tick
      BY <1>2 DEF CaptureOpen, CaptureWrite, CaptureExit, Discard, WorkerMoves
  <2> QED
      BY <2>1, CapacityQuiet
<1>3. CASE CloseStep(k, r)
  <2>1. active' = active /\ tick' = tick
      BY <1>3 DEF CloseStep, CloseEmpty, CloseData, RemuxOutput, RemuxFails, RemuxRename,
                  DeleteTs, StoreFailed, StoreCompleted, Release, WorkerMoves
  <2> QED
      BY <2>1, CapacityQuiet
<1> QED
    BY <1>1, <1>2, <1>3 DEF CaptureStep

\* Handlers and process fill no slot.
LEMMA CapacityRest ==
    ASSUME CapacityInv,
           TickAborted \/ ProcessStep \/ \E r \in Recs : RequestStep(r) \/ UserStep(r)
    PROVE  CapacityInv'
<1>1. ASSUME NEW r \in Recs, RequestStep(r) \/ UserStep(r) PROVE CapacityInv'
  <2>1. active' = active /\ tick' = tick
      BY <1>1 DEF RequestStep, UserStep, StopAct, DeleteFiles, DeleteRow, Create, StopRead,
                  DeleteBegin
  <2> QED
      BY <2>1, CapacityQuiet
<1>2. CASE TickAborted \/ Shutdown \/ Restart \/ Clock
  <2>1. active' = active /\ (tick' = "start" => tick = "start")
      BY <1>2 DEF TickAborted, TickMoves, Shutdown, Restart, Clock
  <2> QED
      BY <2>1, CapacityQuiet
<1>3. CASE Exit \/ Crash
  <2>1. active' = {} /\ tick' = "off"
      BY <1>3 DEF Exit, Crash, MemoryLost
  <2>2. Cardinality(active') <= MaxConcurrent
      BY <2>1, FS_EmptySet, NumberAssumption
  <2> QED
      BY <2>1, <2>2 DEF CapacityInv, CapacityRespected
<1> QED
    BY <1>1, <1>2, <1>3 DEF ProcessStep

\* There are never more captures than MAX_CONCURRENT_RECORDINGS.
THEOREM CapacityHolds == Spec => []CapacityRespected
<1>1. Init => CapacityInv
    BY FS_EmptySet, NumberAssumption DEF Init, CapacityInv, CapacityRespected
<1>2. TypeOK /\ CapacityInv /\ [Next]_vars => CapacityInv'
  <2> SUFFICES ASSUME TypeOK, CapacityInv, [Next]_vars PROVE CapacityInv'
      OBVIOUS
  <2>1. CASE UNCHANGED vars
      BY <2>1, CapacityQuiet DEF vars
  <2>2. CASE Next
      BY <2>2, CapacityTick, CapacityWorker, CapacityRest DEF Next
  <2> QED
      BY <2>1, <2>2
<1>3. CapacityInv => CapacityRespected
    BY DEF CapacityInv
<1> QED
    BY <1>1, <1>2, <1>3, TypeCorrect, PTL DEF Spec

-----------------------------------------------------------------------------
(***************************************************************************)
(* One writer at a time.                                                   *)
(***************************************************************************)
\* The tick hands a recording to a task only when no task has it,
LEMMA WriterTick == TypeOK /\ WriterInv /\ TickStep => WriterInv'
<1> SUFFICES ASSUME TypeOK, WriterInv, TickStep PROVE WriterInv'
    OBVIOUS
<1> USE DEF TypeOK, WriterInv, OneWriter, IsCapturing, Begun, TickMoves, Forget,
            UpdateStatus, Exists
<1>1. CASE TickBegin
    BY <1>1 DEF TickBegin
<1>2. CASE TickRead
    BY <1>2 DEF TickRead, OpenRows
<1>3. CASE TickEnd
    BY <1>3 DEF TickEnd
<1>4. ASSUME NEW r \in Recs, VisitCaptured(r) PROVE WriterInv'
    BY <1>4 DEF VisitCaptured, Visit
<1>5. ASSUME NEW r \in Recs, VisitOrphan(r) PROVE WriterInv'
    BY <1>5 DEF VisitOrphan, Visit, WorkOn
<1>6. ASSUME NEW r \in Recs, VisitStart(r) PROVE WriterInv'
    BY <1>6 DEF VisitStart, Visit, WorkOn
<1>7. ASSUME NEW r \in Recs, VisitMissed(r) PROVE WriterInv'
    BY <1>7 DEF VisitMissed, Visit
<1>8. ASSUME NEW r \in Recs, VisitEarlyOrFull(r) PROVE WriterInv'
    BY <1>8 DEF VisitEarlyOrFull, Visit
<1>9. CASE RecoverRead
    BY <1>9 DEF RecoverRead, StillOrphan
<1>10. CASE RecoverSkips
    BY <1>10 DEF RecoverSkips
<1>11. CASE RecoverResume
    BY <1>11 DEF RecoverResume
<1>12. CASE RecoverWaits
    BY <1>12 DEF RecoverWaits
<1>13. CASE RecoverFinish
    BY <1>13 DEF RecoverFinish
<1>14. CASE RecoverKeeps
    BY <1>14 DEF RecoverKeeps, OrphanVerdict
<1>15. CASE RecoverFails
    BY <1>15 DEF RecoverFails, OrphanVerdict
<1>16. CASE StartRefused
    BY <1>16 DEF StartRefused
<1>17. CASE Activate
    BY <1>17 DEF Activate
<1>18. CASE RecordPath
    BY <1>18 DEF RecordPath, UpdateRow
<1> QED
    BY <1>1, <1>2, <1>3, <1>4, <1>5, <1>6, <1>7, <1>8, <1>9, <1>10, <1>11, <1>12,
       <1>13, <1>14, <1>15, <1>16, <1>17, <1>18 DEF TickStep

\* each task keeps its recording in the tables until it ends,
LEMMA WriterWorker ==
    ASSUME TypeOK, WriterInv, NEW k \in Kinds, NEW r \in Recs,
           CaptureStep(r) \/ CaptureWrite(r) \/ CloseStep(k, r)
    PROVE  WriterInv'
<1> USE DEF TypeOK, WriterInv, OneWriter, IsCapturing, Begun, WorkerMoves, UpdateStatus,
            Exists
<1>1. CASE CaptureOpen(r)
    BY <1>1 DEF CaptureOpen
<1>2. CASE CaptureWrite(r)
    BY <1>2 DEF CaptureWrite
<1>3. CASE CaptureExit(r)
    BY <1>3 DEF CaptureExit, MarkClosing
<1>4. CASE LeaveActive(r)
    BY <1>4 DEF LeaveActive, AfterCapture
<1>5. CASE Discard(r)
    BY <1>5 DEF Discard
<1>6. CASE CloseEmpty(k, r)
    BY <1>6 DEF CloseEmpty
<1>7. CASE CloseData(k, r)
    BY <1>7 DEF CloseData, AfterData
<1>8. CASE RemuxOutput(k, r)
    BY <1>8 DEF RemuxOutput
<1>9. CASE RemuxFails(k, r)
    BY <1>9 DEF RemuxFails
<1>10. CASE RemuxRename(k, r)
    BY <1>10 DEF RemuxRename
<1>11. CASE DeleteTs(k, r)
    BY <1>11 DEF DeleteTs
<1>12. CASE StoreFailed(k, r)
    BY <1>12 DEF StoreFailed
<1>13. CASE StoreCompleted(k, r)
    BY <1>13 DEF StoreCompleted, UpdateRow
<1>14. CASE Release(k, r)
    BY <1>14 DEF Release, Unmark
<1> QED
    BY <1>1, <1>2, <1>3, <1>4, <1>5, <1>6, <1>7, <1>8, <1>9, <1>10, <1>11, <1>12,
       <1>13, <1>14 DEF CaptureStep, CloseStep

\* and the process loses tables and tasks together.
LEMMA WriterRest ==
    ASSUME TypeOK, WriterInv,
           TickAborted \/ ProcessStep \/ \E r \in Recs : RequestStep(r) \/ UserStep(r)
    PROVE  WriterInv'
<1> USE DEF TypeOK, WriterInv, OneWriter, IsCapturing, Begun
<1>1. ASSUME NEW r \in Recs, StopAct(r) PROVE WriterInv'
    BY <1>1 DEF StopAct, UpdateStatus, Exists
<1>2. ASSUME NEW r \in Recs, DeleteRow(r) \/ Create(r) PROVE WriterInv'
    BY <1>2 DEF DeleteRow, Create
<1>3. ASSUME NEW r \in Recs, DeleteFiles(r) \/ StopRead(r) \/ DeleteBegin(r)
      PROVE  WriterInv'
    BY <1>3 DEF DeleteFiles, StopRead, DeleteBegin
<1>4. CASE Shutdown \/ Restart \/ Clock
    BY <1>4 DEF Shutdown, Restart, Clock
<1>5. CASE Exit \/ Crash
    BY <1>5 DEF Exit, Crash, MemoryLost
<1>6. CASE TickAborted
    BY <1>6 DEF TickAborted, TickMoves, Forget
<1> QED
    BY <1>1, <1>2, <1>3, <1>4, <1>5, <1>6 DEF ProcessStep, RequestStep, UserStep

\* WriterInv holds in every state.
LEMMA WriterInvariant == Spec => []WriterInv
<1>1. Init => WriterInv
    BY DEF Init, WriterInv, OneWriter, IsCapturing, Begun
<1>2. TypeOK /\ WriterInv /\ [Next]_vars => WriterInv'
  <2> SUFFICES ASSUME TypeOK, WriterInv, [Next]_vars PROVE WriterInv'
      OBVIOUS
  <2>1. CASE UNCHANGED vars
      BY <2>1 DEF vars, WriterInv, OneWriter, IsCapturing, Begun
  <2>2. CASE Next
      BY <2>2, WriterTick, WriterWorker, WriterRest DEF Next
  <2> QED
      BY <2>1, <2>2
<1> QED
    BY <1>1, <1>2, TypeCorrect, PTL DEF Spec

\* A capture task and a closing task never work on the same recording.
THEOREM OneWriterHolds == Spec => []OneWriter
<1>1. WriterInv => OneWriter
    BY DEF WriterInv
<1> QED
    BY <1>1, WriterInvariant, PTL

-----------------------------------------------------------------------------
(***************************************************************************)
(* The scheduler's verdicts are final.                                     *)
(***************************************************************************)
\* The tick reopens rows no verdict is on, and gives verdicts itself;
LEMMA VerdictTick == TypeOK /\ WriterInv /\ VerdictInv /\ TickStep => VerdictInv'
<1> SUFFICES ASSUME TypeOK, WriterInv, VerdictInv, TickStep PROVE VerdictInv'
    OBVIOUS
<1> USE DEF TypeOK, WriterInv, OneWriter, VerdictInv, IsCapturing, Begun,
             TickMoves, Forget, UpdateStatus, Exists
<1>1. CASE TickBegin
    BY <1>1 DEF TickBegin
<1>2. CASE TickRead
    BY <1>2 DEF TickRead, OpenRows
<1>3. CASE TickEnd
    BY <1>3 DEF TickEnd
<1>4. ASSUME NEW r \in Recs, VisitCaptured(r) PROVE VerdictInv'
    BY <1>4 DEF VisitCaptured, Visit
<1>5. ASSUME NEW r \in Recs, VisitOrphan(r) PROVE VerdictInv'
    BY <1>5 DEF VisitOrphan, Visit, WorkOn
<1>6. ASSUME NEW r \in Recs, VisitStart(r) PROVE VerdictInv'
    BY <1>6 DEF VisitStart, Visit, WorkOn
<1>7. ASSUME NEW r \in Recs, VisitMissed(r) PROVE VerdictInv'
    BY <1>7 DEF VisitMissed, Visit
<1>8. ASSUME NEW r \in Recs, VisitEarlyOrFull(r) PROVE VerdictInv'
    BY <1>8 DEF VisitEarlyOrFull, Visit
<1>9. CASE RecoverRead
    BY <1>9 DEF RecoverRead, StillOrphan
<1>10. CASE RecoverSkips
    BY <1>10 DEF RecoverSkips
<1>11. CASE RecoverResume
    BY <1>11 DEF RecoverResume
<1>12. CASE RecoverWaits
    BY <1>12 DEF RecoverWaits
<1>13. CASE RecoverFinish
    BY <1>13 DEF RecoverFinish
<1>14. CASE RecoverKeeps
    BY <1>14 DEF RecoverKeeps, OrphanVerdict
<1>15. CASE RecoverFails
    BY <1>15 DEF RecoverFails, OrphanVerdict
<1>16. CASE StartRefused
    BY <1>16 DEF StartRefused
<1>17. CASE Activate
    BY <1>17 DEF Activate, CaptureFile
<1>18. CASE RecordPath
    BY <1>18 DEF RecordPath, UpdateRow
<1> QED
    BY <1>1, <1>2, <1>3, <1>4, <1>5, <1>6, <1>7, <1>8, <1>9, <1>10, <1>11, <1>12,
       <1>13, <1>14, <1>15, <1>16, <1>17, <1>18 DEF TickStep

\* a closing task gives one, on a recording the tick does not hold;
LEMMA VerdictWorker ==
    ASSUME TypeOK, WriterInv, VerdictInv, NEW k \in Kinds, NEW r \in Recs,
           CaptureStep(r) \/ CaptureWrite(r) \/ CloseStep(k, r)
    PROVE  VerdictInv'
<1> USE DEF TypeOK, WriterInv, OneWriter, VerdictInv, IsCapturing, Begun,
             WorkerMoves, UpdateStatus, Exists
<1>1. CASE CaptureOpen(r)
    BY <1>1 DEF CaptureOpen
<1>2. CASE CaptureWrite(r)
    BY <1>2 DEF CaptureWrite
<1>3. CASE CaptureExit(r)
    BY <1>3 DEF CaptureExit, MarkClosing
<1>4. CASE LeaveActive(r)
    BY <1>4 DEF LeaveActive, AfterCapture
<1>5. CASE Discard(r)
    BY <1>5 DEF Discard
<1>6. CASE CloseEmpty(k, r)
    BY <1>6 DEF CloseEmpty
<1>7. CASE CloseData(k, r)
    BY <1>7 DEF CloseData, AfterData
<1>8. CASE RemuxOutput(k, r)
    BY <1>8 DEF RemuxOutput
<1>9. CASE RemuxFails(k, r)
    BY <1>9 DEF RemuxFails
<1>10. CASE RemuxRename(k, r)
    BY <1>10 DEF RemuxRename
<1>11. CASE DeleteTs(k, r)
    BY <1>11 DEF DeleteTs
<1>12. CASE StoreFailed(k, r)
    BY <1>12 DEF StoreFailed
<1>13. CASE StoreCompleted(k, r)
    BY <1>13 DEF StoreCompleted, UpdateRow, ClosedFile
<1>14. CASE Release(k, r)
    BY <1>14 DEF Release, Unmark
<1> QED
    BY <1>1, <1>2, <1>3, <1>4, <1>5, <1>6, <1>7, <1>8, <1>9, <1>10, <1>11, <1>12,
       <1>13, <1>14 DEF CaptureStep, CloseStep

\* a handler changes a verdict to another final status only.
LEMMA VerdictRest ==
    ASSUME TypeOK, WriterInv, VerdictInv,
           TickAborted \/ ProcessStep \/ \E r \in Recs : RequestStep(r) \/ UserStep(r)
    PROVE  VerdictInv'
<1> USE DEF TypeOK, VerdictInv
<1>1. ASSUME NEW r \in Recs, StopAct(r) PROVE VerdictInv'
    BY <1>1 DEF StopAct, UpdateStatus, Exists
<1>2. ASSUME NEW r \in Recs, DeleteRow(r) \/ Create(r) PROVE VerdictInv'
    BY <1>2 DEF DeleteRow, Create
<1>3. ASSUME NEW r \in Recs, DeleteFiles(r) PROVE VerdictInv'
    BY <1>3 DEF DeleteFiles
<1>4. ASSUME NEW r \in Recs, StopRead(r) \/ DeleteBegin(r) PROVE VerdictInv'
    BY <1>4 DEF StopRead, DeleteBegin
<1>5. CASE Shutdown \/ Restart \/ Clock
    BY <1>5 DEF Shutdown, Restart, Clock
<1>6. CASE Exit \/ Crash
    BY <1>6 DEF Exit, Crash, MemoryLost
<1>7. CASE TickAborted
    BY <1>7 DEF TickAborted, TickMoves, Forget
<1> QED
    BY <1>1, <1>2, <1>3, <1>4, <1>5, <1>6, <1>7 DEF ProcessStep, RequestStep, UserStep

\* A verdict is never withdrawn.
LEMMA VerdictGrows == [Next]_vars => verdict \subseteq verdict'
<1> SUFFICES ASSUME [Next]_vars PROVE verdict \subseteq verdict'
    OBVIOUS
<1>1. CASE TickStep
  <2>1. CASE \/ TickBegin \/ TickRead \/ TickEnd
             \/ RecoverRead \/ RecoverSkips \/ RecoverResume \/ RecoverWaits
      BY <2>1 DEF TickBegin, TickRead, TickEnd, RecoverRead, RecoverSkips,
                  RecoverResume, RecoverWaits
  <2>2. CASE \/ RecoverFinish \/ RecoverKeeps \/ RecoverFails
             \/ StartRefused \/ Activate \/ RecordPath
      BY <2>2 DEF RecoverFinish, RecoverKeeps, RecoverFails, OrphanVerdict, StartRefused,
                  Activate, RecordPath
  <2>3. ASSUME NEW r \in Recs,
               \/ VisitCaptured(r) \/ VisitOrphan(r)
               \/ VisitStart(r) \/ VisitMissed(r) \/ VisitEarlyOrFull(r)
        PROVE  verdict \subseteq verdict'
      BY <2>3 DEF VisitCaptured, VisitOrphan, VisitStart, VisitMissed, VisitEarlyOrFull
  <2> QED
      BY <1>1, <2>1, <2>2, <2>3 DEF TickStep
<1>2. ASSUME NEW k \in Kinds, NEW r \in Recs,
             CaptureStep(r) \/ CaptureWrite(r) \/ CloseStep(k, r)
      PROVE  verdict \subseteq verdict'
    BY <1>2 DEF CaptureStep, CaptureOpen, CaptureWrite, CaptureExit, LeaveActive, Discard,
                CloseStep, CloseEmpty, CloseData, RemuxOutput, RemuxFails, RemuxRename,
                DeleteTs, StoreFailed, StoreCompleted, Release
<1>3. ASSUME NEW r \in Recs, RequestStep(r) \/ UserStep(r) PROVE verdict \subseteq verdict'
    BY <1>3 DEF RequestStep, UserStep, StopAct, DeleteFiles, DeleteRow, Create, StopRead,
                DeleteBegin
<1>4. CASE TickAborted \/ ProcessStep
    BY <1>4 DEF TickAborted, ProcessStep, Shutdown, Exit, Crash, MemoryLost, Restart, Clock
<1>5. CASE UNCHANGED vars
    BY <1>5 DEF vars
<1> QED
    BY <1>1, <1>2, <1>3, <1>4, <1>5 DEF Next

\* A recording the scheduler has closed is never taken up again.
THEOREM VerdictHolds == Spec => SchedulerVerdictIsFinal
<1>1. Init => VerdictInv
    BY DEF Init, VerdictInv
<1>2. TypeOK /\ WriterInv /\ VerdictInv /\ [Next]_vars => VerdictInv'
  <2> SUFFICES ASSUME TypeOK, WriterInv, VerdictInv, [Next]_vars PROVE VerdictInv'
      OBVIOUS
  <2>1. CASE UNCHANGED vars
      BY <2>1 DEF vars, VerdictInv
  <2>2. CASE Next
      BY <2>2, VerdictTick, VerdictWorker, VerdictRest DEF Next
  <2> QED
      BY <2>1, <2>2
<1>3. VerdictInv' /\ [Next]_vars => [\A r \in verdict : status'[r] \notin Open]_vars
    BY VerdictGrows DEF VerdictInv
<1> QED
    BY <1>1, <1>2, <1>3, TypeCorrect, WriterInvariant, PTL DEF Spec, SchedulerVerdictIsFinal
=============================================================================
