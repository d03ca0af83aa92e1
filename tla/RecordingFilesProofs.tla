------------------------ MODULE RecordingFilesProofs ------------------------
(***************************************************************************)
(* What happens to the files of a recording, proved from WriterInv of      *)
(* RecordingSchedulerProofs, with the same structure: one lemma for the    *)
(* steps of the tick, one for the tasks, one for the handlers and process. *)
(***************************************************************************)
EXTENDS RecordingSchedulerProofs

USE DEF Open, Final, Status, Paths, Reasons, Kinds, Capturing, Stores, Closing, Pcs,
        TickPcs, rowVars, fileVars, capVars, curVars, tickVars, reqVars, procVars

-----------------------------------------------------------------------------
(***************************************************************************)
(* Captured data can be reached from its row.                              *)
(***************************************************************************)
\* The steps of the tick, which records a path before a capture can begin,
LEMMA ReachTick == TypeOK /\ WriterInv /\ ReachInv /\ TickStep => ReachInv'
<1> SUFFICES ASSUME TypeOK, WriterInv, ReachInv, TickStep PROVE ReachInv'
    OBVIOUS
<1> USE DEF TypeOK, WriterInv, OneWriter, ReachInv, HasData, IsCapturing, Begun,
             TickMoves, Forget, UpdateStatus, Exists
<1>1. CASE TickBegin
    BY <1>1 DEF TickBegin
<1>2. CASE TickRead
    BY <1>2 DEF TickRead, OpenRows
<1>3. CASE TickEnd
    BY <1>3 DEF TickEnd
<1>4. ASSUME NEW r \in Recs, VisitCaptured(r) PROVE ReachInv'
    BY <1>4 DEF VisitCaptured, Visit
<1>5. ASSUME NEW r \in Recs, VisitOrphan(r) PROVE ReachInv'
    BY <1>5 DEF VisitOrphan, Visit, WorkOn
<1>6. ASSUME NEW r \in Recs, VisitStart(r) PROVE ReachInv'
    BY <1>6 DEF VisitStart, Visit, WorkOn
<1>7. ASSUME NEW r \in Recs, VisitMissed(r) PROVE ReachInv'
    BY <1>7 DEF VisitMissed, Visit
<1>8. ASSUME NEW r \in Recs, VisitEarlyOrFull(r) PROVE ReachInv'
    BY <1>8 DEF VisitEarlyOrFull, Visit
<1>9. CASE RecoverRead
    BY <1>9 DEF RecoverRead, StillOrphan
<1>10. CASE RecoverSkips
    BY <1>10 DEF RecoverSkips
<1>11. CASE RecoverResume
    BY <1>11 DEF RecoverResume
<1>12. CASE RecoverWaits
    BY <1>12 DEF RecoverWaits
<1>13. CASE RecoverFinish
    BY <1>13 DEF RecoverFinish
<1>14. CASE RecoverKeeps
    BY <1>14 DEF RecoverKeeps, OrphanVerdict
<1>15. CASE RecoverFails
    BY <1>15 DEF RecoverFails, OrphanVerdict
<1>16. CASE StartRefused
    BY <1>16 DEF StartRefused
<1>17. CASE Activate
    BY <1>17 DEF Activate, CaptureFile
<1>18. CASE RecordPath
    BY <1>18 DEF RecordPath, UpdateRow
<1> QED
    BY <1>1, <1>2, <1>3, <1>4, <1>5, <1>6, <1>7, <1>8, <1>9, <1>10, <1>11, <1>12,
       <1>13, <1>14, <1>15, <1>16, <1>17, <1>18 DEF TickStep

\* of the tasks, which put the path of the file they keep,
LEMMA ReachWorker ==
    ASSUME TypeOK, WriterInv, ReachInv, NEW k \in Kinds, NEW r \in Recs,
           CaptureStep(r) \/ CaptureWrite(r) \/ CloseStep(k, r)
    PROVE  ReachInv'
<1> USE DEF TypeOK, WriterInv, OneWriter, ReachInv, HasData, IsCapturing, Begun,
             WorkerMoves, UpdateStatus, Exists
<1>1. CASE CaptureOpen(r)
    BY <1>1 DEF CaptureOpen
<1>2. CASE CaptureWrite(r)
    BY <1>2 DEF CaptureWrite
<1>3. CASE CaptureExit(r)
    BY <1>3 DEF CaptureExit, MarkClosing
<1>4. CASE LeaveActive(r)
    BY <1>4 DEF LeaveActive, AfterCapture
<1>5. CASE Discard(r)
    BY <1>5 DEF Discard
<1>6. CASE CloseEmpty(k, r)
    BY <1>6 DEF CloseEmpty
<1>7. CASE CloseData(k, r)
    BY <1>7 DEF CloseData, AfterData
<1>8. CASE RemuxOutput(k, r)
    BY <1>8 DEF RemuxOutput
<1>9. CASE RemuxFails(k, r)
    BY <1>9 DEF RemuxFails
<1>10. CASE RemuxRename(k, r)
    BY <1>10 DEF RemuxRename
<1>11. CASE DeleteTs(k, r)
    BY <1>11 DEF DeleteTs
<1>12. CASE StoreFailed(k, r)
    BY <1>12 DEF StoreFailed
<1>13. CASE StoreCompleted(k, r)
    BY <1>13 DEF StoreCompleted, UpdateRow, ClosedFile
<1>14. CASE Release(k, r)
    BY <1>14 DEF Release, Unmark
<1> QED
    BY <1>1, <1>2, <1>3, <1>4, <1>5, <1>6, <1>7, <1>8, <1>9, <1>10, <1>11, <1>12,
       <1>13, <1>14 DEF CaptureStep, CloseStep

\* and of the handlers and the process, which never take a path back.
LEMMA ReachRest ==
    ASSUME TypeOK, WriterInv, ReachInv,
           TickAborted \/ ProcessStep \/ \E r \in Recs : RequestStep(r) \/ UserStep(r)
    PROVE  ReachInv'
<1> USE DEF TypeOK, ReachInv, HasData
<1>1. ASSUME NEW r \in Recs, StopAct(r) PROVE ReachInv'
    BY <1>1 DEF StopAct, UpdateStatus, Exists
<1>2. ASSUME NEW r \in Recs, DeleteRow(r) \/ Create(r) PROVE ReachInv'
    BY <1>2 DEF DeleteRow, Create
<1>3. ASSUME NEW r \in Recs, DeleteFiles(r) PROVE ReachInv'
    BY <1>3 DEF DeleteFiles
<1>4. ASSUME NEW r \in Recs, StopRead(r) \/ DeleteBegin(r) PROVE ReachInv'
    BY <1>4 DEF StopRead, DeleteBegin
<1>5. CASE Shutdown \/ Restart \/ Clock
    BY <1>5 DEF Shutdown, Restart, Clock
<1>6. CASE Exit \/ Crash
    BY <1>6 DEF Exit, Crash, MemoryLost
<1>7. CASE TickAborted
    BY <1>7 DEF TickAborted, TickMoves, Forget
<1> QED
    BY <1>1, <1>2, <1>3, <1>4, <1>5, <1>6, <1>7 DEF ProcessStep, RequestStep, UserStep

\* Whenever there is something to watch, the row says where.
THEOREM DataIsReachableHolds == Spec => []DataIsReachable
<1>1. Init => ReachInv
  <2> SUFFICES ASSUME Init PROVE ReachInv
      OBVIOUS
  <2>1. PICK Left \in SUBSET Legacy :
          /\ path = [r \in Recs |-> IF r \in Left THEN "mkv" ELSE "none"]
          /\ mkv = [r \in Recs |-> r \in Left]
      BY DEF Init
  <2>2. \A r \in Recs : path[r] = "none" => ~mkv[r]
      BY <2>1
  <2> QED
      BY <2>2 DEF Init, ReachInv, HasData
<1>2. TypeOK /\ WriterInv /\ ReachInv /\ [Next]_vars => ReachInv'
  <2> SUFFICES ASSUME TypeOK, WriterInv, ReachInv, [Next]_vars PROVE ReachInv'
      OBVIOUS
  <2>1. CASE UNCHANGED vars
      BY <2>1 DEF vars, ReachInv, HasData
  <2>2. CASE Next
      BY <2>2, ReachTick, ReachWorker, ReachRest DEF Next
  <2> QED
      BY <2>1, <2>2
<1>3. TypeOK /\ ReachInv => DataIsReachable
    BY DEF TypeOK, ReachInv, DataIsReachable, Exists
<1> QED
    BY <1>1, <1>2, <1>3, TypeCorrect, WriterInvariant, PTL DEF Spec

-----------------------------------------------------------------------------
(***************************************************************************)
(* A conversion never has an existing MKV for its output.                  *)
(***************************************************************************)
\* The tick starts a closing task at the point where it looks for an MKV,
LEMMA MkvTick == TypeOK /\ WriterInv /\ MkvIsNotOverwritten /\ TickStep => MkvIsNotOverwritten'
<1> SUFFICES ASSUME TypeOK, WriterInv, MkvIsNotOverwritten, TickStep PROVE MkvIsNotOverwritten'
    OBVIOUS
<1> USE DEF TypeOK, WriterInv, OneWriter, IsCapturing, MkvIsNotOverwritten, TickMoves, Forget, UpdateStatus, Exists
<1>1. CASE TickBegin
    BY <1>1 DEF TickBegin, RequestStop
<1>2. CASE TickRead
    BY <1>2 DEF TickRead, OpenRows
<1>3. CASE TickEnd
    BY <1>3 DEF TickEnd
<1>4. ASSUME NEW r \in Recs, VisitCaptured(r) PROVE MkvIsNotOverwritten'
    BY <1>4 DEF VisitCaptured, Visit
<1>5. ASSUME NEW r \in Recs, VisitOrphan(r) PROVE MkvIsNotOverwritten'
    BY <1>5 DEF VisitOrphan, Visit, WorkOn
<1>6. ASSUME NEW r \in Recs, VisitStart(r) PROVE MkvIsNotOverwritten'
    BY <1>6 DEF VisitStart, Visit, WorkOn
<1>7. ASSUME NEW r \in Recs, VisitMissed(r) PROVE MkvIsNotOverwritten'
    BY <1>7 DEF VisitMissed, Visit
<1>8. ASSUME NEW r \in Recs, VisitEarlyOrFull(r) PROVE MkvIsNotOverwritten'
    BY <1>8 DEF VisitEarlyOrFull, Visit
<1>9. CASE RecoverRead
    BY <1>9 DEF RecoverRead, StillOrphan
<1>10. CASE RecoverSkips
    BY <1>10 DEF RecoverSkips
<1>11. CASE RecoverResume
    BY <1>11 DEF RecoverResume
<1>12. CASE RecoverWaits
    BY <1>12 DEF RecoverWaits
<1>13. CASE RecoverFinish
    BY <1>13 DEF RecoverFinish
<1>14. CASE RecoverKeeps
    BY <1>14 DEF RecoverKeeps, OrphanVerdict
<1>15. CASE RecoverFails
    BY <1>15 DEF RecoverFails, OrphanVerdict
<1>16. CASE StartRefused
    BY <1>16 DEF StartRefused
<1>17. CASE Activate
    BY <1>17 DEF Activate, CaptureFile
<1>18. CASE RecordPath
    BY <1>18 DEF RecordPath, UpdateRow
<1> QED
    BY <1>1, <1>2, <1>3, <1>4, <1>5, <1>6, <1>7, <1>8, <1>9, <1>10, <1>11, <1>12,
       <1>13, <1>14, <1>15, <1>16, <1>17, <1>18 DEF TickStep

\* only the task that has the recording creates one,
LEMMA MkvWorker ==
    ASSUME TypeOK, WriterInv, MkvIsNotOverwritten, NEW k \in Kinds, NEW r \in Recs,
           CaptureStep(r) \/ CaptureWrite(r) \/ CloseStep(k, r)
    PROVE  MkvIsNotOverwritten'
<1> USE DEF TypeOK, WriterInv, OneWriter, IsCapturing, MkvIsNotOverwritten, WorkerMoves, UpdateStatus, Exists
<1>1. CASE CaptureOpen(r)
    BY <1>1 DEF CaptureOpen
<1>2. CASE CaptureWrite(r)
    BY <1>2 DEF CaptureWrite
<1>3. CASE CaptureExit(r)
    BY <1>3 DEF CaptureExit, MarkClosing
<1>4. CASE LeaveActive(r)
    BY <1>4 DEF LeaveActive, AfterCapture
<1>5. CASE Discard(r)
    BY <1>5 DEF Discard
<1>6. CASE CloseEmpty(k, r)
    BY <1>6 DEF CloseEmpty
<1>7. CASE CloseData(k, r)
    BY <1>7 DEF CloseData, AfterData
<1>8. CASE RemuxOutput(k, r)
    BY <1>8 DEF RemuxOutput
<1>9. CASE RemuxFails(k, r)
    BY <1>9 DEF RemuxFails
<1>10. CASE RemuxRename(k, r)
    BY <1>10 DEF RemuxRename
<1>11. CASE DeleteTs(k, r)
    BY <1>11 DEF DeleteTs
<1>12. CASE StoreFailed(k, r)
    BY <1>12 DEF StoreFailed
<1>13. CASE StoreCompleted(k, r)
    BY <1>13 DEF StoreCompleted, UpdateRow, ClosedFile
<1>14. CASE Release(k, r)
    BY <1>14 DEF Release, Unmark
<1> QED
    BY <1>1, <1>2, <1>3, <1>4, <1>5, <1>6, <1>7, <1>8, <1>9, <1>10, <1>11, <1>12,
       <1>13, <1>14 DEF CaptureStep, CloseStep

\* and nothing else starts a conversion.
LEMMA MkvRest ==
    ASSUME TypeOK, WriterInv, MkvIsNotOverwritten,
           TickAborted \/ ProcessStep \/ \E r \in Recs : RequestStep(r) \/ UserStep(r)
    PROVE  MkvIsNotOverwritten'
<1> USE DEF TypeOK, WriterInv, OneWriter, IsCapturing, MkvIsNotOverwritten
<1>1. ASSUME NEW r \in Recs, StopAct(r) PROVE MkvIsNotOverwritten'
    BY <1>1 DEF StopAct, RequestStop, UpdateStatus, Exists
<1>2. ASSUME NEW r \in Recs, DeleteRow(r) \/ Create(r) PROVE MkvIsNotOverwritten'
    BY <1>2 DEF DeleteRow, Create
<1>3. ASSUME NEW r \in Recs, DeleteFiles(r) PROVE MkvIsNotOverwritten'
    BY <1>3 DEF DeleteFiles
<1>4. ASSUME NEW r \in Recs, StopRead(r) \/ DeleteBegin(r) PROVE MkvIsNotOverwritten'
    BY <1>4 DEF StopRead, DeleteBegin, RequestStop
<1>5. CASE Shutdown \/ Restart \/ Clock
    BY <1>5 DEF Shutdown, RequestStop, Restart, Clock
<1>6. CASE Exit \/ Crash
    BY <1>6 DEF Exit, Crash, MemoryLost
<1>7. CASE TickAborted
    BY <1>7 DEF TickAborted, TickMoves, Forget
<1> QED
    BY <1>1, <1>2, <1>3, <1>4, <1>5, <1>6, <1>7 DEF ProcessStep, RequestStep, UserStep

\* The output of a conversion is a name no file has.
THEOREM MkvHolds == Spec => []MkvIsNotOverwritten
<1>1. Init => MkvIsNotOverwritten
    BY DEF Init, MkvIsNotOverwritten
<1>2. TypeOK /\ WriterInv /\ MkvIsNotOverwritten /\ [Next]_vars => MkvIsNotOverwritten'
  <2> SUFFICES ASSUME TypeOK, WriterInv, MkvIsNotOverwritten, [Next]_vars PROVE MkvIsNotOverwritten'
      OBVIOUS
  <2>1. CASE UNCHANGED vars
      BY <2>1 DEF vars, MkvIsNotOverwritten
  <2>2. CASE Next
      BY <2>2, MkvTick, MkvWorker, MkvRest DEF Next
  <2> QED
      BY <2>1, <2>2
<1> QED
    BY <1>1, <1>2, TypeCorrect, WriterInvariant, PTL DEF Spec

-----------------------------------------------------------------------------
(***************************************************************************)
(* Captured data is kept as long as its row.                               *)
(***************************************************************************)
\* Only a start that is not a resumption removes a .ts, and it finds none;
LEMMA KeepTick == TypeOK /\ WriterInv /\ KeepInv /\ TickStep => KeepInv'
<1> SUFFICES ASSUME TypeOK, WriterInv, KeepInv, TickStep PROVE KeepInv'
    OBVIOUS
<1> USE DEF TypeOK, WriterInv, OneWriter, IsCapturing, Begun, KeepInv,
            BeingDeleted, TickMoves, Forget, UpdateStatus, Exists
<1>1. CASE TickBegin
    BY <1>1 DEF TickBegin, RequestStop
<1>2. CASE TickRead
    BY <1>2 DEF TickRead, OpenRows
<1>3. CASE TickEnd
    BY <1>3 DEF TickEnd
<1>4. ASSUME NEW r \in Recs, VisitCaptured(r) PROVE KeepInv'
    BY <1>4 DEF VisitCaptured, Visit
<1>5. ASSUME NEW r \in Recs, VisitOrphan(r) PROVE KeepInv'
    BY <1>5 DEF VisitOrphan, Visit, WorkOn
<1>6. ASSUME NEW r \in Recs, VisitStart(r) PROVE KeepInv'
    BY <1>6 DEF VisitStart, Visit, WorkOn
<1>7. ASSUME NEW r \in Recs, VisitMissed(r) PROVE KeepInv'
    BY <1>7 DEF VisitMissed, Visit
<1>8. ASSUME NEW r \in Recs, VisitEarlyOrFull(r) PROVE KeepInv'
    BY <1>8 DEF VisitEarlyOrFull, Visit
<1>9. CASE RecoverRead
    BY <1>9 DEF RecoverRead, StillOrphan
<1>10. CASE RecoverSkips
    BY <1>10 DEF RecoverSkips
<1>11. CASE RecoverResume
    BY <1>11 DEF RecoverResume
<1>12. CASE RecoverWaits
    BY <1>12 DEF RecoverWaits
<1>13. CASE RecoverFinish
    BY <1>13 DEF RecoverFinish
<1>14. CASE RecoverKeeps
    BY <1>14 DEF RecoverKeeps, OrphanVerdict
<1>15. CASE RecoverFails
    BY <1>15 DEF RecoverFails, OrphanVerdict
<1>16. CASE StartRefused
    BY <1>16 DEF StartRefused
<1>17. CASE Activate
    BY <1>17 DEF Activate, CaptureFile
<1>18. CASE RecordPath
    BY <1>18 DEF RecordPath, UpdateRow
<1> QED
    BY <1>1, <1>2, <1>3, <1>4, <1>5, <1>6, <1>7, <1>8, <1>9, <1>10, <1>11, <1>12,
       <1>13, <1>14, <1>15, <1>16, <1>17, <1>18 DEF TickStep

\* a task discards a capture because a deletion asked for it;
LEMMA KeepWorker ==
    ASSUME TypeOK, WriterInv, KeepInv, NEW k \in Kinds, NEW r \in Recs,
           CaptureStep(r) \/ CaptureWrite(r) \/ CloseStep(k, r)
    PROVE  KeepInv'
<1> USE DEF TypeOK, WriterInv, OneWriter, IsCapturing, Begun, KeepInv,
            BeingDeleted, WorkerMoves, UpdateStatus, Exists
<1>1. CASE CaptureOpen(r)
    BY <1>1 DEF CaptureOpen
<1>2. CASE CaptureWrite(r)
    BY <1>2 DEF CaptureWrite
<1>3. CASE CaptureExit(r)
    BY <1>3 DEF CaptureExit, MarkClosing
<1>4. CASE LeaveActive(r)
    BY <1>4 DEF LeaveActive, AfterCapture
<1>5. CASE Discard(r)
    BY <1>5 DEF Discard
<1>6. CASE CloseEmpty(k, r)
    BY <1>6 DEF CloseEmpty
<1>7. CASE CloseData(k, r)
    BY <1>7 DEF CloseData, AfterData
<1>8. CASE RemuxOutput(k, r)
    BY <1>8 DEF RemuxOutput
<1>9. CASE RemuxFails(k, r)
    BY <1>9 DEF RemuxFails
<1>10. CASE RemuxRename(k, r)
    BY <1>10 DEF RemuxRename
<1>11. CASE DeleteTs(k, r)
    BY <1>11 DEF DeleteTs
<1>12. CASE StoreFailed(k, r)
    BY <1>12 DEF StoreFailed
<1>13. CASE StoreCompleted(k, r)
    BY <1>13 DEF StoreCompleted, UpdateRow, ClosedFile
<1>14. CASE Release(k, r)
    BY <1>14 DEF Release, Unmark
<1> QED
    BY <1>1, <1>2, <1>3, <1>4, <1>5, <1>6, <1>7, <1>8, <1>9, <1>10, <1>11, <1>12,
       <1>13, <1>14 DEF CaptureStep, CloseStep

\* a deletion in progress ends with the row deleted, or with the process.
LEMMA KeepRest ==
    ASSUME TypeOK, WriterInv, KeepInv,
           TickAborted \/ ProcessStep \/ \E r \in Recs : RequestStep(r) \/ UserStep(r)
    PROVE  KeepInv'
<1> USE DEF TypeOK, WriterInv, OneWriter, IsCapturing, Begun, KeepInv,
            BeingDeleted
<1>1. ASSUME NEW r \in Recs, StopAct(r) PROVE KeepInv'
    BY <1>1 DEF StopAct, RequestStop, UpdateStatus, Exists
<1>2. ASSUME NEW r \in Recs, DeleteRow(r) \/ Create(r) PROVE KeepInv'
    BY <1>2 DEF DeleteRow, Create
<1>3. ASSUME NEW r \in Recs, DeleteFiles(r) PROVE KeepInv'
    BY <1>3 DEF DeleteFiles
<1>4. ASSUME NEW r \in Recs, StopRead(r) \/ DeleteBegin(r) PROVE KeepInv'
    BY <1>4 DEF StopRead, DeleteBegin, RequestStop
<1>5. CASE Shutdown \/ Restart \/ Clock
    BY <1>5 DEF Shutdown, RequestStop, Restart, Clock
<1>6. CASE Exit \/ Crash
    BY <1>6 DEF Exit, Crash, MemoryLost
<1>7. CASE TickAborted
    BY <1>7 DEF TickAborted, TickMoves, Forget
<1> QED
    BY <1>1, <1>2, <1>3, <1>4, <1>5, <1>6, <1>7 DEF ProcessStep, RequestStep, UserStep

\* What KeepInv says of the steps that remove a file holds in every state.
LEMMA KeepInvariant == Spec => []KeepInv
<1>1. Init => KeepInv
    BY DEF Init, KeepInv, BeingDeleted, Begun
<1>2. TypeOK /\ WriterInv /\ KeepInv /\ [Next]_vars => KeepInv'
  <2> SUFFICES ASSUME TypeOK, WriterInv, KeepInv, [Next]_vars PROVE KeepInv'
      OBVIOUS
  <2>1. CASE UNCHANGED vars
      BY <2>1 DEF vars, KeepInv, BeingDeleted, Begun
  <2>2. CASE Next
      BY <2>2, KeepTick, KeepWorker, KeepRest DEF Next
  <2> QED
      BY <2>1, <2>2
<1> QED
    BY <1>1, <1>2, TypeCorrect, WriterInvariant, PTL DEF Spec

KeepsData == \A r \in Recs : HasData(r) /\ Exists(r)' /\ delReq[r] = "none" => HasData(r)'

\* No step removes captured data, except under a deletion.
LEMMA KeepStep == TypeOK /\ KeepInv /\ [Next]_vars => KeepsData
<1> SUFFICES ASSUME TypeOK, KeepInv, [Next]_vars PROVE KeepsData
    OBVIOUS
<1> USE DEF KeepsData, HasData
<1>1. CASE Activate
    BY <1>1 DEF Activate, TickMoves, CaptureFile, KeepInv, TypeOK
<1>2. CASE TickStep /\ ~Activate
  <2>1. UNCHANGED <<ts, mkv>>
    <3>1. CASE \/ TickBegin \/ TickRead \/ TickEnd
               \/ RecoverRead \/ RecoverSkips \/ RecoverResume \/ RecoverWaits
        BY <3>1 DEF TickBegin, TickRead, TickEnd, RecoverRead, RecoverSkips,
                    RecoverResume, RecoverWaits
    <3>2. CASE RecoverFinish \/ RecoverKeeps \/ RecoverFails \/ StartRefused \/ RecordPath
        BY <3>2 DEF RecoverFinish, RecoverKeeps, RecoverFails, OrphanVerdict, StartRefused,
                    RecordPath
    <3>3. ASSUME NEW r \in Recs,
                 \/ VisitCaptured(r) \/ VisitOrphan(r)
                 \/ VisitStart(r) \/ VisitMissed(r) \/ VisitEarlyOrFull(r)
          PROVE  UNCHANGED <<ts, mkv>>
        BY <3>3 DEF VisitCaptured, VisitOrphan, VisitStart, VisitMissed, VisitEarlyOrFull
    <3> QED
        BY <1>2, <3>1, <3>2, <3>3 DEF TickStep
  <2> QED
      BY <2>1
<1>3. ASSUME NEW r \in Recs, CaptureStep(r) \/ CaptureWrite(r) PROVE KeepsData
  <2>1. CASE CaptureOpen(r) \/ CaptureWrite(r)
      BY <2>1 DEF CaptureOpen, CaptureWrite, TypeOK
  <2>2. CASE CaptureExit(r) \/ LeaveActive(r)
      BY <2>2 DEF CaptureExit, LeaveActive
  <2>3. CASE Discard(r)
      BY <2>3 DEF Discard, WorkerMoves, KeepInv, BeingDeleted, Exists, TypeOK
  <2> QED
      BY <1>3, <2>1, <2>2, <2>3 DEF CaptureStep
<1>4. ASSUME NEW k \in Kinds, NEW r \in Recs, CloseStep(k, r) PROVE KeepsData
  <2>1. CASE CloseEmpty(k, r)
      BY <2>1 DEF CloseEmpty, TypeOK
  <2>2. CASE RemuxRename(k, r)
      BY <2>2 DEF RemuxRename, TypeOK
  <2>3. CASE DeleteTs(k, r)
      BY <2>3 DEF DeleteTs, WorkerMoves, KeepInv, BeingDeleted, Exists, TypeOK
  <2>4. CASE \/ CloseData(k, r) \/ RemuxOutput(k, r) \/ RemuxFails(k, r)
             \/ StoreFailed(k, r) \/ StoreCompleted(k, r) \/ Release(k, r)
      BY <2>4 DEF CloseData, RemuxOutput, RemuxFails, StoreFailed, StoreCompleted, Release
  <2> QED
      BY <1>4, <2>1, <2>2, <2>3, <2>4 DEF CloseStep
<1>5. ASSUME NEW r \in Recs, RequestStep(r) \/ UserStep(r) PROVE KeepsData
  <2>1. CASE DeleteFiles(r)
      BY <2>1 DEF DeleteFiles, TypeOK
  <2>2. CASE \/ StopAct(r) \/ DeleteRow(r)
             \/ Create(r) \/ StopRead(r) \/ DeleteBegin(r)
      BY <2>2 DEF StopAct, DeleteRow, Create, StopRead, DeleteBegin
  <2> QED
      BY <1>5, <2>1, <2>2 DEF RequestStep, UserStep
<1>6. CASE TickAborted \/ ProcessStep
    BY <1>6 DEF TickAborted, ProcessStep, Shutdown, Exit, Crash, MemoryLost, Restart, Clock
<1>7. CASE UNCHANGED vars
    BY <1>7 DEF vars
<1> QED
    BY <1>1, <1>2, <1>3, <1>4, <1>5, <1>6, <1>7 DEF Next

\* What was captured stays on disk as long as its row, unless a user deletes it.
THEOREM CapturedDataHolds == Spec => CapturedDataIsKept
<1>1. TypeOK /\ KeepInv /\ [Next]_vars => [KeepsData]_vars
    BY KeepStep
<1> QED
    BY <1>1, TypeCorrect, KeepInvariant, PTL DEF Spec, CapturedDataIsKept, KeepsData

-----------------------------------------------------------------------------
(***************************************************************************)
(* What is marked completed can be played.                                 *)
(***************************************************************************)
\* The tick closes a row as completed when the path it has just read leads to data;
LEMMA PlayTick == TypeOK /\ WriterInv /\ PlayableInv /\ TickStep => PlayableInv'
<1> SUFFICES ASSUME TypeOK, WriterInv, PlayableInv, TickStep PROVE PlayableInv'
    OBVIOUS
<1> USE DEF TypeOK, WriterInv, OneWriter, IsCapturing, Begun, PlayableInv,
            LeftAlone, Playable, FileHasData, TickMoves, Forget, UpdateStatus, Exists
<1>1. CASE TickBegin
    BY <1>1 DEF TickBegin, RequestStop
<1>2. CASE TickRead
    BY <1>2 DEF TickRead, OpenRows
<1>3. CASE TickEnd
    BY <1>3 DEF TickEnd
<1>4. ASSUME NEW r \in Recs, VisitCaptured(r) PROVE PlayableInv'
    BY <1>4 DEF VisitCaptured, Visit
<1>5. ASSUME NEW r \in Recs, VisitOrphan(r) PROVE PlayableInv'
    BY <1>5 DEF VisitOrphan, Visit, WorkOn
<1>6. ASSUME NEW r \in Recs, VisitStart(r) PROVE PlayableInv'
    BY <1>6 DEF VisitStart, Visit, WorkOn
<1>7. ASSUME NEW r \in Recs, VisitMissed(r) PROVE PlayableInv'
    BY <1>7 DEF VisitMissed, Visit
<1>8. ASSUME NEW r \in Recs, VisitEarlyOrFull(r) PROVE PlayableInv'
    BY <1>8 DEF VisitEarlyOrFull, Visit
<1>9. CASE RecoverRead
    BY <1>9 DEF RecoverRead, StillOrphan
<1>10. CASE RecoverSkips
    BY <1>10 DEF RecoverSkips
<1>11. CASE RecoverResume
    BY <1>11 DEF RecoverResume
<1>12. CASE RecoverWaits
    BY <1>12 DEF RecoverWaits
<1>13. CASE RecoverFinish
    BY <1>13 DEF RecoverFinish
<1>14. CASE RecoverKeeps
    BY <1>14 DEF RecoverKeeps, OrphanVerdict, OrphanDecision, decide_orphan_action
<1>15. CASE RecoverFails
    BY <1>15 DEF RecoverFails, OrphanVerdict
<1>16. CASE StartRefused
    BY <1>16 DEF StartRefused
<1>17. CASE Activate
    BY <1>17 DEF Activate, CaptureFile
<1>18. CASE RecordPath
    BY <1>18 DEF RecordPath, UpdateRow
<1> QED
    BY <1>1, <1>2, <1>3, <1>4, <1>5, <1>6, <1>7, <1>8, <1>9, <1>10, <1>11, <1>12,
       <1>13, <1>14, <1>15, <1>16, <1>17, <1>18 DEF TickStep

\* a task puts the file it has seen, which no other task can convert or remove;
LEMMA PlayWorker ==
    ASSUME TypeOK, WriterInv, PlayableInv, NEW k \in Kinds, NEW r \in Recs,
           CaptureStep(r) \/ CaptureWrite(r) \/ CloseStep(k, r)
    PROVE  PlayableInv'
<1> USE DEF TypeOK, WriterInv, OneWriter, IsCapturing, Begun, PlayableInv,
            LeftAlone, Playable, FileHasData, WorkerMoves, UpdateStatus, Exists
<1>1. CASE CaptureOpen(r)
    BY <1>1 DEF CaptureOpen
<1>2. CASE CaptureWrite(r)
    BY <1>2 DEF CaptureWrite
<1>3. CASE CaptureExit(r)
    BY <1>3 DEF CaptureExit, MarkClosing
<1>4. CASE LeaveActive(r)
    BY <1>4 DEF LeaveActive, AfterCapture
<1>5. CASE Discard(r)
    BY <1>5 DEF Discard
<1>6. CASE CloseEmpty(k, r)
    BY <1>6 DEF CloseEmpty
<1>7. CASE CloseData(k, r)
    BY <1>7 DEF CloseData, AfterData
<1>8. CASE RemuxOutput(k, r)
    BY <1>8 DEF RemuxOutput
<1>9. CASE RemuxFails(k, r)
    BY <1>9 DEF RemuxFails
<1>10. CASE RemuxRename(k, r)
    BY <1>10 DEF RemuxRename
<1>11. CASE DeleteTs(k, r)
    BY <1>11 DEF DeleteTs
<1>12. CASE StoreFailed(k, r)
    BY <1>12 DEF StoreFailed
<1>13. CASE StoreCompleted(k, r)
    BY <1>13 DEF StoreCompleted, UpdateRow, ClosedFile
<1>14. CASE Release(k, r)
    BY <1>14 DEF Release, Unmark
<1> QED
    BY <1>1, <1>2, <1>3, <1>4, <1>5, <1>6, <1>7, <1>8, <1>9, <1>10, <1>11, <1>12,
       <1>13, <1>14 DEF CaptureStep, CloseStep

\* and a recording nobody stops or deletes is not disturbed by the handlers.
LEMMA PlayRest ==
    ASSUME TypeOK, WriterInv, PlayableInv,
           TickAborted \/ ProcessStep \/ \E r \in Recs : RequestStep(r) \/ UserStep(r)
    PROVE  PlayableInv'
<1> USE DEF TypeOK, WriterInv, OneWriter, IsCapturing, Begun, PlayableInv,
            LeftAlone, Playable, FileHasData
<1>1. ASSUME NEW r \in Recs, StopAct(r) PROVE PlayableInv'
    BY <1>1 DEF StopAct, RequestStop, UpdateStatus, Exists
<1>2. ASSUME NEW r \in Recs, DeleteRow(r) \/ Create(r) PROVE PlayableInv'
    BY <1>2 DEF DeleteRow, Create
<1>3. ASSUME NEW r \in Recs, DeleteFiles(r) PROVE PlayableInv'
    BY <1>3 DEF DeleteFiles
<1>4. ASSUME NEW r \in Recs, StopRead(r) \/ DeleteBegin(r) PROVE PlayableInv'
    BY <1>4 DEF StopRead, DeleteBegin, RequestStop
<1>5. CASE Shutdown \/ Restart \/ Clock
    BY <1>5 DEF Shutdown, RequestStop, Restart, Clock
<1>6. CASE Exit \/ Crash
    BY <1>6 DEF Exit, Crash, MemoryLost
<1>7. CASE TickAborted
    BY <1>7 DEF TickAborted, TickMoves, Forget
<1> QED
    BY <1>1, <1>2, <1>3, <1>4, <1>5, <1>6, <1>7 DEF ProcessStep, RequestStep, UserStep

LEMMA PlayableInvariant == Spec => []PlayableInv
<1>1. Init => PlayableInv
    BY DEF Init, PlayableInv, LeftAlone, Playable
<1>2. TypeOK /\ WriterInv /\ PlayableInv /\ [Next]_vars => PlayableInv'
  <2> SUFFICES ASSUME TypeOK, WriterInv, PlayableInv, [Next]_vars PROVE PlayableInv'
      OBVIOUS
  <2>1. CASE UNCHANGED vars
      BY <2>1 DEF vars, PlayableInv, LeftAlone, Playable, FileHasData
  <2>2. CASE Next
      BY <2>2, PlayTick, PlayWorker, PlayRest DEF Next
  <2> QED
      BY <2>1, <2>2
<1> QED
    BY <1>1, <1>2, TypeCorrect, WriterInvariant, PTL DEF Spec

\* A recording that no user stops or deletes is marked completed only while the file
\* its row names is there, whatever users do to the others, and however the server
\* is stopped, crashes and starts again.
THEOREM PlayableHolds == Spec => [](\A r \in LeftAlone : Playable(r))
<1>1. PlayableInv => \A r \in LeftAlone : Playable(r)
    BY DEF PlayableInv
<1> QED
    BY <1>1, PlayableInvariant, PTL

\* Without stops and deletions, every recording marked completed can be played.
THEOREM CompletedHolds ==
    ASSUME StopRecs = {}, DeleteRecs = {}
    PROVE  Spec => []CompletedIsPlayable
<1>1. (\A r \in LeftAlone : Playable(r)) => CompletedIsPlayable
    BY DEF CompletedIsPlayable, LeftAlone
<1> QED
    BY <1>1, PlayableHolds, PTL

-----------------------------------------------------------------------------
(***************************************************************************)
(* Left to the scheduler, a recording lives the life of RecordingLifecycle.*)
(***************************************************************************)
Lives(r) == [Lifecycle(r)!Next]_(Lifecycle(r)!lifeVars)

SameFiles(r) == UNCHANGED <<ts[r], mkv[r]>>
SameRecording(r) == UNCHANGED <<status[r], path[r]>> /\ SameFiles(r)

\* The kinds of steps: one that is not seen, one of the capture, and a verdict.
LEMMA UnseenLives == ASSUME NEW r \in Recs, SameRecording(r) PROVE Lives(r)
    BY DEF SameRecording, SameFiles, Lives, Lifecycle!lifeVars, HasData, FileHasData

LEMMA WorkLives ==
    ASSUME NEW r \in Recs, status[r] = "recording", status'[r] = "recording",
           HasData(r) => HasData(r)'
    PROVE  Lives(r)
<1>1. HasData(r)' \in BOOLEAN /\ FileHasData(path[r], r)' \in BOOLEAN
    BY DEF HasData, FileHasData
<1> QED
    BY <1>1 DEF Lives, Lifecycle!Next, Lifecycle!Work, Lifecycle!Moves

LEMMA BeginLives ==
    ASSUME NEW r \in Recs, UNCHANGED path[r], SameFiles(r), 
           \/ status[r] = "absent" /\ status'[r] = "scheduled"
           \/ status[r] = "scheduled" /\ status'[r] \in {"recording", "failed"}
           \/ status[r] = "recording" /\ status'[r] = "failed"
    PROVE  Lives(r)
<1>1. UNCHANGED <<HasData(r), FileHasData(path[r], r)>>
    BY DEF SameFiles, HasData, FileHasData
<1> QED
    BY <1>1 DEF Lives, Lifecycle!Next, Lifecycle!Plan, Lifecycle!Begin, Lifecycle!Miss,
                Lifecycle!Fail, Lifecycle!Moves

LEMMA CompleteLives ==
    ASSUME NEW r \in LeftAlone, SameFiles(r), PlayableInv',
           status[r] = "recording", status'[r] = "completed"
    PROVE  Lives(r)
<1>1. FileHasData(path[r], r)'
    BY DEF PlayableInv, Playable
<1>2. UNCHANGED HasData(r) /\ HasData(r) /\ FileHasData(path[r], r)' = TRUE
    BY <1>1 DEF SameFiles, HasData, FileHasData
<1> QED
    BY <1>2 DEF Lives, Lifecycle!Next, Lifecycle!Complete, Lifecycle!Moves

\* The tick begins, resumes or gives up what it holds, which nobody disturbs,
LEMMA LifeTick ==
    ASSUME TypeOK, KeepInv, PlayableInv, PlayableInv', TickStep, NEW q \in LeftAlone
    PROVE  Lives(q)
<1>1. q \in Recs /\ delReq[q] = "none"
    BY DEF LeftAlone, PlayableInv
<1>2. CASE \/ TickBegin \/ TickRead \/ TickEnd
           \/ RecoverRead \/ RecoverSkips \/ RecoverWaits \/ RecoverFinish
  <2>1. SameRecording(q)
      BY <1>2 DEF TickBegin, TickRead, TickEnd, RecoverRead, RecoverSkips, RecoverWaits,
                  RecoverFinish, SameRecording, SameFiles
  <2> QED
      BY <1>1, <2>1, UnseenLives
<1>3. ASSUME NEW r \in Recs, VisitCaptured(r) \/ VisitOrphan(r) \/ VisitEarlyOrFull(r)
      PROVE  Lives(q)
  <2>1. SameRecording(q)
      BY <1>3 DEF VisitCaptured, VisitOrphan, VisitEarlyOrFull, SameRecording, SameFiles
  <2> QED
      BY <1>1, <2>1, UnseenLives
<1>4. ASSUME NEW r \in Recs, VisitStart(r) \/ VisitMissed(r) PROVE Lives(q)
  <2>1. /\ UNCHANGED path[q] /\ SameFiles(q)
        /\ q = r => status[q] = "scheduled" /\ status'[q] \in {"recording", "failed"}
        /\ q # r => status'[q] = status[q]
      BY <1>1, <1>4 DEF VisitStart, VisitMissed, UpdateStatus, Exists, SameFiles, TypeOK,
                        PlayableInv
  <2> QED
      BY <1>1, <2>1, UnseenLives, BeginLives DEF SameRecording
<1>5. CASE RecoverResume
  <2>1. SameRecording(q)
      BY <1>1, <1>5 DEF RecoverResume, TickMoves, UpdateStatus, SameRecording, SameFiles,
                        TypeOK, PlayableInv
  <2> QED
      BY <1>1, <2>1, UnseenLives
<1>6. CASE RecoverKeeps \/ RecoverFails \/ StartRefused
  <2>1. /\ UNCHANGED path[q] /\ SameFiles(q)
        /\ q = cur => status[q] = "recording" /\ status'[q] \in {"completed", "failed"}
        /\ q # cur => status'[q] = status[q]
      BY <1>1, <1>6 DEF RecoverKeeps, RecoverFails, OrphanVerdict, StartRefused, TickMoves,
                        UpdateStatus, Exists, SameFiles, TypeOK, PlayableInv
  <2> QED
      BY <1>1, <2>1, UnseenLives, BeginLives, CompleteLives DEF SameRecording
<1>7. CASE Activate
  <2>1. SameRecording(q)
      BY <1>1, <1>7 DEF Activate, TickMoves, CaptureFile, SameRecording, SameFiles, TypeOK,
                        KeepInv
  <2> QED
      BY <1>1, <2>1, UnseenLives
<1>8. CASE RecordPath
  <2>1. /\ SameFiles(q)
        /\ q = cur => status[q] = "recording" /\ status'[q] = "recording"
        /\ q # cur => SameRecording(q)
      BY <1>1, <1>8 DEF RecordPath, TickMoves, UpdateRow, UpdateStatus, Exists,
                        SameRecording, SameFiles, TypeOK, PlayableInv
  <2>2. HasData(q) => HasData(q)'
      BY <2>1 DEF SameFiles, HasData
  <2> QED
      BY <1>1, <2>1, <2>2, UnseenLives, WorkLives
<1> QED
    BY <1>2, <1>3, <1>4, <1>5, <1>6, <1>7, <1>8 DEF TickStep

\* a task works on a recording that is in progress, and closes it with its file,
LEMMA LifeWorker ==
    ASSUME TypeOK, PlayableInv, PlayableInv', KeepsData,
           NEW k \in Kinds, NEW r \in Recs,
           CaptureStep(r) \/ CaptureWrite(r) \/ CloseStep(k, r),
           NEW q \in LeftAlone
    PROVE  Lives(q)
<1>1. q \in Recs /\ delReq[q] = "none"
    BY DEF LeftAlone, PlayableInv
<1>2. CASE CaptureExit(r) \/ LeaveActive(r) \/ CloseData(k, r) \/ RemuxOutput(k, r)
           \/ RemuxFails(k, r) \/ Release(k, r)
  <2>1. SameRecording(q)
      BY <1>2 DEF CaptureExit, LeaveActive, CloseData, RemuxOutput, RemuxFails, Release,
                  SameRecording, SameFiles
  <2> QED
      BY <1>1, <2>1, UnseenLives
<1>3. CASE \/ CaptureOpen(r) \/ CaptureWrite(r) \/ Discard(r)
           \/ CloseEmpty(k, r) \/ RemuxRename(k, r) \/ DeleteTs(k, r)
  <2>1. CASE q # r
    <3>1. SameRecording(q)
        BY <1>1, <1>3, <2>1 DEF CaptureOpen, CaptureWrite, Discard, CloseEmpty, RemuxRename,
                  DeleteTs, SameRecording, SameFiles, TypeOK
    <3> QED
        BY <1>1, <3>1, UnseenLives
  <2>2. CASE q = r
    <3>1. status[q] = "recording" /\ status'[q] = "recording"
        BY <1>1, <1>3, <2>2 DEF CaptureOpen, CaptureWrite, Discard, CloseEmpty, RemuxRename,
                  DeleteTs, WorkerMoves, TypeOK, PlayableInv
    <3>2. HasData(q) => HasData(q)'
        BY <1>1, <3>1 DEF KeepsData, Exists
    <3> QED
        BY <1>1, <3>1, <3>2, WorkLives
  <2> QED
      BY <2>1, <2>2
<1>4. CASE StoreFailed(k, r) \/ StoreCompleted(k, r)
  <2>1. /\ SameFiles(q)
        /\ q # r => SameRecording(q)
        /\ q = r => /\ status[q] = "recording"
                    /\ \/ status'[q] = "failed" /\ UNCHANGED path[q]
                       \/ status'[q] = "completed"
      BY <1>1, <1>4 DEF StoreFailed, StoreCompleted, WorkerMoves, UpdateRow, UpdateStatus,
                        Exists, SameRecording, SameFiles, TypeOK, PlayableInv
  <2> QED
      BY <1>1, <2>1, UnseenLives, BeginLives, CompleteLives
<1> QED
    BY <1>2, <1>3, <1>4 DEF CaptureStep, CloseStep

\* and users plan it, or act on others.
LEMMA LifeRest ==
    ASSUME TypeOK, PlayableInv,
           TickAborted \/ ProcessStep \/ \E r \in Recs : RequestStep(r) \/ UserStep(r),
           NEW q \in LeftAlone
    PROVE  Lives(q)
<1>1. q \in Recs /\ delReq[q] = "none" /\ stopReq[q] = "none"
    BY DEF LeftAlone, PlayableInv
<1>2. CASE TickAborted \/ ProcessStep
  <2>1. SameRecording(q)
      BY <1>2 DEF TickAborted, ProcessStep, Shutdown, Exit, Crash, MemoryLost, Restart,
                  Clock, SameRecording, SameFiles
  <2> QED
      BY <1>1, <2>1, UnseenLives
<1>3. ASSUME NEW r \in Recs, RequestStep(r) \/ StopRead(r) \/ DeleteBegin(r) PROVE Lives(q)
  <2>1. SameRecording(q)
    <3>1. CASE StopAct(r)
        BY <1>1, <3>1 DEF StopAct, UpdateStatus, SameRecording, SameFiles, TypeOK
    <3>2. CASE DeleteFiles(r) \/ DeleteRow(r)
        BY <1>1, <3>2 DEF DeleteFiles, DeleteRow, SameRecording, SameFiles, TypeOK
    <3>3. CASE StopRead(r) \/ DeleteBegin(r)
        BY <1>1, <3>3 DEF StopRead, DeleteBegin, SameRecording, SameFiles
    <3> QED
        BY <1>3, <3>1, <3>2, <3>3 DEF RequestStep
  <2> QED
      BY <1>1, <2>1, UnseenLives
<1>4. ASSUME NEW r \in Recs, Create(r) PROVE Lives(q)
  <2>1. /\ UNCHANGED path[q] /\ SameFiles(q)
        /\ q = r => status[q] = "absent" /\ status'[q] = "scheduled"
        /\ q # r => status'[q] = status[q]
      BY <1>1, <1>4 DEF Create, SameFiles, TypeOK
  <2> QED
      BY <1>1, <2>1, UnseenLives, BeginLives DEF SameRecording
<1> QED
    BY <1>2, <1>3, <1>4 DEF UserStep

\* A recording that no user stops or deletes is planned, captured, and closed once; its
\* bytes come while it is captured, none is lost, and it is completed only with
\* something to play: the scheduler implements RecordingLifecycle, whatever users do
\* to the other recordings and wherever the server stops or crashes.
THEOREM LifecycleHolds == Spec => LifecycleIsKept
<1> DEFINE AllLive == \A q \in LeftAlone : Lives(q)
<1>1. Init => \A r \in LeftAlone : Lifecycle(r)!Init
  <2> SUFFICES ASSUME Init, NEW q \in LeftAlone PROVE Lifecycle(q)!Init
      OBVIOUS
  <2>1. PICK Left \in SUBSET Legacy :
          /\ status = [r \in Recs |-> IF r \in Left THEN "recording" ELSE "absent"]
          /\ path = [r \in Recs |-> IF r \in Left THEN "mkv" ELSE "none"]
          /\ mkv = [r \in Recs |-> r \in Left]
      BY DEF Init
  <2>2. q \in Recs /\ ts[q] = "none"
      BY DEF Init, LeftAlone
  <2>3. CASE q \in Left
    <3>1. status[q] = "recording" /\ HasData(q) = TRUE /\ FileHasData(path[q], q) = TRUE
        BY <2>1, <2>2, <2>3 DEF HasData, FileHasData
    <3> QED
        BY <3>1 DEF Lifecycle!Init
  <2>4. CASE q \notin Left
    <3>1. status[q] = "absent" /\ HasData(q) = FALSE /\ FileHasData(path[q], q) = FALSE
        BY <2>1, <2>2, <2>4 DEF HasData, FileHasData
    <3> QED
        BY <3>1 DEF Lifecycle!Init
  <2> QED
      BY <2>3, <2>4
<1>2. TypeOK /\ KeepInv /\ PlayableInv /\ PlayableInv' /\ [Next]_vars => [AllLive]_vars
  <2> SUFFICES ASSUME TypeOK, KeepInv, PlayableInv, PlayableInv', Next,
                      NEW q \in LeftAlone
               PROVE  Lives(q)
      OBVIOUS
  <2>1. KeepsData
      BY KeepStep
  <2> QED
      BY <2>1, LifeTick, LifeWorker, LifeRest DEF Next
<1>3. [AllLive]_vars =>
          [\A r \in LeftAlone : [Lifecycle(r)!Next]_(Lifecycle(r)!lifeVars)]_vars
    BY DEF Lives
<1> QED
    BY <1>1, <1>2, <1>3, TypeCorrect, KeepInvariant, PlayableInvariant, PTL
       DEF Spec, LifecycleIsKept
=============================================================================
