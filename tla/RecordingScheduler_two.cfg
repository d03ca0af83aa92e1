SPECIFICATION Spec
CONSTANTS
    r1 = r1
    r2 = r2
    NoRec = NoRec
    Recs = {r1, r2}
    Start <- Window2
    End <- WindowEnd2
    MaxConcurrent = 1
    ResumeMargin = 1
    Legacy = {r1}
    StopRecs = {}
    DeleteRecs = {}
    MaxTime = 5
    MaxExits = 1
INVARIANTS
    CapacityRespected
    OneWriter
PROPERTIES
    LifecycleIsKept
    EveryRecordingCloses
    SlotsAreFreed
