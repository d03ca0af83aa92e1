SPECIFICATION Spec
CONSTANTS
    r1 = r1
    r2 = r2
    NoRec = NoRec
    Recs = {r1}
    Start <- Window1
    End <- WindowEnd1
    MaxConcurrent = 1
    ResumeMargin = 1
    Legacy = {}
    StopRecs = {}
    DeleteRecs = {r1}
    MaxTime = 4
    MaxExits = 0
INVARIANT
    DeletedLeavesNoFile
