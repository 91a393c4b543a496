SPECIFICATION Spec
CONSTANTS
    NbWorkers = 2
    NbThreads <- MCNoGPU
    NbBlocks = 2
    NbNodes = 3
    BadNode = {3}
    MaxCrashes = 1
    FaultyStore <- MCNoFault
    MayReject = FALSE
INVARIANTS
    CountedForTheNodeInUse
    RecordedIsNotCountedAgain
    AllRecordedAtExit
PROPERTIES
    NothingLeftBehind
    Promise
