SPECIFICATION Spec
CONSTANTS
    Thread = {cpu, gpu}
    OpenCLThread = {gpu}
    NbBlocks = 2
    NbNodes = 2
    BadNode = {2}
    MaxCrashes = 1
    FaultyDisk = TRUE
INVARIANTS
    RecordsDisjoint
    RecordedIsStored
    RecordedIsNotCountedAgain
    AllRecordedAtExit
PROPERTIES
    Promise
