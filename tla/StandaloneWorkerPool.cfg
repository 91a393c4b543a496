SPECIFICATION Spec
CONSTANTS
    Thread = {cpu, gpu}
    OpenCLThread = {gpu}
    NbBlocks = 3
    NbNodes = 2
    BadNode = {}
    MaxCrashes = 0
    FaultyDisk = FALSE
INVARIANTS
    TypeOK
    NoThrow
    IdleThreadsMatchCounters
    AssignedBlocksAreOnTheirWay
    WitnessedPairsComplete
PROPERTIES
    NothingLeftBehind
    CompletesUnlessWakeupLost
