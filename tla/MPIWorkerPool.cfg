SPECIFICATION Spec
CONSTANTS
    NbWorkers = 1
    NbThreads <- MCOneGPU
    NbBlocks = 4
    NbNodes = 1
    BadNode = {}
    MaxCrashes = 0
    FaultyStore <- MCOneFault
    MayReject = TRUE
INVARIANTS
    NoThrow
    QueuesMatchPools
    AssignedBlocksAreOnTheirWay
    WitnessedPairsComplete
PROPERTIES
    EndsUnlessRejectedOrAsleep
