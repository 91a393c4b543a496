SPECIFICATION Spec
CONSTANTS
    Thread = {t1}
    NbBlocks = 2
    NbNodes = 2
    MaxAssigned = 3
INVARIANTS
    TypeOK
    CountedInOrder
    FrontExists
PROPERTIES
    PoppedUnlessWakeupLost
    ShutdownReturnsUnlessWakeupLost
