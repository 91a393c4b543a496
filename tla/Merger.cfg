SPECIFICATION Spec
CONSTANTS
    NbNodes = 1
    NbBlocks = 4
    Calls = {"folder output", "type folder output", "folder", "no folder"}
    Positions <- MCPositions
    Packagings <- MCPackagings
    MaxPairs = 3
    MaxRuns = 2
    MaxMerges = 2
INVARIANTS
    ListedIsStoredUnlessCut
    MergedOnceUnlessTorn
    MergedIsComplete
CHECK_DEADLOCK FALSE
