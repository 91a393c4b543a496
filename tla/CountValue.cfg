SPECIFICATION Spec
CONSTANTS
    SmallMax = 2
    Multiplicity = {1, 2}
    NbKeys = 3
    Twin <- MCTwin
    MaxCurves = 4
    MaxSaves = 2
INVARIANTS
    RightUntilCopied
CHECK_DEADLOCK FALSE
