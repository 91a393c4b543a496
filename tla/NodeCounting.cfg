SPECIFICATION Spec
CONSTANTS
    Prime = 3
    MaxExponent = 2
    Conway <- FlintConway
    PrimeExponent = 1
    MaxDegree = 4
    NodeGenus = 1
    WithMarkedPoint = FALSE
    CountExponent = 2
    PackageSize = 9
    Thread = {t1, t2}
    MaxSaves = 1
INVARIANTS
    PairsAreConsistent
    MergedIsRight
CHECK_DEADLOCK FALSE
