SPECIFICATION Spec
CONSTANTS
    Prime = 5
    MaxExponent = 1
    Conway <- FlintConway
    PrimeExponent = 1
    UIntSize = 65536
    Texts <- MCTexts
    Arguments <- MCArguments
    Walked <- MCWalked
    Compared <- MCCompared
INVARIANTS
    MassIsRight
    OrbitsAreRight
PROPERTIES
    EachPositionOnce
CHECK_DEADLOCK FALSE
