SPECIFICATION Spec
CONSTANTS
    Prime = 3
    MaxExponent = 3
    Conway <- FlintConway
    PrimeExponent = 1
    MaxDegree = 6
    CountExponents = {1, 2, 3}
    Position <- MCPrimeField
    Coefficients <- MCCoefficients
INVARIANTS
    TablesAreRight
    CountsAreRight
    RamificationIsRight
    OffsetsAreRight
CHECK_DEADLOCK FALSE
