SPECIFICATION Spec
CONSTANTS
    Thread = {cpu}
    OpenCLThread = {}
    NbBlocks = 2
    NbNodes = 1
    BadNode = {}
    MaxCrashes = 0
    FaultyDisk = FALSE
PROPERTIES
    Completes
