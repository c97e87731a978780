SPECIFICATION Spec
CONSTANTS
    Kernels <- MCKernels
    MAX_CHUNK = 5
    MAX_SOURCE = 12
    MAX_FLUSHES = 2
INVARIANTS
    TypeOK
    HistoryAligned
    ReadsBetweenFlushes
    StreamMatchesOneShot
