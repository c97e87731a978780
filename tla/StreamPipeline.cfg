SPECIFICATION Spec
CONSTANTS
    FRAME_SIZE = 4
    HOP_SIZE = 2
    HASH_FRAME_COUNT = 3
    HASH_STRIDE_FRAMES = 2
    HASH_FRAMES_READ = 2
    Kernels <- MCKernels
    Channels = {0, 1, 2}
    MILLISECONDS = 1
    MAX_MS = 5
    MAX_PUSH = 9
    MAX_SOURCE = 18
    MAX_SAMPLES = 24
    MAX_FLUSHES = 1
INVARIANTS
    TypeOK
    FramesInOrder
    HashesMatchOneShot
    DurationTracksSource
