SPECIFICATION Spec
CONSTANTS
    FRAME_SIZE = 4
    HOP_SIZE = 2
    HASH_FRAME_COUNT = 2
    HASH_STRIDE_FRAMES = 2
    HASH_FRAMES_READ = 2
    WindowSamples <- MCWindowSamples
    IntervalSamples <- MCIntervalSamples
    MAX_CHUNK = 7
    MAX_SAMPLES = 18
INVARIANTS
    TypeOK
    FramesOnGrid
    SliceNeverOutOfRange
    StreamMatchesOneShot
    BufferBounded
PROPERTIES
    ImplementsWindowStream
    CallsReturn
