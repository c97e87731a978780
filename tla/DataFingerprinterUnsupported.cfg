SPECIFICATION CallSpec
CONSTANTS
    Files <- MCFiles
    Chunks <- MCChunks
    Specs <- MCSpecs
    PacketSamples = {0, 2}
    MAX_MP3_INPUT_BYTES = 30
    MAX_MP3_DECODED_SAMPLES = 4
    MAX_PACKETS = 3
    FRAME_SIZE = 2
    HOP_SIZE = 1
    HASH_FRAME_COUNT = 2
    HASH_STRIDE_FRAMES = 1
    HASH_FRAMES_READ = 2
    Durations = {1, 3, 6}
    MILLISECONDS = 2
    TARGET_SAMPLE_RATE = 1
    MAX_SAMPLE_RATE = 2
INVARIANTS
    UnsupportedIsRefused
\* The call has returned.
CHECK_DEADLOCK FALSE
