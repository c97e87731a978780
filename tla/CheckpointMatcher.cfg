SPECIFICATION Spec
CONSTANTS
    WORD_BITS = 2
    F32_DIGITS = 2
    Timestamps <- MCTimestamps
    StoredSequences <- MCStoredSequences
    Durations = {70001}
    Queries <- MCQueries
    Drifts = {0, 1}
    MAX_CHECKPOINTS = 3
INVARIANTS
    TypeOK
    ResultsAreTheBest
    AnswerIsDetermined
    LoadedAsSaved
