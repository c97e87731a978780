SPECIFICATION SearchSpec
CONSTANTS
    WORD_BITS = 2
    F32_DIGITS = 2
    FirstSequences <- MCFirstSequences
    SecondSequences <- MCSecondSequences
    SearchDrifts = {0, 1, 2, 4}
INVARIANTS
    SearchTypeOK
    FindsBestAlignment
    ScoreSymmetric
\* A call ends.
CHECK_DEADLOCK FALSE
