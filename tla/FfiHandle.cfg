SPECIFICATION Spec
CONSTANTS
    Callers = {c1, c2}
    PUSH_STEPS = 2
    MAX_VALUE = 3
    Nobody = Nobody
    Fallback = Fallback
    Pending = Pending
INVARIANTS
    TypeOK
    HandleOutlivesCalls
    NothingLeaks
PROPERTIES
    ImplementsAtomicHandle
    MutexReleased
