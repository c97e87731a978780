SPECIFICATION Spec
CONSTANTS
    Consumers = {app, library}
    POLLS = 6
    MAX_BUILDS = 4
INVARIANTS
    TypeOK
    AssetMatchesTag
    SuccessStays
PROPERTIES
    RunEnds
CHECK_DEADLOCK FALSE
