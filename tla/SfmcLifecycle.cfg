CONSTANTS
    NULL = NULL
    Dev = {d1, d2}
    MaxWork = 1
SPECIFICATION FairSpec
INVARIANTS TypeOK NoStrayUser NothingLeft NotifiedWhileUp
PROPERTY RemovalEnds
CHECK_DEADLOCK FALSE
