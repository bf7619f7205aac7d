CONSTANTS
    Modules <- MCModules
    Jobs = {0, 1, 2, 3}
    Fixed <- MCFixed
    Limits = {0, 2}
    DirectTime = 3
    Cores = 2
    Room = 2
SPECIFICATION Spec
INVARIANTS
    AsAlone
    LinesInSight
    RowsAreHonest
PROPERTIES
    IsBatch
    Terminates
CHECK_DEADLOCK FALSE
