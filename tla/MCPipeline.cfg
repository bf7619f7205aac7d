CONSTANTS
    Bodies <- MCBodies
    FuncTypes <- MCFuncTypes
    Limits = {0, 2, 3}
    NumLocals = 2
    WordBits = 3
    StackSlack = 1
    Width = 2
SPECIFICATION Spec
INVARIANTS
    SegmentsAreRuns
    FinIsReached
    ShortIsWhole
    CarriedChunksCompose
    OnlyKnownGapsInOrder
CHECK_DEADLOCK FALSE
