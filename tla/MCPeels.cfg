CONSTANTS
    Segments <- AllSegments
    WordBits = 1
    StackSlack = 5
    Width = 4
    NumLocals = 1
    MaxPeels = 6
SPECIFICATION Spec
INVARIANTS
    PeelIsPrecondition
    OnlyKnownRejections
    HDropsByOne
CHECK_DEADLOCK FALSE
