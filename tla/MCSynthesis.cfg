CONSTANTS
    Sorts = {"i", "f"}
    Floats = {"f"}
    Words <- MCWords
    Consts <- MCConsts
    Pops <- MCPops
    Push <- MCPush
    Apply <- MCApply
    Trap <- MCTrap
    Spelling <- MCSpelling
    Corners <- MCCorners
    CvecRows <- MCCvecRows
    TestRows <- MCTestRows
    Builds <- MCBuilds
    Requests <- MCRequests
    IterLimits = {0, 20}
SPECIFICATION Spec
INVARIANTS
    OnlyTrapsMislead
    NothingForgotten
    RulesAreOwn
CHECK_DEADLOCK FALSE
