SPECIFICATION Spec
CONSTANTS
    Functions <- MCFunctions
    MaxSteps <- MCMaxSteps
INVARIANTS
    MergedTeeLeavesGet
CHECK_DEADLOCK FALSE
