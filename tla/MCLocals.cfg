SPECIFICATION Spec
CONSTANTS
    Functions <- MCFunctions
    MaxSteps <- MCMaxSteps
INVARIANTS
    ReachingSound
    OnlyKnownMiscompilations
    NeverCostsMore
PROPERTIES
    Terminates
CHECK_DEADLOCK FALSE
