CONSTANTS
    Keys <- FourKeys
    Root = 0
    Problems <- AllProblems
SPECIFICATION Spec
INVARIANTS
    TypeOK
    AnswerSound
    TracedFromRoot
    AnswerShortest
PROPERTIES
    FirstAnswerStays
    Terminates
CHECK_DEADLOCK FALSE
