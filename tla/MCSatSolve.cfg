CONSTANTS
    empty = empty
    one = one
    two = two
    orig = orig
    long = long
    None = None
    Program <- MCProgram
    Length <- MCLength
    Orig = orig
    MaxSatLen = 3
SPECIFICATION Spec
INVARIANTS
    TypeOK
    AnswerSound
    AnswerMinimal
PROPERTIES
    Terminates
    IsMinimizer
CHECK_DEADLOCK FALSE
