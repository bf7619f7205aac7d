CONSTANTS
    Segments <- DeadAccess
    WordBits = 1
    StackSlack = 5
    Width = 4
    NumLocals = 1
    Scratch = 1
    SynthConsts = {0, 1}
    Bot = Bot
    Top = Top
    Star = Star
SPECIFICATION Spec
INVARIANTS
    SideEffectsKeepOrder
CHECK_DEADLOCK FALSE
