CONSTANTS
    x = x
    y = y
    xPlus = xPlus
    plusX = plusX
    Exprs <- MCExprs
    Symbols <- MCSymbols
    Value <- MCValue
    Size <- MCSize
    Parts <- MCParts
    MaxGoal = 1
SPECIFICATION Spec
SYMMETRY Symmetry
INVARIANTS
    SameIdSameValue
    AgreementStays
