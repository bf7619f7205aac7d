CONSTANT MaxNode = 5
SPECIFICATION Spec
INVARIANTS
    NeverGeneric
    KeepsTheOrder
CHECK_DEADLOCK FALSE
