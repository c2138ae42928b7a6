SPECIFICATION Spec
CONSTANTS
    NULL = NULL
    Name = {x, y}
    GrowAt = {1}
    MaxDepth = 3
    MaxSize = 7
INVARIANTS
    TypeOK
    OneOwner
    NothingLeft
    EndsAsItShould
PROPERTIES
    ImplementsTable
CHECK_DEADLOCK FALSE
