SPECIFICATION Spec
CONSTANTS
    NULL = NULL
    MaxNodes = 4
    MaxStack = 4
    MaxEmpty = 1
INVARIANTS
    NoCommandLost
CHECK_DEADLOCK FALSE
