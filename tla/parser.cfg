SPECIFICATION PrintSpec
CONSTANTS
    NULL = NULL
    MaxNodes = 4
    MaxStack = 4
    MaxEmpty = 2
INVARIANTS
    TypeOK
    ListsFollowSource
    NothingShared
    TypesFollowSource
    PrintsWholeSource
CHECK_DEADLOCK FALSE
