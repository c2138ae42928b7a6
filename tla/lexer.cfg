SPECIFICATION Spec
CONSTANTS
    Text <- MCText
    Letter <- MCLetter
    Digit <- MCDigit
    Keyword <- MCKeyword
INVARIANTS
    TypeOK
    CommentsClose
    StringsClose
    NothingSplit
CHECK_DEADLOCK FALSE
