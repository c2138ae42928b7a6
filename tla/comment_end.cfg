SPECIFICATION Spec
CONSTANTS
    Text <- MCText
    Letter <- MCLetter
    Digit <- MCDigit
    Keyword <- MCKeyword
INVARIANTS
    UnterminatedMeansOpen
CHECK_DEADLOCK FALSE
