SPECIFICATION TableSpec
CONSTANTS
    n1 = n1
    n2 = n2
    none = none
    Name <- MCName
    Symbol <- MCSymbol
    NoSym = none
    MaxDepth = 2
    Expr <- MCExpr
    Height <- MCHeight
INVARIANTS
    TableTypeOK
    ResolvesToInnermost
    QuietCallsFitOrAreUndeclared
    
    AtMostOneReportPerNode
    SilentErrorsAreCalls
PROPERTIES
    DeclarationsStay
