SPECIFICATION FairSpec
CONSTANTS
    a = a
    b = b
    none = none
    Name <- MCName
    Symbol <- MCSymbol
    NoSym = none
    Expr <- MCExpr
    Height <- MCHeight
    MaxDepth = 6
    Params <- MCParams
    MaxSize = 4
INVARIANTS
    TypeOK
    ScopesBalanced
PROPERTIES
    
    GlobalsFrozen
    AnalysisEnds
