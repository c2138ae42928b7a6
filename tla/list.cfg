CONSTANTS
    n1 = n1
    n2 = n2
    n3 = n3
    d1 = d1
    d2 = d2
    d3 = d3
    NULL = NULL
    Node <- MCNode
    Data <- MCData
    Clobber <- NoClobber
SPECIFICATION FairSpec
INVARIANTS TypeOK WellLinked OwnedOnce FrontCallsSucceed CursorIsHead
PROPERTIES ImplementsSeqList DestroyTerminates
