CONSTANTS
    n1 = n1
    n2 = n2
    n3 = n3
    d1 = d1
    d2 = d2
    d3 = d3
    NULL = NULL
    Node <- MCNode
    Data <- MCData
    Clobber <- ZeroClobber
SPECIFICATION FairSpec
PROPERTIES DestroyTerminates
CHECK_DEADLOCK FALSE
