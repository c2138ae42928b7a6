CONSTANTS
    k1 = k1
    k2 = k2
    k3 = k3
    k4 = k4
    v1 = v1
    v2 = v2
    NoKey = NoKey
    NoVal = NoVal
    Key <- MCKey
    Val <- MCVal
    HashOf <- Collide
    MinCap = 4
    GrowPct = 60
    ShrinkPct = 25
    MaxBuckets = 8
    Caps = {0, 5}
    Factors = {99}
    Powers = {0}
SPECIFICATION IterSpec
INVARIANTS TypeOK TablesInOrder RoomLeft InFlight IteratesOverAll
PROPERTIES ImplementsKVMap CallReturns
