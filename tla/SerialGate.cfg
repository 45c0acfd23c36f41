\* Two operations of one key, one of another, one drain.
CONSTANTS
    a1 = a1
    a2 = a2
    b1 = b1
    ka = ka
    kb = kb
    None = None
    Calls <- AllCalls
    Keys = {ka, kb}
    KeyOf <- KeyOfCall
    Drains = {"drain"}
SPECIFICATION FairSpec
INVARIANTS
    InArrivalOrder
    LanesMatchUsers
    DrainWaits
PROPERTIES
    ImplementsFifoLanes
    EveryoneReturns
\* Every operation runs once.
CHECK_DEADLOCK FALSE
