\* One kind, two commands, two controls, two start attempts.
CONSTANTS
    k1 = k1
    k2 = k2
    o1 = o1
    o2 = o2
    c1 = c1
    c2 = c2
    Kinds <- OneKind
    Ops <- TwoOps
    Controls <- TwoControls
    MaxStarts = 2
SPECIFICATION FairSpec
INVARIANTS
    OneRuntimePerKind
    NoLostRuntime
    GateMatchesStatus
    CallbacksAreCurrent
PROPERTIES
    NothingStartsAfterShutdown
    ImplementsSharedRuntimes
    ShutdownEnds
    ReservationDrains
