\* Two kinds, one command, one control, one start attempt per kind.
CONSTANTS
    k1 = k1
    k2 = k2
    o1 = o1
    o2 = o2
    c1 = c1
    c2 = c2
    Kinds <- TwoKinds
    Ops <- OneOp
    Controls <- OneControl
    MaxStarts = 1
SPECIFICATION Spec
SYMMETRY Symmetry
INVARIANTS
    NoStopUnderControl
    ShutdownStopsEveryKind
