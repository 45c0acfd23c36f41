\* Two kinds, one session each, two callers, three calls.
CONSTANTS
    k1 = k1
    k2 = k2
    p1 = p1
    p2 = p2
    s1 = s1
    m1 = m1
    m2 = m2
    Kinds <- TwoKinds
    Paths <- TwoPaths
    Sessions <- OneSession
    Commands <- TwoCommands
    MaxReviews = 2
    MaxCalls = 3
    MaxStarts = 2
    MaxEvents = 2
    EventBound <- TurnsOfOneKind
    Initial <- BothOn
    EditSets <- Edits
SPECIFICATION Spec
SYMMETRY Symmetry
INVARIANTS
    TypeOK
    OnlyReviewedTurnsStop
    ReviewedRuntimeStops
    RunningMatchesSaved
CHECK_DEADLOCK FALSE
