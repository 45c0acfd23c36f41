\* Two subscriptions, two host processes with two changes or resets each, two sockets, one failure.
\* A client that has caught up or has stopped rests.
CONSTANTS
    Subs = {s1, s2}
    None = None
    Capacity = 1
    MaxSequence = 2
    MaxEpochs = 2
    MaxSockets = 2
    Room = 1
    MaxFailures = 1
SPECIFICATION FairSpec
INVARIANTS
    TypeOK
    NoChangeIsSkipped
    QueueIsBounded
    AcknowledgedIsProcessed
    OpenChannelKeepsItsLease
PROPERTIES
    CatchesUp
    FeedSpec
    UsesStream
CHECK_DEADLOCK FALSE
