\* Three sockets and one change: the client loses its lease twice.
CONSTANTS
    Subs = {s1, s2}
    None = None
    Capacity = 1
    MaxSequence = 1
    MaxEpochs = 1
    MaxSockets = 3
    Room = 1
    MaxFailures = 0
SPECIFICATION FairSpec
PROPERTY LostLeaseSubscribesAgain
CHECK_DEADLOCK FALSE
