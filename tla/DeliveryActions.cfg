\* Steers and every button of the queue, with every kind of answer.
CONSTANTS
    m1 = m1
    m2 = m2
    Messages = {m1, m2}
    Modes = {"default", "steer"}
    Outcomes = {"accepted", "received", "refused", "unknown", "unclear"}
    Actions = {"resume", "steer", "begin_edit", "end_edit", "remove"}
    TurnEnds = {"completed"}
    Unnamed = {m2}
    Budget <- ActionsBudget
    MaxBacklog = 2
SPECIFICATION Spec
INVARIANTS
    SentOnce
    NothingLost
    UnknownKeepsPause
\* The composer submits each message once and every outside event has a budget.
CHECK_DEADLOCK FALSE
