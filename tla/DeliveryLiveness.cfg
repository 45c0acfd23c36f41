\* Every submission returns and every queued message moves on.
CONSTANTS
    m1 = m1
    m2 = m2
    Messages = {m1, m2}
    Modes = {"default", "steer"}
    Outcomes = {"accepted", "refused", "unknown"}
    Actions = {"steer"}
    TurnEnds = {"completed"}
    Unnamed = {m2}
    Budget <- LivenessBudget
    MaxBacklog = 2
SPECIFICATION FairSpec
PROPERTIES
    SubmissionsReturn
    QueuedIsDelivered
\* The composer submits each message once and every outside event has a budget.
CHECK_DEADLOCK FALSE
