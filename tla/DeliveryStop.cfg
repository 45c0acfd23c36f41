\* A Stop while the queue starts a delivery.
CONSTANTS
    m1 = m1
    m2 = m2
    Messages = {m1, m2}
    Modes = {"default"}
    Outcomes = {"accepted"}
    Actions = {}
    TurnEnds = {"completed"}
    Unnamed = {}
    Budget <- StopBudget
    MaxBacklog = 2
SPECIFICATION Spec
PROPERTIES
    StopHoldsDelivery
\* The composer submits each message once and every outside event has a budget.
CHECK_DEADLOCK FALSE
