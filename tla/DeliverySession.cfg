\* Automatic delivery, a Stop, a question, a session that leaves its runtime, a turn of its own.
CONSTANTS
    m1 = m1
    m2 = m2
    Messages = {m1, m2}
    Modes = {"default"}
    Outcomes = {"accepted", "refused", "unknown"}
    Actions = {}
    TurnEnds = {"completed", "interrupted", "error"}
    Unnamed = {m2}
    Budget <- SessionBudget
    MaxBacklog = 2
SPECIFICATION Spec
INVARIANTS
    TypeOK
    NoStranded
    InOrder
    NamedDeliveryIsForgotten
\* The composer submits each message once and every outside event has a budget.
CHECK_DEADLOCK FALSE
