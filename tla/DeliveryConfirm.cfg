\* A steered queue message whose result is unknown until the conversation shows it.
CONSTANTS
    m1 = m1
    m2 = m2
    Messages = {m1, m2}
    Modes = {"default"}
    Outcomes = {"accepted", "unknown"}
    Actions = {"steer"}
    TurnEnds = {"completed"}
    Unnamed = {}
    Budget <- ConfirmBudget
    MaxBacklog = 2
SPECIFICATION Spec
INVARIANTS
    ConfirmedQueueCanResume
\* The composer submits each message once and every outside event has a budget.
CHECK_DEADLOCK FALSE
