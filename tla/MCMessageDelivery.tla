------------------------- MODULE MCMessageDelivery -------------------------
(* Instances of MessageDelivery for TLC: the budgets of outside events. *)
EXTENDS MessageDelivery

Nothing == [e \in Bounded |-> 0]

SessionBudget  == [Nothing EXCEPT !.stops = 1, !.turns = 1, !.asks = 1, !.leaves = 1, !.failures = 1]
ActionsBudget  == [Nothing EXCEPT !.manages = 2, !.turns = 1, !.failures = 1]
LivenessBudget == [Nothing EXCEPT !.manages = 1, !.faults = 1]
StopBudget     == [Nothing EXCEPT !.stops = 1, !.turns = 1]
ConfirmBudget  == [Nothing EXCEPT !.manages = 1, !.turns = 1]
==============================================================================
