\* Two processes whose cycles overlap on one order.
SPECIFICATION Spec
CONSTANTS
  Orders = {o1}
  Kinds = {"plain"}
  Admins = {}
  Pollers = {p1, p2}
  BatchLimit = 1
  Charge = 4
  Quantity = 2
  MaxRetry = 2
  LostAcks = FALSE
  MaxRequests = 0
  MaxCrashes = 0
  MaxFaults = 0
CHECK_DEADLOCK FALSE
INVARIANTS CompletedIsNotRefunded
