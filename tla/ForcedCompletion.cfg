\* Two administrators: one completes what the other one fails.
SPECIFICATION Spec
CONSTANTS
  Orders = {o1}
  Kinds = {"manual"}
  Admins = {a1, a2}
  Pollers = {p1}
  BatchLimit = 1
  Charge = 4
  Quantity = 2
  MaxRetry = 2
  LostAcks = FALSE
  MaxRequests = 2
  MaxCrashes = 0
  MaxFaults = 0
CHECK_DEADLOCK FALSE
INVARIANTS CompletedIsPaid
