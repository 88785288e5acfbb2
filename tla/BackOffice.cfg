\* Two administrators against the automation on one order.
SPECIFICATION Spec
CONSTANTS
  Orders = {o1}
  Kinds = {"manual", "plain", "coin"}
  Admins = {a1, a2}
  Pollers = {p1, p2}
  BatchLimit = 1
  Charge = 4
  Quantity = 2
  MaxRetry = 1
  LostAcks = FALSE
  MaxRequests = 2
  MaxCrashes = 1
  MaxFaults = 1
SYMMETRY AdminSymmetry
CHECK_DEADLOCK FALSE
INVARIANTS TypeOK RefundsBacked NeverOverRefunded UnrefundedIsPaid
PROPERTIES ImplementsAccount
