\* One administrator and a coin recharge under manual review.
SPECIFICATION Spec
CONSTANTS
  Orders = {o1}
  Kinds = {"coin"}
  Admins = {a1}
  Pollers = {p1}
  BatchLimit = 1
  Charge = 4
  Quantity = 2
  MaxRetry = 2
  LostAcks = FALSE
  MaxRequests = 1
  MaxCrashes = 0
  MaxFaults = 0
CHECK_DEADLOCK FALSE
PROPERTIES CoinReviewIsResolved
