\* A provider without reference lookup, undisturbed.
SPECIFICATION FairSpec
CONSTANTS
  Orders = {o1}
  Kinds = {"plain"}
  Admins = {}
  Pollers = {p1}
  BatchLimit = 1
  Charge = 4
  Quantity = 2
  MaxRetry = 2
  LostAcks = FALSE
  MaxRequests = 0
  MaxCrashes = 0
  MaxFaults = 0
CHECK_DEADLOCK FALSE
PROPERTIES ProcessingSettles
