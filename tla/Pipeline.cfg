\* The automation alone on one order: crashes, failing writes, lost commits.
SPECIFICATION FairSpec
CONSTANTS
  Orders = {o1}
  Kinds = {"manual", "plain", "reference", "xena", "coin"}
  Admins = {}
  Pollers = {p1, p2}
  BatchLimit = 1
  Charge = 4
  Quantity = 2
  MaxRetry = 3
  LostAcks = TRUE
  MaxRequests = 0
  MaxCrashes = 2
  MaxFaults = 2
CHECK_DEADLOCK FALSE
INVARIANTS AutomationSettles KillSwitchIdle CompletedWasSold DeliveredCoinIsPaid
PROPERTIES OutcomeIsFinal PollableSettles FailedIsRefunded
