\* Two handlers at once, in two processes.
SPECIFICATION Spec
CONSTANTS
  s1 = s1
  s2 = s2
  d1 = d1
  t1 = t1
  p1 = p1
  p2 = p2
  None = None
  Staff = {s1, s2}
  Processes = {p1, p2}
  ProcessOf <- Apart
  Deposits = {d1}
  Targets = {t1}
  Amounts = {1, 2}
  Rates = {2, 5}
  Openings <- OwnOrOwing
  Limit = 2
  MaxJobs = 2
INVARIANTS TypeOK CreditedOnce ApprovedIsPaid LedgerTellsBalance
PROPERTIES DecisionsStand
CHECK_DEADLOCK FALSE
