CONSTANTS
  s1 = s1
  s2 = s2
  d1 = d1
  None = None
  p1 = p1
  p2 = p2
  Staff = {s1, s2}
  Processes = {p1, p2}
  ProcessOf <- Apart
  Deposits = {d1}
  Targets = {}
  Amounts = {1}
  Rates = {2}
  Openings = {1}
  Limit = 2
  MaxJobs = 2
SPECIFICATION Spec
PROPERTY OnlyPendingIsRejected
CHECK_DEADLOCK FALSE
