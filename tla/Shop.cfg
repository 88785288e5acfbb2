SPECIFICATION Spec
CONSTANTS
  Staff = {s1, s2}
  Processes = {p1, p2}
  Products = {g1, g2}
  Prices = {1, 2}
  Markups <- MCMarkups
  MaxJobs = 2
  MaxEditions = 1
  None = None
  Handlers = {s1, s2}
  Users = {g1, g2}
  Emails = {e1, e2}
  Groups = {k1, k2}
  Percentages = {0, 1}
  MaxBegun = 2
  Absent = Absent
  Operators = {o1, o2}
  MaxClients = 3
  Names = {"a", "b", "c"}
  Forms <- MCForms
  Mappings <- MCMappings
  MaxEntries = 2
  Adapters = {"alkasr", "toros", "royal", "brandone", "canonical", "xena", "coin"}
  MaxChecks = 3
INVARIANTS ShopTypeOK LockIsASync OneAccountPerAddress LostIsReplaced AnswersArrive
  NoRefundOfASale CompletedIsDelivered WaitingIsPolled ForeseenAnswers
PROPERTIES CacheNeverGoesBack SoldAboveCost DecisionsHold
SYMMETRY Symmetry
CHECK_DEADLOCK FALSE
