\* Requests of one customer at once, on every deployment, with one accident.
SPECIFICATION FairSpec
CONSTANTS
  Requests = {r1, r2}
  Keys = {k1}
  NoKey = NoKey
  Goods = {game, card}
  Automatic = {game}
  Suppliers = {s1, s2}
  Amounts = {2}
  Opening = 2
  Limit = 1
  Modes = {"txn", "single", "refused"}
  MaxCredits = 1
  MaxCrashes = 1
  MaxFaults = 1
CHECK_DEADLOCK FALSE
INVARIANTS TypeOK CreditLimitHolds LedgerTellsBalance AnswersAreTrue StartedIsPaid
PROPERTIES ImplementsCheckout OrdersStart
