SPECIFICATION FairSpec
CONSTANTS
  Broker <- Brokers
  Order = {o1}
  Get = {g1}
  Account = Account
  Boot = Boot
  None = None
  MaxLapses = 3
  MaxRestarts = 1
INVARIANTS
  AnswersAreTrue
PROPERTIES
  EveryTokenIsNeeded
  EveryCallReturns
CHECK_DEADLOCK FALSE
