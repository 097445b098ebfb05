SPECIFICATION Spec
CONSTANTS
  NoDay = 0
  Strategy = {"infinite-buy-v4"}
  Seed <- Ledger
  Quotas = {700}
  Cycles = 4
  StopLoss = 30
  Compound = FALSE
  PartFills = FALSE
  View <- AroundStar
  Timetable <- OneMinute
  MaxDay = 2
  MaxOrders = 2
  MaxManual = 0
  MaxEdit = 1
INVARIANTS
  LedgerFollowsFills
  LedgerKnowsHolding
CONSTRAINT NotTorn
VIEW WithoutDrawdown
CHECK_DEADLOCK FALSE
