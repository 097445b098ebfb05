SPECIFICATION Spec
CONSTANTS
  NoDay = 0
  Strategy = {"momentum-breakout", "grid-mean-reversion", "daily-dca", "infinite-buy"}
  Quota = 1600
  Quotas = {600, 2000}
  Cycles = 2
  StopLoss = 30
  View <- Market
  Timetable <- TwoMinutes
  MaxDay = 2
  MaxManual = 1
  MaxEdit = 1
INVARIANTS
  TypeOK
  CashIsTradeSum
  SharesAreTradeSum
  NoOverdraft
  OnceDailyBuysOnce
CONSTRAINT Relevant
CHECK_DEADLOCK FALSE
