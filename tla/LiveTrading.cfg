SPECIFICATION Spec
CONSTANTS
  NoDay = 0
  Strategy = {"momentum-breakout", "daily-dca"}
  Seed <- NoSharesYet
  Quotas = {400}
  Cycles = 4
  StopLoss = 30
  Compound = FALSE
  PartFills = FALSE
  View <- Rising
  Timetable <- TwoMinutes
  MaxDay = 2
  MaxOrders = 2
  MaxManual = 1
  MaxEdit = 0
INVARIANTS
  TypeOK
  OneEntryADay
  HoldingIsDated
  WithinPlan
CONSTRAINT Relevant
CHECK_DEADLOCK FALSE
