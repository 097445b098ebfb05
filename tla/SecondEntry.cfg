SPECIFICATION Spec
CONSTANTS
  NoDay = 0
  Strategy = {"conservative"}
  Seed <- NoSharesYet
  Quotas = {400}
  Cycles = 2
  StopLoss = 30
  Compound = FALSE
  PartFills = FALSE
  View <- Falling
  Timetable <- TwoMinutes
  MaxDay = 2
  MaxOrders = 2
  MaxManual = 0
  MaxEdit = 0
INVARIANTS
  OnlyThirtyPercent
CHECK_DEADLOCK FALSE
