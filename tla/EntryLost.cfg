SPECIFICATION Spec
CONSTANTS
  NoDay = 0
  Strategy = {"momentum-breakout"}
  Quota = 1600
  Quotas = {1600}
  Cycles = 2
  StopLoss = 30
  View <- Market
  Timetable <- TwoMinutes
  MaxDay = 2
  MaxManual = 0
  MaxEdit = 0
INVARIANT EntryIsRecorded
CHECK_DEADLOCK FALSE
