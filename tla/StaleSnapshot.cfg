SPECIFICATION Spec
CONSTANTS
  Q = 2
  Pass = {p1}
  Canceller = {}
  Inspector = {}
  ApprovedSell = TRUE
  DeadListing = {TRUE, FALSE}
  DerivedRemaining = FALSE
  MaxFaults = 0
INVARIANTS
  ClosedMeansDead
