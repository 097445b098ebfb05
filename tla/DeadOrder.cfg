SPECIFICATION FairSpec
CONSTANTS
  Q = 2
  Pass = {p1}
  Canceller = {}
  Inspector = {}
  ApprovedSell = FALSE
  DeadListing = {TRUE}
  DerivedRemaining = FALSE
  MaxFaults = 0
PROPERTY
  DeadOrderCloses
