SPECIFICATION ApartSpec
CONSTANTS
  Q = 2
  Pass = {p1, p2}
  Canceller = {c1, c2}
  Inspector = {i1}
  ApprovedSell = FALSE
  DeadListing = {TRUE}
  DerivedRemaining = TRUE
  MaxFaults = 1
INVARIANT CancelExclusive
PROPERTIES
  AttemptFreezesRow
  AcceptedCancelSettles
  FillsReachStrategy
