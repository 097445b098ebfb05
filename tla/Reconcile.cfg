SPECIFICATION Spec
CONSTANTS
  Q = 3
  Pass = {p1, p2}
  Canceller = {c1}
  Inspector = {i1}
  ApprovedSell = FALSE
  DeadListing = {TRUE, FALSE}
  DerivedRemaining = FALSE
  MaxFaults = 1
SYMMETRY FlowSymmetry
INVARIANTS
  ClosedMeansDead
  UncancelledCountsFills
  ShareHeardOnce
  FailureHeardOnce
PROPERTIES
  ExecutedOnlyGrows
  ImplementsReport
