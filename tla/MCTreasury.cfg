SPECIFICATION Spec
CONSTANTS
  Start <- MCStart
  Sides <- MCSides
  Threshold = 30
  MinBalance = 7
  WithdrawFee = 2
  Tolerance = 1
  MaxFills = 1
  MaxPlans = 2
  MaxSyncs = 2
CHECK_DEADLOCK FALSE
INVARIANTS
  PauseMatchesPlan
PROPERTIES
  MismatchMeansMoved
  PauseEnds
