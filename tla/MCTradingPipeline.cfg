SPECIFICATION FairSpec
CONSTANTS
  s1 = s1
  s2 = s2
  s3 = s3
  Signals <- MCSignals
  Info <- MCInfo
  Free <- MCFree
  MaxSize = 1
  MaxConcurrent = 1
  MaxOpen = 2
INVARIANTS
  OpenPositionsAccounted
  DrainedMeansIdle
  ReservationsAccounted
PROPERTIES
  SignalsResolve
