SPECIFICATION Spec
CONSTANTS
  j1 = j1
  j2 = j2
  Jobs <- MCJobs
  Mixes <- MCMixes
  MaxAttempts = 2
  TargetOffset = 0
  MaxBlocksToTry = 1
  MaxBlock = 2
  MaxRestarts = 1
CHECK_DEADLOCK FALSE
INVARIANTS
  NonceReuseHasCause
  CancelledMeansDead
  NonceGapHasOwner
PROPERTIES
  SubmissionEnds
