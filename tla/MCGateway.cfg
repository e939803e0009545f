SPECIFICATION Spec
CONSTANTS
  o1 = o1
  r1 = r1
  r2 = r2
  Calls <- MCCalls
  Orders <- MCOrders
  Weight <- MCWeight
  Permits = 2
  MaxRetries = 1
  DefaultMax = 3
  ServerMax = 4
  Window = 1
  Poll = 2
  MaxFaults = 1
INVARIANT ExtraOrderMeansLostAnswer
INVARIANT OverBudgetHasCause
PROPERTY CallsEnd
