SPECIFICATION Spec
CONSTANTS
  t1 = t1
  t2 = t2
  t3 = t3
  a = a
  b = b
  Tasks <- MCTasks
  SignalOf <- MCSignalOf
  Threshold = 2
  Window = 2
  Cooldown = 1
  TtlSecs = 2
  TicksPerSec = 2
  MaxTime = 5
INVARIANTS
  BreakerMatchesHistory
  TripStopsNewCalls
PROPERTIES
  FreshMeansUnmarked
