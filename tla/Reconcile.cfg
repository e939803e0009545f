\* Two timed-out signals in the store, one of them added twice.
SPECIFICATION RecFairSpec
CONSTANTS
  Signals = {s1, s2}
  Repeated = {s1}
  MaxAdds = 2
INVARIANTS
  UnwoundOnceAfterRevert
  VerdictMatchesChain
PROPERTIES
  EntriesResolve
