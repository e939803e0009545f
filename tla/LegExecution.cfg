\* One signal of five units: 4 and 5 units are a full fill, 3 proceeds reduced,
\* 2 aborts and unwinds, 1 is dust.
SPECIFICATION FairSpec
CONSTANTS
  Size = 5
  FullPct = 80
  ProceedPct = 60
  DustPct = 40
  SlippageBps = 50
  DexSurplus = 1
INVARIANTS
  DoneIsHedged
  SettledIsFlat
  UnwindMatchesLeg1
  EntryIsOpenLeg1
  ResidualHasOneSource
PROPERTIES
  Termination
  KeepsPromise
