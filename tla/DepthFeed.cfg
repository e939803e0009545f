\* Two prices, so that a snapshot of one level per side leaves a bid out and the
\* sides can trade places, enough updates for a gap between two applied ones, and a
\* REST call that can take a tick.
SPECIFICATION Spec
CONSTANTS
  Prices = {1, 2}
  MaxId = 3
  MaxQueue = 2
  SeedDepth = 1
  MaxAge = 0
  MaxCall = 1
  MaxNow = 2
  MaxDrops = 1
INVARIANT DivergenceIsMissed
INVARIANT QuoteAgeBounded
PROPERTY StreamRecovers
