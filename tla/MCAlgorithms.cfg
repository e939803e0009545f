SPECIFICATION AlgorithmsSpec
CONSTANTS
  U96 = 8192
  U128 = 32768
  U256 = 1073741824
  DecimalUnit = 10000
  MaxTick = 7
  Powers <- MCPowers
  One = 1024
  Q = 64
  MinSqrtRatio = 6
  MaxSqrtRatio = 900
  FeeScale = 1000000
  MaxSwapSteps = 3
  MinProbe = 3
  Weth <- A
  Tolerance = 1000
  Reserves = {1, 5, 9, 16}
  Wide = {30000}
  Amounts = {1, 2, 3, 7, 12}
  Fees = {0, 2500}
  Impacts = {0, 10, 30}
  TokenA <- A
  TokenB <- B
  TokenC <- C
  TokenD <- D
  PoolSets <- MCPoolSets
  V3Liquidity = {0, 12, 40}
  Gweis = {0, 1}
  HISTORY_CAP = 5
  HISTORY_WINDOW = 3
  MIN_HISTORY_SAMPLES = 2
  MaxTried = 60
  LinkUsdc <- MCLinkUsdc
  LinkWeth <- MCLinkWeth
  BaseToken <- MCBase
  QuoteToken <- MCQuote
  DEX_CACHE_STALE_SECS = 3
  MaxDoublings = 3
INVARIANTS
  PoolArithmeticIsSafe
  RoutesAreSound
  SignalsAreSound
  LedgersBalance
  MovesAreGuarded
  AnswersAreFaithful
  StartIsCovered
