SPECIFICATION FairSpec
CONSTANTS
  Capital = 10
  MaxDailyLoss = 3
  MaxOpen = 2
  MaxPerHour = 2
  LossLimit = 2
  MaxTrade = 4
  MaxTradePct = 40
  MaxDrawdownPct = 80
  AbsTrade = 5
  AbsDailyLoss = 8
  AbsPerHour = 3
  MinCapital = 5
  BreakerLoss = 3
  Notionals <- MCNotionals
  Results <- MCResults
  WorstLoss = 2
  Hour = 2
  Day = 3
  MaxTime = 3
  MaxTrades = 5
CHECK_DEADLOCK FALSE
INVARIANTS
  LossBounded
  HourlyRate
PROPERTIES
  BreachStopsBot
