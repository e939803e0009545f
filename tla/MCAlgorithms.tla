--------------------------- MODULE MCAlgorithms ---------------------------
EXTENDS PricingTrials, StrategyTrials, AccountTrials, ExchangeTrials,
        StartupTrials

MCPowers == <<724, 512, 256>>

A == [id |-> "A", dec |-> 4]
B == [id |-> "B", dec |-> 4]
C == [id |-> "C", dec |-> 4]
D == [id |-> "D", dec |-> 4]

V2(id, t0, t1, r0, r1) == NewPair(id, t0, t1, r0, r1, 30).val

\* Two parallel pairs, a triangle out of balance with a V3 side, and a square
\* with a diagonal.
MCPoolSets ==
  {<<V2("p1", A, B, 40, 60), V2("p2", A, B, 40, 25)>>,
   <<V2("p1", A, B, 40, 60), V2("p2", B, C, 50, 90), V2("p3", C, A, 30, 30)>>,
   <<V2("p1", A, B, 30, 30), V2("p2", C, B, 40, 20),
     NewV3Pool("q1", A, C, 100, 64, 200, 0)>>,
   <<V2("p1", A, C, 30, 60), V2("p2", C, D, 30, 60), V2("p3", D, B, 30, 60),
     V2("p4", B, C, 30, 60), V2("p5", D, A, 30, 60)>>}

MCLinkUsdc == [base |-> "LINK", quote |-> "USDC"]
MCLinkWeth == [base |-> "LINK", quote |-> "WETH"]
MCBase == [id |-> "A", dec |-> 0]
MCQuote == [id |-> "B", dec |-> 0]

AlgorithmsInit == trial = Idle

AlgorithmsNext == PricingNext \/ StrategyNext \/ AccountNext \/ ExchangeNext \/ StartupNext \/ Finish

AlgorithmsSpec == AlgorithmsInit /\ [][AlgorithmsNext]_trial
=============================================================================
