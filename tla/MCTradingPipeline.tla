------------------------- MODULE MCTradingPipeline --------------------------
(* Three signals on one pair: two compete for the same CEX quote balance,   *)
(* the third trades the other way; two share a score, so ties occur.        *)
EXTENDS TradingPipeline

CONSTANTS s1, s2, s3

MCSignals == {s1, s2, s3}
MCInfo ==
  [s \in MCSignals |->
    CASE s = s1 -> [direction |-> "BuyCexSellDex", size |-> 1, cex_price |-> 2, dex_price |-> 3, score |-> 1]
      [] s = s2 -> [direction |-> "BuyCexSellDex", size |-> 2, cex_price |-> 2, dex_price |-> 3, score |-> 1]
      [] s = s3 -> [direction |-> "BuyDexSellCex", size |-> 1, cex_price |-> 3, dex_price |-> 2, score |-> 2]]
MCFree == [k \in Keys |-> 5]
=============================================================================
