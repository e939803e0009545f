------------------------------ MODULE MCTreasury ------------------------------
(* TLC instance of Treasury: all of the asset on one side, or split; no other *)
(* asset at the exchange, one that is renamed, or two that share a name.      *)
EXTENDS Treasury, TLC

MCStart ==
  {"binance" :> 12 @@ "wallet" :> 0, "binance" :> 2 @@ "wallet" :> 10, "binance" :> 6 @@ "wallet" :> 6,
   "binance" :> 8 @@ "wallet" :> 0}

MCSides == {<<>>, "ETH" :> 1, "ETH" :> 1 @@ "WETH" :> 3}
=============================================================================
