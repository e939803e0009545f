----------------------------- MODULE Accounting -----------------------------
(***************************************************************************)
(* What an executed signal is reported to have earned: the engine's actual *)
(* PnL (src/executor/engine.rs), the ledger row made of it                 *)
(* (src/bin/arb_bot.rs) and the sums over the ledger                       *)
(* (src/inventory/pnl.rs).                                                 *)
(*                                                                         *)
(* An Option is a sequence of at most one element.  A context holds the    *)
(* direction, the venue of the first leg, the two legs' fills and the      *)
(* signal; `usd` maps an asset to its dollar price as an Option.           *)
(***************************************************************************)
EXTENDS Inventory

OrElse(option, default) == IF option = <<>> THEN default ELSE option[1]
Positive(n) == IF n > 0 THEN n ELSE 0

NoLeg == [price |-> <<>>, size |-> <<>>, fee |-> 0, fee_asset |-> <<>>]

\* `apply_leg_fill_metadata` after a leg's price and size are stored; a fill
\* without gas data keeps what an earlier one brought.
ApplyLegFill(ctx, leg, fill) ==
  [ctx EXCEPT ![leg] = [price |-> <<fill.price>>, size |-> <<fill.size>>, fee |-> fill.fee,
                        fee_asset |-> fill.fee_asset],
              !.gas_fee = IF fill.gas_fee = <<>> THEN @ ELSE fill.gas_fee]

CexLeg(ctx) == IF ctx.leg1_venue = "cex" THEN ctx.leg1 ELSE ctx.leg2
DexLeg(ctx) == IF ctx.leg1_venue = "cex" THEN ctx.leg2 ELSE ctx.leg1

\* What a unit of the quote asset is worth, from the signal's own notional.
ImpliedQuoteUsd(signal) ==
  IF signal.size * signal.cex > 0 THEN signal.notional \div (signal.size * signal.cex) ELSE 1

\* The exchange's fee: what it charged, or the configured estimate.
CexFeeUsd(ctx, fees, usd, trade_value) ==
  LET leg == CexLeg(ctx)
  IN IF leg.fee > 0
     THEN leg.fee * OrElse(usd[OrElse(leg.fee_asset, "USDT")], ImpliedQuoteUsd(ctx.signal))
     ELSE (fees.cex * trade_value) \div BPS_SCALE

\* The gas: what the receipt says at ETH's price, or an estimate.
GasFeeUsd(ctx, fees, usd, trade_value) ==
  LET configured == ((fees.dex * trade_value) \div BPS_SCALE) + fees.gas
      promised == Positive(ctx.signal.expected_fees - ((fees.cex * ctx.signal.notional) \div BPS_SCALE))
  IN IF ctx.gas_fee # <<>>
     THEN ctx.gas_fee[1] * OrElse(usd["ETH"], ImpliedQuoteUsd(ctx.signal))
     ELSE IF ctx.signal.quote \notin {"USD", "USDC", "USDC.E", "USDT"} /\ promised > 0
     THEN promised ELSE configured

\* Mutant: the first leg is taken for the exchange's.
CalcActualPnlLegOrder(ctx, fees, usd) ==
  LET value == ctx.leg1.size[1] * ctx.leg1.price[1] * ImpliedQuoteUsd(ctx.signal)
      edge == ctx.leg2.price[1] - ctx.leg1.price[1]
      gross == (IF ctx.dir = "buy_cex" THEN edge ELSE -edge) * ctx.leg1.size[1] * ImpliedQuoteUsd(ctx.signal)
      cex == CexFeeUsd(ctx, fees, usd, value)
      gas == GasFeeUsd(ctx, fees, usd, value)
  IN [gross |-> gross, fees |-> cex + gas, cex_fee |-> cex, gas_fee |-> gas]

\* `calc_actual_pnl`: both legs are valued at the size of the first.
CalcActualPnl(ctx, fees, usd) ==
  LET known == ctx.leg1.price # <<>> /\ ctx.leg1.size # <<>> /\ ctx.leg2.price # <<>>
      quote_usd == ImpliedQuoteUsd(ctx.signal)
      cex_price == CexLeg(ctx).price[1]
      edge == DexLeg(ctx).price[1] - cex_price
      value == ctx.leg1.size[1] * cex_price * quote_usd
      gross == (IF ctx.dir = "buy_cex" THEN edge ELSE -edge) * ctx.leg1.size[1] * quote_usd
      cex == CexFeeUsd(ctx, fees, usd, value)
      gas == GasFeeUsd(ctx, fees, usd, value)
  IN IF known THEN [gross |-> gross, fees |-> cex + gas, cex_fee |-> cex, gas_fee |-> gas]
     ELSE [gross |-> 0, fees |-> 0, cex_fee |-> 0, gas_fee |-> 0]

LedgerLeg(venue, side, leg, signal) ==
  [venue |-> venue, side |-> side, amount |-> OrElse(leg.size, 0),
   price |-> OrElse(leg.price, 0) * ImpliedQuoteUsd(signal), fee |-> leg.fee,
   fee_asset |-> OrElse(leg.fee_asset, signal.quote)]

\* Mutant: the first leg is always the buy.
ArbRecordFirstBuys(ctx, pnl) ==
  [buy |-> LedgerLeg(IF ctx.dir = "buy_cex" THEN "binance" ELSE "wallet", "buy", ctx.leg1, ctx.signal),
   sell |-> LedgerLeg(IF ctx.dir = "buy_cex" THEN "wallet" ELSE "binance", "sell", ctx.leg2, ctx.signal),
   hour |-> ctx.signal.hour, gross |-> pnl.gross, fees |-> pnl.fees, net |-> pnl.gross - pnl.fees]

\* `execution_to_arb_record` of a completed context: which leg bought depends
\* on the direction and on which venue went first.
ArbRecord(ctx, pnl) ==
  LET buy_is_leg1 == (ctx.dir = "buy_cex") = (ctx.leg1_venue = "cex")
      bought == IF buy_is_leg1 THEN ctx.leg1 ELSE ctx.leg2
      sold == IF buy_is_leg1 THEN ctx.leg2 ELSE ctx.leg1
  IN [buy |-> LedgerLeg(IF ctx.dir = "buy_cex" THEN "binance" ELSE "wallet", "buy", bought, ctx.signal),
      sell |-> LedgerLeg(IF ctx.dir = "buy_cex" THEN "wallet" ELSE "binance", "sell", sold, ctx.signal),
      hour |-> ctx.signal.hour, gross |-> pnl.gross, fees |-> pnl.fees, net |-> pnl.gross - pnl.fees]

Notional(t) == t.buy.amount * t.buy.price
NetBps(t) == IF Notional(t) = 0 THEN 0 ELSE (t.net * BPS_SCALE) \div Notional(t)

SumOver(f(_), trades) == Fold(LAMBDA acc, t : acc + f(t), 0, trades)
Nets(trades) == {trades[i].net : i \in DOMAIN trades}

\* Mutant: an hour keeps its last trade instead of the sum.
PnlByHourLast(trades) ==
  Fold(LAMBDA acc, t : With(acc, t.hour, t.net), <<>>, trades)

PnlByHour(trades) ==
  Fold(LAMBDA acc, t : With(acc, t.hour, t.net + IF t.hour \in DOMAIN acc THEN acc[t.hour] ELSE 0),
           <<>>, trades)

\* `summary`, without the Sharpe estimate; averages are floors.
Summary(trades) ==
  IF trades = <<>>
  THEN [trades |-> 0, pnl |-> 0, fees |-> 0, notional |-> 0, wins |-> 0, avg |-> 0, avg_bps |-> 0,
        best |-> 0, worst |-> 0, by_hour |-> <<>>]
  ELSE [trades |-> Len(trades), pnl |-> SumOver(LAMBDA t : t.net, trades),
        fees |-> SumOver(LAMBDA t : t.fees, trades), notional |-> SumOver(Notional, trades),
        wins |-> Len(SelectSeq(trades, LAMBDA t : t.net > 0)),
        avg |-> SumOver(LAMBDA t : t.net, trades) \div Len(trades),
        avg_bps |-> IF SumOver(Notional, trades) > 0 THEN SumOver(NetBps, trades) \div Len(trades) ELSE 0,
        best |-> CHOOSE n \in Nets(trades) : \A m \in Nets(trades) : m <= n,
        worst |-> CHOOSE n \in Nets(trades) : \A m \in Nets(trades) : n <= m,
        by_hour |-> PnlByHour(trades)]

\* `recent`: newest first.
RecentTrades(trades, n) ==
  [i \in 1..Smaller(n, Len(trades)) |-> trades[Len(trades) + 1 - i]]
=============================================================================
