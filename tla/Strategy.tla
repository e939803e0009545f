------------------------------ MODULE Strategy ------------------------------
(***************************************************************************)
(* From prices to a signal the bot may queue: the fee model, the signal    *)
(* generator, the scorer and the pre-trade validator (src/strategy/*.rs,   *)
(* src/safety/validator.rs), and the part of the tick that appraises one   *)
(* signal (src/bin/arb_bot.rs).                                            *)
(*                                                                         *)
(* Decimals are integers: sizes in thousandths of the base asset, prices in*)
(* quote units, amounts of money in thousandths of a quote unit, so that   *)
(* size * price is an amount.  Spreads are in basis points, scores in whole*)
(* points and weights in tenths.  A price source is what the PriceSource   *)
(* trait promises: a result for every size, and the latest price of a pair.*)
(***************************************************************************)
EXTENDS OrderBook, Inventory

CONSTANTS
  HISTORY_CAP,          \* outcomes the scorer remembers
  HISTORY_WINDOW,       \* how many of them it looks at
  MIN_HISTORY_SAMPLES   \* below this a pair's history is neutral

PROBE_SIZE == 1
GRID_STEPS == 10
NoSignal == [some |-> FALSE]
NoMarket == [some |-> FALSE]

\* `FeeStructure::breakdown`; a trade without value still pays its gas.
Breakdown(fees, value) ==
  LET pct(bps) == IF value <= 0 THEN 0 ELSE (bps * value) \div BPS_SCALE
  IN  [cex |-> pct(fees.cex), dex |-> pct(fees.dex), gas |-> fees.gas,
       total |-> pct(fees.cex) + pct(fees.dex) + fees.gas]

SpreadBps(sell, buy) == IF buy > 0 THEN ((sell - buy) * BPS_SCALE) \div buy ELSE 0

\* `get_effective_balance`: what is free and not reserved, over equivalent assets.
EffectiveBalance(inv, venue, asset) ==
  Fold(LAMBDA acc, a : IF a \in DOMAIN inv[venue]
                           THEN acc + inv[venue][a].free - inv[venue][a].reserved ELSE acc,
           0, Equivalents(asset))

\* Mutant: the venues of a direction are taken the wrong way round.
CheckInventorySwapped(inv, pair, dir, size, price) ==
  LET buy == IF dir = "buy_cex" THEN "wallet" ELSE "binance"
      sell == IF dir = "buy_cex" THEN "binance" ELSE "wallet"
  IN  /\ 100 * EffectiveBalance(inv, buy, pair.quote) >= 101 * size * price
      /\ EffectiveBalance(inv, sell, pair.base) >= size

\* `check_inventory`: quote with a 1% buffer where we buy, base where we sell.
CheckInventory(inv, pair, dir, size, price) ==
  LET buy == IF dir = "buy_cex" THEN "binance" ELSE "wallet"
      sell == IF dir = "buy_cex" THEN "wallet" ELSE "binance"
  IN  /\ 100 * EffectiveBalance(inv, buy, pair.quote) >= 101 * size * price
      /\ EffectiveBalance(inv, sell, pair.base) >= size

\* The direction whose spread is larger and large enough.
ChooseDirection(p, min_spread) ==
  LET cex == SpreadBps(p.dex_sell, p.cex_ask)
      dex == SpreadBps(p.cex_bid, p.dex_buy)
  IN  CASE cex > dex /\ cex >= min_spread ->
             [some |-> TRUE, dir |-> "buy_cex", spread |-> cex, cex |-> p.cex_ask, dex |-> p.dex_sell]
        [] ~(cex > dex /\ cex >= min_spread) /\ dex >= min_spread ->
             [some |-> TRUE, dir |-> "buy_dex", spread |-> dex, cex |-> p.cex_bid, dex |-> p.dex_buy]
        [] OTHER -> [some |-> FALSE]

\* The signal of a chosen direction `d`, if it earns the minimum; its clock
\* starts at `now`.
SignalFor(g, pair, size, d, quote_usd, inv, now) ==
  LET value == size * d.cex * quote_usd
      gross == (d.spread * value) \div BPS_SCALE
      fees == Breakdown(g.fees, value).total
  IN  IF ~d.some THEN NoSignal
      ELSE IF gross - fees < g.config.min_profit THEN NoSignal
      ELSE [some |-> TRUE, pair |-> pair, dir |-> d.dir, cex |-> d.cex, dex |-> d.dex,
            spread |-> d.spread, size |-> size, notional |-> value, gross |-> gross,
            fees |-> fees, net |-> gross - fees, score |-> 0, at |-> now,
            expiry |-> now + g.config.ttl,
            inventory_ok |-> CheckInventory(inv, pair, d.dir, size, d.cex),
            within_limits |-> value <= g.config.max_position]

\* `evaluate_size` at one grid point.
EvaluateSize(g, pair, size, quote_usd, src, inv, now) ==
  AndThen(src.at[size],
          LAMBDA p : IF p.cex_bid <= 0 \/ p.cex_ask <= 0 THEN Err("EmptyOrderBook")
                     ELSE Ok(SignalFor(g, pair, size, ChooseDirection(p, g.config.min_spread), quote_usd, inv, now)))

\* Mutant: every quote asset counts as a dollar.
QuoteUsdOne(src, quote) == Ok(1)

\* The quote asset's price in dollars, through a USDC pair when it is no dollar.
QuoteUsd(src, quote) ==
  IF quote \in {"USDC", "USDT", "USD", "DAI"} THEN Ok(1)
  ELSE src.latest[IF quote = "WETH" THEN "ETH" ELSE quote]

\* The sizing of `generate`: what inventory allows in the better direction,
\* the risk limit and the operator's cap; an empty inventory falls back to the
\* other two.
MaxSize(g, pair, p, quote_usd, inv, cli) ==
  LET mid2 == (p.cex_bid + p.cex_ask) * quote_usd
      risk == IF mid2 > 0 THEN (2 * g.config.max_position) \div mid2 ELSE 0
      afford(venue, price) == IF price > 0
                              THEN (100 * EffectiveBalance(inv, venue, pair.quote)) \div (101 * price)
                              ELSE 0
      buy_cex == Smaller(afford("binance", p.cex_ask), EffectiveBalance(inv, "wallet", pair.base))
      buy_dex == Smaller(afford("wallet", p.dex_buy), EffectiveBalance(inv, "binance", pair.base))
      limit == IF cli > 0 THEN Smaller(cli, risk) ELSE risk
      held == Smaller(Larger(buy_cex, buy_dex), limit)
  IN  IF held > 0 THEN held ELSE limit

\* An evaluation the grid search may take: a signal that can be paid for.
Takeable(r) == IF r.ok /\ r.val.some /\ r.val.inventory_ok /\ r.val.within_limits THEN r.val ELSE NoSignal

GridSignals(g, pair, max, quote_usd, src, inv, now) ==
  [i \in 1..GRID_STEPS |->
     Takeable(EvaluateSize(g, pair, (i * max) \div GRID_STEPS, quote_usd, src, inv, now))]

Profit(s) == IF s.some /\ s.net > 0 THEN s.net ELSE 0

\* Mutant: the last eligible size wins.
PickLargest(grid) ==
  LET some == {i \in DOMAIN grid : grid[i].some}
  IN  IF some = {} THEN NoSignal ELSE grid[CHOOSE i \in some : \A j \in some : j <= i]

\* The grid search keeps the first signal whose profit exceeds all before it.
PickBest(grid) ==
  IF \A i \in DOMAIN grid : Profit(grid[i]) = 0 THEN NoSignal
  ELSE grid[FirstMax([i \in DOMAIN grid |-> Profit(grid[i])])]

InCooldown(g, pair, now) ==
  pair \in DOMAIN g.last /\ now - g.last[pair] < g.config.cooldown

\* Mutant: the time of a signal is kept only for a pair that never had one.
RememberFirst(g, pair, s, now) ==
  IF s.some /\ pair \notin DOMAIN g.last THEN With(g.last, pair, now) ELSE g.last

Remember(g, pair, s, now) == IF s.some THEN With(g.last, pair, now) ELSE g.last

Market(p, max, quote_usd) ==
  [some |-> TRUE, cex_bid |-> p.cex_bid, cex_ask |-> p.cex_ask, dex_buy |-> p.dex_buy,
   dex_sell |-> p.dex_sell, buy_cex |-> SpreadBps(p.dex_sell, p.cex_ask),
   buy_dex |-> SpreadBps(p.cex_bid, p.dex_buy), size |-> max, quote_usd |-> quote_usd]

\* What a search of sizes up to `max` announces; none is made when that is 0.
Announce(g, pair, best, market, now) ==
  [last |-> Remember(g, pair, best, now), res |-> Ok([signal |-> best, market |-> market])]

SearchSizes(g, pair, p, max, usd, src, inv, now) ==
  Announce(g, pair, IF max <= 0 THEN NoSignal ELSE PickBest(GridSignals(g, pair, max, usd, src, inv, now)),
           Market(p, max, usd), now)

\* `generate`: what the call answers, and the generator's memory after it.
Generate(g, pair, cli, src, inv, now) ==
  LET probe == src.at[PROBE_SIZE]
      p == probe.val
      usd == QuoteUsd(src, pair.quote)
      quiet(res) == [last |-> g.last, res |-> res]
  IN  IF InCooldown(g, pair, now) \/ ~probe.ok
      THEN quiet(Ok([signal |-> NoSignal, market |-> NoMarket]))
      ELSE IF p.cex_bid <= 0 \/ p.cex_ask <= 0 THEN quiet(Err("EmptyOrderBook"))
      ELSE IF p.dex_buy = 0 THEN quiet(Panic)
      ELSE IF ~usd.ok THEN quiet(usd)
      ELSE IF usd.val <= 0 THEN quiet(Err("Pricing"))
      ELSE SearchSizes(g, pair, p, MaxSize(g, pair, p, usd.val, inv, cli), usd.val, src, inv, now)
=============================================================================
