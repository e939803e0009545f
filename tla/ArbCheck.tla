------------------------------ MODULE ArbCheck ------------------------------
(***************************************************************************)
(* The one-shot arbitrage check (src/integration/arb_checker.rs) and the   *)
(* price oracle it falls back on (src/exchange/price_oracle.rs).           *)
(*                                                                         *)
(* A price is the fraction num / den; basis points are floors.  Token ids  *)
(* stand for symbols and amounts are in one unit, so the decimals cancel.  *)
(***************************************************************************)
EXTENDS Routing, OrderBook, Inventory

DEFAULT_CEX_FEE_BPS == 10
ORACLE_IMPACT_BPS == 5

Bps(num, den) == (num * BPS_SCALE) \div den

----------------------------------------------------------------------------
(* The oracle *)

\* `fetch_coingecko` answers for the dollar coins itself.
FetchCoingecko(base, answer) == IF base \in {"USDT", "USDC"} THEN Ok(1) ELSE answer

\* Mutant: the middle is taken of the prices as they came.
TwiceMedianUnsorted(prices) ==
  LET n == Len(prices)
  IN IF n = 0 THEN 0
     ELSE IF n % 2 = 1 THEN 2 * prices[n \div 2 + 1]
     ELSE prices[n \div 2] + prices[n \div 2 + 1]

\* The sort of `fetch_aggregated` and `compute_median`, twice the value.
TwiceMedian(prices) ==
  LET s == SortSeq(prices, <)
      n == Len(s)
  IN IF n = 0 THEN 0
     ELSE IF n % 2 = 1 THEN 2 * s[n \div 2 + 1]
     ELSE s[n \div 2] + s[n \div 2 + 1]

\* `fetch_aggregated`: a source that fails is left out.  `got` maps the four
\* services to what they answer, `mid2` is twice the book's mid as a result.
Aggregate(base, got, mid2) ==
  LET asked == <<got["binance"], FetchCoingecko(base, got["coingecko"]), got["coincap"], got["kraken"]>>
      heard == SelectSeq(asked, LAMBDA r : r.ok)
      prices == [i \in DOMAIN heard |-> heard[i].val]
                \o (IF mid2.ok THEN <<mid2.val \div 2>> ELSE <<>>)
  IN IF prices = <<>> THEN Err("Network")
     ELSE Ok([sources |-> prices, median2 |-> TwiceMedian(prices),
              mid2 |-> IF mid2.ok THEN mid2.val ELSE TwiceMedian(prices)])

----------------------------------------------------------------------------
(* The check *)

\* Mutant: the larger gap is taken the wrong way round.
GapSwapped(dex, book) ==
  LET bid == Best(book.bids).p
      ask == Best(book.asks).p
      buy_dex == IF dex.num > 0 /\ bid > 0 THEN Bps(bid * dex.den - dex.num, dex.num) ELSE 0
      buy_cex == IF dex.num > 0 /\ ask > 0 THEN Bps(dex.num - ask * dex.den, ask * dex.den) ELSE 0
  IN IF buy_dex > buy_cex THEN [dir |-> "buy_cex_sell_dex", bps |-> buy_dex]
     ELSE IF buy_cex > 0 THEN [dir |-> "buy_dex_sell_cex", bps |-> buy_cex]
     ELSE [dir |-> "none", bps |-> 0]

\* Direction and gap: buying on the pool wins whenever its gap is larger, even
\* when both are negative.
Gap(dex, book) ==
  LET bid == Best(book.bids).p
      ask == Best(book.asks).p
      buy_dex == IF dex.num > 0 /\ bid > 0 THEN Bps(bid * dex.den - dex.num, dex.num) ELSE 0
      buy_cex == IF dex.num > 0 /\ ask > 0 THEN Bps(dex.num - ask * dex.den, ask * dex.den) ELSE 0
  IN IF buy_dex > buy_cex THEN [dir |-> "buy_dex_sell_cex", bps |-> buy_dex]
     ELSE IF buy_cex > 0 THEN [dir |-> "buy_cex_sell_dex", bps |-> buy_cex]
     ELSE [dir |-> "none", bps |-> 0]

\* The costs; the worse slippage of the two sides counts, whether or not the
\* book could fill the size.
CostBps(impact, book, size, dex_fee, gas) ==
  LET slip(side) == WalkTheBook(book, side, size).slippage
      gas_bps == IF HasMid(book) /\ size > 0 THEN Bps(2 * gas, size * TwiceMid(book)) ELSE 0
  IN dex_fee + impact + DEFAULT_CEX_FEE_BPS + Larger(slip("buy"), slip("sell")) + gas_bps

InventoryOk(inv, dir, base, quote, size, dex) ==
  LET quote_needed == CeilDiv(size * dex.num, dex.den)
  IN CASE dir = "buy_dex_sell_cex" -> CanExecute(inv, "wallet", quote, quote_needed, "binance", base, size)
       [] dir = "buy_cex_sell_dex" -> CanExecute(inv, "binance", quote, quote_needed, "wallet", base, size)
       [] OTHER -> FALSE

Verdict(dex, impact, book, size, dex_fee, gas, inv, base, quote, confirmed) ==
  LET gap == Gap(dex, book)
      net == gap.bps - CostBps(impact, book, size, dex_fee, gas)
      able == InventoryOk(inv, gap.dir, base, quote, size, dex)
  IN [dex |-> dex, dir |-> gap.dir, gap |-> gap.bps, net |-> net, able |-> able,
      executable |-> net > 0 /\ able /\ gap.dir # "none" /\ confirmed]

WethAlias(symbol) == symbol \in {"WETH", "ETH"}

\* The pool's side that stands for the base asset; the second when neither does.
BaseSide(pool, base) ==
  IF WethAlias(base) /\ WethAlias(pool.token0.id) THEN pool.token0
  ELSE IF WethAlias(base) /\ WethAlias(pool.token1.id) THEN pool.token1
  ELSE IF pool.token0.id = base THEN pool.token0 ELSE pool.token1

\* `run_fork_simulation`; no simulator answers nothing.
RunForkSimulation(pool, t, amm_out, call) ==
  LET route == [pools |-> <<pool>>, path |-> <<t, TokenOutFor(pool, t)>>]
      sim == SimulateRoute(route, call)
  IN IF call.answer = "unavailable" THEN Err("no simulator")
     ELSE IF ~sim.ok THEN Ok([success |-> FALSE, matches |-> FALSE])
     ELSE Ok([success |-> sim.val.success, matches |-> sim.val.success /\ sim.val.out = amm_out])

\* `detect_cross_dex_arb`: round trips of three hops or more over this pool.
DetectCrossDexArb(pool, probe, gas_price) ==
  LET there == FindAllRoutes(<<pool>>, pool.token0, pool.token1, 3)
      back == FindAllRoutes(<<pool>>, pool.token1, pool.token0, 3)
      hops(r) == Len(r.pools)
      returned(f, b) == LET out == GetOutput(f, probe) IN IF out.ok THEN GetOutput(b, out.val) ELSE out
  IN {fb \in {<<f, b>> : f \in Range1(there), b \in Range1(back)} :
        /\ hops(fb[1]) >= 2 /\ hops(fb[1]) + hops(fb[2]) >= 3
        /\ returned(fb[1], fb[2]).ok
        /\ returned(fb[1], fb[2]).val - probe > gas_price * (EstimateGas(fb[1]) + EstimateGas(fb[2]))}

\* `check_with_dex` once the pool has been read; the book is a result.
CheckWithDex(pool, base, quote, size, dex_fee, gas, call, book, inv) ==
  LET t == BaseSide(pool, base)
      spot == GetSpotPrice(pool, t)
      out == GetAmountOut(pool, size, t)
      dex == IF out.val > 0 THEN [num |-> out.val, den |-> size] ELSE spot.val
      impact == GetPriceImpact(pool, size, t)
      fork == RunForkSimulation(pool, t, out.val, call)
      confirmed == ~fork.ok \/ fork.val.success
  IN IF ~spot.ok THEN spot
     ELSE IF ~out.ok THEN out
     ELSE IF GetExecutionPrice(pool, size, t) = Panic THEN Panic
     ELSE IF ~impact.ok THEN impact
     ELSE IF ~book.ok THEN book
     ELSE Ok(Verdict(dex, Bps(impact.val.num, impact.val.den), book.val, size, dex_fee, gas, inv,
                     base, quote, confirmed))

\* `check`: the oracle's median for the pool's price, no fork.
Check(base, quote, size, dex_fee, gas, got, book, inv) ==
  LET agg == Aggregate(base, got, IF HasMid(book.val) THEN Ok(TwiceMid(book.val)) ELSE Err("mid"))
  IN IF ~book.ok THEN book
     ELSE IF ~agg.ok THEN agg
     ELSE Ok(Verdict([num |-> agg.val.median2, den |-> 2], ORACLE_IMPACT_BPS, book.val, size, dex_fee,
                     gas, inv, base, quote, TRUE))
=============================================================================
