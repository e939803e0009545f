----------------------------- MODULE Appraisal -----------------------------
(***************************************************************************)
(* What the tick does with a signal before it queues it: the gas estimate, *)
(* the profit check that repeats with it, the pre-trade validator, the     *)
(* score (src/bin/arb_bot.rs, src/strategy/scorer.rs,                      *)
(* src/safety/validator.rs).  `env` holds the answers of the node and of   *)
(* the fork simulator for one call.                                        *)
(***************************************************************************)
EXTENDS Strategy

WEI_PER_ETH == 100
SCORE_MAX == 100

Clamp(v) == IF v < 0 THEN 0 ELSE IF v > SCORE_MAX THEN SCORE_MAX ELSE v

\* The linear part of a sub-score between two thresholds.
Ramp(v, low, high) == ((v - low) * SCORE_MAX) \div (high - low)

ScoreSpread(c, spread) ==
  IF spread <= c.min_spread THEN 0
  ELSE IF spread >= c.excellent_spread THEN SCORE_MAX
  ELSE Ramp(spread, c.min_spread, c.excellent_spread)

\* The slippage of a fill, and `short` for a book that cannot fill the size.
ScoreWalk(c, walk, short) ==
  IF ~walk.full THEN short
  ELSE IF walk.slippage <= c.min_slippage THEN SCORE_MAX
  ELSE IF walk.slippage >= c.max_slippage THEN 0
  ELSE Clamp(SCORE_MAX - Ramp(walk.slippage, c.min_slippage, c.max_slippage))

\* Mutant: a book too thin for the size counts as unknown.
ScoreLiquidityLenient(c, s, book) ==
  IF ~book.ok THEN c.fallback
  ELSE IF book.val.pair # s.pair THEN c.fallback
  ELSE ScoreWalk(c, WalkTheBook(book.val, IF s.dir = "buy_cex" THEN "buy" ELSE "sell", s.size), c.fallback)

\* `score_liquidity`: the slippage of the signal's size on the side it crosses.
ScoreLiquidity(c, s, book) ==
  IF ~book.ok THEN c.fallback
  ELSE IF book.val.pair # s.pair THEN c.fallback
  ELSE ScoreWalk(c, WalkTheBook(book.val, IF s.dir = "buy_cex" THEN "buy" ELSE "sell", s.size), 0)

ScoreInventory(skewed, s) == IF s.pair.base \in skewed THEN 20 ELSE 60

\* Mutant: the window is taken from the oldest outcomes.
RecentOldest(history) == SubSeq(history, 1, Smaller(HISTORY_WINDOW, Len(history)))

\* The last HISTORY_WINDOW outcomes, of all pairs.
Recent(history) == SubSeq(history, IF Len(history) > HISTORY_WINDOW THEN Len(history) - HISTORY_WINDOW + 1 ELSE 1,
                          Len(history))

ScoreHistory(history, pair) ==
  LET mine == SelectSeq(Recent(history), LAMBDA r : r.pair = pair)
  IN  IF Len(mine) < MIN_HISTORY_SAMPLES THEN 50
      ELSE (Len(SelectSeq(mine, LAMBDA r : r.won)) * SCORE_MAX) \div Len(mine)

\* `record_result`: a ring of HISTORY_CAP outcomes.
RecordResult(history, pair, won) ==
  Append(IF Len(history) >= HISTORY_CAP THEN Tail(history) ELSE history, [pair |-> pair, won |-> won])

\* `score`, in whole points.
Score(c, s, skewed, book, history) ==
  Clamp((c.spread_weight * ScoreSpread(c, s.spread)
         + c.liquidity_weight * ScoreLiquidity(c, s, book)
         + c.inventory_weight * ScoreInventory(skewed, s)
         + c.history_weight * ScoreHistory(history, s.pair)) \div 10)

\* Mutant: the decay goes on at full rate.
ApplyDecayFast(s, score, now) ==
  LET ttl == s.expiry - s.at
      age == IF now > s.at THEN now - s.at ELSE 0
  IN  IF ttl <= 0 THEN 0 ELSE (score * SatSub(ttl, age)) \div ttl

\* `apply_decay`: half the score at expiry, nothing from twice the lifetime on
\* (its comment says nothing from expiry on).
ApplyDecay(s, score, now) ==
  LET ttl == s.expiry - s.at
      age == IF now > s.at THEN now - s.at ELSE 0
  IN  IF ttl <= 0 THEN 0 ELSE (score * SatSub(2 * ttl, age)) \div (2 * ttl)

\* `validate_signal`: the first check that fails names the reason.
ValidateSignal(v, s, now) ==
  CASE s.cex <= 0 -> "cex_price"
    [] s.cex > 0 /\ s.dex <= 0 -> "dex_price"
    [] s.cex > 0 /\ s.dex > 0 /\ s.size <= 0 -> "size"
    [] OTHER -> IF s.spread > v.max_spread THEN "spread"
                ELSE IF now >= s.expiry THEN "expired"
                ELSE IF now - s.at > v.max_age THEN "old"
                ELSE IF s.net <= 0 THEN "pnl"
                ELSE IF ~s.inventory_ok THEN "inventory"
                ELSE IF ~s.within_limits THEN "limits"
                ELSE "allowed"

----------------------------------------------------------------------------
(* Gas *)

\* `gas_units_to_usd`.
GasUsd(env, units, mode) ==
  IF ~env.max_fee.ok THEN Err("Rpc")
  ELSE Ok([some |-> TRUE, mode |-> mode, units |-> units,
           usd |-> (env.max_fee.val * units * env.eth.val) \div WEI_PER_ETH])

\* `GasFeeEstimator::estimate_usd`: fixed, or the fallback units at the node's price.
EstimateUsd(est, configured, env) ==
  IF est.mode = "fixed" THEN Ok([some |-> TRUE, mode |-> "fixed", units |-> 0, usd |-> configured])
  ELSE IF ~env.eth.ok THEN Err("Pricing")
  ELSE GasUsd(env, est.units, CASE est.mode = "estimate" -> "rpc-fallback"
                                [] est.mode = "anvil" -> "anvil-fallback"
                                [] est.mode = "rpc" -> "rpc")

\* `estimate_tick_fees`.
EstimateTickFees(base, est, env) ==
  LET gas == EstimateUsd(est, base.gas, env)
  IN  IF gas.ok THEN Ok([base EXCEPT !.gas = gas.val.usd]) ELSE gas

ApplySlippage(amount, bps) == (amount * SatSub(BPS_SCALE, bps)) \div BPS_SCALE

AmountIn(s) == IF s.dir = "buy_cex" THEN s.size ELSE s.size * s.dex
ExpectedOut(s) == IF s.dir = "buy_cex" THEN s.size * s.dex ELSE s.size

\* The gas of the swap itself, and of the approval it still needs: a swap that
\* may not spend yet cannot be simulated, so it is charged the fallback.
SwapGas(est, s, env) ==
  IF env.allowance.val < AmountIn(s)
  THEN IF env.approve.ok
       THEN Ok([approve |-> env.approve.val, swap |-> est.units, mode |-> "approve+fallback"])
       ELSE env.approve
  ELSE IF est.mode = "anvil"
  THEN IF ~env.fork.ok THEN env.fork
       ELSE IF env.fork.val = 0 THEN Err("ZeroGas")
       ELSE Ok([approve |-> 0, swap |-> env.fork.val, mode |-> "anvil"])
  ELSE Ok([approve |-> 0, swap |-> IF env.swap.ok THEN env.swap.val ELSE est.units, mode |-> "estimate"])

\* `estimate_signal_gas`: nothing unless the estimator looks at the swap.
EstimateSignalGas(est, slippage, s, env) ==
  LET gas == SwapGas(est, s, env)
  IN  CASE est.mode \in {"fixed", "rpc"} -> Ok([some |-> FALSE])
        [] est.mode \in {"estimate", "anvil"} /\ s.pair \notin est.pairs -> Err("AddressBook")
        [] est.mode \in {"estimate", "anvil"} /\ s.pair \in est.pairs ->
             IF ApplySlippage(ExpectedOut(s), slippage) = 0 THEN Err("MinOut")
             ELSE IF ~env.eth.ok THEN Err("Pricing")
             ELSE IF ~env.allowance.ok THEN env.allowance
             ELSE IF ~gas.ok THEN gas
             ELSE GasUsd(env, gas.val.approve + gas.val.swap, gas.val.mode)

\* Mutant: the fees are re-estimated, the profit is not.
ApplyGasEstimateStale(s, base, gas) ==
  [s EXCEPT !.fees = Breakdown([base EXCEPT !.gas = gas.usd], s.notional).total]

\* `apply_gas_estimate_to_signal`.
ApplyGasEstimate(s, base, gas) ==
  LET fees == Breakdown([base EXCEPT !.gas = gas.usd], s.notional).total
  IN  [s EXCEPT !.fees = fees, !.net = s.gross - fees]

\* What becomes of a signal whose costs are known.
Judge(deps, s, now, score) ==
  IF s.net < deps.min_profit THEN [fate |-> "skipped_low_profit", signal |-> s]
  ELSE IF ValidateSignal(deps.validator, s, now) # "allowed" THEN [fate |-> "rejected_pre_trade", signal |-> s]
  ELSE [fate |-> IF score < deps.min_score THEN "skipped_low_score" ELSE "queued",
        signal |-> [s EXCEPT !.score = score]]

\* The tick's appraisal of one signal.  An error of the estimate ends the whole
\* tick; `fate` is what becomes of the signal otherwise.  The risk manager's
\* check between the validator and the score is RiskControl's.
Appraise(deps, s, now, env, skewed, book) ==
  MapOk(EstimateSignalGas(deps.est, deps.slippage, s, env),
        LAMBDA gas : LET t == IF gas.some THEN ApplyGasEstimate(s, deps.base, gas) ELSE s
                     IN  Judge(deps, t, now, Score(deps.scorer, t, skewed, book, deps.history)))

\* Mutant: the preview prefers the smaller spread.
PnlPreviewWorse(m, fees, min_profit) ==
  LET cexBetter == m.buy_cex < m.buy_dex
      price == IF cexBetter THEN m.cex_ask ELSE m.cex_bid
      spread == IF cexBetter THEN m.buy_cex ELSE m.buy_dex
      value == m.size * price * m.quote_usd
      total == Breakdown(fees, value).total
      net == ((spread * value) \div BPS_SCALE) - total
  IN  [dir |-> IF cexBetter THEN "buy_cex" ELSE "buy_dex", spread |-> spread, cex |-> price,
       value |-> value, fees |-> total, net |-> net, missing |-> SatSub(min_profit, net)]

\* `expected_pnl_preview`: what the better direction would earn at the market's size.
PnlPreview(m, fees, min_profit) ==
  LET cexBetter == m.buy_cex >= m.buy_dex
      price == IF cexBetter THEN m.cex_ask ELSE m.cex_bid
      spread == IF cexBetter THEN m.buy_cex ELSE m.buy_dex
      value == m.size * price * m.quote_usd
      total == Breakdown(fees, value).total
      net == ((spread * value) \div BPS_SCALE) - total
  IN  [dir |-> IF cexBetter THEN "buy_cex" ELSE "buy_dex", spread |-> spread, cex |-> price,
       value |-> value, fees |-> total, net |-> net, missing |-> SatSub(min_profit, net)]
=============================================================================
