--------------------------- MODULE StrategyTrials ---------------------------
(* The strategy layer called over bounded inputs, and what each call promises. *)
EXTENDS Appraisal, LivePrices, Trials

CONSTANTS
  MaxTried,     \* largest size a price source is asked for
  LinkUsdc, LinkWeth,   \* the pairs tried, as [base, quote]
  BaseToken, QuoteToken \* the tokens of the live pools tried

On(c) == trial.call = c

Money(n) == Entry(n, 0, 0)

\* Prices that get worse with the size; some sizes may have none.
Source(buy, sell, slope, failing, eth) ==
  [at |-> [n \in 0..MaxTried |->
             IF n \in failing THEN Err("Pricing")
             ELSE Ok([cex_bid |-> 100, cex_ask |-> 102, dex_buy |-> buy + (slope * n) \div 10,
                      dex_sell |-> sell - (slope * n) \div 10])],
   latest |-> [a \in {"ETH", "WETH"} |-> eth]]

Gen(last) ==
  [last |-> last, fees |-> [cex |-> 10, dex |-> 30, gas |-> 4],
   config |-> [min_spread |-> 50, min_profit |-> 20, max_position |-> 3000, ttl |-> 5, cooldown |-> 3]]

\* Two calls for one pair; the pair's last signal may be long past.
TryGenerate ==
  \E d \in {<<88, 86>>, <<98, 97>>, <<112, 110>>}, slope \in 0..1, failing \in {{}, 1..1, 11..20},
     cli \in {0, 15}, old \in BOOLEAN, wait \in {1, 3},
     quote \in {<<2500, 500>>, <<0, 2000>>}, base \in {<<10, 30>>, <<40, 0>>}, held \in {0, 8} :
    LET inv == [binance |-> [LINK |-> Money(base[1]), USDC |-> Money(quote[1])],
                wallet |-> [LINK |-> Entry(base[2], 0, IF base[2] > held THEN held ELSE 0), USDC |-> Money(quote[2])]]
        src == Source(d[1], d[2], slope, failing, Ok(1))
        g == Gen(IF old THEN [p \in {LinkUsdc} |-> 0] ELSE [p \in {} |-> 0])
        one == Generate(g, LinkUsdc, cli, src, inv, 10)
        two == Generate([g EXCEPT !.last = one.last], LinkUsdc, cli, src, inv, 10 + wait)
    IN  Record([call |-> "generate", g |-> g, inv |-> inv, cli |-> cli, wait |-> wait, flat |-> slope = 0 /\ failing = {},
                src |-> src, one |-> one.res, two |-> two.res])

\* A pair quoted in ether: its risk limit needs the price of ether.  The pool's
\* price may have rounded to nothing.
TryQuoteAsset ==
  \E eth \in {Ok(2), Ok(0), Err("Pricing")}, weth \in {0, 9000}, buy \in {0, 88} :
    LET inv == [binance |-> [LINK |-> Money(60), ETH |-> Money(weth)],
                wallet |-> [LINK |-> Money(60), ETH |-> Money(weth), WETH |-> Money(weth)]]
        src == Source(buy, 86, 0, {}, eth)
        out == Generate(Gen([p \in {} |-> 0]), LinkWeth, 0, src, inv, 1)
    IN  Record([call |-> "quote_asset", eth |-> eth, res |-> out.res, inv |-> inv])

Books ==
  {Snapshot(pair, bids, asks) :
     pair \in {LinkUsdc, LinkWeth},
     bids \in {[p \in {97, 99, 100} |-> 5], [p \in {90, 100} |-> 20]},
     asks \in {[p \in {102, 103, 110} |-> IF p = 103 THEN 0 ELSE 9], [p \in {102, 104} |-> 10]}}

TryWalk ==
  \E book \in Books, side \in {"buy", "sell"}, qty \in 1..22, bps \in {0, 150, 400} :
    Record([call |-> "walk", book |-> book, side |-> side, qty |-> qty, bps |-> bps,
            walk |-> WalkTheBook(book, side, qty),
            depth |-> DepthAtBps(book, IF side = "buy" THEN "ask" ELSE "bid", bps),
            spread |-> EffectiveSpread(book, qty), imbalance |-> Imbalance(book, 2)])

ScorerConfig ==
  [spread_weight |-> 4, liquidity_weight |-> 2, inventory_weight |-> 2, history_weight |-> 2,
   min_spread |-> 50, excellent_spread |-> 100, min_slippage |-> 5, max_slippage |-> 300, fallback |-> 80]

Signal(dir, spread, size, net) ==
  [some |-> TRUE, pair |-> LinkUsdc, dir |-> dir, cex |-> 100, dex |-> 98, spread |-> spread, size |-> size,
   notional |-> 100 * size, gross |-> net + 10, fees |-> 10, net |-> net, score |-> 0, at |-> 10,
   expiry |-> 15, inventory_ok |-> TRUE, within_limits |-> TRUE]

TryScore ==
  \E dir \in {"buy_cex", "buy_dex"}, size \in {12, 22}, a, b \in {50, 70, 130},
     x, y \in {Ok(k) : k \in Books} \cup {Err("Http")}, skewed \in {{}, {"LINK"}} :
    /\ a <= b
    /\ Record([call |-> "score", dir |-> dir, size |-> size, low |-> a, high |-> b, one |-> x, other |-> y,
               scores |-> <<Score(ScorerConfig, Signal(dir, a, size, 50), skewed, x, <<>>),
                            Score(ScorerConfig, Signal(dir, b, size, 50), skewed, y, <<>>)>>])

Outcomes == [pair : {LinkUsdc, LinkWeth}, won : BOOLEAN]

TryOutcomes ==
  \E n \in 0..(HISTORY_CAP + 1) : \E rs \in [1..n -> Outcomes] :
    LET h == Fold(LAMBDA acc, r : RecordResult(acc, r.pair, r.won), <<>>, rs)
    IN  Record([call |-> "outcomes", results |-> rs, kept |-> Len(h), score |-> ScoreHistory(h, LinkUsdc)])

TryDecay ==
  \E score \in {0, 7, 60, 100}, now \in 8..22 :
    Record([call |-> "decay", score |-> score, now |-> now,
            left |-> ApplyDecay(Signal("buy_cex", 80, 10, 50), score, now),
            next |-> ApplyDecay(Signal("buy_cex", 80, 10, 50), score, now + 1)])

Deps(mode, pairs) ==
  [est |-> [mode |-> mode, units |-> 30, pairs |-> pairs], slippage |-> 50,
   base |-> [cex |-> 10, dex |-> 0, gas |-> 4], min_profit |-> 20, min_score |-> 50,
   validator |-> [max_spread |-> 500, max_age |-> 3], scorer |-> ScorerConfig, history |-> <<>>]

TryAppraise ==
  \E mode \in {"fixed", "rpc", "estimate", "anvil"}, pairs \in {{}, {LinkUsdc}},
     now \in {10, 13, 14, 15}, net \in {25, 60}, spread \in {80, 600}, dir \in {"buy_cex", "buy_dex"},
     eth \in {Ok(2), Err("Pricing")}, fee \in {Ok(50), Ok(100), Err("Rpc")},
     allowance \in {Ok(0), Ok(100000), Err("Rpc")}, used \in {Ok(20), Ok(0), Err("Revert")},
     book \in {Err("Http"), Ok(Snapshot(LinkUsdc, [p \in {90, 100} |-> 20], [p \in {102} |-> 3]))} :
    LET env == [eth |-> eth, max_fee |-> fee, allowance |-> allowance, approve |-> used, swap |-> used, fork |-> used]
        s == Signal(dir, spread, 10, net)
        deps == Deps(mode, pairs)
    IN  /\ ~eth.ok => fee = Ok(50) /\ allowance = Ok(0) /\ now = 10
        /\ mode \in {"fixed", "rpc"} => used = Ok(20) /\ allowance = Ok(0)
        /\ ~fee.ok \/ ~allowance.ok => now = 10
        /\ Record([call |-> "appraise", deps |-> deps, signal |-> s, now |-> now, env |-> env,
                   fees |-> EstimateTickFees(deps.base, deps.est, env),
                   res |-> Appraise(deps, s, now, env, {}, book)])

\* A pool loaded at 0 and seen by the feed at `block`, priced at `now`.  Each
\* read of the chain finds other reserves.
TryLiveV2 ==
  \E block \in 1..2, got, again \in BOOLEAN, now \in 2..6, size \in {-1, 10, 25}, loads \in BOOLEAN :
    LET pool(r) == NewPair("p", BaseToken, QuoteToken, r, 3 * r, 30)
        source == NewSource(<<pool(50), IF loads THEN pool(40) ELSE Err("ChainCall")>>, 0)
        e == RefreshV2(source.val[1], IF got THEN Ok(<<60, 150>>) ELSE Err("ChainCall"), block)
        chain == IF again THEN Ok(<<70, 140>>) ELSE Err("ChainCall")
    IN  /\ now >= block
        /\ Record(IF source.ok
                  THEN [call |-> "live_v2", source |-> "ok", block |-> block, got |-> got, again |-> again, now |-> now,
                        size |-> size, out |-> FetchPrices(e, BaseToken, QuoteToken, size, chain, now)]
                  ELSE [call |-> "idle_source", source |-> source.err])

\* A V3 pool moved by a swap log, priced and searched for an exact output.
TryLiveV3 ==
  \E liq \in {0, 40, 120}, tick \in -2..2, words \in {4, 5}, size \in {10, 30, 70}, t \in {BaseToken, QuoteToken} :
    LET p0 == NewV3Pool("q", BaseToken, QuoteToken, 100, GetSqrtRatioAtTick(0).val, 40, 0)
        log == [words |-> words, sqrt |-> GetSqrtRatioAtTick(tick).val, liq |-> liq, tick |-> tick]
        e == ApplySwapLog([pool |-> p0, at |-> 0], log, 9)
        other == IF t = BaseToken THEN QuoteToken ELSE BaseToken
    IN  Record([call |-> "live_v3", log |-> log, first |-> p0, pool |-> e.pool, size |-> size, in |-> t,
                search |-> ExactOutput(e.pool, size \div 10, t),
                prices |-> FetchPrices(e, other, t, size, Err("unused"), 9).res])

StrategyNext ==
  /\ trial = Idle
  /\ \/ TryGenerate \/ TryQuoteAsset \/ TryWalk \/ TryScore \/ TryOutcomes \/ TryDecay
     \/ TryAppraise \/ TryLiveV2 \/ TryLiveV3
----------------------------------------------------------------------------
(* Properties *)

Found(res) == res.ok /\ res.val.signal.some
Free(venue, asset) == EffectiveBalance(trial.inv, venue, asset)

\* A generated signal can be paid for at both venues at the prices it names:
\* the sizing, the grid and the inventory check (generator.rs `generate`,
\* `evaluate_size`, `check_inventory`) agree that the selling venue holds the
\* base, the buying venue the quote with its buffer, net of reservations; the
\* notional is within the limit, the size within the operator's cap, and the
\* profit at least the minimum.
SignalCanBePaid ==
  On("generate") /\ Found(trial.one) =>
    LET s == trial.one.val.signal
        buy == IF s.dir = "buy_cex" THEN "binance" ELSE "wallet"
        sell == IF s.dir = "buy_cex" THEN "wallet" ELSE "binance"
    IN  /\ s.size > 0 /\ s.size <= Free(sell, "LINK")
        /\ 101 * s.size * (IF s.dir = "buy_cex" THEN s.cex ELSE s.dex) <= 100 * Free(buy, "USDC")
        /\ s.notional <= trial.g.config.max_position
        /\ trial.cli > 0 => s.size <= trial.cli
        /\ s.net >= trial.g.config.min_profit /\ s.net > 0
        /\ s.spread >= trial.g.config.min_spread

\* No size on the grid that could be paid for earns more than the size the
\* generator chose, whichever sizes the price source failed on (generator.rs
\* `generate`, the grid search).
ChosenSizeIsBest ==
  On("generate") /\ trial.one.ok /\ trial.one.val.market.some =>
    LET max == trial.one.val.market.size
    IN  \A r \in {EvaluateSize(trial.g, LinkUsdc, (i * max) \div GRID_STEPS, 1, trial.src, trial.inv, 10) :
                  i \in 1..GRID_STEPS} :
          max > 0 /\ r.ok /\ r.val.some /\ r.val.inventory_ok /\ r.val.within_limits
          /\ r.val.net > 0 => /\ trial.one.val.signal.some
                               /\ r.val.net <= trial.one.val.signal.net

\* Two signals for one pair are never closer than the cooldown, however old the
\* signal before them (generator.rs `in_cooldown` and `last_signal_time`).
CooldownSeparates ==
  On("generate") /\ Found(trial.one) /\ Found(trial.two) => trial.wait >= trial.g.config.cooldown

\* Where the price does not depend on the size, the preview the dry run prints
\* (arb_bot.rs `expected_pnl_preview`) promises what `evaluate_size` would
\* emit: the same profit, and the same direction unless both spreads are equal.
PreviewMatchesSignal ==
  On("generate") /\ trial.flat /\ trial.one.ok /\ trial.one.val.market.some =>
    LET m == trial.one.val.market
        preview == PnlPreview(m, trial.g.fees, trial.g.config.min_profit)
        real == EvaluateSize(trial.g, LinkUsdc, m.size, m.quote_usd, trial.src, trial.inv, 10).val
    IN  /\ real.some <=> preview.missing = 0 /\ preview.spread >= trial.g.config.min_spread
        /\ real.some => /\ real.net = preview.net
                         /\ (real.dir = preview.dir \/ m.buy_cex = m.buy_dex)

\* A pair quoted in another coin is sized in dollars: without a positive
\* dollar price there is no signal, and with one the notional in dollars stays
\* within the limit (generator.rs `generate`, the USD conversion).
ForeignQuoteIsConverted ==
  On("quote_asset") =>
    /\ ~(trial.eth.ok /\ trial.eth.val > 0) => ~trial.res.ok
    /\ Found(trial.res) =>
         LET s == trial.res.val.signal
         IN  s.notional = s.size * s.cex * trial.eth.val /\ s.notional <= 3000

\* Walking the book fills as much as the side holds and pays, unit by unit, the
\* cheapest price left; a fill of what `depth_at_bps` reports slips by no more
\* than that; buying and selling back never earns (orderbook.rs).
WalkPaysBestPrices ==
  On("walk") =>
    LET levels == SideLevels(trial.book, trial.side)
        upTo(n) == Fold(LAMBDA acc, l : acc + l.q, 0, SubSeq(levels, 1, n))
        unit(k) == levels[CHOOSE n \in DOMAIN levels : upTo(n) >= k /\ upTo(n - 1) < k].p
        deep == WalkTheBook(trial.book, trial.side, trial.depth)
    IN  /\ trial.walk.qty = Smaller(trial.qty, upTo(Len(levels)))
        /\ trial.walk.full <=> trial.walk.qty = trial.qty
        /\ trial.walk.cost = Fold(LAMBDA acc, k : acc + unit(k), 0, [k \in 1..trial.walk.qty |-> k])
        /\ trial.depth > 0 /\ deep.full /\ deep.slippage <= trial.bps
        /\ trial.spread >= 0 /\ trial.imbalance \in -100..100

\* The score stays within [0, 100], a wider spread never scores lower on the
\* same book, and a book that cannot fill the size never beats one that can
\* (scorer.rs `score`, `score_liquidity`).
ScoreOrdersSignals ==
  On("score") =>
    LET full(b) == b.ok /\ b.val.pair = LinkUsdc
                   /\ WalkTheBook(b.val, IF trial.dir = "buy_cex" THEN "buy" ELSE "sell", trial.size).full
        thin(b) == b.ok /\ b.val.pair = LinkUsdc /\ ~full(b)
    IN  /\ \A i \in 1..2 : trial.scores[i] \in 0..100
        /\ trial.one = trial.other \/ (thin(trial.one) /\ full(trial.other)) => trial.scores[1] <= trial.scores[2]

\* Whatever was recorded before, the history part of a score counts exactly the
\* pair's wins among the last HISTORY_WINDOW outcomes of all pairs, and is
\* neutral below the minimum of samples (scorer.rs `record_result`,
\* `score_history`).
HistoryIsRecent ==
  On("outcomes") =>
    LET n == Len(trial.results)
        mine == {i \in 1..n : i > n - HISTORY_WINDOW /\ trial.results[i].pair = LinkUsdc}
        won == {i \in mine : trial.results[i].won}
    IN  /\ trial.kept <= HISTORY_CAP
        /\ trial.score = IF Cardinality(mine) < MIN_HISTORY_SAMPLES THEN 50
                          ELSE (100 * Cardinality(won)) \div Cardinality(mine)

\* A score only ever decays, is halved when the signal expires, goes on
\* shrinking after that and is gone after twice its lifetime, not before: the
\* comment of `apply_decay` ("0.5 x score at expiry, and 0 beyond",
\* scorer.rs:267) is not what scorer.rs:280 computes.
DecayHalvesAtExpiry ==
  On("decay") =>
    /\ trial.next <= trial.left /\ trial.left <= trial.score
    /\ trial.now = 15 => trial.left = trial.score \div 2
    /\ trial.now \in 15..19 /\ trial.score >= 10 => 0 < trial.left /\ trial.left <= trial.score \div 2
    /\ trial.now >= 20 => trial.left = 0

\* A signal is queued only if it is still worth its minimum profit under the
\* gas the estimator reports for this very swap, approval included when the
\* router may not spend yet, and while it is neither expired, too old nor too
\* good to be true (arb_bot.rs `tick`, `estimate_signal_gas`,
\* validator.rs `validate_signal`).
QueuedIsWorthIt ==
  On("appraise") /\ trial.res.ok /\ trial.res.val.fate = "queued" =>
    LET s == trial.res.val.signal
        env == trial.env
        exact == trial.deps.est.mode \in {"estimate", "anvil"}
        units == IF env.allowance.val < AmountIn(trial.signal) THEN env.approve.val + 30
                 ELSE IF env.swap.ok THEN env.swap.val ELSE 30
        gas == IF exact THEN (env.max_fee.val * units * env.eth.val) \div WEI_PER_ETH ELSE 0
    IN  /\ s.net >= trial.deps.min_profit
        /\ exact => s.net = trial.signal.gross - gas - s.notional \div 1000
        /\ trial.now < s.expiry /\ trial.now - s.at <= trial.deps.validator.max_age
        /\ s.spread <= trial.deps.validator.max_spread
        /\ s.score >= trial.deps.min_score

\* A V2 price comes from reserves read less than DEX_CACHE_STALE_SECS ago or
\* read for this very price: a block whose read failed does not make old
\* reserves fresh, and a failed read yields no price (live_price_source.rs
\* `start_block_feed`, `fetch_prices`).
LivePriceIsFresh ==
  On("live_v2") /\ trial.out.res.ok =>
    LET pool == trial.out.entry.pool
        read == IF trial.got THEN trial.block ELSE 0
    IN  \/ pool.reserve0 = 70 /\ trial.again
        \/ /\ trial.now - read < DEX_CACHE_STALE_SECS
           /\ pool.reserve0 = IF trial.got THEN 60 ELSE 50

\* The input found for an exact output really buys it and one unit less would
\* not, unless no input the doubling reaches buys it; a log that does not parse
\* leaves the pool as it was (live_price_source.rs
\* `local_v3_exact_output_input`, `parse_v3_swap_state`).
ExactOutputIsTight ==
  On("live_v3") =>
    LET target == trial.size \div 10
        out(x) == QuoteSwap(trial.pool, x, trial.in)
        reach == 2 * target * 2^MaxDoublings
    IN  /\ trial.log.words < 5 => trial.pool = trial.first
        /\ trial.search.ok /\ trial.search.val > 0 /\ out(reach).ok /\ out(reach).val.out >= target =>
             /\ out(trial.search.val).val.out >= target
             /\ trial.search.val > 1 => out(trial.search.val - 1).val.out < target

\* A signal that reaches the queue can be paid for, is the best of its sizes, earns
\* what its preview said, and rests on fresh prices, a walked book and a score that
\* orders signals (generator.rs, scorer.rs, live_price_source.rs, arb_bot.rs `tick`).
SignalsAreSound ==
  /\ SignalCanBePaid
  /\ ChosenSizeIsBest
  /\ CooldownSeparates
  /\ PreviewMatchesSignal
  /\ ForeignQuoteIsConverted
  /\ WalkPaysBestPrices
  /\ ScoreOrdersSignals
  /\ HistoryIsRecent
  /\ DecayHalvesAtExpiry
  /\ QueuedIsWorthIt
  /\ LivePriceIsFresh
  /\ ExactOutputIsTight
=============================================================================
