--------------------------- MODULE PricingTrials ---------------------------
(* The pricing algorithms called over bounded inputs, and what each promises. *)
EXTENDS MarketFeeds, Trials, FiniteSets

CONSTANTS
  Reserves,     \* reserve sizes of the V2 pairs tried
  Wide,         \* reserves and amounts near the width of a u128
  Amounts,      \* input and output amounts tried
  Fees,         \* fees in basis points tried
  Impacts,      \* price-impact limits tried, in per cent
  TokenA, TokenB, TokenC, TokenD,
  PoolSets,     \* the sequences of pools the router is given
  V3Liquidity,  \* liquidities of the V3 pools tried
  Gweis         \* gas prices tried

Pair(a, b, fee) == NewPair("p", TokenA, TokenB, a, b, fee).val

TrySwap ==
  \E a, b \in Reserves \cup Wide, fee \in Fees, x \in Amounts \cup Wide, t \in {TokenA, TokenB} :
    Record([call |-> "swap", pair |-> Pair(a, b, fee), in |-> x, token |-> t,
            res |-> GetAmountOut(Pair(a, b, fee), x, t),
            after |-> SimulateSwap(Pair(a, b, fee), x, t)])

TryAmountIn ==
  \E a, b \in Reserves \cup Wide, fee \in Fees, x \in Amounts \cup {w - 1 : w \in Wide}, t \in {TokenA, TokenB} :
    Record([call |-> "amount_in", pair |-> Pair(a, b, fee), out |-> x, token |-> t,
            res |-> GetAmountIn(Pair(a, b, fee), x, t)])

TryMaxSize ==
  \E a \in Reserves, b \in Reserves \cup Wide, fee \in Fees, pct \in Impacts :
    Record([call |-> "max_size", pair |-> Pair(a, b, fee), limit |-> [num |-> pct, den |-> 100],
            res |-> FindMaxSizeForImpact(Pair(a, b, fee), TokenA, [num |-> pct, den |-> 100])])

TryTable ==
  \E a, b \in Reserves, fee \in Fees, t \in {TokenA, TokenB}, x \in Amounts, g \in Gweis :
    Record([call |-> "table", pair |-> Pair(a, b, fee), token |-> t,
            rows |-> GenerateImpactTable(Pair(a, b, fee), t, <<1, x, x + 1>>),
            compared |-> CompareSimulation(Pair(a, b, fee), x, t),
            cost |-> EstimateTrueCost(Pair(a, b, fee), x, t, g, BASE_GAS_COST)])

TryRoutes ==
  \E ps \in PoolSets, a, b \in {TokenA, TokenB, TokenC, TokenD}, hops \in 1..3 :
    Record([call |-> "routes", pools |-> ps, from |-> a, to |-> b, hops |-> hops,
            routes |-> FindAllRoutes(ps, a, b, hops)])

TryBestRoute ==
  \E ps \in PoolSets, a, b \in {TokenA, TokenB, TokenC, TokenD}, x \in Amounts, g \in Gweis :
    Record([call |-> "best_route", pools |-> ps, from |-> a, to |-> b, in |-> x, gwei |-> g,
            res |-> FindBestRoute(ps, a, b, x, g, 3)])

TryTick ==
  \E price \in MinSqrtRatio..(MaxSqrtRatio - 1) :
    Record([call |-> "tick", price |-> price, res |-> GetTickAtSqrtRatio(price)])

TryBoundary ==
  \E tick \in MinTick..MaxTick, spacing \in 1..3, zfo \in BOOLEAN :
    Record([call |-> "boundary", tick |-> tick, spacing |-> spacing, zfo |-> zfo,
            next |-> NextTickBoundary(tick, spacing, zfo),
            usable |-> NearestUsableTick(tick, spacing)])

TryQuote ==
  \E liq \in V3Liquidity, tick \in (MinTick + 1)..(MaxTick - 1), x \in Amounts,
     t \in {TokenA, TokenB}, off \in 0..2, fee \in {100} :
    LET sqrt == GetSqrtRatioAtTick(tick).val + off
        p == NewV3Pool("q", TokenA, TokenB, fee, sqrt, liq, tick)
    IN  /\ sqrt < GetSqrtRatioAtTick(tick + 1).val
        /\ Record([call |-> "quote", pool |-> p, in |-> x, token |-> t, res |-> QuoteSwap(p, x, t)])

\* A pending swap seen in the mempool; an empty path has no ends.
TryDetect ==
  \E ps \in PoolSets, a, b \in {TokenA, TokenB, TokenC}, x \in Amounts, g \in Gweis, m \in {0, 2},
     sel \in {"TokensForTokens", "ETHForTokens", "multicall"}, whole \in BOOLEAN :
    LET swap == ParseTransaction([selector |-> sel, to |-> TRUE, value |-> 2,
                                  payload |-> [ok |-> TRUE, in |-> x, min |-> m,
                                               path |-> IF whole THEN <<a, TokenD, b>> ELSE <<>>]])
    IN  /\ a # b
        /\ sel # "TokensForTokens" => x = 3
        /\ swap.ok
        /\ Record([call |-> "detect", pools |-> ps, from |-> a, swap |-> swap.val,
                   found |-> DetectFromSwap(ps, swap.val, g)])

TryGetQuote ==
  \E ps \in PoolSets, x \in {2, 3}, g \in Gweis, answer \in {"revert", "garbage", "amounts"}, last \in 1..4,
     decoder \in {"UniswapV2Amounts", "None"} :
    LET e == RebuildRouter(NewEngine)
        fork == [gas |-> 1, answer |-> answer, last |-> last]
    IN  Record([call |-> "get_quote", pools |-> ps, in |-> x, gwei |-> g, fork |-> fork,
                decoder |-> decoder, single |-> ForkSwap(decoder, fork),
                res |-> GetQuote(e, ps, TokenA, TokenB, x, g, fork)])

Words(ws) == [ok |-> TRUE, words |-> ws]

\* What the chain may answer for the two tokens and the reserves of a pair.
Metadata(a, ok) == FetchTokenMetadata([t \in {a} |-> [decimalsOk |-> ok, symbolOk |-> FALSE, dec |-> 4]], a)

Fetches == {FromChain("p1", Words(<<2, 2, 0>>), Metadata("A", TRUE), Metadata("B", TRUE)),
            FromChain("p1", Words(<<U128 + 3, 2, 0>>), Metadata("A", TRUE), Metadata("B", TRUE)),
            FromChain("p2", Words(<<2, 2, 0>>), Metadata("B", TRUE), Metadata("C", TRUE)),
            FromChain("p2", Words(<<2, 2, 0>>), Metadata("B", TRUE), Metadata("C", FALSE)),
            FromChain("p1", Words(<<2, 2>>), Metadata("A", TRUE), Metadata("B", TRUE))}

\* A history of loads on a fresh engine: each fetch of each load may fail.
TryLoads ==
  \E first, second \in UNION {[1..n -> Fetches] : n \in 1..2}, which \in {"load", "refresh"} :
    LET one == LoadPools(NewEngine, "V2", first)
        two == IF which = "load" THEN LoadPools(one.engine, "V2", second)
                                 ELSE RefreshPool(one.engine, second[1])
    IN  Record([call |-> "loads", one |-> one, two |-> two])

\* Three blocks of a feed of one pair recorded into an impact history.
TryHistory ==
  \E answers \in [1..3 -> {Words(<<U128 + 44, 200, 0>>), Words(<<64, 100, 0>>), Words(<<0, 100, 0>>), Words(<<5>>),
                          [ok |-> FALSE, words |-> <<>>]}], size \in {500, 2500, 7} :
    LET pools == TrackPools(<<Pair(1, 1, 30), Pair(1, 1, 30)>>)
        ticks == Fold(LAMBDA acc, b : acc \o FeedBlock(pools, [p \in {"p"} |-> answers[b]], b), <<>>, <<1, 2, 3>>)
        h0 == [tin |-> TokenA, tout |-> TokenB, sizes |-> <<500, 2500>>, obs |-> <<>>]
        fed == Fold(LAMBDA acc, t : IF RecordTick(acc, t).ok THEN RecordTick(acc, t).val ELSE acc, h0, ticks)
        h == RecordManual(fed, 80, 20, 4).val
    IN  Record([call |-> "history", answers |-> answers, h |-> h, size |-> size,
                summary |-> Summarize(h), series |-> ImpactSeries(h, size)])

PricingNext ==
  /\ trial = Idle
  /\ \/ TrySwap \/ TryAmountIn \/ TryMaxSize \/ TryTable \/ TryRoutes
     \/ TryBestRoute \/ TryTick \/ TryBoundary \/ TryQuote \/ TryDetect
     \/ TryGetQuote \/ TryHistory \/ TryLoads

----------------------------------------------------------------------------
Is(c) == trial.call = c

\* A simulated swap never lowers the product of the reserves, and selling the
\* proceeds straight back never returns more than was put in: the rounding of
\* get_amount_out always favours the pool, whatever the fee.  A swap is without
\* an answer only when a product leaves u256, and without a simulation only when
\* the reserve would leave u128 as well.
SwapKeepsProduct ==
  Is("swap") =>
    LET after == trial.after.val
        back == GetAmountOut(after, trial.res.val, TokenOutFor(trial.pair, trial.token))
    IN  /\ trial.res.ok \/ trial.res.err = "ArithmeticOverflow"
        /\ trial.after.ok <=> trial.res.ok /\ ReserveIn(trial.pair, trial.token) + trial.in < U128
        /\ trial.after.ok =>
             /\ after.reserve0 * after.reserve1 >= trial.pair.reserve0 * trial.pair.reserve1
             /\ back.ok => back.val <= trial.in

\* get_amount_in asks for enough: paying it yields at least the wanted output,
\* and paying two units less never does (its "+ 1" overshoots by at most one).
\* It panics only where what it would ask for is no u128; get_amount_out has no
\* answer to what it asks for only where a product leaves u256.
AmountInSuffices ==
  Is("amount_in") =>
    LET t == TokenOutFor(trial.pair, trial.token)
        Paid(x) == GetAmountOut(trial.pair, x, t)
    IN  /\ trial.res = Panic =>
             LET most == GetAmountOut(trial.pair, U128 - 2, t) IN most.ok => most.val < trial.out
        /\ trial.res.ok =>
             /\ IF Paid(trial.res.val).ok THEN Paid(trial.res.val).val >= trial.out
                                          ELSE Paid(trial.res.val).err = "ArithmeticOverflow"
             /\ trial.res.val > 2 /\ Paid(trial.res.val - 2).ok => Paid(trial.res.val - 2).val < trial.out

\* The size find_max_size_for_impact returns respects the limit, and one unit
\* more breaks it or is over half the reserve.  (The integer impact is not
\* monotone, so a larger feasible size may exist further up.)
MaxSizeIsEdge ==
  Is("max_size") /\ trial.res.ok =>
    /\ AtMost(GetPriceImpact(trial.pair, trial.res.val, TokenA).val, trial.limit)
    /\ \/ ~AtMost(GetPriceImpact(trial.pair, trial.res.val + 1, TokenA).val, trial.limit)
       \/ trial.res.val + 1 > trial.pair.reserve0 \div MAX_SWAP_RESERVE_DIVISOR

\* In the impact table no trade executes above the spot price; the simulated
\* reserves agree with the calculated output; and gas is never added to it.
TableIsConsistent ==
  Is("table") =>
    /\ \A i \in 1..3 : AtMost(trial.rows.val[i].exec, trial.rows.val[i].spot)
    /\ trial.compared.val.isMatch
    /\ trial.cost.val.net = SatSub(trial.compared.val.simulated, trial.cost.val.gas)

\* The simple paths from one token to another, stated without a search.
SimplePaths(ps, a, b, hops) ==
  LET paths(n) == {p \in [1..(n + 1) -> {TokenA, TokenB, TokenC, TokenD}] :
                     /\ p[1] = a /\ p[n + 1] = b
                     /\ \A i, j \in 1..(n + 1) : i # j => p[i] # p[j]}
  IN  {r \in UNION {[pools : [1..n -> Range1(ps)], path : paths(n)] : n \in 1..hops} :
         \A i \in DOMAIN r.pools : {r.pools[i].token0, r.pools[i].token1} = {r.path[i], r.path[i + 1]}}

\* The depth-first search finds every simple path of at most max_hops pools,
\* each once, and nothing else: no token twice, no route from a token to itself.
RoutesAreSimplePaths ==
  Is("routes") =>
    /\ Range1(trial.routes) = SimplePaths(trial.pools, trial.from, trial.to, trial.hops)
    /\ Cardinality(Range1(trial.routes)) = Len(trial.routes)

\* No priced simple path beats the best route after gas, and the search fails
\* only when no path can be priced.
BestRouteIsBest ==
  Is("best_route") =>
    LET priced == {r \in SimplePaths(trial.pools, trial.from, trial.to, 3) : GetOutput(r, trial.in).ok}
        net(r) == SatSub(GetOutput(r, trial.in).val, GasInToken(EstimateGas(r), trial.gwei, trial.to.dec))
    IN  IF trial.res.ok THEN /\ trial.res.val.route \in priced
                             /\ \A r \in priced : net(r) <= net(trial.res.val.route)
        ELSE priced = {}

\* get_tick_at_sqrt_ratio brackets the price: the ratio of the tick is at most
\* the price and the ratio of the next tick is above it.  A price above the ratio
\* of the last tick and below MAX_SQRT_RATIO (v3/math.rs:11) has the last tick.
TickBracketsPrice ==
  Is("tick") =>
    /\ trial.res.ok /\ trial.res.val \in MinTick..MaxTick
    /\ GetSqrtRatioAtTick(trial.res.val).val <= trial.price
    /\ trial.res.val < MaxTick => GetSqrtRatioAtTick(trial.res.val + 1).val > trial.price

\* The next boundary lies strictly ahead in the direction of the swap, with no
\* usable tick skipped, except at the end of the range; the nearest usable tick
\* is a multiple of the spacing inside the range.
BoundaryIsNext ==
  Is("boundary") =>
    /\ trial.usable % trial.spacing = 0 /\ Abs(trial.usable) <= MaxTick
    /\ IF trial.zfo
       THEN /\ trial.next < trial.tick \/ trial.tick = MinTick
            /\ \A u \in (trial.next + 1)..(trial.tick - 1) : u % trial.spacing # 0
       ELSE /\ trial.next > trial.tick \/ trial.tick = MaxTick
            /\ \A u \in (trial.tick + 1)..(trial.next - 1) : u % trial.spacing # 0

\* A quote never spends more than it is given and moves the price only in the
\* direction of the swap; what it leaves unspent is flagged partial unless the
\* pool has no liquidity or the price sits at the end of the tick range.
QuoteAccountsForInput ==
  Is("quote") /\ trial.res.ok =>
    LET q == trial.res.val
    IN  /\ 0 <= q.in /\ q.in <= trial.in
        /\ IF trial.token = TokenA THEN q.sqrt <= trial.pool.sqrt ELSE q.sqrt >= trial.pool.sqrt
        /\ q.in < trial.in => \/ q.partial
                              \/ trial.pool.liq = 0
                              \/ Abs(q.tick) = MaxTick

\* Swapping through the pools of a cycle one after the other, with the reserves
\* of a pair moved for its later occurrences.
RECURSIVE Replay(_, _, _)
Replay(pools, t, x) ==
  IF pools = <<>> \/ x = 0 THEN x
  ELSE LET p == pools[1]
           moved == IF p.kind = "V2" THEN SimulateSwap(p, x, t).val ELSE p
       IN  Replay([i \in 1..(Len(pools) - 1) |-> IF pools[i + 1] = p THEN moved ELSE pools[i + 1]],
                  IF p.token0 = t THEN p.token1 ELSE p.token0, PoolAmountOut(p, x, t).val)

\* The token sold into each pool of a cycle that starts with token t.
RECURSIVE SoldInto(_, _)
SoldInto(pools, t) ==
  IF pools = <<>> THEN <<>>
  ELSE <<t>> \o SoldInto(Tail(pools), IF pools[1].token0 = t THEN pools[1].token1 ELSE pools[1].token0)

\* An opportunity is reported only when it is profitable after gas.  A cycle
\* has at least three hops and, although it is priced against reserves that do
\* not move, executing it returns at least the reported profit, unless it sells
\* the same token into the same pool twice.
OpportunitiesAreReal ==
  Is("detect") =>
    \A i \in DOMAIN trial.found :
      LET o == trial.found[i]
          sold == SoldInto(o.pools, trial.from)
      IN  /\ o.net > 0 /\ o.net <= o.gross
          /\ o.kind = "Triangular" =>
               /\ Len(o.pools) >= MIN_TRIANGULAR_ARB_HOPS
               /\ \/ Replay(o.pools, trial.from, o.in) >= o.in + o.gross
                  \/ \E j, k \in DOMAIN o.pools :
                       j # k /\ o.pools[j] = o.pools[k] /\ sold[j] = sold[k]

\* The router knows exactly the loaded pools after every load that succeeds.  A
\* load that fails half-way keeps quoting from the routes it had, although the
\* pools before the failure are already replaced, until a later load succeeds.
RouterMatchesPools ==
  Is("loads") =>
    /\ \A r \in {trial.one, trial.two} :
         r.res = "ok" => r.engine.router.pools = Range1(r.engine.pools) \cup Range1(r.engine.v3)
    /\ trial.one.res # "ok" => trial.one.engine.router = NoRouter
    /\ trial.two.res # "ok" => trial.two.engine.router = trial.one.engine.router

\* A quote rests on a fork simulation that answered with amounts over a route
\* of V2 pairs only.  Its expected output is net of gas and its simulated one is
\* not, so even a simulation that agrees exactly is valid only while the gas is
\* below the tolerance.
QuoteRestsOnFork ==
  /\ Is("get_quote") /\ trial.single.success =>
       /\ trial.fork.answer # "revert"
       /\ trial.single.out = IF trial.decoder = "None" THEN 0 ELSE trial.fork.last
  /\ Is("get_quote") /\ trial.res.ok =>
    LET q == trial.res.val
        gross == GetOutput(q.route, trial.in).val
    IN  /\ ~IsV3Route(q.route)
        /\ trial.fork.answer = "amounts" /\ q.simulated = trial.fork.last
        /\ q.simulated = gross /\ QuoteIsValid(q.expected, q.simulated) => (gross - q.expected) * Tolerance < gross

\* The history holds one observation for each block whose reserves could be
\* read and were not zero, and the one added by hand; the extremes of its summary are observed impacts
\* around the average, and the series of a known size is what was recorded.
HistoryMatchesFeed ==
  Is("history") =>
    /\ trial.summary.n = 1 + Cardinality({b \in 1..3 : Len(trial.answers[b].words) = 3 /\ trial.answers[b].words[1] % U128 # 0})
    /\ \A i \in DOMAIN trial.h.sizes :
         LET s == trial.summary.sizes[i]
             seen == {trial.h.obs[k].impacts[i] : k \in DOMAIN trial.h.obs}
         IN  /\ {s.min, s.max} \subseteq seen
             /\ s.min <= s.avg /\ s.avg <= s.max /\ s.max <= trial.summary.max
             /\ trial.size = trial.h.sizes[i] => Range1(trial.series) = seen

\* The arithmetic of a pool is safe to trade on: rounding never favours the trader, a
\* size search stops at its limit, and ticks, boundaries and quotes of a V3 pool
\* agree with the price they stand for (amm.rs, pricing/v3).
PoolArithmeticIsSafe ==
  /\ SwapKeepsProduct
  /\ AmountInSuffices
  /\ MaxSizeIsEdge
  /\ TableIsConsistent
  /\ TickBracketsPrice
  /\ BoundaryIsNext
  /\ QuoteAccountsForInput

\* What the pricing engine offers is there: all simple routes and the best of them,
\* opportunities that pay when executed, quotes a fork confirmed, pools and
\* history as last read (router.rs, arb.rs, engine.rs, simulator.rs, history.rs).
RoutesAreSound ==
  /\ RoutesAreSimplePaths
  /\ BestRouteIsBest
  /\ OpportunitiesAreReal
  /\ RouterMatchesPools
  /\ QuoteRestsOnFork
  /\ HistoryMatchesFeed
=============================================================================
