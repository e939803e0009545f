------------------------------ MODULE Routing ------------------------------
(* Routes over V2 and V3 pools (pricing/router.rs), the fork simulation that *)
(* confirms one (pricing/simulator.rs), the pricing engine that owns the     *)
(* pools (pricing/engine.rs) and the opportunity detector (pricing/arb.rs).  *)
EXTENDS Amm, V3Pool, SequencesExt

CONSTANTS
  MinProbe,          \* MIN_CROSS_DEX_AMOUNT_WEI
  Weth,              \* the token of the wrapped-ether address
  Tolerance          \* QUOTE_TOLERANCE_DENOMINATOR

BASE_GAS_COST == 150000
GAS_PER_HOP == 100000
DEFAULT_ARB_GAS_UNITS == 250000
MIN_TRIANGULAR_ARB_HOPS == 3
DEFAULT_MAX_HOPS == 3

PoolAmountOut(p, ain, t) ==
  IF p.kind = "V2" THEN GetAmountOut(p, ain, t)
  ELSE MapOk(QuoteSwap(p, ain, t), LAMBDA q : q.out)

GasPerHop(p) == IF p.kind = "V2" THEN GAS_PER_HOP ELSE V3_GAS_PER_HOP

\* A route is [pools, path], the path one token longer than the pools.
RECURSIVE IntermediateAmounts(_, _)
IntermediateAmounts(route, ain) ==
  IF route.pools = <<>> THEN Ok(<<ain>>)
  ELSE LET n == Len(route.pools)
       IN  AndThen(IntermediateAmounts([route EXCEPT !.pools = Front(@), !.path = Front(@)], ain),
                   LAMBDA before : MapOk(PoolAmountOut(route.pools[n], Last(before), route.path[n]),
                                         LAMBDA out : Append(before, out)))

GetOutput(route, ain) ==
  MapOk(IntermediateAmounts(route, ain), LAMBDA amounts : Last(amounts))

EstimateGas(route) ==
  FoldLeft(LAMBDA g, p : g + GasPerHop(p), Smaller(BASE_GAS_COST, V3_BASE_GAS), route.pools)

IsV3Route(route) == \E i \in DOMAIN route.pools : route.pools[i].kind = "V3"

\* build_graph: the edges out of a token, in the order the pools were given.
Edges(pools, t) ==
  FoldLeft(LAMBDA es, p :
             es \o (IF p.token0 = t THEN <<[pool |-> p, to |-> p.token1]>> ELSE <<>>)
                \o (IF p.token1 = t THEN <<[pool |-> p, to |-> p.token0]>> ELSE <<>>),
           <<>>, pools)

\* Mutant: the search forgets which tokens the path has visited.
RECURSIVE DfsRevisiting(_, _, _, _, _)
DfsRevisiting(pools, target, maxHops, path, used) ==
  IF Last(path) = target
  THEN IF used = <<>> THEN <<>> ELSE <<[pools |-> used, path |-> path]>>
  ELSE IF Len(used) >= maxHops THEN <<>>
  ELSE FoldLeft(LAMBDA rs, e :
                  rs \o DfsRevisiting(pools, target, maxHops, Append(path, e.to), Append(used, e.pool)),
                <<>>, Edges(pools, Last(path)))

RECURSIVE Dfs(_, _, _, _, _)
Dfs(pools, target, maxHops, path, used) ==
  IF Last(path) = target
  THEN IF used = <<>> THEN <<>> ELSE <<[pools |-> used, path |-> path]>>
  ELSE IF Len(used) >= maxHops THEN <<>>
  ELSE FoldLeft(LAMBDA rs, e :
                  rs \o Dfs(pools, target, maxHops, Append(path, e.to), Append(used, e.pool)),
                <<>>,
                SelectSeq(Edges(pools, Last(path)), LAMBDA e : ~Contains(path, e.to)))

FindAllRoutes(pools, tin, tout, maxHops) == Dfs(pools, tout, maxHops, <<tin>>, <<>>)

Comparison(route, out, gas, gwei, dec) ==
  [route |-> route, priced |-> out.ok, gas |-> gas, gross |-> IF out.ok THEN out.val ELSE 0,
   net |-> IF out.ok THEN SatSub(out.val, GasInToken(gas, gwei, dec)) ELSE 0]

\* compare_routes drops the routes that cannot be priced.
CompareRoutes(pools, tin, tout, ain, gwei, maxHops) ==
  LET routes == FindAllRoutes(pools, tin, tout, maxHops)
      priced == [i \in DOMAIN routes |-> Comparison(routes[i], GetOutput(routes[i], ain),
                                                    EstimateGas(routes[i]), gwei, tout.dec)]
  IN  SelectSeq(priced, LAMBDA c : c.priced)

\* Mutant: the route with the highest gross output: gas left out of the choice.
PickRouteGross(cs) ==
  IF cs = <<>> THEN Err("NoRouteExists") ELSE Ok(cs[LastMax([i \in DOMAIN cs |-> cs[i].gross])])

PickRoute(cs) ==
  IF cs = <<>> THEN Err("NoRouteExists") ELSE Ok(cs[LastMax([i \in DOMAIN cs |-> cs[i].net])])

FindBestRoute(pools, tin, tout, ain, gwei, maxHops) ==
  PickRoute(CompareRoutes(pools, tin, tout, ain, gwei, maxHops))

----------------------------------------------------------------------------
(* pricing/simulator.rs *)

\* encode_route_calldata: the router method for the route's two ends.
EncodeRoute(route) ==
  IF IsV3Route(route) THEN Err("AbiDecode")
  ELSE LET ethIn == route.path[1] = Weth
           ethOut == Last(route.path) = Weth
       IN  Ok(IF ethIn /\ ~ethOut THEN [method |-> "ETHForTokens", value |-> "amount"]
              ELSE IF ~ethIn /\ ethOut THEN [method |-> "TokensForETH", value |-> "zero"]
              ELSE [method |-> "TokensForTokens", value |-> "zero"])

\* Mutant: the simulation that takes any answer the fork gives for a success.
SimulateRouteLenient(route, call) ==
  LET enc == EncodeRoute(route)
  IN  IF ~enc.ok THEN enc
      ELSE Ok([success |-> call.answer # "revert", out |-> IF call.answer = "amounts" THEN call.last ELSE 0,
               gas |-> call.gas])

\* simulate_route: `call` is what the fork answers, [gas, answer, last], the
\* answer "revert", "garbage" (nothing to decode) or "amounts", of which it is
\* the last that counts.
SimulateRoute(route, call) ==
  IF route.path = <<>> \/ route.pools = <<>>
  THEN Ok([success |-> FALSE, out |-> 0, gas |-> 0])
  ELSE LET enc == EncodeRoute(route)
       IN  IF ~enc.ok THEN enc
           ELSE IF call.answer # "amounts"
                THEN Ok([success |-> FALSE, out |-> 0, gas |-> call.gas])
                ELSE Ok([success |-> TRUE, out |-> call.last, gas |-> call.gas])

\* simulate_swap of the simulator; the decoder is one of AmountOutDecoder.
ForkSwap(decoder, call) ==
  LET fails == call.answer = "revert" \/ (decoder # "None" /\ call.answer = "garbage")
  IN  [success |-> ~fails, gas |-> call.gas,
       out |-> IF fails \/ decoder = "None" THEN 0 ELSE call.last]

----------------------------------------------------------------------------
(* pricing/engine.rs: the engine is [pools, v3, router]; pools and v3 map an *)
(* address to a pool, and the router is what rebuild_router last built.      *)

NoToken == [id |-> "none", dec |-> 0]

NoRouter == [built |-> FALSE, pools |-> {}]

NewEngine == [pools |-> <<>>, v3 |-> <<>>, router |-> NoRouter]

Range1(f) == {f[x] : x \in DOMAIN f}

Insert(f, p) == [a \in DOMAIN f \cup {p.id} |-> IF a = p.id THEN p ELSE f[a]]

RebuildRouter(e) == [e EXCEPT !.router = [built |-> TRUE, pools |-> Range1(e.pools) \cup Range1(e.v3)]]

\* Mutant: the router is rebuilt after every pool that is inserted.
RECURSIVE LoadEach(_, _, _)
LoadEach(e, which, fetched) ==
  IF fetched = <<>> THEN [engine |-> RebuildRouter(e), res |-> "ok"]
  ELSE IF ~fetched[1].ok THEN [engine |-> RebuildRouter(e), res |-> "PoolLoadFailed"]
  ELSE LoadEach(IF which = "V2" THEN [e EXCEPT !.pools = Insert(@, fetched[1].val)]
                                ELSE [e EXCEPT !.v3 = Insert(@, fetched[1].val)],
                which, Tail(fetched))

\* load_pools and load_v3_pools: the first failed fetch returns with the pools
\* before it inserted and the router not rebuilt.
RECURSIVE LoadPools(_, _, _)
LoadPools(e, which, fetched) ==
  IF fetched = <<>> THEN [engine |-> RebuildRouter(e), res |-> "ok"]
  ELSE IF ~fetched[1].ok THEN [engine |-> e, res |-> "PoolLoadFailed"]
  ELSE LoadPools(IF which = "V2" THEN [e EXCEPT !.pools = Insert(@, fetched[1].val)]
                                 ELSE [e EXCEPT !.v3 = Insert(@, fetched[1].val)],
                 which, Tail(fetched))

RefreshPool(e, fetched) == LoadPools(e, "V2", <<fetched>>)

\* Quote::is_valid: the expected output is net of gas, the simulated one gross.
QuoteIsValid(expected, simulated) ==
  expected # 0 /\ Abs(expected - simulated) * Tolerance < expected

QuoteOf(best, sim) ==
  IF ~sim.ok \/ ~sim.val.success THEN Err("SimulationFailed")
  ELSE Ok([route |-> best.route, expected |-> best.net, simulated |-> sim.val.out, gas |-> sim.val.gas])

\* get_quote against a router of these pools and a fork that answers `call`.
GetQuote(e, pools, tin, tout, ain, gwei, call) ==
  IF ~e.router.built THEN Err("RouterNotInitialized")
  ELSE LET best == FindBestRoute(pools, tin, tout, ain, gwei, DEFAULT_MAX_HOPS)
       IN  IF ~best.ok THEN Err("NoRoute")
           ELSE QuoteOf(best.val, SimulateRoute(best.val.route, call))

----------------------------------------------------------------------------
(* pricing/arb.rs *)

Matching(pools, tin, tout) ==
  SelectSeq(pools, LAMBDA p : {p.token0, p.token1} = {tin, tout})

\* The candidate a scan keeps: the first with the highest net, if it is positive.
KeepBest(opps) ==
  LET good == SelectSeq(opps, LAMBDA o : o.net > 0)
  IN  IF good = <<>> THEN <<>>
      ELSE <<good[FirstMax([i \in DOMAIN good |-> good[i].net])]>>

\* The ordered pairs i < j of a sequence, in the order of the two loops.
IndexPairs(n) ==
  FoldLeft(LAMBDA acc, i : acc \o [k \in 1..(n - i) |-> <<i, i + k>>],
           <<>>, [i \in 1..n |-> i])

Opportunity(kind, ain, gross, gas, pools) ==
  [kind |-> kind, in |-> ain, gross |-> gross, net |-> SatSub(gross, gas), pools |-> pools]

\* Every pair of pools that both price the amount; a pool of the pair with the
\* larger output comes second.
CrossOpps(m, outs, ain, gas) ==
  LET priced == SelectSeq(IndexPairs(Len(m)), LAMBDA ij : outs[ij[1]].ok /\ outs[ij[2]].ok)
      opp(i, j, a, b) == Opportunity("CrossDex", ain, Abs(a - b), gas,
                                     IF a > b THEN <<m[j], m[i]>> ELSE <<m[i], m[j]>>)
  IN  [k \in DOMAIN priced |-> opp(priced[k][1], priced[k][2],
                                  outs[priced[k][1]].val, outs[priced[k][2]].val)]

DetectCrossDex(pools, tin, tout, swapIn, gwei) ==
  LET m == Matching(pools, tin, tout)
      ain == Larger(swapIn, MinProbe)
  IN  KeepBest(CrossOpps(m, [i \in DOMAIN m |-> PoolAmountOut(m[i], ain, tin)], ain,
                         GasInToken(DEFAULT_ARB_GAS_UNITS, gwei, tout.dec)))

\* What a result exceeds a floor by; nothing for a failed one.
Excess(out, floor) == IF out.ok THEN SatSub(out.val, floor) ELSE 0

DetectMempoolArb(pools, tin, tout, swapIn, minOut, gwei) ==
  LET m == Matching(pools, tin, tout)
  IN  IF minOut = 0 \/ swapIn = 0 THEN <<>>
      ELSE KeepBest([i \in DOMAIN m |->
                       Opportunity("MempoolFrontRun", swapIn, Excess(PoolAmountOut(m[i], swapIn, tin), minOut),
                                   GasInToken(DEFAULT_ARB_GAS_UNITS, gwei, tout.dec), <<m[i]>>)])

\* A forward route and a reverse one over unchanged reserves, glued together.
Cycle(there, back) == [pools |-> there.pools \o back.pools, path |-> there.path \o Tail(back.path)]

Cycles(there, back) ==
  FoldLeft(LAMBDA acc, r : acc \o [j \in DOMAIN back |-> Cycle(r, back[j])], <<>>, there)

\* Each of the two routes pays its own base gas.
TriangularOpp(c, gwei, dec) ==
  Opportunity("Triangular", MinProbe, Excess(GetOutput(c, MinProbe), MinProbe),
              GasInToken(EstimateGas(c) + Smaller(BASE_GAS_COST, V3_BASE_GAS), gwei, dec), c.pools)

\* Mutant: detect_triangular accepting any pair of routes, however short.
DetectTriangularAnyLength(pools, tin, tout, gwei) ==
  LET cycles == Cycles(FindAllRoutes(pools, tin, tout, 3), FindAllRoutes(pools, tout, tin, 3))
  IN  KeepBest([i \in DOMAIN cycles |-> TriangularOpp(cycles[i], gwei, tin.dec)])

DetectTriangular(pools, tin, tout, gwei) ==
  LET cycles == SelectSeq(Cycles(FindAllRoutes(pools, tin, tout, 3), FindAllRoutes(pools, tout, tin, 3)),
                          LAMBDA c : Len(c.pools) >= MIN_TRIANGULAR_ARB_HOPS)
  IN  KeepBest([i \in DOMAIN cycles |-> TriangularOpp(cycles[i], gwei, tin.dec)])

\* detect_from_swap: nothing without both ends of the swap's path; find_token
\* fails for a token no pool holds, and then no route exists either.
DetectFromSwap(pools, swap, gwei) ==
  IF NoToken \in {swap.tin, swap.tout} THEN <<>>
  ELSE DetectCrossDex(pools, swap.tin, swap.tout, swap.in, gwei)
       \o DetectMempoolArb(pools, swap.tin, swap.tout, swap.in, swap.minOut, gwei)
       \o DetectTriangular(pools, swap.tin, swap.tout, gwei)
=============================================================================
