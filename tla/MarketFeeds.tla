---------------------------- MODULE MarketFeeds ----------------------------
(* What feeds the pricing engine: pending swaps decoded from the mempool     *)
(* (pricing/mempool.rs), the per-block price ticks of tracked pairs          *)
(* (pricing/feed.rs) and the impact history built from them                  *)
(* (pricing/history.rs).  Impacts are hundredths of a per cent.              *)
EXTENDS Routing

\* A pending transaction is [selector, to, payload, value]; the payload is
\* [ok, in, min, path].  A recognised multicall is not decoded.
ParseTransaction(tx) ==
  IF \/ tx.selector \notin {"TokensForTokens", "ETHForTokens", "TokensForETH"}
     \/ ~tx.to
     \/ ~tx.payload.ok
  THEN Err("none")
  ELSE LET path == tx.payload.path
           end(i) == IF path = <<>> THEN NoToken ELSE path[i]
       IN  Ok([tin |-> end(1), tout |-> end(Len(path)), minOut |-> tx.payload.min,
               in |-> IF tx.selector = "ETHForTokens" THEN tx.value ELSE tx.payload.in])

\* PriceFeed::new and add_pool: a pool address is tracked once.
TrackPools(pairs) ==
  FoldLeft(LAMBDA acc, p : IF \E i \in DOMAIN acc : acc[i].id = p.id THEN acc ELSE Append(acc, p),
           <<>>, pairs)

ComputeTick(p, r0, r1, block) ==
  IF r0 = 0 \/ r1 = 0 THEN <<>>
  ELSE <<[tin |-> p.token0, tout |-> p.token1, rin |-> r0, rout |-> r1, block |-> block],
         [tin |-> p.token1, tout |-> p.token0, rin |-> r1, rout |-> r0, block |-> block]>>

\* One block of the feed: a pool whose reserves cannot be read is skipped.
FeedBlock(pools, answers, block) ==
  FoldLeft(LAMBDA acc, p :
             LET r == FetchReserves(answers[p.id])
             IN  IF r.ok THEN acc \o ComputeTick(p, r.val[1], r.val[2], block) ELSE acc,
           <<>>, pools)

\* compute_impacts_at_reserves, sizes in basis points of the input reserve (a
\* pair's reserves are uint112: the product fits u128).
ComputeImpacts(tin, tout, rin, rout, sizes) ==
  LET pair == NewPair("h", tin, tout, rin, rout, DEFAULT_FEE_BPS).val
      ain(i) == (rin * sizes[i]) \div BPS_SCALE
  IN  Collect([i \in DOMAIN sizes |->
                 IF rin = 0 \/ rout = 0 \/ ain(i) = 0 THEN Ok(0)
                 ELSE MapOk(GetPriceImpact(pair, ain(i), tin), LAMBDA f : (f.num * 10000) \div f.den)])

\* A history is [tin, tout, sizes, obs].
RecordTick(h, tick) ==
  IF tick.tin # h.tin \/ tick.tout # h.tout THEN Err("UnknownToken")
  ELSE MapOk(ComputeImpacts(h.tin, h.tout, tick.rin, tick.rout, h.sizes),
             LAMBDA got : [h EXCEPT !.obs = Append(@, [block |-> tick.block, rin |-> tick.rin,
                                                       rout |-> tick.rout, impacts |-> got])])

\* record_manual also prices the observation, which a zero reserve panics.
RecordManual(h, rin, rout, block) ==
  AndThen(GetSpotPrice(NewPair("h", h.tin, h.tout, rin, rout, DEFAULT_FEE_BPS).val, h.tin),
          LAMBDA spot : RecordTick(h, [tin |-> h.tin, tout |-> h.tout, rin |-> rin, rout |-> rout, block |-> block]))

MaxOf(s) == FoldLeft(LAMBDA m, x : Larger(m, x), s[1], s)
MinOf(s) == FoldLeft(LAMBDA m, x : Smaller(m, x), s[1], s)

\* Mutant: the minimum folded from zero, like the maximum.
SummarizeFromZero(h) ==
  LET n == Len(h.obs)
      of(i) == [k \in 1..n |-> h.obs[k].impacts[i]]
  IN  [n |-> n,
       sizes |-> [i \in DOMAIN h.sizes |->
                    IF n = 0 THEN [avg |-> 0, max |-> 0, min |-> 0]
                    ELSE [avg |-> SumOf(of(i)) \div n, max |-> MaxOf(of(i)), min |-> MinOf(<<0>> \o of(i))]],
       max |-> FoldLeft(LAMBDA m, o : MaxOf(<<m>> \o o.impacts), 0, h.obs)]

Summarize(h) ==
  LET n == Len(h.obs)
      of(i) == [k \in 1..n |-> h.obs[k].impacts[i]]
  IN  [n |-> n,
       sizes |-> [i \in DOMAIN h.sizes |->
                    IF n = 0 THEN [avg |-> 0, max |-> 0, min |-> 0]
                    ELSE [avg |-> SumOf(of(i)) \div n, max |-> MaxOf(of(i)), min |-> MinOf(of(i))]],
       max |-> FoldLeft(LAMBDA m, o : MaxOf(<<m>> \o o.impacts), 0, h.obs)]

\* impact_series_for_size: an unknown size silently reads the first series.
ImpactSeries(h, size) ==
  LET known == {i \in DOMAIN h.sizes : h.sizes[i] = size}
      idx == IF known = {} THEN 1 ELSE CHOOSE i \in known : \A j \in known : i <= j
  IN  [k \in DOMAIN h.obs |-> h.obs[k].impacts[idx]]
=============================================================================
