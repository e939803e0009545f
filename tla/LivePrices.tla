----------------------------- MODULE LivePrices -----------------------------
(***************************************************************************)
(* `LivePriceSource` (src/strategy/live_price_source.rs): pools kept fresh *)
(* by a block feed (V2) or a swap-log feed (V3), and the prices read from  *)
(* them.  An entry is [pool, at]: the pool as last read and when its cache *)
(* mark was last renewed.  Prices are quote units per base unit times      *)
(* PRICE_UNIT.                                                             *)
(***************************************************************************)
EXTENDS Amm, V3Pool

CONSTANTS
  DEX_CACHE_STALE_SECS,   \* age from which a V2 pool is read again
  MaxDoublings            \* doublings of the exact-output search

PRICE_UNIT == 100

\* `new_with_order_books`: the first pool that cannot be loaded fails the
\* whole source; the caches of the others start fresh.
NewSource(loaded, now) ==
  LET all == Collect(loaded)
  IN  IF all.ok THEN Ok([i \in DOMAIN all.val |-> [pool |-> all.val[i], at |-> now]]) ELSE all

\* Mutant: the mark is renewed whether or not the pool could be read.
RefreshV2Blind(e, reserves, now) ==
  IF reserves.ok
  THEN [pool |-> [e.pool EXCEPT !.reserve0 = reserves.val[1], !.reserve1 = reserves.val[2]], at |-> now]
  ELSE [e EXCEPT !.at = now]

\* One entry at one block of the V2 feed.
RefreshV2(e, reserves, now) ==
  IF reserves.ok
  THEN [pool |-> [e.pool EXCEPT !.reserve0 = reserves.val[1], !.reserve1 = reserves.val[2]], at |-> now]
  ELSE e

\* A swap log of the V3 feed; one that does not parse is skipped.
ApplySwapLog(e, log, now) ==
  IF log.words < 5 THEN e
  ELSE [pool |-> [e.pool EXCEPT !.sqrt = log.sqrt, !.liq = log.liq, !.tick = log.tick], at |-> now]

\* `decimal_to_u128_scaled`, for a size in tenths: truncated to the token's unit.
ToRaw(size, dec) == IF size < 0 THEN Err("Pricing") ELSE Ok((size * 10^dec) \div 10)

\* What `raw` units of the quote token are worth per unit of size.
PriceOf(raw, dec, size) == IF size > 0 THEN (raw * 10 * PRICE_UNIT) \div (10^dec * size) ELSE 0

\* The search's two phases answer 0 when a quote on the way fails.
RECURSIVE Widen(_, _, _, _, _)
Widen(p, target, t, high, left) ==
  LET q == QuoteSwap(p, high, t)
  IN  IF left = 0 THEN high
      ELSE IF ~q.ok THEN 0
      ELSE IF q.val.out >= target THEN high
      ELSE Widen(p, target, t, 2 * high, left - 1)

RECURSIVE Narrow(_, _, _, _, _)
Narrow(p, target, t, low, high) ==
  LET mid == low + (high - low) \div 2
      q == QuoteSwap(p, mid, t)
  IN  IF low + 1 >= high THEN high
      ELSE IF ~q.ok THEN 0
      ELSE IF q.val.out >= target THEN Narrow(p, target, t, low, mid)
      ELSE Narrow(p, target, t, mid, high)

Bisect(p, target, t) == Narrow(p, target, t, 0, Widen(p, target, t, 2 * target, MaxDoublings))

InputFound(n) == IF n = 0 THEN Err("Pricing") ELSE Ok(n)

\* Mutant: the search answers its lower end.
ExactOutputLow(p, target, t) ==
  IF target = 0 THEN Ok(0) ELSE MapOk(InputFound(Bisect(p, target, t)), LAMBDA n : n - 1)

\* `local_v3_exact_output_input`: the input found by doubling and bisection.
\* When doubling never reaches the target the search still answers its end.
ExactOutput(p, target, t) ==
  IF target = 0 THEN Ok(0) ELSE InputFound(Bisect(p, target, t))

\* What selling the size yields and what buying it costs, both per unit.
PricesOf(out, in, dec, size) ==
  AndThen(out, LAMBDA sold : MapOk(in, LAMBDA paid : [buy |-> PriceOf(paid, dec, size),
                                                      sell |-> PriceOf(sold, dec, size)]))

V2Prices(p, base, quote, size, raw) ==
  PricesOf(GetAmountOut(p, raw, base), GetAmountIn(p, raw, base), quote.dec, size)

\* `local_v3_prices`.
V3Prices(p, base, quote, size, raw) ==
  PricesOf(MapOk(QuoteSwap(p, raw, base), LAMBDA q : q.out), ExactOutput(p, raw, quote), quote.dec, size)

\* `fetch_prices`: the entry after it and the answer.  A stale V2 pool is read
\* again first, which does not renew its mark; a V3 pool is used as it stands.
FetchPrices(e, base, quote, size, reserves, now) ==
  LET raw == ToRaw(size, base.dec)
      again == [e EXCEPT !.pool.reserve0 = reserves.val[1], !.pool.reserve1 = reserves.val[2]]
  IN  IF ~raw.ok THEN [entry |-> e, res |-> raw]
      ELSE IF e.pool.kind = "V3" THEN [entry |-> e, res |-> V3Prices(e.pool, base, quote, size, raw.val)]
      ELSE IF now - e.at < DEX_CACHE_STALE_SECS
      THEN [entry |-> e, res |-> V2Prices(e.pool, base, quote, size, raw.val)]
      ELSE IF ~reserves.ok THEN [entry |-> e, res |-> reserves]
      ELSE [entry |-> again, res |-> V2Prices(again.pool, base, quote, size, raw.val)]
=============================================================================
