----------------------------- MODULE OrderBook -----------------------------
(***************************************************************************)
(* Order books as the analyses see them (src/exchange/orderbook.rs and     *)
(* `LocalOrderBook::snapshot` of src/exchange/ws.rs).  A side is a sequence*)
(* of [p, q] levels, best price first.  A quotient of Decimals that is only*)
(* compared or scaled to basis points is kept as one division, so nothing  *)
(* is rounded before the code rounds it.                                   *)
(***************************************************************************)
EXTENDS Results, FiniteSets

NoLevel == [p |-> 0, q |-> 0]
Best(levels) == IF levels = <<>> THEN NoLevel ELSE Head(levels)

\* `snapshot`: the levels of a price map, bids falling and asks rising.
SideOf(map, better(_, _)) ==
  LET prices == {p \in DOMAIN map : map[p] > 0}
  IN  [i \in 1..Cardinality(prices) |->
         LET p == CHOOSE p \in prices : Cardinality({r \in prices : better(r, p)}) = i - 1
         IN  [p |-> p, q |-> map[p]]]

Snapshot(pair, bids, asks) ==
  [pair |-> pair, bids |-> SideOf(bids, LAMBDA a, b : a > b), asks |-> SideOf(asks, LAMBDA a, b : a < b)]

HasMid(book) == book.bids # <<>> /\ book.asks # <<>>
TwiceMid(book) == Best(book.bids).p + Best(book.asks).p

SideLevels(book, side) == IF side = "buy" THEN book.asks ELSE book.bids

Fill(walk, level) ==
  IF walk.left <= 0 THEN walk
  ELSE LET q == IF walk.left < level.q THEN walk.left ELSE level.q
       IN  [left |-> walk.left - q, qty |-> walk.qty + q, cost |-> walk.cost + q * level.p,
            levels |-> walk.levels + 1, fills |-> Append(walk.fills, [p |-> level.p, q |-> q])]

\* How far `cost` for `qty` is from filling it all at the best price, never negative.
Slippage(side, best, cost, qty) ==
  IF best <= 0 \/ (qty = 0 /\ side = "buy") THEN 0
  ELSE IF qty = 0 THEN BPS_SCALE
  ELSE LET worse == IF side = "buy" THEN cost - best * qty ELSE best * qty - cost
       IN  IF worse <= 0 THEN 0 ELSE (worse * BPS_SCALE) \div (best * qty)

\* Mutant: the last level is taken whole.
WalkTheBookWhole(book, side, qty) ==
  LET walk == Fold(LAMBDA w, l : IF w.left <= 0 THEN w
                         ELSE [w EXCEPT !.left = @ - l.q, !.qty = @ + l.q, !.cost = @ + l.q * l.p,
                                        !.levels = @ + 1, !.fills = Append(@, l)],
                       [left |-> qty, qty |-> 0, cost |-> 0, levels |-> 0, fills |-> <<>>],
                       SideLevels(book, side))
  IN  [cost |-> walk.cost, qty |-> walk.qty, levels |-> walk.levels, full |-> walk.left <= 0,
       fills |-> walk.fills,
       slippage |-> Slippage(side, Best(SideLevels(book, side)).p, walk.cost, walk.qty)]

\* `walk_the_book`: successive levels filled until qty is reached.
WalkTheBook(book, side, qty) ==
  LET walk == Fold(Fill, [left |-> qty, qty |-> 0, cost |-> 0, levels |-> 0, fills |-> <<>>],
                       SideLevels(book, side))
  IN  [cost |-> walk.cost, qty |-> walk.qty, levels |-> walk.levels, full |-> walk.left <= 0,
       fills |-> walk.fills,
       slippage |-> Slippage(side, Best(SideLevels(book, side)).p, walk.cost, walk.qty)]

\* `depth_at_bps`: what lies within bps of the best price, up to the first
\* level beyond it.
DepthAtBps(book, side, bps) ==
  LET levels == IF side = "bid" THEN book.bids ELSE book.asks
      best == Best(levels).p
      far(l) == BPS_SCALE * (IF side = "bid" THEN best - l.p ELSE l.p - best) > best * bps
      last == CHOOSE n \in 0..Len(levels) :
                /\ \A i \in 1..n : ~far(levels[i])
                /\ n < Len(levels) => far(levels[n + 1])
  IN  Fold(LAMBDA acc, l : acc + l.q, 0, SubSeq(levels, 1, last))

TopQty(levels, n) ==
  Fold(LAMBDA acc, l : acc + l.q, 0, SubSeq(levels, 1, IF n < Len(levels) THEN n ELSE Len(levels)))

\* `imbalance`, in per cent of the two sides' top levels.
Imbalance(book, n) ==
  LET bid == TopQty(book.bids, n)
      ask == TopQty(book.asks, n)
  IN  IF bid + ask = 0 THEN 0 ELSE ((bid - ask) * 100) \div (bid + ask)

\* `effective_spread`: average ask less average bid, over the mid price.
EffectiveSpread(book, qty) ==
  LET buy == WalkTheBook(book, "buy", qty)
      sell == WalkTheBook(book, "sell", qty)
  IN  IF ~HasMid(book) \/ buy.cost = 0 \/ sell.cost = 0 THEN 0
      ELSE (2 * BPS_SCALE * (buy.cost * sell.qty - sell.cost * buy.qty))
             \div (TwiceMid(book) * buy.qty * sell.qty)
=============================================================================
