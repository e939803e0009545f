------------------------------ MODULE Inventory ------------------------------
(***************************************************************************)
(* The operations of `InventoryTracker` (src/inventory/tracker.rs) and the *)
(* plans `RebalancePlanner` (src/inventory/rebalancer.rs) derives from it, *)
(* as operators on one venue's or one asset's balances.                    *)
(*                                                                         *)
(* A venue's book maps the assets the tracker knows there to              *)
(* [free, locked, reserved]; an asset that is not in its domain is an entry*)
(* the tracker does not hold.  A holding maps venues to one asset's total. *)
(* Decimals are integers in a unit that makes the targets whole.           *)
(***************************************************************************)
EXTENDS Results, FiniteSets, FiniteSetsExt

Entry(free, locked, reserved) == [free |-> free, locked |-> locked, reserved |-> reserved]
NoEntry == Entry(0, 0, 0)

AbsDiff(a, b) == IF a < b THEN b - a ELSE a - b
Total(e) == e.free + e.locked
With(book, a, e) == [b \in DOMAIN book \cup {a} |-> IF b = a THEN e ELSE book[b]]

\* `canonicalize_asset` and `get_equivalent_assets` of src/core/assets.rs.
Canonical(a) == CASE a = "ETH" -> "WETH" [] a = "USDC.E" -> "USDC" [] OTHER -> a
Equivalents(a) ==
  CASE a \in {"ETH", "WETH"} -> <<"ETH", "WETH">>
    [] a \in {"USDC", "USDC.E"} -> <<"USDC", "USDC.E">>
    [] OTHER -> <<a>>

KeptReserved(book, a) == IF a \in DOMAIN book THEN book[a].reserved ELSE 0

\* The name an exchange's asset is tracked under: canonical on Arbitrum only.
CexKey(chain, a) == IF chain = "arbitrum" THEN Canonical(a) ELSE a

\* An account report by tracked name.  Of two assets with one name the map keeps
\* either, whichever its iteration order visits last.
Keyed(chain, fresh) ==
  LET keys == {CexKey(chain, a) : a \in DOMAIN fresh}
  IN {[c \in keys |-> fresh[pick[c]]]
      : pick \in {p \in [keys -> DOMAIN fresh] : \A c \in keys : CexKey(chain, p[c]) = c}}

\* Mutant: reservations are looked up under the exchange's name.
UpdateFromCexByReportedName(book, fresh, chain) ==
  {[c \in DOMAIN kept |-> Entry(kept[c].free, kept[c].locked, IF c \in DOMAIN fresh THEN KeptReserved(book, c) ELSE 0)]
   : kept \in Keyed(chain, fresh)}

\* `update_from_cex`: the venue's entries are replaced.  Reservations survive only
\* where the asset is reported.
UpdateFromCex(book, fresh, chain) ==
  {[c \in DOMAIN kept |-> Entry(kept[c].free, kept[c].locked, KeptReserved(book, c))]
   : kept \in Keyed(chain, fresh)}

\* Mutant: a sync forgets what in-flight trades have reserved.
UpdateFromWalletUnreserved(book, fresh) == [a \in DOMAIN fresh |-> Entry(fresh[a], 0, 0)]

\* `update_from_wallet`: the same without locked amounts and renaming.
UpdateFromWallet(book, fresh) ==
  [a \in DOMAIN fresh |-> Entry(fresh[a], 0, KeptReserved(book, a))]

\* `WalletBalanceFetcher::fetch_balances`: assets that hold nothing, and those
\* whose read failed, are left out.
FetchWallet(held, failed) ==
  [a \in {b \in DOMAIN held \ failed : held[b] > 0} |-> held[a]]

Tracked(book, a) == IF a \in DOMAIN book THEN Total(book[a]) ELSE 0

\* `verify_balances`: the assets whose totals differ by more than the
\* tolerance, a percentage of the tracked total.
VerifyBalances(book, actual, tolerance_pct) ==
  {a \in DOMAIN actual :
     /\ ~(Tracked(book, a) = 0 /\ actual[a] = 0)
     /\ 100 * AbsDiff(Tracked(book, a), actual[a]) > Tracked(book, a) * tolerance_pct}

-----------------------------------------------------------------------------
(* Recording a trade.                                                      *)

TakeFrom(st, a) ==
  LET take == Smaller(st.book[a].free, st.left)
  IN IF a \in DOMAIN st.book
     THEN [book |-> [st.book EXCEPT ![a].free = @ - take], left |-> st.left - take]
     ELSE st

\* `adjust_balance` for a debit of the wallet: the asset first, then its
\* equivalents.  What could be taken stays taken when the debit falls short.
DebitWallet(book, a, amount) ==
  LET others == SelectSeq(Equivalents(a), LAMBDA b : b # a)
      end == Fold(TakeFrom, [book |-> book, left |-> amount], <<a>> \o others)
  IN [book |-> end.book, ok |-> end.left = 0]

\* `adjust_balance` elsewhere: the entry is created when missing, and keeps a
\* negative result when it reports one.
AdjustCex(book, a, delta) ==
  LET e == IF a \in DOMAIN book THEN book[a] ELSE NoEntry
      after == [e EXCEPT !.free = @ + delta]
  IN [book |-> With(book, a, after), ok |-> after.free >= 0]

AdjustBalance(venue, book, a, delta) ==
  IF venue = "wallet" /\ delta < 0 THEN DebitWallet(book, a, -delta) ELSE AdjustCex(book, a, delta)

\* Mutant: the fee is forgotten.
RecordTradeFree(venue, side, book, base, quote, amount, cost, fee, fee_asset) ==
  LET sign == IF side = "buy" THEN 1 ELSE -1
      Then(r, a, delta) == IF r.ok THEN AdjustBalance(venue, r.book, a, delta) ELSE r
  IN Then(Then([book |-> book, ok |-> TRUE], base, sign * amount), quote, -sign * cost)

\* `record_trade`: base, quote, then the fee; the first failure returns.
RecordTrade(venue, side, book, base, quote, amount, cost, fee, fee_asset) ==
  LET sign == IF side = "buy" THEN 1 ELSE -1
      Then(r, a, delta) == IF r.ok THEN AdjustBalance(venue, r.book, a, delta) ELSE r
  IN Then(Then(Then([book |-> book, ok |-> TRUE], base, sign * amount), quote, -sign * cost),
          fee_asset, -fee)

\* `get_available`, zero for an asset the tracker does not hold.
Available(book, a) == IF a \in DOMAIN book THEN book[a].free - book[a].reserved ELSE 0

\* What a venue can pay of an asset: the wallet counts its equivalents.
Payable(inv, venue, a) ==
  IF venue = "wallet"
  THEN Fold(LAMBDA acc, b : acc + Available(inv[venue], b), 0, Equivalents(a))
  ELSE Available(inv[venue], a)

\* `can_execute`.
CanExecute(inv, buy_venue, buy_asset, buy_amount, sell_venue, sell_asset, sell_amount) ==
  /\ Payable(inv, buy_venue, buy_asset) >= buy_amount
  /\ Payable(inv, sell_venue, sell_asset) >= sell_amount

-----------------------------------------------------------------------------
(* Skew and plans.                                                         *)

\* What the venues hold together.
HoldingTotal(venues, holding) == SumOf([k \in 1..Len(venues) |-> holding[venues[k]]])

\* `skew`: a venue's share, in percent, against an equal split.  Cross-multiplied
\* by the total and the number of venues.
Deviates(venues, holding, pct) ==
  LET total == HoldingTotal(venues, holding)
      n == Len(venues)
  IN \E i \in 1..n :
       IF total > 0
       THEN 100 * AbsDiff(n * holding[venues[i]], total) > pct * n * total
       ELSE 100 > pct * n

\* `surplus_deficit` with the equal target ratio.
Target(venues, holding) == HoldingTotal(venues, holding) \div Len(venues)
Surplus(venues, holding, v) == holding[v] > Target(venues, holding)
Deficit(venues, holding, v) == holding[v] < Target(venues, holding)

IsCex(v) == v # "wallet"

\* The pair that two nested loops over the venues reach k-th.
VenuePair(venues, k) ==
  <<venues[((k - 1) \div Len(venues)) + 1], venues[((k - 1) % Len(venues)) + 1]>>

\* What is left of each surplus, deficit and spendable balance, and the steps
\* planned so far.
PlanStart(venues, holding, min_balance) ==
  LET t == Target(venues, holding)
  IN [gap |-> [v \in DOMAIN holding |-> AbsDiff(holding[v], t)],
      spendable |-> [v \in DOMAIN holding |-> holding[v] - min_balance],
      steps |-> <<>>]

\* Mutant: the deficit of the destination is not looked at.
MovableAnySurplus(st, from, to) == Smaller(st.gap[from], st.spendable[from])

Movable(st, from, to) == Smaller(Smaller(st.gap[from], st.gap[to]), st.spendable[from])

Allot(st, from, to, amount, steps) ==
  [gap |-> [st.gap EXCEPT ![from] = @ - amount, ![to] = @ - amount],
   spendable |-> [st.spendable EXCEPT ![from] = @ - amount],
   steps |-> st.steps \o steps]

\* What a round of the loops plans for a pair whose amount passes the tests.
Visit(st, venues, holding, pair, steps) ==
  IF Surplus(venues, holding, pair[1]) /\ Deficit(venues, holding, pair[2])
     /\ Movable(st, pair[1], pair[2]) > 0 /\ steps # <<>>
  THEN Allot(st, pair[1], pair[2], Movable(st, pair[1], pair[2]), steps) ELSE st

\* The transfer `plan` makes of one pair: at least the minimum withdrawal, and
\* something left of it after the fee.
TransferFor(from, to, amount, fee, min_withdrawal) ==
  IF amount < min_withdrawal \/ amount - fee <= 0 THEN <<>>
  ELSE <<[kind |-> "transfer", from |-> from, to |-> to, amount |-> amount]>>

\* `plan`.
Plan(venues, holding, threshold, min_balance, fee, min_withdrawal) ==
  LET rounds == Len(venues) * Len(venues)
      planned[k \in 0..rounds] ==
        IF k = 0 THEN PlanStart(venues, holding, min_balance)
        ELSE LET pair == VenuePair(venues, k)
             IN Visit(planned[k - 1], venues, holding, pair,
                      TransferFor(pair[1], pair[2], Movable(planned[k - 1], pair[1], pair[2]), fee, min_withdrawal))
  IN IF ~Deviates(venues, holding, threshold) \/ HoldingTotal(venues, holding) <= 0 THEN <<>>
     ELSE planned[rounds].steps

\* Mutant: a withdrawal may be smaller than its fee.
StepsForAnyAmount(from, to, amount, fee, is_quote) ==
  <<[kind |-> "withdraw", from |-> from, to |-> to, amount |-> amount]>>

\* The steps `plan_executable` makes of one pair: a sell and a buy between
\* exchanges, a withdrawal to or from the wallet, nothing otherwise.
StepsFor(from, to, amount, fee, is_quote) ==
  CASE IsCex(from) /\ IsCex(to) /\ ~is_quote ->
         <<[kind |-> "sell", from |-> from, to |-> from, amount |-> amount],
           [kind |-> "buy", from |-> to, to |-> to, amount |-> amount]>>
    [] IsCex(from) # IsCex(to) /\ amount > fee ->
         <<[kind |-> "withdraw", from |-> from, to |-> to, amount |-> amount]>>
    [] OTHER -> <<>>

\* `plan_executable` for an asset whose withdrawal fee is known.
PlanExecutable(venues, holding, threshold, min_balance, fee, is_quote) ==
  LET rounds == Len(venues) * Len(venues)
      planned[k \in 0..rounds] ==
        IF k = 0 THEN PlanStart(venues, holding, min_balance)
        ELSE LET pair == VenuePair(venues, k)
             IN Visit(planned[k - 1], venues, holding, pair,
                      StepsFor(pair[1], pair[2], Movable(planned[k - 1], pair[1], pair[2]), fee, is_quote))
  IN IF ~Deviates(venues, holding, threshold) \/ HoldingTotal(venues, holding) <= 0 THEN <<>>
     ELSE planned[rounds].steps

\* `estimate_cost`: the fees of the transfers whose asset has a price, and the
\* slowest of those.
EstimateCost(plans, prices) ==
  LET priced == SelectSeq(plans, LAMBDA p : p.asset \in DOMAIN prices)
  IN [transfers |-> Len(plans),
      fees_usd |-> Fold(LAMBDA acc, p : acc + p.fee * prices[p.asset], 0, priced),
      minutes |-> Fold(LAMBDA acc, p : IF p.minutes > acc THEN p.minutes ELSE acc, 0, priced),
      assets |-> {plans[i].asset : i \in DOMAIN plans}]

\* `snapshot`: what each asset totals over the venues, and what the priced ones are worth.
Portfolio(inv, prices) ==
  LET assets == UNION {DOMAIN inv[v] : v \in DOMAIN inv}
      total(a) == FoldSet(LAMBDA v, acc : acc + Tracked(inv[v], a), 0, DOMAIN inv)
  IN [totals |-> [a \in assets |-> total(a)],
      usd |-> FoldSet(LAMBDA a, acc : acc + prices[a] * total(a), 0, assets \cap DOMAIN prices)]
=============================================================================
