--------------------------- MODULE ExchangeTrials ---------------------------
(* Trials of the exchange clients: orders cut to the symbol's filters, the   *)
(* answers they are read from, and the rate limiter's buckets.               *)
EXTENDS ExchangeApi, RebalanceOps, Trials

Asked(c) == trial.call = c

Missing == Err("missing")
Garbage == Err("garbage")

----------------------------------------------------------------------------
(* Orders *)

Fields(a, b, c) == <<a, b, c>>
FilterSets ==
  {<<[type |-> "LOT_SIZE", fields |-> Fields(Ok(lot[1]), Ok(lot[2]), Ok(lot[3]))],
     [type |-> "PRICE_FILTER", fields |-> Fields(Ok(tick[1]), Ok(tick[2]), Ok(tick[3]))],
     [type |-> notional[1], fields |-> notional[2]]>> :
     lot \in {<<0, 0, 0>>, <<3, 0, 3>>, <<2, 5, 1>>, <<6, 9, 3>>}, tick \in {<<0, 0, 0>>, <<2, 8, 2>>, <<4, 0, 4>>},
     notional \in {<<"NOTIONAL", Fields(Missing, Ok(12), Missing)>>,
                   <<"MIN_NOTIONAL", Fields(Ok(20), Missing, Missing)>>,
                   <<"PERCENT", Fields(Missing, Missing, Missing)>>}}
  \cup {<<[type |-> "LOT_SIZE", fields |-> Fields(Garbage, Ok(5), Ok(1))]>>, <<>>}
StaleFilters == [NoFilters EXCEPT !.step = 2, !.tick = 3]

OrderKeys == {"orderId", "symbol", "side", "type", "timeInForce"}
Paid(commission, asset) == [commission |-> commission, asset |-> asset]
FillLists ==
  {<<>>, <<Paid(Ok(2), "BNB")>>, <<Paid(Ok(2), "BNB"), Paid(Ok(3), "BNB")>>,
   <<Paid(Ok(2), "BNB"), Paid(Ok(3), "LINK")>>, <<Paid(Garbage, "BNB"), Paid(Ok(3), "BNB")>>}
Response(code, named, filled, quote, fills) ==
  [code |-> code, named |-> named, orig |-> Ok(4), executed |-> filled, quote |-> quote, fills |-> fills,
   status |-> "EXPIRED"]
Whole == Response(0, OrderKeys, Ok(4), Ok(40), <<>>)

TryIocOrder ==
  \E filters \in FilterSets, cached \in BOOLEAN, code \in {0, -1121}, listed \in BOOLEAN, amount \in 0..10,
     price \in 0..9 :
    LET cache == [s \in (IF cached THEN {"LINK"} ELSE {}) |-> StaleFilters]
        info == [filters |-> filters, code |-> code, listed |-> listed]
    IN Record([call |-> "ioc", filters |-> filters, cached |-> cached, amount |-> amount, price |-> price,
               out |-> CreateIocOrder(cache, "LINK", amount, price, info, Whole)])

\* The exchange's own books: what the order did, in the answer some field of
\* which may be lost; a refused order's answer names nothing.
TryOrderAnswer ==
  \E exchange \in {"binance", "bybit"}, op \in {"create", "status", "cancel"}, filled \in 0..4, fills \in FillLists,
     lost \in {"none", "executed", "quote", "orderId"}, code \in {0, -1015, -2010, -1121, -1013, -1003},
     limit \in {10, 11} :
    LET named == IF code < 0 THEN {} ELSE OrderKeys \ {lost}
        resp == Response(code, named, IF lost = "executed" THEN Garbage ELSE Ok(filled),
                         IF lost = "quote" THEN Garbage ELSE Ok(10 * filled), fills)
        order == [filled |-> resp.executed, qty |-> Ok(4), price |-> Ok(limit), status |-> "Filled"]
        bybit == IF code < 0 THEN Ok(110007) ELSE Ok(0)
    IN Record([call |-> "answer", exchange |-> exchange, op |-> op, filled |-> filled, fills |-> fills, lost |-> lost,
               code |-> code, limit |-> limit,
               res |-> CASE exchange = "binance" /\ op = "create" -> CreateOrder(4, limit, resp).res
                         [] exchange = "binance" /\ op # "create" -> Answered(resp)
                         [] exchange = "bybit" /\ op = "create" -> BybitOrder(4, bybit)
                         [] exchange = "bybit" /\ op = "cancel" -> BybitCancel(bybit)
                         [] OTHER -> BybitStatus(bybit, <<order>>)])

----------------------------------------------------------------------------
(* Market data and account *)

RawLevel(p, q) == [p |-> p, q |-> q]
RawSides == UNION {[1..n -> {RawLevel(Ok(p), Ok(1)) : p \in 1..3} \cup {RawLevel(Garbage, Ok(1))}] : n \in 0..3}

TryBookAnswer ==
  \E exchange \in {"binance", "bybit"}, bids \in RawSides, asks \in RawSides :
    Record([call |-> "book_answer", bids |-> bids, asks |-> asks,
            res |-> IF exchange = "binance" THEN FetchOrderBook(0, bids, asks) ELSE BybitOrderBook(Ok(0), bids, asks)])

Holding(a, free, locked) == [asset |-> a, free |-> free, locked |-> locked]
Holdings ==
  {Holding(a, free, locked) : a \in {"LINK", "USDC"}, free \in {Ok(0), Ok(3), Garbage}, locked \in {Ok(0), Ok(1)}}

TryBalances ==
  \E entries \in UNION {[1..n -> Holdings] : n \in 0..3}, exchange \in {"binance", "bybit"}, empty \in BOOLEAN :
    LET accounts == (IF empty THEN <<Missing>> ELSE <<>>) \o [i \in DOMAIN entries |-> Ok(<<entries[i]>>)]
    IN Record([call |-> "balances", entries |-> entries,
               res |-> IF exchange = "binance" THEN ParseBalances(entries) ELSE BybitBalances(accounts)])

Trades2 == {[id |-> id, price |-> Ok(10), qty |-> qty, fee |-> Ok(1)] : id \in {Ok("1"), Missing}, qty \in {Ok(2), Garbage}}

TryAccountLists ==
  \E exchange \in {"binance", "bybit"}, trades \in UNION {[1..n -> Trades2] : n \in 0..2}, maker \in {Ok(-2), Ok(1), Garbage},
     entries \in 0..1 :
    LET rates == [i \in 1..entries |-> [maker |-> maker, taker |-> Ok(3)]]
    IN Record([call |-> "lists", exchange |-> exchange, trades |-> trades,
               got |-> IF exchange = "binance" THEN MyTrades(trades) ELSE BybitTrades(trades),
               fees |-> IF exchange = "binance" THEN TradingFees(rates) ELSE BybitFees(rates)])

----------------------------------------------------------------------------
(* Transfers *)

TryCapability ==
  \E exchange \in {"binance", "bybit"}, enabled \in {Ok(TRUE), Ok(FALSE), Missing}, fee \in {Ok(2), Ok(1), Garbage},
     min \in {Ok(3), Ok(9), Missing}, listed \in BOOLEAN, amount \in {4, 10}, asset \in {"LINK", "WETH"} :
    LET raw == [n \in {"ARBITRUM"} |-> [enabled |-> enabled, fee |-> fee, min |-> min]]
        coins == ParseCapitalConfig([c \in {"LINK", "ETH"} |-> IF listed THEN Ok(raw) ELSE Missing])
        allowed == Dispatch(exchange, "fetch_capital_config")
    IN Record([call |-> "capability", exchange |-> exchange, amount |-> amount, raw |-> raw["ARBITRUM"],
               res |-> IF ~allowed.ok THEN allowed ELSE IF ~coins.ok THEN coins
                       ELSE WithdrawalCapability(coins.val, [asset |-> asset, amount |-> amount, fee |-> 1],
                                                 amount - 1, "ARBITRUM")])

RawRecord(id, order_id, status) ==
  [id |-> id, order_id |-> order_id, tx |-> id, amount |-> Ok(3), status |-> status]
Histories ==
  {Err("history"), Ok(<<>>)} \cup
  {Ok(<<RawRecord(Ok("other"), Missing, Ok(6)), RawRecord(id, Ok("w1"), status)>>) :
     id \in {Ok("w1"), Missing}, status \in {Missing, Ok(0), Ok(1), Ok(2), Ok(5), Ok(6)}}

TryTransfer ==
  \E kind \in {"withdrawal", "deposit"}, polls \in [1..2 -> Histories], answered \in {Ok("w1"), Missing}, code \in {0, -1003} :
    LET id == WithdrawToAddress([code |-> code, id |-> answered])
        parsed == [i \in DOMAIN polls |->
                     IF ~polls[i].ok THEN polls[i]
                     ELSE Ok(IF kind = "withdrawal" THEN ParseWithdrawals(polls[i].val) ELSE ParseDeposits(polls[i].val))]
    IN Record([call |-> "transfer", kind |-> kind, polls |-> polls, answered |-> answered, code |-> code,
               res |-> IF kind = "withdrawal" /\ ~id.ok THEN id ELSE WaitForRecord(kind, "w1", parsed)])

----------------------------------------------------------------------------
(* Rate limits *)

Windows == [k \in {"weight_minute", "orders_second"} |-> IF k = "weight_minute" THEN 4 ELSE 1]
Operations ==
  {[op |-> "acquire", key |-> k, weight |-> w] : k \in DOMAIN Windows, w \in {5, 30}}
  \cup {[op |-> "used", key |-> "weight_minute", weight |-> w] : w \in {0, 50}}
  \cup {[op |-> "limit", key |-> "orders_second", weight |-> w] : w \in {0, 10}}
  \cup {[op |-> "429", key |-> "weight_minute", weight |-> 0], [op |-> "info", key |-> "orders_second", weight |-> 7]}

\* One call on the limiter after `wait` seconds; `spent` is what was granted to
\* each bucket since it last started over, or was overwritten.
Limited(acc, call) ==
  LET now == acc.now + call.wait
      k == call.key
      got == TryAcquireFor(acc.buckets, k, call.weight, Windows, now)
      buckets == CASE call.op = "acquire" -> got.buckets
                   [] call.op = "used" -> UpdateUsed(acc.buckets, k, UsedWeight(Ok(60), Ok(60 - call.weight), Missing).val,
                                                     Windows, now)
                   [] call.op = "limit" -> UpdateLimit(acc.buckets, k, call.weight, now)
                   [] call.op = "info" -> FetchRateLimits(acc.buckets, <<[key |-> k, limit |-> call.weight],
                                                          [key |-> "unknown", limit |-> 9]>>, DOMAIN Windows, now)
                   [] OTHER -> ResetAfter429(acc.buckets, now)
      since == [b \in DOMAIN Windows |->
                  IF \/ call.op = "429" \/ (call.op = "info" /\ b = k)
                     \/ b \notin DOMAIN acc.buckets
                     \/ (call.op \in {"acquire", "used"} /\ b = k /\ now - acc.since[b].at >= Windows[b])
                  THEN [acc.since[b] EXCEPT !.at = now, !.spent = 0] ELSE acc.since[b]]
      granted == IF call.op = "acquire" /\ got.granted THEN call.weight ELSE 0
  IN [now |-> now, buckets |-> buckets,
      since |-> [b \in DOMAIN Windows |->
                   IF b # k THEN since[b]
                   ELSE IF call.op = "used" THEN [since[b] EXCEPT !.spent = call.weight]
                   ELSE [since[b] EXCEPT
                           !.spent = @ + granted,
                           !.over = @ \/ (granted > 0 /\ 10 * (since[b].spent + granted) > 9 * buckets[b].max)]]]

TryLimits ==
  \E ops \in [1..3 -> Operations], waits \in [1..3 -> {0, 2}] :
    Record([call |-> "limits", ops |-> ops,
            out |-> Fold(Limited, [now |-> 0, buckets |-> RegisterBucket(<<>>, "weight_minute", DEFAULT_MAX_WEIGHT, 0),
                                       since |-> [b \in DOMAIN Windows |-> [at |-> 0, spent |-> 0, over |-> FALSE]]],
                             [i \in 1..3 |-> [op |-> ops[i].op, key |-> ops[i].key, weight |-> ops[i].weight,
                                              wait |-> waits[i]]])])

ExchangeNext ==
  /\ trial = Idle
  /\ \/ TryIocOrder \/ TryOrderAnswer \/ TryBookAnswer \/ TryBalances \/ TryAccountLists
     \/ TryCapability \/ TryTransfer \/ TryLimits
----------------------------------------------------------------------------
(* Properties *)

\* The exchange's reading of its filters.
Accepts(q, p, filters) ==
  \A i \in DOMAIN filters :
    LET f == [j \in 1..3 |-> Value(filters[i].fields[j], 0)]
        fits(x) == x >= f[1] /\ (f[2] = 0 \/ x <= f[2]) /\ (f[3] = 0 \/ (x - f[1]) % f[3] = 0)
    IN CASE filters[i].type = "LOT_SIZE" -> fits(q)
         [] filters[i].type = "PRICE_FILTER" -> fits(p)
         [] filters[i].type \in {"NOTIONAL", "MIN_NOTIONAL"} -> q * p >= OrZero(f[1], f[2])
         [] OTHER -> TRUE

\* An IOC order that is sent asks for no more and at no higher a price than the
\* caller wanted, and the exchange's filters take it, unless they changed after
\* they were cached; one that is held back could not have been cut down to
\* anything they take, unless it exceeds a maximum (client.rs
\* `create_limit_ioc_order`, `normalize_limit_order`).
NormalizedIsAccepted ==
  Asked("ioc") =>
    LET rule(type, j) == {Value(trial.filters[i].fields[j], 0) :
                            i \in {n \in DOMAIN trial.filters : trial.filters[n].type = type}} \ {0}
        above == \/ \E m \in rule("LOT_SIZE", 2) : trial.amount > m
                 \/ \E m \in rule("PRICE_FILTER", 2) : trial.price > m
    IN /\ \A i \in DOMAIN trial.out.sent :
            /\ trial.out.sent[i].qty \in 1..trial.amount /\ trial.out.sent[i].price \in 1..trial.price
            /\ ~trial.cached => Accepts(trial.out.sent[i].qty, trial.out.sent[i].price, trial.filters)
       /\ ~trial.cached /\ ~above /\ ~trial.out.res.ok /\ trial.out.res.err \in {"zero", "quantity", "price", "notional"} =>
            \A q \in 1..trial.amount, p \in 1..trial.price : ~Accepts(q, p, trial.filters)

\* What the client says of an order is what the exchange did with it: amounts
\* exactly, the fee when its fills were charged in one asset, and never a fill
\* for a refusal.  Bybit's client knows fills only from the order status, at
\* the order's own limit price (client.rs `parse_order_result`, bybit.rs
\* `create_limit_order`, `fetch_order_status`).
OrderReportIsFaithful ==
  Asked("answer") /\ trial.res.ok =>
    LET r == trial.res.val
        sum == Fold(LAMBDA acc, f : acc + f.commission.val, 0, trial.fills)
        plain == \A i \in DOMAIN trial.fills : trial.fills[i].commission.ok /\ trial.fills[i].asset = trial.fills[1].asset
    IN /\ trial.code = 0
       /\ trial.exchange = "binance" =>
            /\ r.filled = trial.filled /\ r.quote = 10 * trial.filled
            /\ plain /\ trial.fills # <<>> => r.fee = sum /\ r.fee_asset = trial.fills[1].asset
       /\ trial.exchange = "bybit" =>
            /\ r.filled \in {0, trial.filled} /\ r.quote = trial.limit * r.filled
            /\ trial.op = "status" /\ trial.lost # "executed" => r.filled = trial.filled

\* The first bid and the first ask are the best of the listed ones in whatever
\* order they came, and mid price and spread are theirs (client.rs and
\* bybit.rs `fetch_order_book`).
BestIsBest ==
  Asked("book_answer") /\ trial.res.ok =>
    LET book == trial.res.val
        prices(side) == {side[i].p.val : i \in DOMAIN side}
    IN /\ Len(book.bids) = Len(trial.bids) /\ Len(book.asks) = Len(trial.asks)
       /\ \A p \in prices(trial.bids) : p <= Head(book.bids).p
       /\ \A p \in prices(trial.asks) : p >= Head(book.asks).p
       /\ book.mid2.ok = (trial.bids # <<>> /\ trial.asks # <<>>)
       /\ book.spread_bps.ok /\ book.spread_bps.val > 0 => prices(trial.bids) \cap prices(trial.asks) = {}

\* A balance, trade or fee answer is read whole or not at all: every asset that
\* holds something is there with its last listed amounts, and nothing is
\* dropped because it would not parse (`fetch_balance`, `fetch_my_trades`,
\* `get_trading_fees` of client.rs and bybit.rs).
AccountReadIsWhole ==
  /\ Asked("balances") /\ trial.res.ok =>
       \A i \in DOMAIN trial.entries :
         LET e == trial.entries[i]
             last == \A j \in DOMAIN trial.entries : j > i => trial.entries[j].asset # e.asset
         IN /\ e.free.ok
            /\ last /\ e.free.val + e.locked.val > 0 =>
                 trial.res.val[e.asset] = [free |-> e.free.val, locked |-> e.locked.val]
  /\ Asked("lists") => /\ trial.got.ok => Len(trial.got.val) = Len(trial.trades)
                       /\ trial.exchange = "bybit" /\ trial.fees.ok => trial.fees.val.maker >= 0

\* A withdrawal is only judged possible when the exchange itself said so: it
\* named the network, called it open, and any minimum and fee it gave are
\* respected (client.rs `parse_capital_config`, arb_bot.rs
\* `validate_binance_withdrawal_capability`).
WithdrawalWasAllowed ==
  Asked("capability") /\ trial.res.ok =>
    /\ trial.exchange = "binance" /\ trial.raw.enabled = Ok(TRUE)
    /\ trial.raw.min.ok => trial.amount - 1 >= trial.raw.min.val
    /\ trial.raw.fee.ok => trial.raw.fee.val <= 1

\* A transfer is reported complete only when the exchange's history said so of
\* that transfer, and failed only when it said that; running out of polls means
\* no poll had shown either (arb_bot.rs `wait_for_binance_withdrawal`,
\* `wait_for_binance_deposit`).
TransferOutcomeIsReported ==
  Asked("transfer") =>
    LET named(r) == r.id = Ok("w1") \/ (trial.kind = "withdrawal" /\ ~r.id.ok /\ r.order_id = Ok("w1"))
        shown(statuses) == \E i \in DOMAIN trial.polls :
                             /\ trial.polls[i].ok
                             /\ \E j \in DOMAIN trial.polls[i].val :
                                  LET r == trial.polls[i].val[j]
                                  IN named(r) /\ r.status.ok /\ r.status.val \in statuses
    IN /\ trial.res.ok => shown(IF trial.kind = "withdrawal" THEN {6} ELSE {1, 6})
       /\ ~trial.res.ok /\ trial.res.err = "failed" => shown(IF trial.kind = "withdrawal" THEN {1, 3, 5} ELSE {2})
       /\ ~trial.res.ok /\ trial.res.err = "timeout" => ~shown({1, 6})

\* Whatever is asked of the limiter, each bucket has counted exactly the weight
\* it granted since its window, a 429 or a registration started it over, or the
\* exchange's own count replaced it, and no grant went above nine tenths of the
\* limit then known (rate_limiter.rs `RateLimiter`).
BudgetPerWindow ==
  Asked("limits") =>
    \A b \in DOMAIN trial.out.buckets :
      /\ trial.out.buckets[b].used = trial.out.since[b].spent
      /\ trial.out.buckets[b].start = trial.out.since[b].at
      /\ ~trial.out.since[b].over

\* Orders are sent as the filters take them, answers are read as they are, and a
\* bucket counts what it granted (client.rs, bybit.rs, rate_limiter.rs).
AnswersAreFaithful ==
  /\ NormalizedIsAccepted
  /\ OrderReportIsFaithful
  /\ BestIsBest
  /\ AccountReadIsWhole
  /\ WithdrawalWasAllowed
  /\ TransferOutcomeIsReported
  /\ BudgetPerWindow
=============================================================================
