---------------------------- MODULE ExchangeApi ----------------------------
(***************************************************************************)
(* What the exchange clients send and what they make of the answers: the   *)
(* Binance client and the dispatch over the two exchanges                  *)
(* (src/exchange/client.rs), the Bybit adapter (src/exchange/bybit.rs) and *)
(* the rate limiter's buckets (src/exchange/rate_limiter.rs).              *)
(*                                                                         *)
(* A field of an answer is Ok(value), Err("missing") or Err("garbage") when*)
(* it does not parse; an optional limit that is absent is 0, as no limit of*)
(* 0 is ever kept.  Decimals are integers.                                 *)
(***************************************************************************)
EXTENDS Results, FiniteSets, TLC

Value(field, default) == IF field.ok THEN field.val ELSE default

\* `parse_decimal`: a field that is missing or no number.
ParseDecimal(field) == IF field.ok THEN field ELSE Err("DecimalParse")

----------------------------------------------------------------------------
(* Symbol filters *)

NoFilters == [min_qty |-> 0, max_qty |-> 0, step |-> 0, min_price |-> 0, max_price |-> 0, tick |-> 0,
              min_notional |-> 0]

\* `decimal_filter`.
DecimalFilter(field) ==
  IF field.ok THEN Ok(IF field.val > 0 THEN field.val ELSE 0)
  ELSE IF field.err = "missing" THEN Ok(0) ELSE Err("DecimalParse")

OrZero(a, b) == IF a > 0 THEN a ELSE b

\* One filter of `parse_symbol_filters`; its three fields in their order, for a
\* notional filter minNotional, then notional.
ApplyFilter(acc, f) ==
  LET got == Collect([i \in 1..3 |-> DecimalFilter(f.fields[i])])
  IN IF ~acc.ok THEN acc
     ELSE IF f.type \notin {"LOT_SIZE", "PRICE_FILTER", "MIN_NOTIONAL", "NOTIONAL"} THEN acc
     ELSE IF ~got.ok THEN got
     ELSE CASE f.type = "LOT_SIZE" ->
                 Ok([acc.val EXCEPT !.min_qty = got.val[1], !.max_qty = got.val[2], !.step = got.val[3]])
            [] f.type = "PRICE_FILTER" ->
                 Ok([acc.val EXCEPT !.min_price = got.val[1], !.max_price = got.val[2], !.tick = got.val[3]])
            [] OTHER ->
                 Ok([acc.val EXCEPT !.min_notional = OrZero(OrZero(got.val[1], got.val[2]), @)])

ParseSymbolFilters(filters) == Fold(ApplyFilter, Ok(NoFilters), filters)

FloorToStep(value, step) == IF step <= 0 THEN value ELSE (value \div step) * step

\* Mutant: the price is rounded to the nearest tick.
NormalizeLimitOrderNearest(amount, price, f) ==
  LET qty == FloorToStep(amount, f.step)
      p == FloorToStep(price + f.tick \div 2, f.tick)
  IN IF qty <= 0 \/ p <= 0 THEN Err("zero")
     ELSE IF qty < f.min_qty \/ (f.max_qty > 0 /\ qty > f.max_qty) THEN Err("quantity")
     ELSE IF p < f.min_price \/ (f.max_price > 0 /\ p > f.max_price) THEN Err("price")
     ELSE IF qty * p < f.min_notional THEN Err("notional")
     ELSE Ok([qty |-> qty, price |-> p])

\* `normalize_limit_order`: quantity and price are both cut down to their step.
NormalizeLimitOrder(amount, price, f) ==
  LET qty == FloorToStep(amount, f.step)
      p == FloorToStep(price, f.tick)
  IN IF qty <= 0 \/ p <= 0 THEN Err("zero")
     ELSE IF qty < f.min_qty \/ (f.max_qty > 0 /\ qty > f.max_qty) THEN Err("quantity")
     ELSE IF p < f.min_price \/ (f.max_price > 0 /\ p > f.max_price) THEN Err("price")
     ELSE IF qty * p < f.min_notional THEN Err("notional")
     ELSE Ok([qty |-> qty, price |-> p])

----------------------------------------------------------------------------
(* Answers *)

\* `check_api_error`.
CheckApiError(code) ==
  CASE code >= 0 -> Ok("clean")
    [] code = -1015 -> Err("RateLimit")
    [] code = -2010 -> Err("InsufficientFunds")
    [] code \in {-1121, -1013} -> Err("InvalidSymbol")
    [] OTHER -> Err("Api")

\* Mutant: each fill's commission replaces the one before.
FillFeeLast(fills) ==
  LET read == SelectSeq(fills, LAMBDA f : f.commission.ok)
  IN [fee |-> IF read = <<>> THEN 0 ELSE read[Len(read)].commission.val,
      asset |-> IF fills = <<>> THEN "" ELSE Head(fills).asset]

\* The commissions that can be read, added up under the first fill's asset.
FillFee(fills) ==
  LET read == SelectSeq(fills, LAMBDA f : f.commission.ok)
  IN [fee |-> Fold(LAMBDA acc, f : acc + f.commission.val, 0, read),
      asset |-> IF fills = <<>> THEN "" ELSE Head(fills).asset]

\* `parse_order_result`; `named` holds the texts the answer must carry.  The
\* quote amount is only looked at when something filled.
ParseOrderResult(resp) ==
  LET fee == FillFee(resp.fills)
  IN IF ~({"orderId", "symbol", "side", "type", "timeInForce"} \subseteq resp.named) THEN Err("JsonParse")
     ELSE IF ~resp.orig.ok \/ ~resp.executed.ok THEN Err("DecimalParse")
     ELSE IF resp.executed.val > 0 /\ ~resp.quote.ok THEN Err("DecimalParse")
     ELSE Ok([requested |-> resp.orig.val, filled |-> resp.executed.val,
              quote |-> IF resp.executed.val > 0 THEN resp.quote.val ELSE 0,
              fee |-> fee.fee, fee_asset |-> fee.asset, status |-> resp.status])

Answered(resp) == LET clean == CheckApiError(resp.code) IN IF clean.ok THEN ParseOrderResult(resp) ELSE clean

\* `create_limit_gtc_order`, `create_market_order`: sent as it was asked.
CreateOrder(amount, price, resp) ==
  [sent |-> <<[qty |-> amount, price |-> price]>>, res |-> Answered(resp)]

\* `fetch_symbol_filters`: once read, a symbol's filters are never read again.
FetchSymbolFilters(cache, symbol, info) ==
  LET parsed == ParseSymbolFilters(info.filters)
      clean == CheckApiError(info.code)
      res == IF symbol \in DOMAIN cache THEN Ok(cache[symbol])
             ELSE IF ~clean.ok THEN clean
             ELSE IF ~info.listed THEN Err("InvalidSymbol")
             ELSE parsed
  IN [res |-> res,
      cache |-> IF res.ok THEN [s \in DOMAIN cache \cup {symbol} |-> IF s = symbol THEN res.val ELSE cache[s]]
                ELSE cache]

\* `create_limit_ioc_order`: nothing is sent when the order does not fit the filters.
CreateIocOrder(cache, symbol, amount, price, info, resp) ==
  LET got == FetchSymbolFilters(cache, symbol, info)
      order == NormalizeLimitOrder(amount, price, got.res.val)
  IN IF ~got.res.ok THEN [cache |-> got.cache, sent |-> <<>>, res |-> got.res]
     ELSE IF ~order.ok THEN [cache |-> got.cache, sent |-> <<>>, res |-> order]
     ELSE [cache |-> got.cache, sent |-> <<order.val>>, res |-> Answered(resp)]

ParseLevels(raw) ==
  Collect([i \in DOMAIN raw |->
             IF raw[i].p.ok /\ raw[i].q.ok THEN Ok([p |-> raw[i].p.val, q |-> raw[i].q.val])
             ELSE Err("DecimalParse")])

\* Mutant: the levels are taken in the order the exchange lists them.
SortedAsListed(bids, asks) == [bids |-> bids, asks |-> asks]

Sorted(bids, asks) ==
  [bids |-> SortSeq(bids, LAMBDA x, y : x.p > y.p), asks |-> SortSeq(asks, LAMBDA x, y : x.p < y.p)]

\* Sorted levels, one bad level failing them all; twice the mid price and the
\* spread exist when both sides do.
ParseOrderBook(bids, asks) ==
  LET b == ParseLevels(bids)
      a == ParseLevels(asks)
      book == Sorted(b.val, a.val)
      both == b.val # <<>> /\ a.val # <<>>
      bid == Head(book.bids).p
      ask == Head(book.asks).p
  IN IF ~b.ok THEN b ELSE IF ~a.ok THEN a
     ELSE Ok([bids |-> book.bids, asks |-> book.asks,
              mid2 |-> IF both THEN Ok(bid + ask) ELSE Err("none"),
              spread_bps |-> IF both /\ bid + ask # 0 THEN Ok((2 * (ask - bid) * BPS_SCALE) \div (bid + ask))
                             ELSE Err("none")])

\* `fetch_order_book`.
FetchOrderBook(code, bids, asks) ==
  LET clean == CheckApiError(code) IN IF clean.ok THEN ParseOrderBook(bids, asks) ELSE clean

DepthWeight(limit) ==
  CASE limit <= 100 -> 1 [] limit \in 101..500 -> 5 [] limit \in 501..1000 -> 10 [] OTHER -> 50

\* Mutant: an entry that does not parse is skipped.
ParseBalancesSkipping(entries) ==
  LET read == SelectSeq(entries, LAMBDA e : e.free.ok /\ e.locked.ok /\ e.free.val + e.locked.val > 0)
  IN Ok([a \in {read[i].asset : i \in DOMAIN read} |->
           LET of == SelectSeq(read, LAMBDA r : r.asset = a)
               e == of[Len(of)]
           IN [free |-> e.free.val, locked |-> e.locked.val]])

\* `fetch_balance`: assets that hold something; one bad entry fails them all,
\* and a later entry of the same asset replaces an earlier one.
ParseBalances(entries) ==
  LET held == SelectSeq(entries, LAMBDA e : e.free.val + e.locked.val > 0)
  IN IF \E i \in DOMAIN entries : ~entries[i].free.ok \/ ~entries[i].locked.ok THEN Err("DecimalParse")
     ELSE Ok([a \in {held[i].asset : i \in DOMAIN held} |->
                LET of == SelectSeq(held, LAMBDA r : r.asset = a)
                    e == of[Len(of)]
                IN [free |-> e.free.val, locked |-> e.locked.val]])

\* `get_trading_fees`: the first entry.
TradingFees(entries) ==
  IF entries = <<>> THEN Err("Api")
  ELSE IF ~Head(entries).maker.ok \/ ~Head(entries).taker.ok THEN Err("DecimalParse")
  ELSE Ok([maker |-> Head(entries).maker.val, taker |-> Head(entries).taker.val])

TradeEntry(t) ==
  IF ~t.price.ok \/ ~t.qty.ok \/ ~t.fee.ok THEN Err("DecimalParse")
  ELSE Ok([order |-> Value(t.id, ""), price |-> t.price.val, qty |-> t.qty.val, fee |-> t.fee.val])

\* `fetch_my_trades`: one trade without its ids or a number fails the list.
MyTrades(trades) ==
  Collect([i \in DOMAIN trades |-> IF ~trades[i].id.ok THEN Err("JsonParse") ELSE TradeEntry(trades[i])])

\* `withdraw_to_address`: an accepted withdrawal without an id is an error.
WithdrawToAddress(resp) ==
  LET clean == CheckApiError(resp.code)
  IN IF ~clean.ok THEN clean ELSE IF ~resp.id.ok THEN Err("JsonParse") ELSE resp.id

\* `parse_withdrawal_records`, `parse_deposit_records`: only withdrawals have a
\* second name for their id; a missing status is -1.
ParseWithdrawals(items) ==
  [i \in DOMAIN items |-> [key |-> Value(items[i].id, Value(items[i].order_id, "")),
                           amount |-> Value(items[i].amount, 0), status |-> Value(items[i].status, -1)]]

ParseDeposits(items) ==
  [i \in DOMAIN items |-> [key |-> Value(items[i].tx, ""), amount |-> Value(items[i].amount, 0),
                           status |-> Value(items[i].status, -1)]]

\* `completed`, `credited` and `failed` of the records.
Done(kind) == IF kind = "withdrawal" THEN {6} ELSE {1, 6}
Failed(kind) == IF kind = "withdrawal" THEN {1, 3, 5} ELSE {2}

\* Mutant: a record that is no longer pending is taken for a completed one.
WaitForRecordSettled(kind, key, polls) ==
  Fold(LAMBDA acc, poll :
             LET found == SelectSeq(poll.val, LAMBDA r : r.key = key)
             IN IF acc.ok \/ acc.err # "timeout" THEN acc
                ELSE IF ~poll.ok THEN Err("history")
                ELSE IF found # <<>> /\ Head(found).status \in Done(kind) \cup Failed(kind) THEN Ok(Head(found))
                ELSE acc,
           Err("timeout"), polls)

\* `wait_for_binance_withdrawal`, `wait_for_binance_deposit`: one result of the
\* history per poll until the deadline; a poll that fails ends the wait.
WaitForRecord(kind, key, polls) ==
  Fold(LAMBDA acc, poll :
             LET found == SelectSeq(poll.val, LAMBDA r : r.key = key)
             IN IF acc.ok \/ acc.err # "timeout" THEN acc
                ELSE IF ~poll.ok THEN Err("history")
                ELSE IF found # <<>> /\ Head(found).status \in Done(kind) THEN Ok(Head(found))
                ELSE IF found # <<>> /\ Head(found).status \in Failed(kind) THEN Err("failed")
                ELSE acc,
           Err("timeout"), polls)

\* Mutant: a network that says nothing about withdrawals allows them.
ParseNetworkOpen(n) ==
  [enabled |-> Value(n.enabled, TRUE), fee |-> Value(n.fee, 0), min |-> Value(n.min, 0)]

\* A network of `parse_capital_config`: what is not said is off, or free.
ParseNetwork(n) ==
  [enabled |-> Value(n.enabled, FALSE), fee |-> Value(n.fee, 0), min |-> Value(n.min, 0)]

\* `parse_capital_config`: coins map to networks; a coin without a list fails.
ParseCapitalConfig(coins) ==
  IF \E c \in DOMAIN coins : ~coins[c].ok THEN Err("JsonParse")
  ELSE Ok([c \in DOMAIN coins |-> [n \in DOMAIN coins[c].val |-> ParseNetwork(coins[c].val[n])]])

----------------------------------------------------------------------------
(* Bybit, and the choice of the exchange *)

BinanceOnly == {"withdraw_to_address", "fetch_capital_config", "fetch_withdrawal_history",
                "fetch_deposit_history"}

\* The methods of `ExchangeClient`.
Dispatch(exchange, method) ==
  IF exchange = "bybit" /\ method \in BinanceOnly THEN Err("Config") ELSE Ok(exchange)

\* `check_api_error` of the adapter; a missing code is a success.
BybitCheck(code) ==
  CASE Value(code, 0) = 0 -> Ok("clean")
    [] code.val = 10001 -> Err("InvalidSymbol")
    [] code.val = 110007 -> Err("InsufficientFunds")
    [] code.val = 110001 -> Err("OrderRejected")
    [] OTHER -> Err("Api")

Unfilled(amount, status) ==
  [requested |-> amount, filled |-> 0, quote |-> 0, fee |-> 0, fee_asset |-> "", status |-> status]

\* `create_limit_order`, `create_market_order`: the answer says nothing of fills.
BybitOrder(amount, code) ==
  LET clean == BybitCheck(code) IN IF clean.ok THEN Ok(Unfilled(amount, "NEW")) ELSE clean

\* `cancel_order`.
BybitCancel(code) ==
  LET clean == BybitCheck(code) IN IF clean.ok THEN Ok(Unfilled(0, "CANCELLED")) ELSE clean

\* `fetch_order_status`: the order's own limit price passes for the fill price.
BybitStatus(code, found) ==
  LET clean == BybitCheck(code)
      order == Head(found)
      filled == Value(order.filled, 0)
  IN IF ~clean.ok THEN clean
     ELSE IF found = <<>> THEN Err("OrderRejected")
     ELSE Ok([requested |-> Value(order.qty, 0), filled |-> filled, quote |-> filled * Value(order.price, 0),
              fee |-> 0, fee_asset |-> "", status |-> order.status])

\* `fetch_balance`: accounts without coins are passed over.
BybitBalances(accounts) ==
  ParseBalances(Fold(LAMBDA acc, a : IF a.ok THEN acc \o a.val ELSE acc, <<>>, accounts))

\* `fetch_order_book`.
BybitOrderBook(code, bids, asks) ==
  LET clean == BybitCheck(code) IN IF clean.ok THEN ParseOrderBook(bids, asks) ELSE clean

\* `get_trading_fees`: without the sign.
BybitFees(entries) ==
  LET fees == TradingFees(entries)
      size(x) == IF x < 0 THEN -x ELSE x
  IN IF fees.ok THEN Ok([maker |-> size(fees.val.maker), taker |-> size(fees.val.taker)]) ELSE fees

\* `fetch_my_trades`: a trade may lack its ids.
BybitTrades(trades) == Collect([i \in DOMAIN trades |-> TradeEntry(trades[i])])

----------------------------------------------------------------------------
(* Rate-limit buckets *)

SAFETY_PCT == 90
DEFAULT_MAX_WEIGHT == 60

NewBucket(max, now) == [used |-> 0, start |-> now, max |-> max]

\* `ensure_bucket`.
EnsureBucket(buckets, key, now) ==
  IF key \in DOMAIN buckets THEN buckets
  ELSE [k \in DOMAIN buckets \cup {key} |-> IF k = key THEN NewBucket(DEFAULT_MAX_WEIGHT, now) ELSE buckets[k]]

\* `reset_if_expired`; `window` maps a key to its seconds.
Current(bucket, window, now) ==
  IF now - bucket.start >= window THEN [bucket EXCEPT !.used = 0, !.start = now] ELSE bucket

\* Mutant: the window that has run out is not started again.
TryAcquireForStuck(buckets, key, weight, window, now) ==
  LET b == EnsureBucket(buckets, key, now)[key]
      fits == b.used + weight <= (b.max * SAFETY_PCT) \div 100 \/ now - b.start >= window[key]
  IN [granted |-> fits,
      buckets |-> [EnsureBucket(buckets, key, now) EXCEPT
                     ![key] = IF fits /\ now - b.start >= window[key] THEN [b EXCEPT !.used = weight]
                              ELSE IF fits THEN [b EXCEPT !.used = @ + weight] ELSE b]]

\* `try_acquire_for`.
TryAcquireFor(buckets, key, weight, window, now) ==
  LET b == Current(EnsureBucket(buckets, key, now)[key], window[key], now)
      fits == b.used + weight <= (b.max * SAFETY_PCT) \div 100
  IN [granted |-> fits,
      buckets |-> [EnsureBucket(buckets, key, now) EXCEPT ![key] = IF fits THEN [b EXCEPT !.used = @ + weight] ELSE b]]

\* `update_used_weight_for`, `update_quota_from_limit_for`, `register_bucket`
\* and `reset_after_429`.
UpdateUsed(buckets, key, weight, window, now) ==
  LET all == EnsureBucket(buckets, key, now)
  IN [all EXCEPT ![key] = [Current(@, window[key], now) EXCEPT !.used = weight]]

UpdateLimit(buckets, key, limit, now) ==
  IF limit = 0 THEN EnsureBucket(buckets, key, now)
  ELSE [EnsureBucket(buckets, key, now) EXCEPT ![key].max = limit]

RegisterBucket(buckets, key, max, now) ==
  [k \in DOMAIN buckets \cup {key} |-> IF k = key THEN NewBucket(max, now) ELSE buckets[k]]

\* `fetch_rate_limits`: the limits whose type and interval are known.
FetchRateLimits(buckets, limits, known, now) ==
  Fold(LAMBDA acc, l : IF l.key \in known /\ l.limit > 0 THEN RegisterBucket(acc, l.key, l.limit, now) ELSE acc,
           buckets, limits)

\* The used weight a response reports: what its limit and remainder leave, or
\* Binance's own header.
UsedWeight(limit, remaining, mbx) ==
  IF limit.ok /\ remaining.ok THEN Ok(SatSub(limit.val, remaining.val)) ELSE mbx

ResetAfter429(buckets, now) ==
  [k \in DOMAIN buckets |-> [buckets[k] EXCEPT !.used = 0, !.start = now]]
=============================================================================
