---------------------------- MODULE AccountTrials ----------------------------
(* Trials of the accounting, the inventory, the rebalance steps and the      *)
(* one-shot arbitrage check.                                                 *)
EXTENDS Accounting, RebalanceOps, ArbCheck, Trials

At(c) == trial.call = c

----------------------------------------------------------------------------
(* Ledger *)

Fees3 == [cex |-> 10, dex |-> 30, gas |-> 2]
LegFill(price, size, fee, gas) ==
  [price |-> price, size |-> size, fee |-> fee, fee_asset |-> <<>>, gas_fee |-> gas]
UsdPrices == [a \in {"USDT", "ETH"} |-> IF a = "ETH" THEN <<3>> ELSE <<1>>]

TryLedger ==
  \E dir \in {"buy_cex", "buy_dex"}, first \in {"cex", "dex"}, cex \in {90, 100}, dex \in {95, 110},
     short \in {0, 20}, fee \in {0, 4}, gas \in {<<>>, <<5>>}, quote \in {"USDC", "WETH"} :
    LET c == LegFill(cex, IF first = "dex" THEN 100 - short ELSE 100, fee, <<>>)
        d == LegFill(dex, IF first = "cex" THEN 100 - short ELSE 100, 0, gas)
        start == [dir |-> dir, leg1_venue |-> first, leg1 |-> NoLeg, leg2 |-> NoLeg, gas_fee |-> <<>>,
                  signal |-> [size |-> 100, cex |-> 100, notional |-> 10000, expected_fees |-> 30,
                              quote |-> quote, hour |-> 1]]
        ctx == ApplyLegFill(ApplyLegFill(start, "leg1", IF first = "cex" THEN c ELSE d),
                            "leg2", IF first = "cex" THEN d ELSE c)
        pnl == CalcActualPnl(ctx, Fees3, UsdPrices)
    IN Record([call |-> "ledger", dir |-> dir, first |-> first, cex |-> c, dex |-> d, pnl |-> pnl,
               row |-> ArbRecord(ctx, pnl)])

Row(net, hour) ==
  [buy |-> [amount |-> 10, price |-> 100], net |-> net, fees |-> 2, gross |-> net + 2, hour |-> hour]

TrySummary ==
  \E rows \in UNION {[1..n -> {Row(net, h) : net \in {-30, 0, 50}, h \in {1, 2}}] : n \in 0..3}, n \in 0..3 :
    Record([call |-> "summary", rows |-> rows, sum |-> Summary(rows), n |-> n,
            recent |-> RecentTrades(rows, n)])

----------------------------------------------------------------------------
(* Inventory *)

MarkPrices == [a \in {"ETH", "WETH", "USDC"} |-> IF a = "USDC" THEN 1 ELSE 3]
TradeBooks ==
  {[a \in {"WETH", "USDC"} |-> IF a = "WETH" THEN Entry(4, 1, 0) ELSE Entry(20, 0, 0)],
   [a \in {"ETH", "WETH"} |-> IF a = "ETH" THEN Entry(2, 0, 0) ELSE Entry(3, 0, 1)],
   <<>>}

TryBookTrade ==
  \E venue \in {"wallet", "binance"}, side \in {"buy", "sell"}, book \in TradeBooks, amount \in 1..5,
     fee \in {0, 2}, base \in {"ETH", "WETH"}, paid \in {"USDC", "WETH"} :
    LET res == RecordTrade(venue, side, book, base, "USDC", amount, 3 * amount, fee, paid)
    IN Record([call |-> "book_trade", venue |-> venue, side |-> side, book |-> book, amount |-> amount,
               fee |-> fee, base |-> base, paid |-> paid, res |-> res,
               before |-> Portfolio([v \in {venue} |-> book], MarkPrices),
               after |-> Portfolio([v \in {venue} |-> res.book], MarkPrices)])

TrySync ==
  \E reserved \in {0, 1, 3}, held \in [{"WETH", "USDC", "LINK"} -> {0, 2, 5}],
     failed \in SUBSET {"WETH", "USDC"} :
    LET book == [a \in {"WETH", "USDC"} |-> Entry(4, 0, IF a = "WETH" THEN reserved ELSE 0)]
        fresh == FetchWallet(held, failed)
    IN Record([call |-> "sync", book |-> book, held |-> held, failed |-> failed,
               synced |-> UpdateFromWallet(book, fresh),
               found |-> VerifyBalances(UpdateFromWallet(book, fresh), fresh, 1)])

\* Two syncs with the exchange, each of which may leave assets out.
CexReports ==
  {[a \in names |-> [free |-> IF a = "ETH" THEN 3 ELSE 5, locked |-> 1]] : names \in SUBSET {"ETH", "WETH", "USDC"}}

TryCexSync ==
  \E chain \in {"arbitrum", "other"}, reserved \in {0, 2}, first, second \in CexReports :
    LET book == [a \in {"WETH", "USDC"} |-> Entry(4, 0, IF a = "WETH" THEN reserved ELSE 0)]
    IN \E once \in UpdateFromCex(book, first, chain) : \E synced \in UpdateFromCex(once, second, chain) :
         Record([call |-> "cex_sync", chain |-> chain, book |-> book, first |-> first, second |-> second,
                 synced |-> synced])

PlanVenues == <<"binance", "bybit", "wallet">>

TryPlan ==
  \E holding \in [{"binance", "bybit", "wallet"} -> {0, 3, 6, 12}], threshold \in {0, 20},
     min \in {0, 2}, fee \in {0, 2} :
    LET steps == Plan(PlanVenues, holding, threshold, min, fee, 1)
        plans == [i \in DOMAIN steps |-> [asset |-> "LINK", fee |-> fee, minutes |-> 10]]
    IN Record([call |-> "plan", holding |-> holding, threshold |-> threshold, min |-> min, fee |-> fee,
               steps |-> steps, cost |-> EstimateCost(plans, [a \in {"LINK"} |-> 20])])

----------------------------------------------------------------------------
(* Rebalance steps *)

OneBook == [pair |-> "p", bids |-> <<[p |-> 9, q |-> 2], [p |-> 5, q |-> 5]>>,
            asks |-> <<[p |-> 10, q |-> 2], [p |-> 20, q |-> 5]>>]
Answer(kind, filled, done) ==
  [kind |-> kind, filled |-> filled, price |-> 10, fee |-> 1, fee_asset |-> "", done |-> done]
OrderAnswers ==
  {Answer("filled", n, n) : n \in 0..4} \cup {Answer("rate_limit", 0, 0), Answer("no_funds", 0, 0)}
  \cup {Answer("error", 0, n) : n \in {0, 4}}
Trade(venue, side, amount) ==
  [kind |-> "trade", venue |-> venue, side |-> side, base |-> "LINK", quote |-> "USDC",
   amount |-> amount, max_slippage |-> 5000]
CexBook == [a \in {"LINK", "USDC"} |-> IF a = "LINK" THEN Entry(5, 0, 0) ELSE Entry(60, 0, 0)]
CexBooks == [v \in {"binance", "bybit"} |-> CexBook]
Fetched(ok) == IF ok THEN Ok(OneBook) ELSE Err("fetch")

TryRebalanceTrade ==
  \E side \in {"BUY", "SELL"}, amount \in {2, 4, 6}, order \in OrderAnswers, got \in BOOLEAN,
     venue \in {"binance", "bybit"} :
    LET trade == Trade(venue, side, amount)
    IN Record([call |-> "rebalance_trade", trade |-> trade, order |-> order,
               out |-> ExecuteRebalanceTrade(trade, CexBooks, [book |-> Fetched(got), order |-> order], 90)])

\* Bybit's client reports no fill, whatever filled.
BybitAnswers == {Answer("filled", 0, n) : n \in {0, 2}} \cup {Answer("error", 0, n) : n \in {0, 2}}

TryExecutePlan ==
  \E amount \in {2, 4}, on_binance \in OrderAnswers, on_bybit \in BybitAnswers, again \in BybitAnswers,
     retry \in {Answer("filled", 2, 2), Answer("error", 0, 0), Answer("error", 0, 2)}, got \in BOOLEAN,
     dry \in BOOLEAN, kind \in {"trade", "withdraw"}, bybit_first \in BOOLEAN :
    LET env(order, second) == [mid2 |-> IF got THEN Ok(19) ELSE Err("fetch"), book |-> Fetched(TRUE),
                               order |-> order, retry |-> second]
        config == [clients |-> {"binance", "bybit"}, max_usd |-> 100, dry_run |-> dry, min_fill_pct |-> 90]
        both == <<[Trade("binance", "SELL", amount) EXCEPT !.kind = kind], Trade("bybit", "BUY", amount)>>
        envs == <<env(on_binance, retry), env(on_bybit, again)>>
        steps == IF bybit_first THEN Reverse(both) ELSE both
    IN Record([call |-> "execute_plan", steps |-> steps, order |-> on_binance, retry |-> retry,
               out |-> ExecutePlan(config, steps, CexBooks, IF bybit_first THEN Reverse(envs) ELSE envs)])

TrueUsd == [a \in {"LINK", "ETH", "WETH", "USDC"} |->
              CASE a = "LINK" -> 6 [] a = "USDC" -> 1 [] OTHER -> 3]
Quotes == {<<"LINK", "USDC">>, <<"LINK", "ETH">>, <<"ETH", "USDC">>}

TryValidateStep ==
  \E live \in SUBSET Quotes, asset \in {"LINK", "WETH", "USDC"}, amount \in {1, 4, 9}, max \in {0, 10, 30},
     pct \in {90, 101}, kind \in {"trade", "withdraw"}, assets \in {{"LINK", "WETH"}, {"LINK", "WETH", "USDC"}},
     venues \in {{"binance"}, {"binance", "wallet"}} :
    LET latest == [q \in Quotes |-> IF q \in live THEN Ok(TrueUsd[q[1]] \div TrueUsd[q[2]]) ELSE Err("feed")]
        step == [kind |-> kind, base |-> asset, quote |-> "USDC", venue |-> "binance", asset |-> asset,
                 from |-> "binance", to |-> "wallet", amount |-> amount]
        config == [assets |-> assets, venues |-> venues, max_step_usd |-> max, min_fill_pct |-> pct]
    IN Record([call |-> "validate_step", step |-> step, config |-> config,
               res |-> ValidateRebalanceStep(step, config, latest)])

TryWithdraw ==
  \E assets \in {{"LINK"}, {"LINK", "WETH"}}, names \in SUBSET {"WETH", "ETH"},
     address \in {"arbitrum_weth", "other"}, decimals \in {6, 18}, to \in {"wallet", "elsewhere"},
     chain \in {"arbitrum", "mainnet"}, asset \in {"LINK", "WETH"}, answer \in {Ok("id"), Err("refused"),
     Err("unconfirmed")}, gas \in {Err("node"), Ok(2), Ok(9)}, native \in {9, 14, 20, 40},
     max_fee \in {Err("node"), Ok(1), Ok(2)} :
    LET tokens == [n \in names |-> [address |-> address, decimals |-> decimals]]
        transfer == [tokens |-> tokens, network |-> "ARBITRUM", to |-> to, wallet |-> "wallet",
                     buffer |-> 12000, min_gas |-> 4, wrap_gas |-> 5, max_gas |-> 1]
        coins == [c \in {"LINK", "ETH"} |-> [n \in {"ARBITRUM"} |-> [enabled |-> c = "ETH", min |-> 5, fee |-> 1]]]
        withdraw == [asset |-> asset, amount |-> 10, fee |-> 1]
    IN Record([call |-> "withdraw", asset |-> asset, assets |-> assets, native |-> native, max_fee |-> max_fee,
               start |-> WethTransferConfig(assets, tokens, chain, to, "wallet"), answer |-> answer,
               out |-> CexToWallet(withdraw, transfer, [coins |-> coins, withdrawal |-> answer, gas |-> gas,
                                                        native |-> native, max_fee |-> max_fee])])

----------------------------------------------------------------------------
(* The check *)

CheckPool == NewPair("p", [id |-> "WETH", dec |-> 0], [id |-> "USDC", dec |-> 0], 400, 1200, 30).val
CheckBook(bid, depth) ==
  [pair |-> "p", bids |-> <<[p |-> bid, q |-> depth], [p |-> bid - 1, q |-> 40]>>,
   asks |-> <<[p |-> bid + 1, q |-> depth], [p |-> bid + 2, q |-> 40]>>]
CheckInventories ==
  {[v \in {"wallet", "binance"} |-> [a \in {"WETH", "USDC"} |-> Entry(n, 0, 0)]] : n \in {10, 500}}

TryCheckWithDex ==
  \E bid \in 1..6, depth \in {5, 40}, size \in {5, 20, 45}, inv \in CheckInventories, gas \in {0, 3},
     fork \in {"unavailable", "revert", "amounts"}, last \in {20, 29} :
    Record([call |-> "check_dex", bid |-> bid, book |-> CheckBook(bid, depth), size |-> size, gas |-> gas,
            inv |-> inv, fork |-> fork, cross |-> DetectCrossDexArb(CheckPool, 100, 0),
            res |-> CheckWithDex(CheckPool, "ETH", "USDC", size, 30, gas,
                                 [answer |-> fork, last |-> last, gas |-> 1],
                                 Ok(CheckBook(bid, depth)), inv)])

TryOracle ==
  \E base \in {"WETH", "USDC"}, got \in [{"binance", "coingecko", "coincap", "kraken"} ->
     {Ok(4), Ok(9), Ok(90), Err("http")}], bid \in {3, 8}, booked \in BOOLEAN :
    LET book == IF booked THEN CheckBook(bid, 40) ELSE [CheckBook(bid, 40) EXCEPT !.bids = <<>>]
    IN Record([call |-> "oracle", got |-> got, agg |-> Aggregate(base, got,
                 IF HasMid(book) THEN Ok(TwiceMid(book)) ELSE Err("mid")),
               res |-> Check(base, "USDC", 10, 30, 0, got, Ok(book), CHOOSE i \in CheckInventories : TRUE)])

AccountNext ==
  /\ trial = Idle
  /\ \/ TryLedger \/ TrySummary \/ TryBookTrade \/ TrySync \/ TryCexSync \/ TryPlan
     \/ TryRebalanceTrade \/ TryExecutePlan \/ TryValidateStep \/ TryWithdraw
     \/ TryCheckWithDex \/ TryOracle

----------------------------------------------------------------------------
(* Properties *)

\* The ledger's buy row is what was really bought and its sell row what was
\* sold, whichever venue went first, and the row's net is its gross less its
\* fees (arb_bot.rs `execution_to_arb_record`, whose comment recalls a version
\* that took the first leg for the buy).
LedgerMatchesLegs ==
  At("ledger") =>
    LET bought == IF trial.dir = "buy_cex" THEN trial.cex ELSE trial.dex
        sold == IF trial.dir = "buy_cex" THEN trial.dex ELSE trial.cex
    IN /\ trial.row.buy.amount = bought.size /\ trial.row.buy.price = bought.price
       /\ trial.row.sell.amount = sold.size /\ trial.row.sell.price = sold.price
       /\ trial.row.buy.venue # trial.row.sell.venue
       /\ (trial.row.buy.venue = "binance") = (trial.dir = "buy_cex")
       /\ trial.row.net = trial.row.gross - trial.row.fees

\* The reported gross is the cash the two fills moved, up to the part of the
\* first leg that the second did not match, which is valued at the second
\* leg's price (engine.rs `calc_actual_pnl`, which uses the first leg's size
\* for both).
GrossIsCash ==
  At("ledger") =>
    LET bought == IF trial.dir = "buy_cex" THEN trial.cex ELSE trial.dex
        sold == IF trial.dir = "buy_cex" THEN trial.dex ELSE trial.cex
        cash == sold.size * sold.price - bought.size * bought.price
        unmatched == (bought.size - sold.size) * (IF trial.first = "cex" THEN trial.dex ELSE trial.cex).price
    IN trial.pnl.gross = cash + unmatched

\* The day's hours add up to its total, which lies between the worst and the
\* best trade times their number, and the recent list is the ledger's end
\* reversed (pnl.rs `summary`, `recent`).
SummaryAddsUp ==
  At("summary") =>
    LET sum == trial.sum
        len == Len(trial.rows)
    IN /\ FoldSet(LAMBDA h, acc : acc + sum.by_hour[h], 0, DOMAIN sum.by_hour) = sum.pnl
       /\ sum.pnl <= len * sum.best /\ len * sum.worst <= sum.pnl
       /\ (sum.wins = 0 => sum.pnl <= 0) /\ (sum.wins = len /\ len > 0 => sum.pnl > 0)
       /\ trial.recent \o Reverse(SubSeq(trial.rows, 1, len - Len(trial.recent))) = Reverse(trial.rows)

\* A booked trade at the marked price changes the portfolio's value by its fee
\* and nothing else, and a wallet debit, which may reach into the equivalent
\* asset, leaves no entry negative (tracker.rs `record_trade`,
\* `adjust_balance`, `snapshot`).
TradeMovesBalances ==
  At("book_trade") =>
    /\ trial.res.ok => trial.after.usd = trial.before.usd - trial.fee * MarkPrices[trial.paid]
    /\ trial.venue = "wallet" => \A a \in DOMAIN trial.res.book : trial.res.book[a].free >= 0
    /\ \A a \in DOMAIN trial.res.book : trial.res.book[a].reserved = KeptReserved(trial.book, a)

\* After a sync every asset that was read and is held can be spent up to what is
\* held less what in-flight trades reserve, so the sync never frees a
\* reservation, and a verification right after it finds nothing.  Over several
\* syncs with the exchange a reservation is lost exactly when a report leaves
\* its asset out, whatever the names of the chain
\* (tracker.rs `update_from_cex`, `update_from_wallet`, `verify_balances`).
ReservationsSurviveSync ==
  /\ At("sync") =>
       /\ trial.found = {}
       /\ \A a \in DOMAIN trial.synced :
            Available(trial.synced, a) = trial.held[a] - KeptReserved(trial.book, a)
       /\ \A a \in DOMAIN trial.held \ trial.failed : Tracked(trial.synced, a) = trial.held[a]
  /\ At("cex_sync") =>
       \A a \in DOMAIN trial.synced : \E b \in DOMAIN trial.second :
         /\ CexKey(trial.chain, b) = a
         /\ Available(trial.synced, a) =
              trial.second[b].free - IF \E c \in DOMAIN trial.first : CexKey(trial.chain, c) = a
                                     THEN KeptReserved(trial.book, a) ELSE 0

Moved(v, end) ==
  Fold(LAMBDA acc, s : acc + IF s[end] = v THEN s.amount ELSE 0, 0, trial.steps)

\* A plan never takes a venue below the average or below its minimum, never
\* lifts one above the average, and sends nothing its fee would eat
\* (rebalancer.rs `plan`, `estimate_cost`).
PlanStaysWithinTarget ==
  At("plan") /\ trial.steps # <<>> =>
    LET average == Target(PlanVenues, trial.holding)
        after(v) == trial.holding[v] + Moved(v, "to") - Moved(v, "from")
    IN /\ \A v \in DOMAIN trial.holding :
            /\ Moved(v, "from") > 0 => after(v) >= average /\ after(v) >= trial.min
            /\ Moved(v, "to") > 0 => after(v) <= average
       /\ \A i \in DOMAIN trial.steps : trial.steps[i].amount > trial.fee
       /\ trial.cost.fees_usd = 20 * trial.fee * Len(trial.steps)

Base(inv, venue) == inv[venue]["LINK"].free
Signed(trade, n) == IF trade.side = "BUY" THEN n ELSE -n

\* What the exchange filled of a rebalance trade is in the tracker, except that
\* nothing is booked of a fill whose answer was lost or that is below the
\* minimum: the code gives such a fill up, and the tracker is wrong by all of it
\* until the next sync (arb_bot.rs `execute_rebalance_trade`, lines 1320-1325).
RebalanceFillIsBooked ==
  At("rebalance_trade") =>
    LET t == trial.trade
        booked == Base(trial.out.inv, t.venue) - Base(CexBooks, t.venue)
        givenUp == trial.order.kind # "filled" \/ 10 * trial.order.filled < 9 * t.amount
    IN /\ booked = IF givenUp THEN 0 ELSE Signed(t, trial.out.done)
       /\ trial.out.res.ok => ~givenUp /\ trial.out.done > 0

\* After the first step that fails no order is sent.  The tracker holds every
\* fill of Binance's, unless the answer to the order or to its retry was lost;
\* a step on Bybit, whose client reports no fill, is never executed and books
\* nothing, though its two orders may both have filled
\* (rebalance_executor.rs `execute_plan`, `execute_trade`).
PlanStopsAtFailure ==
  At("execute_plan") =>
    LET rs == trial.out.results
        booked(i) == Base(trial.out.inv, trial.steps[i].venue) - Base(CexBooks, trial.steps[i].venue)
        lost(i) == trial.order.kind = "error" \/ (rs[i].sent = 2 /\ trial.retry.kind = "error")
    IN /\ \A i, j \in DOMAIN rs : i < j /\ ~Continues(rs[i].status) => rs[j].sent = 0
       /\ \A i \in DOMAIN rs :
            IF trial.steps[i].venue = "bybit"
            THEN booked(i) = 0 /\ rs[i].status \notin {"executed", "partial"}
            ELSE trial.steps[i].kind = "trade" /\ ~lost(i) => booked(i) = Signed(trial.steps[i], rs[i].done)

\* A step that passes validation touches only allowed assets and venues and is
\* worth at most the configured maximum in dollars, whichever of the price
\* feeds were up (arb_bot.rs `validate_rebalance_step`, `asset_usd_price`).
StepWithinAllowance ==
  At("validate_step") /\ trial.res.ok =>
    /\ StepAssets(trial.step) \subseteq trial.config.assets
    /\ StepVenues(trial.step) \subseteq trial.config.venues
    /\ trial.config.max_step_usd > 0 =>
         trial.step.amount * TrueUsd[trial.step.asset] <= trial.config.max_step_usd

\* A transfer set-up accepted at startup never fails later over its address,
\* token or decimals, when the coins have already left the exchange
\* (arb_bot.rs `validate_rebalance_weth_transfer_config` against
\* `execute_cex_to_wallet_withdraw`, `wrap_native_eth_for_rebalance`).
StartupCoversRuntime ==
  At("withdraw") /\ trial.start.ok /\ trial.asset \in trial.assets /\ ~trial.out.res.ok =>
    trial.out.res.err \notin {"address", "token", "decimals"}

\* A wrap is signed only when the wallet pays its value and its gas, and a wrap
\* that fails leaves the withdrawn coins accounted for as withdrawn
\* (arb_bot.rs `wrap_native_eth_for_rebalance`).
WrapIsFunded ==
  At("withdraw") =>
    /\ trial.out.wrap.ok =>
         trial.native >= trial.out.wrap.val.value + trial.max_fee.val * trial.out.wrap.val.gas_limit
    /\ trial.answer.ok /\ trial.out.withdrawn = 0 =>
         ~trial.out.res.ok /\ trial.out.res.err \in {"address", "disabled"}

\* A check that says "executable" for buying on the exchange and selling to the
\* pool earns cash after fees and gas when the book can fill the size, can be
\* paid from the inventory and was not refused by the fork; no round trip over
\* the one pool is ever reported (arb_checker.rs `check_with_dex`).
ExecutableIsProfitable ==
  At("check_dex") /\ trial.res.ok =>
    /\ trial.cross = {}
    /\ trial.res.val.executable => trial.fork # "revert"
    /\ trial.res.val.executable /\ trial.res.val.dir = "buy_cex_sell_dex" =>
         LET walk == WalkTheBook(trial.book, "buy", trial.size)
             got == GetAmountOut(CheckPool, trial.size, CheckPool.token0).val
         IN /\ walk.full => BPS_SCALE * (got - walk.cost - trial.gas) > 10 * walk.cost
            /\ trial.inv["wallet"]["WETH"].free >= trial.size

Without(s, i) == {s[j] : j \in DOMAIN s \ {i}}

\* With three sources or more, no single one moves the price outside what the
\* others say, and the check fails rather than invent a price when there is no
\* source (price_oracle.rs `fetch_aggregated`, `compute_median`).
OracleResistsOutlier ==
  At("oracle") =>
    /\ trial.agg.ok => LET s == trial.agg.val.sources
                       IN Len(s) >= 3 => \A i \in DOMAIN s :
                            /\ \E p \in Without(s, i) : 2 * p <= trial.agg.val.median2
                            /\ \E p \in Without(s, i) : 2 * p >= trial.agg.val.median2
    /\ trial.res.ok => trial.agg.ok /\ trial.res.val.dex.num = trial.agg.val.median2

\* Ledger, tracker and exchange agree on what was traded: rows are what the legs
\* did, sums add up, a sync keeps reservations, and the fills of a rebalance are
\* booked unless their answer was lost or, in the bot, they are below the minimum
\* (engine.rs, pnl.rs, tracker.rs, arb_bot.rs, rebalance_executor.rs).
LedgersBalance ==
  /\ LedgerMatchesLegs
  /\ GrossIsCash
  /\ SummaryAddsUp
  /\ TradeMovesBalances
  /\ ReservationsSurviveSync
  /\ RebalanceFillIsBooked
  /\ PlanStopsAtFailure

\* Funds are moved, and a trade is recommended, only within what the guards allow:
\* plans, steps, transfers and wraps are bounded and funded, and a check or an
\* oracle is not misled (rebalancer.rs, arb_bot.rs, arb_checker.rs, price_oracle.rs).
MovesAreGuarded ==
  /\ PlanStaysWithinTarget
  /\ StepWithinAllowance
  /\ StartupCoversRuntime
  /\ WrapIsFunded
  /\ ExecutableIsProfitable
  /\ OracleResistsOutlier
=============================================================================
