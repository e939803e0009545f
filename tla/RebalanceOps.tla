---------------------------- MODULE RebalanceOps ----------------------------
(***************************************************************************)
(* How one step of a rebalance plan is checked and carried out: the guards *)
(* and transfers of src/bin/arb_bot.rs, and the stand-alone executor of    *)
(* src/inventory/rebalance_executor.rs.                                    *)
(*                                                                         *)
(* `env` holds what the exchange and the node answer.  An answer to an     *)
(* order is [kind, filled, price, fee, fee_asset, done]: `done` is what the*)
(* exchange really filled, which an answer that got lost does not tell.    *)
(***************************************************************************)
EXTENDS OrderBook, Inventory

UsdCoins == {"USDC", "USDT", "USD"}

Side(trade) == IF trade.side = "BUY" THEN "buy" ELSE "sell"

----------------------------------------------------------------------------
(* Validation *)

StepAssets(step) == IF step.kind = "trade" THEN {step.base, step.quote} ELSE {step.asset}
StepVenues(step) == IF step.kind = "trade" THEN {step.venue} ELSE {step.from, step.to}

\* Mutant: a price in ETH passes for one in dollars.
AssetUsdPriceInEth(asset, latest) ==
  LET a == IF asset = "WETH" THEN "ETH" ELSE asset
  IN IF a \in UsdCoins THEN Ok(1)
     ELSE IF latest[<<a, "USDC">>].ok THEN latest[<<a, "USDC">>]
     ELSE IF a = "ETH" THEN Err("price")
     ELSE latest[<<a, "ETH">>]

\* `asset_usd_price`: directly, or through ETH.
AssetUsdPrice(asset, latest) ==
  LET a == IF asset = "WETH" THEN "ETH" ELSE asset
      in_eth == latest[<<a, "ETH">>]
      eth == latest[<<"ETH", "USDC">>]
  IN IF a \in UsdCoins THEN Ok(1)
     ELSE IF latest[<<a, "USDC">>].ok THEN latest[<<a, "USDC">>]
     ELSE IF a = "ETH" \/ ~in_eth.ok \/ ~eth.ok THEN Err("price")
     ELSE Ok(in_eth.val * eth.val)

\* `rebalance_step_notional_usd`: a trade is valued by its base asset.
StepNotional(step, latest) ==
  LET price == AssetUsdPrice(IF step.kind = "trade" THEN step.base ELSE step.asset, latest)
  IN IF price.ok THEN Ok(step.amount * price.val) ELSE price

\* `validate_rebalance_step`; a maximum of zero switches the cap off.
ValidateRebalanceStep(step, config, latest) ==
  LET notional == StepNotional(step, latest)
  IN IF config.min_fill_pct \notin 0..100 THEN Err("min_fill")
     ELSE IF ~(StepAssets(step) \subseteq config.assets) THEN Err("asset")
     ELSE IF ~(StepVenues(step) \subseteq config.venues) THEN Err("venue")
     ELSE IF config.max_step_usd <= 0 THEN Ok("valid")
     ELSE IF ~notional.ok THEN notional
     ELSE IF notional.val > config.max_step_usd THEN Err("notional")
     ELSE Ok("valid")

----------------------------------------------------------------------------
(* Trades *)

Booked(inv, trade, order) ==
  RecordTrade(trade.venue, Side(trade), inv[trade.venue], trade.base, trade.quote,
              order.filled, order.filled * order.price, order.fee,
              IF order.fee_asset = "" THEN trade.quote ELSE order.fee_asset)

\* Mutant: the fill is booked only when the order filled completely.
FinalizeRebalanceTradeWhole(inv, trade, order, min_fill_pct) ==
  LET booked == Booked(inv, trade, order)
  IN IF order.filled <= 0 THEN [res |-> Err("unfilled"), inv |-> inv]
     ELSE IF order.filled < trade.amount THEN [res |-> Ok("placed"), inv |-> inv]
     ELSE [res |-> IF booked.ok THEN Ok("placed") ELSE Err("record"),
           inv |-> [inv EXCEPT ![trade.venue] = booked.book]]

\* The end of `execute_rebalance_trade`: an order that filled too little is an
\* error, and its fill is not booked.
FinalizeRebalanceTrade(inv, trade, order, min_fill_pct) ==
  LET booked == Booked(inv, trade, order)
  IN IF order.filled <= 0 THEN [res |-> Err("unfilled"), inv |-> inv]
     ELSE IF 100 * order.filled < min_fill_pct * trade.amount THEN [res |-> Err("underfilled"), inv |-> inv]
     ELSE [res |-> IF booked.ok THEN Ok("placed") ELSE Err("record"),
           inv |-> [inv EXCEPT ![trade.venue] = booked.book]]

\* `execute_rebalance_trade`: one IOC order at the best price.
ExecuteRebalanceTrade(trade, inv, env, min_fill_pct) ==
  LET walk == WalkTheBook(env.book.val, Side(trade), trade.amount)
      stop(e) == [res |-> Err(e), inv |-> inv, done |-> 0]
      end == FinalizeRebalanceTrade(inv, trade, env.order, min_fill_pct)
  IN IF trade.venue # "binance" THEN stop("venue")
     ELSE IF ~env.book.ok THEN stop("book")
     ELSE IF walk.slippage > trade.max_slippage THEN stop("slippage")
     ELSE IF env.order.kind # "filled" THEN [stop("order") EXCEPT !.done = env.order.done]
     ELSE [res |-> end.res, inv |-> end.inv, done |-> env.order.done]

NotPlaced(status, inv) == [status |-> status, filled |-> 0, inv |-> inv, done |-> 0, sent |-> 0]

\* `RebalanceExecutor::finalize_order`: whatever filled is booked.
FinalizeOrder(config, trade, inv, order, done, sent) ==
  [status |-> IF order.filled <= 0 THEN "rejected"
              ELSE IF trade.amount > 0 /\ 100 * order.filled < config.min_fill_pct * trade.amount
              THEN "partial" ELSE "executed",
   filled |-> order.filled, done |-> done, sent |-> sent,
   inv |-> IF order.filled > 0
           THEN [inv EXCEPT ![trade.venue] = Booked(inv, trade, order).book] ELSE inv]

\* The orders of `execute_trade`: at the mid price, then once more at the best
\* price when nothing filled.
PlaceOrders(config, trade, inv, env) ==
  LET best == SideLevels(env.book.val, Side(trade))
      refusal == CASE env.order.kind = "rate_limit" -> "rate_limited"
                   [] env.order.kind = "no_funds" -> "insufficient"
                   [] OTHER -> "rejected"
      retried == IF env.retry.kind = "filled" THEN env.retry ELSE env.order
  IN IF env.order.kind # "filled"
     THEN [NotPlaced(refusal, inv) EXCEPT !.done = env.order.done, !.sent = 1]
     ELSE IF env.order.filled = 0 /\ best # <<>>
     THEN FinalizeOrder(config, trade, inv, retried, env.order.done + env.retry.done, 2)
     ELSE FinalizeOrder(config, trade, inv, env.order, env.order.done, 1)

\* `RebalanceExecutor::execute_trade`.
ExecuteTrade(config, trade, inv, env) ==
  LET need == IF trade.side = "BUY" THEN trade.quote ELSE trade.base
      twice == IF trade.side = "BUY" THEN trade.amount * env.mid2.val ELSE 2 * trade.amount
      walk == WalkTheBook(env.book.val, Side(trade), trade.amount)
  IN IF trade.venue \notin config.clients \/ ~env.mid2.ok THEN NotPlaced("rejected", inv)
     ELSE IF 2 * Available(inv[trade.venue], need) < twice THEN NotPlaced("insufficient", inv)
     ELSE IF ~env.book.ok THEN NotPlaced("rejected", inv)
     ELSE IF walk.slippage > trade.max_slippage THEN NotPlaced("slippage", inv)
     ELSE IF trade.amount * walk.cost > config.max_usd * walk.qty THEN NotPlaced("rejected", inv)
     ELSE IF config.dry_run THEN NotPlaced("dry_run", inv)
     ELSE PlaceOrders(config, trade, inv, env)

Continues(status) == status \in {"executed", "partial", "dry_run"}

\* Mutant: the plan goes on after a failure.
ExecutePlanOn(config, steps, inv, envs) ==
  Fold(LAMBDA acc, i :
             LET r == IF steps[i].kind = "trade" THEN ExecuteTrade(config, steps[i], acc.inv, envs[i])
                      ELSE NotPlaced("not_supported", acc.inv)
             IN [inv |-> r.inv, failed |-> ~Continues(r.status), results |-> Append(acc.results, r)],
           [inv |-> inv, failed |-> FALSE, results |-> <<>>], [i \in DOMAIN steps |-> i])

\* `execute_plan`: the first step that fails aborts the ones after it; a
\* withdrawal is never supported here.
ExecutePlan(config, steps, inv, envs) ==
  Fold(LAMBDA acc, i :
             LET r == IF acc.failed THEN NotPlaced("aborted", acc.inv)
                      ELSE IF steps[i].kind = "trade" THEN ExecuteTrade(config, steps[i], acc.inv, envs[i])
                      ELSE NotPlaced("not_supported", acc.inv)
             IN [inv |-> r.inv, failed |-> acc.failed \/ ~Continues(r.status),
                 results |-> Append(acc.results, r)],
           [inv |-> inv, failed |-> FALSE, results |-> <<>>], [i \in DOMAIN steps |-> i])

----------------------------------------------------------------------------
(* Transfers *)

CexAsset(asset) == IF asset = "WETH" THEN "ETH" ELSE asset

\* `validate_binance_withdrawal_capability`: coins maps a coin to its networks.
WithdrawalCapability(coins, withdraw, send, network) ==
  LET networks == coins[CexAsset(withdraw.asset)]
  IN IF CexAsset(withdraw.asset) \notin DOMAIN coins THEN Err("coin")
     ELSE IF network \notin DOMAIN networks THEN Err("network")
     ELSE IF ~networks[network].enabled THEN Err("disabled")
     ELSE IF send < networks[network].min THEN Err("minimum")
     ELSE IF withdraw.fee < networks[network].fee THEN Err("fee")
     ELSE Ok("capable")

WethToken(book) ==
  IF "WETH" \in DOMAIN book THEN Ok(book["WETH"])
  ELSE IF "ETH" \in DOMAIN book THEN Ok(book["ETH"]) ELSE Err("token")

\* Mutant: the token's decimals are not compared at startup.
WethTransferConfigAnyDecimals(assets, book, chain, to, wallet) ==
  LET token == WethToken(book)
  IN IF "WETH" \notin assets THEN Ok("valid")
     ELSE IF chain # "arbitrum" THEN Err("chain")
     ELSE IF to # wallet THEN Err("address")
     ELSE IF ~token.ok THEN token
     ELSE IF token.val.address # "arbitrum_weth" THEN Err("token")
     ELSE Ok("valid")

\* `validate_rebalance_weth_transfer_config`, at startup.
WethTransferConfig(assets, book, chain, to, wallet) ==
  LET token == WethToken(book)
  IN IF "WETH" \notin assets THEN Ok("valid")
     ELSE IF chain # "arbitrum" THEN Err("chain")
     ELSE IF to # wallet THEN Err("address")
     ELSE IF ~token.ok THEN token
     ELSE IF token.val.decimals # 18 THEN Err("decimals")
     ELSE IF token.val.address # "arbitrum_weth" THEN Err("token")
     ELSE Ok("valid")

\* `native_balance_required_for_value_and_gas`.
NativeRequired(value, max_fee, gas_limit) == value + max_fee * gas_limit

\* The gas limit of the wrap: the buffered estimate, or the configured fallback.
WrapGasLimit(transfer, env) ==
  LET buffered == (env.gas.val * transfer.buffer) \div BPS_SCALE
  IN IF ~env.gas.ok THEN transfer.wrap_gas
     ELSE IF buffered > transfer.min_gas THEN buffered ELSE transfer.min_gas

\* Mutant: the wallet is not asked again for the estimated gas.
WrapNativeEthOnce(amount, transfer, env) ==
  LET token == WethToken(transfer.tokens)
      limit == WrapGasLimit(transfer, env)
  IN IF ~token.ok THEN token
     ELSE IF token.val.decimals # 18 THEN Err("decimals")
     ELSE IF ~env.max_fee.ok THEN env.max_fee
     ELSE IF transfer.max_gas > 0 /\ env.max_fee.val > transfer.max_gas THEN Err("gas_cap")
     ELSE IF env.native < NativeRequired(amount, env.max_fee.val, transfer.wrap_gas) THEN Err("native")
     ELSE Ok([value |-> amount, gas_limit |-> limit])

\* `wrap_native_eth_for_rebalance` up to the transaction it signs: the balance
\* must cover the fallback gas first and the estimated gas afterwards.
WrapNativeEth(amount, transfer, env) ==
  LET token == WethToken(transfer.tokens)
      limit == WrapGasLimit(transfer, env)
  IN IF ~token.ok THEN token
     ELSE IF token.val.decimals # 18 THEN Err("decimals")
     ELSE IF ~env.max_fee.ok THEN env.max_fee
     ELSE IF transfer.max_gas > 0 /\ env.max_fee.val > transfer.max_gas THEN Err("gas_cap")
     ELSE IF env.native < NativeRequired(amount, env.max_fee.val, transfer.wrap_gas) THEN Err("native")
     ELSE IF env.native < NativeRequired(amount, env.max_fee.val, limit) THEN Err("native")
     ELSE Ok([value |-> amount, gas_limit |-> limit])

\* `execute_cex_to_wallet_withdraw`: what was withdrawn, and the wrap that
\* follows for WETH, which may fail when the coins have already left.
CexToWallet(withdraw, transfer, env) ==
  LET send == withdraw.amount - withdraw.fee
      capable == WithdrawalCapability(env.coins, withdraw, send, transfer.network)
      wrap == WrapNativeEth(send, transfer, env)
      stop(e) == [res |-> Err(e), withdrawn |-> 0, wrap |-> Err("none")]
  IN IF send <= 0 THEN stop("amount")
     ELSE IF withdraw.asset = "WETH" /\ transfer.to # transfer.wallet THEN stop("address")
     ELSE IF ~capable.ok THEN stop(capable.err)
     ELSE IF ~env.withdrawal.ok
     THEN [stop("withdrawal") EXCEPT !.withdrawn = IF env.withdrawal.err = "unconfirmed" THEN send ELSE 0]
     ELSE IF withdraw.asset # "WETH" THEN [res |-> Ok("withdrawn"), withdrawn |-> send, wrap |-> Err("none")]
     ELSE [res |-> IF wrap.ok THEN Ok("wrapped") ELSE wrap, withdrawn |-> send, wrap |-> wrap]
=============================================================================
