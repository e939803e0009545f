------------------------------ MODULE Startup ------------------------------
(***************************************************************************)
(* What the bot accepts before it trades: the address book of pairs, tokens*)
(* and pools (src/config/address_book.rs), the --check-config and live     *)
(* validations and the start itself (src/bin/arb_bot.rs), and the swap     *)
(* routes read from the book afterwards (src/executor/dex_swapper.rs).     *)
(*                                                                         *)
(* A book is a sequence of entries in the order of its keys; an optional   *)
(* field is a sequence of at most one value.  A setting is "" when absent  *)
(* and "bad" when it does not parse; `unreadable` names the numeric flags  *)
(* that do not parse.  Reading files, sockets and key formats are left out.*)
(***************************************************************************)
EXTENDS RebalanceOps, SequencesExt

ARBITRUM == 42161
NATIVE_USDC == "native_usdc"

----------------------------------------------------------------------------
(* The address book *)

\* `parse_address_book`: one bad address or pool type fails the whole book.
ParseAddressBook(raw) ==
  IF \A i \in DOMAIN raw : /\ "bad" \notin {raw[i].base, raw[i].quote} \cup Range(raw[i].pool) \cup Range(raw[i].quoter)
                           /\ raw[i].v3_path # <<>> => "bad" \notin Range(raw[i].v3_path[1])
                           /\ raw[i].kind \in {"v2", "v3"}
  THEN Ok(raw) ELSE Err("book")

\* `selected_pairs`, in the order the pairs are given.
SelectedPairs(book, pairs) ==
  Collect([i \in DOMAIN pairs |->
             LET found == SelectSeq(book, LAMBDA e : e.pair = pairs[i])
             IN IF found = <<>> THEN Err("pair") ELSE Ok(Head(found))])

\* `validate_v3_route`.
ValidateV3Route(e) ==
  LET path == e.v3_path[1]
  IN IF e.kind # "v3" \/ (e.v3_path = <<>> /\ e.v3_fees = <<>>) THEN Ok("route")
     ELSE IF e.v3_path = <<>> \/ e.v3_fees = <<>> THEN Err("half_route")
     ELSE IF Len(path) < 2 \/ Len(e.v3_fees[1]) + 1 # Len(path) THEN Err("route_length")
     ELSE IF <<Head(path), Last(path)>> \notin {<<e.base, e.quote>>, <<e.quote, e.base>>} THEN Err("route_ends")
     ELSE Ok("route")

\* `validate_selected_pool_compatibility`.
PoolCompatibility(selected) ==
  Collect([i \in DOMAIN selected |-> IF selected[i].pool = <<>> THEN Err("pool") ELSE ValidateV3Route(selected[i])])

\* The symbols of a sequence of entries with their tokens, base before quote.
Named(entries) ==
  FlattenSeq([i \in DOMAIN entries |->
    <<[symbol |-> entries[i].pair[1], token |-> entries[i].base, decimals |-> entries[i].base_decimals],
      [symbol |-> entries[i].pair[2], token |-> entries[i].quote, decimals |-> entries[i].quote_decimals]>>])

\* `validate_cex_pair_symbols`: only letters and digits, here all but USDC_E.
CexSymbols(pairs) ==
  IF \E i \in DOMAIN pairs : "USDC_E" \in {pairs[i][1], pairs[i][2]} THEN Err("cex_symbol") ELSE Ok("symbols")

\* Mutant: a symbol is only compared within its side of the pairs.
SymbolUniquenessBySide(selected) ==
  LET n == Named(selected)
  IN IF \E i, j \in DOMAIN n : (i - j) % 2 = 0 /\ n[i].symbol = n[j].symbol /\ n[i].token # n[j].token
     THEN Err("symbol_twice") ELSE Ok("symbols")

\* `validate_asset_symbol_uniqueness`.
SymbolUniqueness(selected) ==
  LET n == Named(selected)
  IN IF \E i, j \in DOMAIN n : n[i].symbol = n[j].symbol /\ n[i].token # n[j].token
     THEN Err("symbol_twice") ELSE Ok("symbols")

\* `validate_arbitrum_known_token_symbols`.
KnownTokens(selected, chain) ==
  LET n == Named(selected)
  IN IF chain = ARBITRUM /\ \E i \in DOMAIN n : n[i].symbol = "USDC" /\ n[i].token # NATIVE_USDC
     THEN Err("usdc") ELSE Ok("symbols")

\* `selected_pool_kinds`.
PoolKinds(selected) == {selected[i].kind : i \in DOMAIN selected}

\* `rebalance_token_book`: the first entry that names a symbol, of ALL entries.
RebalanceTokenBook(book) ==
  LET n == Named(book)
  IN [s \in {n[i].symbol : i \in DOMAIN n} |->
        LET first == Head(SelectSeq(n, LAMBDA t : t.symbol = s))
        IN [address |-> first.token, decimals |-> first.decimals]]

Charged(book) == SelectSeq(book, LAMBDA e : e.kind = "v2" \/ e.v3_fees # <<>> \/ e.v3_fee # <<>>)
FeeSum(fees) == FoldLeft(LAMBDA acc, f : acc + f, 0, fees)

\* Mutant: the single tier is preferred to the route's fees.
PoolFeesSingleFirst(book) ==
  LET charged == Charged(book)
  IN [p \in {charged[i].pair : i \in DOMAIN charged} |->
        LET e == Head(SelectSeq(charged, LAMBDA c : c.pair = p))
        IN IF e.kind = "v2" THEN 3000 ELSE IF e.v3_fee # <<>> THEN e.v3_fee[1] ELSE FeeSum(e.v3_fees[1])]

\* `dex_pool_fee_bps_map`, in hundredths of a basis point; no entry without a fee.
PoolFees(book) ==
  LET charged == Charged(book)
  IN [p \in {charged[i].pair : i \in DOMAIN charged} |->
        LET e == Head(SelectSeq(charged, LAMBDA c : c.pair = p))
        IN IF e.kind = "v2" THEN 3000 ELSE IF e.v3_fees # <<>> THEN FeeSum(e.v3_fees[1]) ELSE e.v3_fee[1]]

\* `load_live_pool_book`: the tracked entries that have a pool; a V3 entry
\* without a quoter is priced through the default one.
LivePoolBook(book, tracked) ==
  LET live == SelectSeq(book, LAMBDA e : e.pair \in Range(tracked) /\ e.pool # <<>>)
      quoter(e) == IF e.kind = "v2" THEN <<>> ELSE IF e.quoter = <<>> THEN <<"default">> ELSE e.quoter
  IN IF \E i \in DOMAIN live : live[i].kind = "v3" /\ live[i].quoter_type \notin {"v2", "quoter_v2"}
     THEN Err("quoter_type")
     ELSE Ok([i \in DOMAIN live |-> [pair |-> live[i].pair, kind |-> live[i].kind, quoter |-> quoter(live[i])]])

\* `tracked_pairs_for_price_source`: pairs quoted in ETH need ETH's own price.
TrackedPairs(pairs) ==
  IF (\E i \in DOMAIN pairs : pairs[i][2] = "ETH") /\ <<"ETH", "USDC">> \notin Range(pairs)
  THEN Append(pairs, <<"ETH", "USDC">>) ELSE pairs

\* `load_address_book_with_fee_discovery`: a V3 entry with neither fee nor path
\* takes its pool's fee (`discover_v3_pool_fee`); `node` is what the node answers.
DiscoverFees(book, node) ==
  Collect([i \in DOMAIN book |->
             IF book[i].kind # "v3" \/ book[i].v3_fee # <<>> \/ book[i].v3_path # <<>> THEN Ok(book[i])
             ELSE IF book[i].pool = <<>> THEN Err("discovery")
             ELSE IF ~node.ok THEN Err("discovery")
             ELSE Ok([book[i] EXCEPT !.v3_fee = <<node.val>>])])

----------------------------------------------------------------------------
(* Routes *)

\* Mutant: the path is turned round and its fees are not.
V3RouteFeesKept(e, in, out) ==
  LET path == e.v3_path[1]
  IN IF e.v3_path # <<>> /\ e.v3_fees # <<>>
     THEN IF path = <<>> THEN Err("direction")
          ELSE IF Head(path) = in /\ Last(path) = out THEN Ok([path |-> path, fees |-> e.v3_fees[1]])
          ELSE IF Head(path) = out /\ Last(path) = in THEN Ok([path |-> Reverse(path), fees |-> e.v3_fees[1]])
          ELSE Err("direction")
     ELSE IF e.v3_path # <<>> \/ e.v3_fees # <<>> THEN Err("half_route")
     ELSE IF e.v3_fee = <<>> THEN Err("fee")
     ELSE Ok([path |-> <<in, out>>, fees |-> e.v3_fee])

\* `v3_route_for_pair`, and the route of `v3_swap_calldata_for_pair`.
V3Route(e, in, out) ==
  LET path == e.v3_path[1]
  IN IF e.v3_path # <<>> /\ e.v3_fees # <<>>
     THEN IF path = <<>> THEN Err("direction")
          ELSE IF Head(path) = in /\ Last(path) = out THEN Ok([path |-> path, fees |-> e.v3_fees[1]])
          ELSE IF Head(path) = out /\ Last(path) = in
          THEN Ok([path |-> Reverse(path), fees |-> Reverse(e.v3_fees[1])])
          ELSE Err("direction")
     ELSE IF e.v3_path # <<>> \/ e.v3_fees # <<>> THEN Err("half_route")
     ELSE IF e.v3_fee = <<>> THEN Err("fee")
     ELSE Ok([path |-> <<in, out>>, fees |-> e.v3_fee])

UINT24 == 16777215

\* `encode_v3_path`; the single-hop calls do not go through it.
EncodeV3Path(route) ==
  IF Len(route.path) < 2 \/ Len(route.fees) + 1 # Len(route.path) THEN Err("route_length")
  ELSE IF \E i \in DOMAIN route.fees : route.fees[i] > UINT24 THEN Err("uint24") ELSE Ok(route)

\* `v3_swap_calldata_for_pair`.
V3SwapCalldata(e, in, out) ==
  LET route == V3Route(e, in, out)
  IN IF ~route.ok \/ e.v3_path = <<>> THEN route ELSE EncodeV3Path(route.val)

\* `quote_exact_input_for_pair` of the V3 swapper, up to the call.
V3QuoteCalldata(e, in, out) ==
  LET route == V3Route(e, in, out)
  IN IF e.quoter = <<>> THEN Err("quoter")
     ELSE IF ~route.ok THEN route
     ELSE IF Len(route.val.path) = 2 /\ Len(route.val.fees) = 1 THEN route
     ELSE EncodeV3Path(route.val)

----------------------------------------------------------------------------
(* The checks before trading: a sequence of named checks in the code's order *)

FirstFailure(checks) ==
  LET failed == SelectSeq(checks, LAMBDA c : ~c.holds)
  IN IF failed = <<>> THEN Ok("passed") ELSE Err(Head(failed).name)

Needs(name, holds) == [name |-> name, holds |-> holds]

HasBook(cli) == cli.book # <<>>
BookReads(cli) == HasBook(cli) => ParseAddressBook(cli.book[1]).ok
Book(cli) == IF HasBook(cli) /\ BookReads(cli) THEN cli.book[1] ELSE <<>>

\* `resolve_wallet_config`: both or nothing.
WalletConfig(cli) == cli.rpc /\ cli.wallet # ""

\* The part that `run_config_check` and `validate_live_execution_config` repeat.
RebalanceChecks(cli) ==
  IF cli.rebalance # "live" THEN <<>>
  ELSE <<Needs("rpc", cli.rpc), Needs("wallet_key", cli.key), Needs("deposit", cli.deposit = "ok"),
         Needs("withdraw", cli.withdraw # "bad")>>

\* `validate_flashbots_relay_chain`.
RelayFitsChain(cli) == ~(cli.flashbots /\ cli.chain # 1 /\ cli.relay = "default")

\* `validate_live_execution_config`.
LiveExecutionChecks(cli) ==
  LET found == SelectedPairs(Book(cli), cli.pairs)
      selected == IF found.ok THEN found.val ELSE <<>>
  IN IF cli.mode # "live" THEN <<>>
     ELSE <<Needs("relay", RelayFitsChain(cli)), Needs("concurrency", cli.concurrent = 1),
            Needs("no_book", HasBook(cli)), Needs("reconcile_db", cli.reconcile_db), Needs("book", BookReads(cli)),
            Needs("pair", found.ok), Needs("pool", PoolCompatibility(selected).ok),
            Needs("cex_symbol", CexSymbols(cli.pairs).ok), Needs("symbol_twice", SymbolUniqueness(selected).ok),
            Needs("usdc", KnownTokens(selected, cli.chain).ok)>>
          \o RebalanceChecks(cli)

\* The gas modes' needs, in both `run_config_check` and the start.
GasModeChecks(cli) ==
  CASE cli.gas_mode = "fixed" -> <<>>
    [] cli.gas_mode = "rpc" -> <<Needs("rpc", cli.rpc)>>
    [] cli.gas_mode = "estimate" -> <<Needs("wallet_address", WalletConfig(cli)), Needs("no_book", HasBook(cli))>>
    [] cli.gas_mode = "anvil" -> <<Needs("anvil", cli.anvil), Needs("wallet_address", cli.wallet # ""),
                                   Needs("no_book", HasBook(cli))>>
    [] OTHER -> <<Needs("gas_mode", FALSE)>>

\* `effective_dex_fee_bps`: pool fees are in the quotes already.
DexFeeCheck(cli) == Needs("dex_fee", HasBook(cli) => cli.dex_bps = 0)

LivePools(cli) == LivePoolBook(Book(cli), TrackedPairs(cli.pairs))

\* Mutant: pools of two kinds are never noticed.
MixedRoutersNever(cli) == Book(cli) = <<>> /\ cli.pairs = <<>>

\* `live_execution_pool_kinds` finding both kinds.
MixedRouters(cli) ==
  LET found == SelectedPairs(Book(cli), cli.pairs)
  IN found.ok /\ PoolKinds(found.val) = {"v2", "v3"}

\* The live part of `run_config_check`.
CheckLegs(cli) ==
  IF ~HasBook(cli) \/ cli.mode # "live" THEN <<>>
  ELSE <<Needs("mixed_router", ~(MixedRouters(cli) /\ cli.router # "")), Needs("router", cli.router # "bad"),
         Needs("rpc", cli.rpc), Needs("wallet_key", cli.key),
         Needs("auth_key", (cli.flashbots \/ cli.private) => cli.auth)>>

CheckedNumbers == <<"size", "daily_loss", "capital", "trade", "risk_loss", "gas", "step">>
Numbers(cli, names) == [i \in DOMAIN names |-> Needs(names[i], names[i] \notin cli.unreadable)]

\* Mutant: the check does not look at the gas mode.
RunConfigCheckAnyGas(cli) ==
  FirstFailure(Numbers(cli, CheckedNumbers)
    \o <<Needs("fill_pct", cli.fill_pct \in 0..100),
         Needs("allowed", cli.rebalance # "off" => cli.assets # {} /\ cli.venues # {})>>
    \o <<DexFeeCheck(cli)>> \o LiveExecutionChecks(cli)
    \o <<Needs("book", BookReads(cli)), Needs("quoter_type", LivePools(cli).ok)>> \o CheckLegs(cli)
    \o <<Needs("binance", cli.mode # "sim" => cli.binance)>> \o RebalanceChecks(cli))

\* `run_config_check`.
RunConfigCheck(cli) ==
  FirstFailure(Numbers(cli, CheckedNumbers)
    \o <<Needs("fill_pct", cli.fill_pct \in 0..100),
         Needs("allowed", cli.rebalance # "off" => cli.assets # {} /\ cli.venues # {})>>
    \o GasModeChecks(cli) \o <<DexFeeCheck(cli)>> \o LiveExecutionChecks(cli)
    \o <<Needs("book", BookReads(cli)), Needs("quoter_type", LivePools(cli).ok)>> \o CheckLegs(cli)
    \o <<Needs("binance", cli.mode # "sim" => cli.binance)>> \o RebalanceChecks(cli))

----------------------------------------------------------------------------
(* The start *)

\* `parse_seed_spec`: any bad entry refuses the spec; a repeated asset counts
\* its last amount.
ParseSeedSpec(spec) ==
  LET entries == Collect(spec.entries)
  IN IF spec.venue \notin {"binance", "cex", "wallet", "onchain", "dex"} THEN Err("venue")
     ELSE IF ~entries.ok THEN entries
     ELSE IF entries.val = <<>> THEN Err("empty")
     ELSE Ok([venue |-> IF spec.venue \in {"binance", "cex"} THEN "binance" ELSE "wallet",
              balances |-> [a \in {entries.val[i].asset : i \in DOMAIN entries.val} |->
                              Last(SelectSeq(entries.val, LAMBDA e : e.asset = a)).amount]])

\* Mutant: a seed is added to what the venue already holds.
SeedInventoryAdds(inv, seed, chain) ==
  LET old == inv[seed.venue]
  IN {[inv EXCEPT ![seed.venue] = [a \in DOMAIN old \cup DOMAIN seed.balances |->
                                     Entry(IF a \in DOMAIN seed.balances THEN seed.balances[a] ELSE old[a].free, 0, 0)]]}

\* `seed_inventory_balances`: the venue's whole book is replaced.
SeedInventory(inv, seed, chain) ==
  IF seed.venue = "binance"
  THEN {[inv EXCEPT !.binance = b] :
          b \in UpdateFromCex(inv.binance, [a \in DOMAIN seed.balances |-> [free |-> seed.balances[a], locked |-> 0]],
                              chain)}
  ELSE {[inv EXCEPT !.wallet = UpdateFromWallet(inv.wallet, seed.balances)]}

\* The seeding loop of the start: in order, up to the first spec that is refused.
SeedAll(specs, inv, chain) ==
  LET parsed == Collect([i \in DOMAIN specs |-> ParseSeedSpec(specs[i])])
  IN IF ~parsed.ok THEN Err("seed")
     ELSE Ok(FoldLeft(LAMBDA invs, seed : UNION {SeedInventory(v, seed, chain) : v \in invs}, {inv}, parsed.val))

\* `build_rebalance_transfer_context`.
TransferContextChecks(cli) ==
  IF cli.rebalance # "live" THEN <<>>
  ELSE <<Needs("rpc", cli.rpc), Needs("wallet_key", cli.key), Needs("withdraw", cli.withdraw # "bad"),
         Needs("deposit", cli.deposit = "ok"),
         Needs("weth", WethTransferConfig(cli.assets, RebalanceTokenBook(Book(cli)), cli.rebalance_chain,
                                          IF cli.withdraw = "" THEN "own" ELSE cli.withdraw, "own").ok)>>

\* Mutant: a missing auth key always falls back to public submission.
LegChecksAnyAuth(cli, node) ==
  IF cli.mode # "live" THEN <<>>
  ELSE <<Needs("wallet_address", WalletConfig(cli)), Needs("wallet_key", cli.key),
         Needs("discovery", DiscoverFees(Book(cli), node).ok),
         Needs("mixed_router", ~(MixedRouters(cli) /\ cli.router # "")), Needs("router", cli.router # "bad")>>

\* The live legs' needs; a missing auth key only stops a start that asked for
\* both bundles and privacy.
LegChecks(cli, node) ==
  IF cli.mode # "live" THEN <<>>
  ELSE <<Needs("wallet_address", WalletConfig(cli)), Needs("wallet_key", cli.key),
         Needs("discovery", DiscoverFees(Book(cli), node).ok),
         Needs("mixed_router", ~(MixedRouters(cli) /\ cli.router # "")), Needs("router", cli.router # "bad"),
         Needs("auth_key", (cli.flashbots /\ cli.private) => cli.auth)>>

\* What the tracker makes of --chain-id.
TrackerChain(cli) == IF cli.chain = ARBITRUM THEN "arbitrum" ELSE "other"

\* `main`, from the parsed flags to the first tick.
StartChecks(cli, node) ==
  Numbers(cli, <<"size", "daily_loss", "capital", "trade", "risk_loss">>) \o LiveExecutionChecks(cli)
  \o <<Needs("binance", cli.binance),
       Needs("seed", SeedAll(cli.seeds, [binance |-> <<>>, wallet |-> <<>>], TrackerChain(cli)).ok)>>
  \o (IF HasBook(cli)
      THEN <<Needs("book", BookReads(cli)), Needs("quoter_type", LivePools(cli).ok),
             Needs("no_pools", LivePools(cli).ok => LivePools(cli).val # <<>>), Needs("rpc", cli.rpc)>>
      ELSE <<>>)
  \o Numbers(cli, <<"profit">>) \o <<DexFeeCheck(cli)>> \o Numbers(cli, <<"gas">>)
  \o GasModeChecks(cli)
  \o (IF cli.gas_mode \in {"estimate", "anvil"}
      THEN <<Needs("wallet_address", cli.wallet # "bad"), Needs("router", cli.router # "bad")>> ELSE <<>>)
  \o LegChecks(cli, node) \o TransferContextChecks(cli)
  \o (IF cli.rebalance # "off" THEN Numbers(cli, <<"step">>) ELSE <<>>)

\* The swappers and the router each kind of pool is sent to.
Swappers(cli) ==
  LET kinds == PoolKinds(SelectedPairs(Book(cli), cli.pairs).val)
      router(kind) == IF cli.router = "" THEN <<"default", kind>> ELSE <<"given", "any">>
  IN [private |-> cli.flashbots /\ cli.auth,
      routers |-> [k \in {"v2", "v3"} |->
                     IF kinds = {"v2", "v3"} THEN router(k) ELSE router(IF "v3" \in kinds THEN "v3" ELSE "v2")]]

Start(cli, node) ==
  LET result == FirstFailure(StartChecks(cli, node))
  IN IF ~result.ok THEN result
     ELSE IF cli.mode # "live" THEN Ok([legs |-> "simulated"])
     ELSE Ok([legs |-> "live", book |-> DiscoverFees(Book(cli), node).val, swappers |-> Swappers(cli)])
=============================================================================
