--------------------------- MODULE StartupTrials ---------------------------
(* Trials of the start: configurations that differ from a sound one in two   *)
(* settings, the books they name, and the seeds of a simulated inventory.    *)
EXTENDS Startup, Trials

Listed(base, quote, bt, qt, kind) ==
  [pair |-> <<base, quote>>, base |-> bt, base_decimals |-> 18, quote |-> qt, quote_decimals |-> 6,
   pool |-> <<"pool">>, kind |-> kind, v3_fee |-> <<>>, v3_path |-> <<>>, v3_fees |-> <<>>,
   quoter |-> <<"quoter">>, quoter_type |-> "quoter_v2"]

WethUsdc == [Listed("WETH", "USDC", "arbitrum_weth", NATIVE_USDC, "v3") EXCEPT !.v3_fee = <<500>>]
Hops(path, fees) ==
  [Listed("LINK", "WETH", "link", "arbitrum_weth", "v3") EXCEPT !.quote_decimals = 18, !.v3_path = <<path>>,
                                                                !.v3_fees = <<fees>>]
LinkViaUsdc == Hops(<<"link", NATIVE_USDC, "arbitrum_weth">>, <<3000, 500>>)
ArbUsdc == Listed("ARB", "USDC", "arb", NATIVE_USDC, "v2")
Bridged == Listed("WETH", "USDC_E", "arbitrum_weth", "bridged_usdc", "v2")
SoundBook == <<ArbUsdc, LinkViaUsdc, WethUsdc>>

Replaced(e) == [i \in DOMAIN SoundBook |-> IF SoundBook[i].pair = e.pair THEN e ELSE SoundBook[i]]
OddBooks ==
  <<<<Bridged>> \o SoundBook,
    <<[Bridged EXCEPT !.base = "other_weth"]>> \o SoundBook,
    <<[Bridged EXCEPT !.kind = "v3", !.pool = <<>>]>> \o SoundBook,
    Replaced([WethUsdc EXCEPT !.v3_fee = <<>>]),
    Replaced([WethUsdc EXCEPT !.pool = <<>>]),
    Replaced([WethUsdc EXCEPT !.quoter = <<>>]),
    Replaced([WethUsdc EXCEPT !.quoter_type = "quoter_v1"]),
    Replaced([WethUsdc EXCEPT !.quote = "bridged_usdc"]),
    Replaced([WethUsdc EXCEPT !.base = "other_weth"]),
    Replaced([WethUsdc EXCEPT !.base_decimals = 8]),
    Replaced([ArbUsdc EXCEPT !.base = "bad"]),
    Replaced([LinkViaUsdc EXCEPT !.v3_fee = <<100>>]),
    Replaced([LinkViaUsdc EXCEPT !.v3_fees = <<>>]),
    Replaced(Hops(<<"arbitrum_weth", NATIVE_USDC, "link">>, <<500, 3000>>)),
    Replaced(Hops(<<"link", NATIVE_USDC>>, <<3000>>)),
    Replaced(Hops(<<"link", NATIVE_USDC, "arbitrum_weth">>, <<3000, UINT24 + 1>>)),
    Replaced(Hops(<<"link", "arbitrum_weth">>, <<3000, 500>>)),
    <<WethUsdc>>>>

SeedSpec(venue, entries) == [venue |-> venue, entries |-> entries]
Seed(asset, amount) == Ok([asset |-> asset, amount |-> amount])

Sound ==
  [mode |-> "live", unreadable |-> {}, fill_pct |-> 90, rebalance |-> "live", assets |-> {"WETH"},
   venues |-> {"binance"}, gas_mode |-> "rpc", rpc |-> TRUE, wallet |-> "own", anvil |-> FALSE, dex_bps |-> 0,
   book |-> <<SoundBook>>, pairs |-> <<<<"WETH", "USDC">>, <<"LINK", "WETH">>>>, router |-> "", key |-> TRUE,
   auth |-> TRUE, flashbots |-> TRUE, private |-> FALSE, relay |-> "own", chain |-> ARBITRUM,
   rebalance_chain |-> "arbitrum", concurrent |-> 1, reconcile_db |-> TRUE, binance |-> TRUE, deposit |-> "ok",
   withdraw |-> "", seeds |-> <<>>]
Bases ==
  <<Sound, [Sound EXCEPT !.mode = "dry", !.rebalance = "dry"],
    [Sound EXCEPT !.mode = "sim", !.rebalance = "off", !.gas_mode = "fixed"]>>

Settings ==
  [i \in DOMAIN OddBooks |-> [field |-> "book", value |-> <<OddBooks[i]>>]]
  \o [i \in 1..8 |-> [field |-> "unreadable",
                      value |-> {<<"size", "daily_loss", "capital", "trade", "risk_loss", "gas", "step", "profit">>[i]}]]
  \o [i \in 1..4 |-> [field |-> "gas_mode", value |-> <<"fixed", "estimate", "anvil", "none">>[i]]]
  \o [i \in 1..4 |-> [field |-> "pairs",
                      value |-> <<<<<<"ARB", "USDC">>>>, <<<<"ARB", "USDC">>, <<"WETH", "USDC">>>>,
                                  <<<<"WETH", "USDC_E">>>>, <<<<"LINK", "ETH">>>>>>[i]]]
  \o <<[field |-> "book", value |-> <<>>], [field |-> "fill_pct", value |-> 150], [field |-> "assets", value |-> {}],
       [field |-> "assets", value |-> {"ARB"}], [field |-> "venues", value |-> {}],
       [field |-> "rebalance", value |-> "off"], [field |-> "rebalance", value |-> "live"],
       [field |-> "rpc", value |-> FALSE], [field |-> "wallet", value |-> ""], [field |-> "wallet", value |-> "bad"],
       [field |-> "anvil", value |-> TRUE], [field |-> "dex_bps", value |-> 30], [field |-> "router", value |-> "bad"],
       [field |-> "router", value |-> "given"], [field |-> "key", value |-> FALSE], [field |-> "auth", value |-> FALSE],
       [field |-> "flashbots", value |-> FALSE], [field |-> "private", value |-> TRUE],
       [field |-> "relay", value |-> "default"], [field |-> "chain", value |-> 1],
       [field |-> "rebalance_chain", value |-> "other"], [field |-> "concurrent", value |-> 2],
       [field |-> "reconcile_db", value |-> FALSE], [field |-> "binance", value |-> FALSE],
       [field |-> "deposit", value |-> ""], [field |-> "withdraw", value |-> "bad"],
       [field |-> "withdraw", value |-> "other"],
       [field |-> "seeds", value |-> <<SeedSpec("paper", <<Seed("ETH", 1)>>)>>],
       [field |-> "seeds", value |-> <<SeedSpec("dex", <<Seed("ETH", 1)>>)>>]>>

Deviate(cli, i) == IF i = 0 THEN cli ELSE [cli EXCEPT ![Settings[i].field] = Settings[i].value]

TryStart ==
  \E b \in DOMAIN Bases, i, j \in 0..Len(Settings), node \in {Ok(3000), Err("down")} :
    LET cli == Deviate(Deviate(Bases[b], i), j)
    IN Record([call |-> "start", cli |-> cli, node |-> node, checked |-> RunConfigCheck(cli),
               started |-> Start(cli, node)])

SeedSpecs ==
  {SeedSpec(v, e) : v \in {"cex", "wallet"},
     e \in {<<Seed("ETH", 1)>>, <<Seed("ETH", 2), Seed("WETH", 3)>>, <<Seed("USDC", 4), Seed("USDC", 5)>>}}

TrySeeds ==
  \E a, b, c \in SeedSpecs, chain \in {"arbitrum", "other"} :
    LET none == [binance |-> <<>>, wallet |-> <<>>]
    IN \E inv \in SeedAll(<<a, b, c>>, none, chain).val :
         Record([call |-> "seeds", specs |-> <<a, b, c>>, chain |-> chain, inv |-> inv])

StartupNext == trial = Idle /\ (TryStart \/ TrySeeds)

----------------------------------------------------------------------------
(* Properties *)

StartedLive == trial.call = "start" /\ trial.started.ok /\ trial.cli.mode = "live"
Traded == SelectedPairs(trial.started.val.book, trial.cli.pairs).val

\* A configuration that --check-config accepts (`run_config_check`) is refused
\* by the start only for what the check does not look at: the profit threshold,
\* the seeds, the wallet's address, the router where nothing is sent, RPC and
\* pools in a run without live legs, the simulation's exchange keys, the WETH
\* transfer rules and the fees of V3 pools nobody trades or a node that is down.
CheckedConfigStarts ==
  trial.call = "start" /\ trial.checked.ok /\ ~trial.started.ok =>
    LET cli == trial.cli
        why == trial.started.err
        priced == cli.gas_mode \in {"estimate", "anvil"}
    IN \/ why = "profit" /\ "profit" \in cli.unreadable
       \/ why = "seed" /\ cli.seeds # <<>>
       \/ why = "binance" /\ cli.mode = "sim"
       \/ why \in {"no_pools", "rpc"} /\ cli.mode # "live" /\ HasBook(cli)
       \/ why = "wallet_address" /\ (cli.mode = "live" \/ priced)
       \/ why = "router" /\ cli.mode # "live" /\ priced
       \/ why = "weth" /\ cli.rebalance = "live"
       \/ /\ why = "discovery" /\ cli.mode = "live"
          /\ \E k \in DOMAIN Book(cli) :
               /\ Book(cli)[k].kind = "v3" /\ Book(cli)[k].v3_fee = <<>>
               /\ ~trial.node.ok \/ Book(cli)[k].pair \notin Range(cli.pairs)

\* Whatever pair a live start trades has a swap route in both directions
\* (`v3_swap_calldata_for_pair`), from the token paid to the token bought, that
\* charges each hop the same tier both ways.  Only a tier that does not fit 24
\* bits, which the start does not check, leaves a pair without one.
LiveBookIsRoutable ==
  StartedLive =>
    \A k \in DOMAIN Traded :
      LET e == Traded[k]
          out == V3SwapCalldata(e, e.base, e.quote)
          back == V3SwapCalldata(e, e.quote, e.base)
          tiers(r) == {<<{r.path[h], r.path[h + 1]}, r.fees[h]>> : h \in DOMAIN r.fees}
      IN e.kind = "v3" =>
           \/ ~out.ok /\ ~back.ok /\ (\E h \in DOMAIN e.v3_fees[1] : e.v3_fees[1][h] > UINT24)
           \/ /\ out.ok /\ back.ok
              /\ Head(out.val.path) = e.base /\ Last(out.val.path) = e.quote
              /\ Head(back.val.path) = e.quote /\ Last(back.val.path) = e.base
              /\ tiers(out.val) = tiers(back.val)

\* The token a rebalance moves for a traded symbol (`rebalance_token_book`) is
\* the token the pair trades, unless an entry nobody trades gives the symbol
\* another token earlier in the book.
RebalancedIsTraded ==
  StartedLive =>
    \A k \in DOMAIN Named(Traded) :
      LET t == Named(Traded)[k]
          book == trial.started.val.book
      IN \/ RebalanceTokenBook(book)[t.symbol].address = t.token
         \/ \E i \in DOMAIN book :
              /\ book[i].pair \notin Range(trial.cli.pairs)
              /\ [symbol |-> t.symbol, token |-> RebalanceTokenBook(book)[t.symbol].address]
                   \in {[symbol |-> n.symbol, token |-> n.token] : n \in Range(Named(<<book[i]>>))}

\* Every traded pair is sent to a router of its own kind of pool: the default
\* one of that kind, or the given one and then all pairs are of one kind.
PairGoesToItsRouter ==
  StartedLive =>
    \A k \in DOMAIN Traded :
      LET router == trial.started.val.swappers.routers[Traded[k].kind]
      IN router = <<"default", Traded[k].kind>>
         \/ (router = <<"given", "any">> /\ Cardinality(PoolKinds(Traded)) = 1)

\* A live start with --require-private-dex that goes public has --use-flashbots
\* off: with bundles on, a missing auth key stops it.  (README.md:126 calls
\* missing auth a startup error whenever privacy is required, and
\* live_readiness.rs:836 fails the flags that pass here.)
PrivacyIsKept ==
  StartedLive /\ trial.cli.private /\ ~trial.started.val.swappers.private => ~trial.cli.flashbots

\* The fee a signal is charged for a traded pair (`dex_pool_fee_bps_map`) is the
\* sum of the tiers its swap pays; a pair whose tier was read from its pool has
\* none, since the map is loaded from the file.
FeeIsRouteFee ==
  StartedLive =>
    \A k \in DOMAIN Traded :
      LET e == Traded[k]
          fees == PoolFees(Book(trial.cli))
          route == V3Route(e, e.base, e.quote)
      IN e.kind = "v3" => IF e.pair \in DOMAIN fees THEN fees[e.pair] = FeeSum(route.val.fees)
                          ELSE route.val.fees = <<trial.node.val>>

\* Of several --seed-inventory specs for one venue only the last is in the
\* inventory (`seed_inventory_balances`), and one for another venue leaves it; an
\* exchange's assets stand under their canonical names on Arbitrum only.
LastSeedStays ==
  trial.call = "seeds" =>
    \A v \in {"binance", "wallet"} :
      LET seeds == SelectSeq([i \in 1..3 |-> ParseSeedSpec(trial.specs[i]).val], LAMBDA s : s.venue = v)
          last == Last(seeds).balances
          book == trial.inv[v]
      IN IF seeds = <<>> THEN book = <<>>
         ELSE LET name(a) == IF v = "binance" /\ trial.chain = "arbitrum" THEN Canonical(a) ELSE a
              IN  /\ DOMAIN book = {name(a) : a \in DOMAIN last}
                  /\ \A a \in DOMAIN book : \E b \in DOMAIN last : name(b) = a /\ book[a] = Entry(last[b], 0, 0)

\* What the checks at the start accept is what the bot can trade: routes, fees,
\* routers, rebalance tokens and seeds are the ones the run will use, and so is
\* the privacy of bundles, though not one required without them
\* (arb_bot.rs, address_book.rs, dex_swapper.rs).
StartIsCovered ==
  /\ CheckedConfigStarts
  /\ LiveBookIsRoutable
  /\ RebalancedIsTraded
  /\ PairGoesToItsRouter
  /\ PrivacyIsKept
  /\ FeeIsRouteFee
  /\ LastSeedStays
=============================================================================
