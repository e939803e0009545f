------------------------------- MODULE Treasury -------------------------------
(***************************************************************************)
(* Balances across the exchange and the wallet: what they are, what the    *)
(* inventory tracker believes, and the two tasks of src/bin/arb_bot.rs that *)
(* act on the belief: the main loop, which syncs and verifies it, and the  *)
(* rebalance loop, which plans transfers from it.                          *)
(*                                                                         *)
(* `actual` and `transit` are the truth; `book` is the tracker.  Every RPC *)
(* is a read followed, in a later step, by what is done with the answer,   *)
(* so fills, credits and the other task may come in between.               *)
(*                                                                         *)
(* One asset is rebalanced.  The exchange may hold others beside it, under *)
(* names that canonicalisation changes, each below its minimum operating   *)
(* balance, so that no plan ever moves them.                               *)
(***************************************************************************)
EXTENDS Inventory

CONSTANTS
  Start,          \* initial holdings to explore: functions from Venues to Nat
  Sides,          \* what the exchange holds beside the asset: functions from names to Nat
  Threshold,      \* rebalance_threshold_pct
  MinBalance,     \* min_operating_balance of the asset
  WithdrawFee,    \* withdrawal_fee of the asset
  Tolerance,      \* balance_verify_tolerance_pct
  MaxFills,       \* bound: fills of arbitrage legs
  MaxPlans,       \* bound: plans generated
  MaxSyncs        \* bound: balance syncs

Venues == <<"binance", "wallet">>
VenueSet == {"binance", "wallet"}
Asset == "LINK"

ASSUME StartAssumption == \A s \in Start : s \in [VenueSet -> Nat]
ASSUME SidesAssumption ==
  \A s \in Sides :
    /\ DOMAIN s \subseteq {"ETH", "WETH", "USDC.E", "USDC"}
    /\ \A a \in DOMAIN s : s[a] \in Nat \ {0} /\ s[a] <= MinBalance
ASSUME ConfigAssumption ==
  /\ Threshold \in Nat /\ MinBalance \in Nat /\ WithdrawFee \in Nat /\ Tolerance \in Nat
ASSUME BoundsAssumption == MaxFills \in Nat /\ MaxPlans \in Nat /\ MaxSyncs \in Nat

VARIABLES
  config,    \* [dry_run, pause_trading, chain, side]
  actual,    \* the asset held at each venue
  transit,   \* sent to each venue and not yet credited
  book,      \* InventoryTracker.balances of each venue
  main,      \* the main loop: [at, seen], what it read last
  tick,      \* "idle", or "running" past the rebalance-pause check
  reb,       \* the rebalance loop: [at, steps, snap], the tracker it planned from
  pause,     \* is rebalance_pause_reason set
  halted,    \* HaltCoordinator
  moved,     \* did the exchange balance change since the sync read it
  late,      \* signals pushed since trading was paused
  fills, plans, syncs

vars == <<config, actual, transit, book, main, tick, reb, pause, halted, moved, late, fills, plans, syncs>>

Live == config.dry_run = "no"
Holding(b) == [v \in VenueSet |-> Tracked(b[v], Asset)]

\* What an exchange or a wallet reports: assets that hold nothing are left out.
Reported(amount) == [a \in (IF amount > 0 THEN {Asset} ELSE {}) |-> amount]
CexReport(side, amount) ==
  [a \in DOMAIN side \cup DOMAIN Reported(amount) |->
     [free |-> IF a \in DOMAIN side THEN side[a] ELSE amount, locked |-> 0]]

Init ==
  /\ actual \in Start
  /\ config \in [dry_run : {"yes", "no"}, pause_trading : {"yes", "no"},
                 chain : {"arbitrum", "other"}, side : Sides]
  /\ transit = [v \in VenueSet |-> 0]
  /\ \E b \in UpdateFromCex(<<>>, CexReport(config.side, actual["binance"]), config.chain) :
       book = [v \in VenueSet |->
                 IF v = "binance" THEN b ELSE UpdateFromWallet(<<>>, Reported(actual[v]))]
  /\ main = [at |-> "tick", seen |-> 0] /\ tick = "idle"
  /\ reb = [at |-> "sleep", steps |-> <<>>, snap |-> actual]
  /\ pause = "no" /\ halted = "no" /\ moved = "no"
  /\ late = 0 /\ fills = 0 /\ plans = 0 /\ syncs = 0

\* The exchange balance changes under a sync in progress.
Moves(v) == moved' = IF v = "binance" THEN "yes" ELSE moved

-----------------------------------------------------------------------------
(* The main loop.                                                          *)

\* Mutant: the tick does not look at the rebalance pause.
TickBeginUnpaused ==
  /\ main.at = "tick" /\ tick = "idle" /\ halted = "no"
  /\ tick' = "running"
  /\ UNCHANGED <<config, actual, transit, book, main, reb, pause, halted, moved, late, fills, plans, syncs>>

\* `tick` reads the rebalance pause once, on entry.
TickBegin ==
  /\ main.at = "tick" /\ tick = "idle" /\ halted = "no" /\ pause = "no"
  /\ tick' = "running"
  /\ UNCHANGED <<config, actual, transit, book, main, reb, pause, halted, moved, late, fills, plans, syncs>>

\* It may push signals before it returns.
TickEnd ==
  /\ tick = "running" /\ tick' = "idle"
  /\ late' \in {late, IF pause = "yes" THEN late + 1 ELSE late}
  /\ UNCHANGED <<config, actual, transit, book, main, reb, pause, halted, moved, fills, plans, syncs>>

\* The sync is due: `sync_cex_balance` reads the account, or fails, which skips
\* the verification too.
SyncFetch ==
  /\ main.at = "tick" /\ tick = "idle" /\ halted = "no" /\ syncs < MaxSyncs
  /\ syncs' = syncs + 1
  /\ \/ main' = [at |-> "sync", seen |-> actual["binance"]] /\ moved' = "no"
     \/ main' = [at |-> "wallet", seen |-> 0] /\ UNCHANGED moved
  /\ UNCHANGED <<config, actual, transit, book, tick, reb, pause, halted, late, fills, plans>>

\* Mutant: the verification runs on what the tracker held before the sync.
SyncApplyAfterVerify ==
  /\ main.at = "sync" /\ main' = [main EXCEPT !.at = "verify"]
  /\ UNCHANGED <<config, actual, transit, book, tick, reb, pause, halted, moved, late, fills, plans, syncs>>

\* `update_from_cex` with what was read.
SyncApply ==
  /\ main.at = "sync" /\ main' = [main EXCEPT !.at = "verify"]
  /\ \E b \in UpdateFromCex(book["binance"], CexReport(config.side, main.seen), config.chain) :
       book' = [book EXCEPT !["binance"] = b]
  /\ UNCHANGED <<config, actual, transit, tick, reb, pause, halted, moved, late, fills, plans, syncs>>

\* `verify_cex_balance`: a second read; its failure counts as no mismatch.
VerifyFetch ==
  /\ main.at = "verify"
  /\ main' \in {[at |-> "compare", seen |-> actual["binance"]], [at |-> "wallet", seen |-> 0]}
  /\ UNCHANGED <<config, actual, transit, book, tick, reb, pause, halted, moved, late, fills, plans, syncs>>

\* The comparison, with what was read under canonical names whatever the chain;
\* any mismatch halts the bot.
VerifyCompare ==
  /\ main.at = "compare" /\ main' = [at |-> "wallet", seen |-> 0]
  /\ \E fresh \in Keyed("arbitrum", CexReport(config.side, main.seen)) :
       LET totals == [a \in DOMAIN fresh |-> Total(fresh[a])]
       IN halted' = IF VerifyBalances(book["binance"], totals, Tolerance) = {} THEN halted ELSE "yes"
  /\ UNCHANGED <<config, actual, transit, book, tick, reb, pause, moved, late, fills, plans, syncs>>

\* `sync_wallet_balance`: a failed token read makes the token disappear, a failed
\* read of the native balance ends the sync.
WalletFetch ==
  /\ main.at = "wallet"
  /\ main' \in {[at |-> "wallet_apply", seen |-> actual["wallet"]], [at |-> "wallet_apply", seen |-> 0],
                [at |-> "tick", seen |-> 0]}
  /\ UNCHANGED <<config, actual, transit, book, tick, reb, pause, halted, moved, late, fills, plans, syncs>>

WalletApply ==
  /\ main.at = "wallet_apply" /\ main' = [at |-> "tick", seen |-> 0]
  /\ book' = [book EXCEPT !["wallet"] =
       UpdateFromWallet(book["wallet"], FetchWallet(Reported(main.seen), {}))]
  /\ UNCHANGED <<config, actual, transit, tick, reb, pause, halted, moved, late, fills, plans, syncs>>

-----------------------------------------------------------------------------
(* The rebalance loop.                                                     *)

\* Mutant: an early return leaves the pause behind.
ReturnPaused(at) ==
  /\ reb' = [at |-> at, steps |-> <<>>, snap |-> reb.snap]
  /\ UNCHANGED pause

\* `run_rebalance_check` returns: the pause it set is lifted.
Return(at) ==
  /\ reb' = [at |-> at, steps |-> <<>>, snap |-> reb.snap]
  /\ pause' = "no"

\* The loop wakes up, plans from the tracker, and tells the operator of a plan
\* with steps.
RebalanceCheck ==
  /\ reb.at = "sleep" /\ halted = "no" /\ plans < MaxPlans
  /\ LET held == Holding(book)
         steps == PlanExecutable(Venues, held, Threshold, MinBalance, WithdrawFee, FALSE)
     IN /\ steps # <<>>
        /\ reb' = [at |-> "alert", steps |-> steps, snap |-> held]
        /\ plans' = plans + 1
  /\ UNCHANGED <<config, actual, transit, book, main, tick, pause, halted, moved, late, fills, syncs>>

\* The alert is out: a live plan pauses trading.
PauseTrading ==
  /\ reb.at = "alert" /\ reb' = [reb EXCEPT !.at = "validate"]
  /\ pause' = IF Live /\ config.pause_trading = "yes" THEN "yes" ELSE pause
  /\ late' = 0
  /\ UNCHANGED <<config, actual, transit, book, main, tick, halted, moved, fills, plans, syncs>>

\* The loop wakes up after a halt and stops for good.
RebalanceStop ==
  /\ reb.at = "sleep" /\ halted = "yes"
  /\ reb' = [reb EXCEPT !.at = "stopped"]
  /\ UNCHANGED <<config, actual, transit, book, main, tick, pause, halted, moved, late, fills, plans, syncs>>

NextStep ==
  IF Len(reb.steps) = 1 THEN Return("sleep")
  ELSE reb' = [reb EXCEPT !.at = "validate", !.steps = Tail(@)] /\ UNCHANGED pause

\* `validate_rebalance_step`: a refused step ends a live plan; a dry run only
\* goes through the steps.
ValidateStep ==
  /\ reb.at = "validate"
  /\ \/ ~Live /\ NextStep
     \/ Live /\ Return("sleep")
     \/ Live /\ reb' = [reb EXCEPT !.at = "submit"] /\ UNCHANGED pause
  /\ UNCHANGED <<config, actual, transit, book, main, tick, halted, moved, late, fills, plans, syncs>>

Amount == Head(reb.steps).amount
From == Head(reb.steps).from
To == Head(reb.steps).to

\* `execute_rebalance_step`, the request: `execute_cex_to_wallet_withdraw`
\* sends the amount less the fee, `execute_wallet_to_cex_transfer` the whole
\* amount.  It may fail, also after the venue has taken it; the tracker is not
\* told either way.
SubmitStep ==
  /\ reb.at = "submit"
  /\ \/ Return("sleep") /\ UNCHANGED <<actual, transit, moved>>
     \/ /\ actual[From] >= Amount
        /\ actual' = [actual EXCEPT ![From] = @ - Amount]
        /\ transit' = [transit EXCEPT ![To] = @ + Amount - (IF IsCex(From) THEN WithdrawFee ELSE 0)]
        /\ Moves(From)
        /\ Return("sleep") \/ (reb' = [reb EXCEPT !.at = "confirm"] /\ UNCHANGED pause)
  /\ UNCHANGED <<config, book, main, tick, halted, late, fills, plans, syncs>>

\* Mutant: the wait for completion has no deadline.
ConfirmStepPatient ==
  /\ reb.at = "confirm" /\ transit[To] = 0 /\ NextStep
  /\ UNCHANGED <<config, actual, transit, book, main, tick, halted, moved, late, fills, plans, syncs>>

\* The wait for completion: done, or failed, or timed out.
ConfirmStep ==
  /\ reb.at = "confirm"
  /\ \/ transit[To] = 0 /\ NextStep
     \/ Return("sleep")
  /\ UNCHANGED <<config, actual, transit, book, main, tick, halted, moved, late, fills, plans, syncs>>

-----------------------------------------------------------------------------
(* Everything else that moves balances.                                    *)

\* A leg of an arbitrage fills at a venue; the tracker learns of it by sync.
Fill(v, d) ==
  /\ fills < MaxFills /\ actual[v] + d >= 0
  /\ actual' = [actual EXCEPT ![v] = @ + d] /\ fills' = fills + 1 /\ Moves(v)
  /\ UNCHANGED <<config, transit, book, main, tick, reb, pause, halted, late, plans, syncs>>

\* A transfer arrives.
Credit(v) ==
  /\ transit[v] > 0
  /\ actual' = [actual EXCEPT ![v] = @ + transit[v]] /\ transit' = [transit EXCEPT ![v] = 0]
  /\ Moves(v)
  /\ UNCHANGED <<config, book, main, tick, reb, pause, halted, late, fills, plans, syncs>>

MainStep ==
  TickBegin \/ TickEnd \/ SyncFetch \/ SyncApply \/ VerifyFetch \/ VerifyCompare
    \/ WalletFetch \/ WalletApply
RebalanceStep == RebalanceStop \/ PauseTrading \/ ValidateStep \/ SubmitStep \/ ConfirmStep

Next ==
  \/ MainStep \/ RebalanceCheck \/ RebalanceStep
  \/ \E v \in VenueSet : Credit(v) \/ \E d \in {-2, 2} : Fill(v, d)

\* The step under way is a transfer from the wallet: balance, gas price, nonce,
\* send and receipt are calls of `ChainClient`, which sets no request timeout.
\* (A withdrawal of WETH ends with a wrap, which waits on the chain as well; the
\* asset here is another.)
ChainAwaited == reb.at \in {"submit", "confirm"} /\ From = "wallet"

\* The exchange and the alert sink are called with a request timeout, and the wait
\* for a withdrawal has a deadline.
Spec == Init /\ [][Next]_vars /\ WF_vars(RebalanceStep /\ ~ChainAwaited)

-----------------------------------------------------------------------------
(* Properties.                                                             *)

\* Type invariant; the tracker never holds a negative balance.
TypeOK ==
  /\ actual \in [VenueSet -> Nat] /\ transit \in [VenueSet -> Nat]
  /\ \A v \in VenueSet : \A a \in DOMAIN book[v] : book[v][a].free >= 0
  /\ main.at \in {"tick", "sync", "verify", "compare", "wallet", "wallet_apply"}
  /\ reb.at \in {"sleep", "alert", "validate", "submit", "confirm", "stopped"}
  /\ tick \in {"idle", "running"} /\ pause \in {"yes", "no"} /\ halted \in {"yes", "no"}
  /\ fills \in 0..MaxFills /\ plans \in 0..MaxPlans /\ syncs \in 0..MaxSyncs

\* A name that the tracker does not use off Arbitrum, or that two assets share.
NamesClash ==
  \E a \in DOMAIN config.side :
    \/ config.chain = "other" /\ Canonical(a) # a
    \/ \E b \in DOMAIN config.side \ {a} : Canonical(b) = Canonical(a)

\* An asset the tracker holds under another name than the verification looks for.
LostName ==
  /\ config.chain = "other"
  /\ \E a \in DOMAIN config.side : Canonical(a) # a /\ Canonical(a) \notin DOMAIN config.side

\* `verify_cex_balance` compares a second read with what the first read has just
\* written: a halt never means that the tracker had drifted before the sync.  It
\* means that the exchange balance moved between the two reads, or that the two
\* name an asset differently: the sync canonicalises on Arbitrum only, and of two
\* assets with one canonical name each keeps either.  Off Arbitrum an account
\* that holds ETH (or USDC.E) alone halts the bot at every verification.
MismatchMeansMoved ==
  [][main.at = "compare" /\ main'.at = "wallet" =>
       /\ halted' # halted => moved = "yes" \/ NamesClash
       /\ LostName => halted' = "yes"]_vars

\* Trading is paused exactly while a live plan is being carried out: every way
\* out of `run_rebalance_check` lifts the pause, and while it stands only the tick
\* that was already past its check may still push a signal.
PauseMatchesPlan ==
  /\ TypeOK
  /\ pause = "yes" <=> (reb.at \in {"validate", "submit", "confirm"} /\ Live /\ config.pause_trading = "yes")
  /\ pause = "yes" => late <= 1

\* The pause does not outlast the plan: every wait of a step ends, except those on
\* the chain, where a transfer from the wallet may keep trading paused for good.
PauseEnds == pause = "yes" ~> (pause = "no" \/ []ChainAwaited)
=============================================================================
