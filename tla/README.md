# TLA+ models of the arbitrage bot

This directory models the bot in TLA+, model-checks it with TLC on small
instances and proves the safety properties of all its state machines, and some of
what its pure code promises, with TLAPS for every value of the constants. The
reference is the Rust source; definitions keep its names, and `PROJECT.json` says
which lines each definition stands for, which hazards each property is about, and
which bug each property is known to catch.

## The system and its hard parts

The bot watches one or more pairs on a centralised exchange (CEX) and a
decentralised one (DEX), turns a price gap into a *signal*, and executes it as
two legs. There is no transaction across the two venues: most of what is hard
here happens when one leg is done and the other is late, partial, reverted or
unknown.

| Part | Modules | What makes it hard |
|---|---|---|
| Execution engine (`executor/engine.rs`) | `LegExecution`, `HedgePromise` | a timeout drops the future but not the order; a cancel races the fill; fills are partial; an unwind fails |
| Guards (`executor/recovery.rs`, `Executor::execute`) | `ExecutionGuards` | concurrent calls take each lock separately; a restart rebuilds instants from whole seconds |
| Reconciler (`executor/reconcile.rs`) | `Reconcile` | crash or failed write between receipt, verdict and unwind |
| Queue, worker, consumer (`executor/queue.rs`, `bin/arb_bot.rs`) | `TradingPipeline` | five kinds of task interleave; a signal may vanish while others count on it |
| Risk (`safety/*.rs`, `PnlBreaker`, `HaltCoordinator`) | `RiskControl` | check and count are separate; limits are read before trades under way report |
| On-chain submission (`executor/dex_swapper.rs`, `chain/*`) | `DexSubmission` | one nonce lane for concurrent jobs; a reply may be lost; a replacement races its original |
| Balances and rebalancing (`inventory/*.rs`, `bin/arb_bot.rs`) | `Treasury`, `Inventory`, `RebalanceOps` | belief and truth part between a read and its use; trading must pause and resume |
| Market data (`exchange/ws.rs`, `bin/arb_bot.rs`) | `DepthFeed`, `OrderBook` | gaps, reconnects, two caches with ages |
| Exchange access (`exchange/*.rs`) | `Gateway`, `ExchangeApi` | a retried order; weight counted on both sides; rounding; incomplete answers |
| Pricing (`pricing/*`) | `Amm`, `V3Pool`, `Routing`, `MarketFeeds` | integer rounding, search loops, partial failures |
| Strategy (`strategy/*`, `safety/validator.rs`) | `Strategy`, `Appraisal`, `LivePrices` | sizes, fees and inventory must agree; caches go stale |
| Accounting and checks (`inventory/pnl.rs`, `integration/*`) | `Accounting`, `ArbCheck` | which leg bought, which sold, in which currency |
| Start (`bin/arb_bot.rs`, `config/address_book.rs`) | `Startup` | several checks of one configuration that should agree |

## Modules

### State machines

`LegExecution` - one execution. Variables `at` (the await point), `state`,
`reason`, `leg1_fill_size`, `leg2_fill_size`, `sink`, `unwind_status` and `entry`
are the engine's side; `cex`, `dex` and `unw` are the truth at the venues: whether
an order or transaction was sent, for how much, and what it filled. An action is
what the engine does between two awaits (`Leg1CexReply`, `CancelDexReply`,
`UnwindReply`, ...), a timer firing (`Leg2DexTimeout`, ...), or a venue moving by
itself (`CexLands`, `DexLands`, ...). Amounts are base units, so the direction is a
sign that cancels out. `config` chooses CEX first or DEX first
(`use_flashbots`), a backend that fills the leg-1 handle sink or not, and a
reconcile store or not. The causes in `reason` stand for the error texts.

`HedgePromise` - the abstract specification of an execution: a position is opened,
hedged and undone at most once each, and a verdict of "hedged" or "flat" is true
when it is given and stays true. `LegExecution` instantiates it (`Promise`) with
the mapping `VerdictOf`, `Leg1Truth`, `Leg2Truth`, `unw.filled`; `KeepsPromise` says
that every step of engine and venues is a step of it or a stutter, and is both
checked and proved.

`ExecutionGuards` - several calls of `Executor::execute` around the legs. Each
critical section is one action: `CheckBreaker`, `CheckReplay`, `Validate`,
`FinishLegs` (with `mark_executed`), `Report`. `is_open_at` has its side effect, the
auto-reset. Time is in ticks with several ticks to a second, because `Instant`
and the journal's unix seconds round differently. `Restart` keeps the journal only.
The variables `history`, `before_trip`, `marked` and `durable` are ghosts.

`Reconcile` - the store, the worker and its caller. `Add` is the upsert of
`ReconcileStore::add`: a second add of a signal id puts its row back to pending with
the new hash, also while the worker is about to mark the old one (`raced`). An entry
of the model is what one `add` wrote; `status` says which of a signal's entries the
row holds. `InspectNext`, `Mark`, `TickDone`, `HandleOutcome` are the steps of one
tick; `InspectError`, `MarkError` and `Crash` may come between any two of them. A
failed update ends the tick and loses the outcomes marked before it, as the `?` in
`tick_once` does. `Requeue` is an operator's `add` of a row already there; the size
in it may be unusable, and then the unwind is skipped.

`TradingPipeline` - from `check_pre_trade` to settlement. `status` says where each
signal is; the main loop, the worker, one task per execution, the consumer and
whoever calls `halt` interleave. A halt is seen at the top of the loop, so a tick
past it still checks and pushes its signal. `Executor::execute` is one step here,
or a panic (`TaskPanic`). Free balances are constant: nothing in this path changes them
between two syncs.

`RiskControl` - the risk manager, the PnL breaker and the halt flag between the
main loop (`LoopTop`, `CheckSignal`, `RecordTradeStarted`, ...) and the completion
consumer (`RecordPnl`, `PnlHalt`, `RecordTradeResult`, `CheckCapital`, ...). Each
lock is one action, so a check may be stale when the trade is counted, and an
awaited alert stands between a trip and its halt. Queue and executions are a number
of trades under way; evicted and expired ones disappear from it and stay counted.
Days and hours are independent of each other, as in the code (the day is the UTC
date, the hour starts when it is first used). The bot never calls `reset_daily`, so
there is no such action.

`DexSubmission` - jobs of one wallet (swap, bundle, transfer) between their awaits:
`ReserveNext` and `MarkFailed` of the nonce manager, the allowance, the wrap, the
send with its retries over providers, the receipt poll, the bundle's target blocks
and relay answers, the same-nonce cancellation, the leg timer that drops the job
(around legs only: a transfer, an unwind and a cancellation run without one).
`mempool`, `bundles`, `receipts`, `account_nonce` and `block` are the chain
(external): it mines, evicts, or keeps what a failed send had delivered all the
same. `Restart` forgets the reservations.

`Treasury` - `actual` and `transit` are the balances, `book` the tracker's belief.
The main loop's sync and verification and the rebalance loop's plan, steps and
confirmations are each a read followed later by what is done with it; fills of
arbitrage legs come in between. `config.side` is what the exchange holds besides:
the tracker canonicalises names on Arbitrum only (`CexKey`), the verification
always, so ETH and WETH may meet under one key or miss each other. The operations
themselves are those of `Inventory`.

`DepthFeed` - `hist` is the exchange's book after each update, the stream carries
ranges of ids with gaps, skipped messages and disconnects, `task` is the depth task
with its local book, `depth` and `top` the two caches, `reader` the caller of
`fetch_order_book`, whose REST call takes time. A snapshot, from REST or from the
stream, shows the best `SeedDepth` levels of a side (`Shown`). `missed` is a ghost:
the levels the task was never shown, because they lay beyond a snapshot, changed
while no stream was listening, or did not parse.

`Gateway` - calls through the semaphore, the weighted window and the retry loop;
the exchange (external) counts weight itself, reports it in a header or leaves it
out, answers 429, and the network loses requests or answers. A send fails with an
error that is retried or one that is not.

### Pure code

Most of the rest has no concurrency: a function of its inputs and of what the
outside answers. It is written as operators (`Amm`, `V3Pool`, `Routing`,
`MarketFeeds`, `OrderBook`, `Strategy`, `Appraisal`, `LivePrices`, `Inventory`,
`Accounting`, `RebalanceOps`, `ArbCheck`, `ExchangeApi`, `Startup`), with errors as
`Ok`/`Err` records (`Results`) and external answers as parameters. `Trials` is the
harness: a step picks one call with one input and records both, so that a property
about all calls is an invariant. `PricingTrials`, `StrategyTrials`, `AccountTrials`,
`ExchangeTrials` and `StartupTrials` enumerate the inputs and state the properties
against reference definitions; `MCAlgorithms` puts them together.

Decimals are integers in units chosen so that what the code divides stays exact or
rounds where the code rounds; token ids stand for addresses and symbols. `V3Pool`
has the code's fixed-point algorithms with the scales as constants, because the
96-bit values are out of TLC's reach: a tick range of seven and a scale of 64.
`Amm` has the widths of its numbers as constants (`U96`, `U128`, `U256`,
`DecimalUnit`) and with them the overflow errors, the panics of `as_u128` and of the
conversion to `Decimal`, and the rounding of the impact; in the run they are scaled
down to 2^13, 2^15, 2^30 and 10^4. A panic is an error of its own kind (`Panic`).

### Proofs and instances

`ExecutionGuardsProofs`, `TradingPipelineProofs`, `DexSubmissionProofs` and
`GatewayProofs` hold the inductive invariants of, and the proofs about, the module
each is named after. `LegExecutionProofs` has those of `LegExecution` and of
`Reconcile` (whose specification is `RecSpec`, so that both can be extended),
`TreasuryProofs` those of `Treasury` and of the plans it works with (`Inventory`),
`RiskControlProofs` those of `RiskControl` and of the ledger row, the wallet sync, the
step guard and the transfers (`Accounting`, `Inventory`, `RebalanceOps`),
`MarketProofs` those of `DepthFeed`, `Amm`, the walk of `OrderBook` and the order
filters of `ExchangeApi`.

`MC*` - the instances TLC checks, where constants need definitions; `LegExecution`,
`Reconcile` and `DepthFeed` take theirs from their `.cfg` directly.

The definitions marked "Mutant" in a comment are small bugs: replacing the
definition after each by it breaks one property, which shows that the property
depends on that code.

## Runs

| Run | Instance | Shows |
|---|---|---|
| `leg_execution` | five units; thresholds so that 4-5 units are full, 3 proceeds, 2 aborts, 1 is dust; a surplus of one unit on chain; all eight configurations | `DoneIsHedged`, `SettledIsFlat`: a report matches the venues. `UnwindMatchesLeg1`: an unwind has the size leg 1 really filled. `EntryIsOpenLeg1`: what is handed to the reconciler is still open. `ResidualHasOneSource`: what stays open is one leg, for a named reason. `KeepsPromise`: the refinement. `Termination`: an execution returns, or hangs in one of two calls to the chain |
| `pipeline` | three signals, queue of one, two open positions, one permit | `OpenPositionsAccounted`: the counter is what is under way plus what was forgotten. `ReservationsAccounted`: reservations end with their execution, and what is missing was released twice. `DrainedMeansIdle`, `SignalsResolve` |
| `guards` | three calls, two with one id; threshold 2, window 2, cool-off 1, TTL 2 s at 2 ticks per second, six instants | `BreakerMatchesHistory`, `TripStopsNewCalls`, `FreshMeansUnmarked` |
| `reconcile` | two signals, one of them added twice | `UnwoundOnceAfterRevert`: one unwind per add, behind a real revert. `VerdictMatchesChain`: a stored verdict is the chain's. `EntriesResolve`: what can keep an entry pending for ever |
| `risk` | five trades, two at a time, two a window; windows of two instants, a day of three; results of -2 and +1; four instants | `LossBounded`, `HourlyRate`, `BreachStopsBot` |
| `dex_submission` | two jobs (a swap with a transfer or a bundle, an unwind with a bundle), two send attempts, two blocks, one restart | `NonceReuseHasCause`, `NonceGapHasOwner`: what becomes of each nonce. `CancelledMeansDead`: a cancelled swap never lands. `SubmissionEnds`: a leg ends; a transfer, an unwind or a cancellation may hang |
| `treasury` | one asset, four distributions, ETH and WETH beside it or not, on and off Arbitrum; two syncs, two plans, one fill | `PauseMatchesPlan`, `PauseEnds`: the trading pause, which only a call to the chain can prolong for ever. `MismatchMeansMoved`: a failed verification means a balance that moved in between, or two names for one asset |
| `depth_feed` | two prices, snapshots of one level a side, three updates, a channel of two, one failure, a REST call of one tick | `DivergenceIsMissed`: a wrong level is one the task was never shown. `QuoteAgeBounded`: a quote is at most max_age old, or max_age and a failed REST call. `StreamRecovers` |
| `gateway` | one order and two reads on two permits, one retry, one loss | `ExtraOrderMeansLostAnswer`: orders and what the caller learns. `OverBudgetHasCause`, `CallsEnd` |
| `algorithms` | about 37700 calls, each on its own | `PoolArithmeticIsSafe`, `RoutesAreSound`, `SignalsAreSound`, `LedgersBalance`, `MovesAreGuarded`, `AnswersAreFaithful`, `StartIsCovered`: each the conjunction of the named properties about one part, 52 in all, each stated where it is defined and with a mutant of its own |

The type invariants of `LegExecution`, `Reconcile` and `RiskControl` are theorems of
their own; that of every other state machine is a conjunct of one of its invariants,
and is proved with it. Two runs expect a violation:
each states what a comment says, and TLC finds a behaviour of the code that
contradicts it.

| Run | What the source says | What happens |
|---|---|---|
| `leg_unwind_in_flight` | no unwind while "the tx may still land" (reconcile.rs:5) | an error while waiting for the receipt counts as rejected, and leg 1 is unwound |
| `reconcile_attempted` | `Reverted`: "unwind was attempted" (reconcile.rs:52) | the verdict is stored first; a crash or a failed update loses the unwind |

Several properties are worded as "only for a named cause" because the plain
promise does not hold; the causes are the finding:

- `ResidualHasOneSource`: a `Rejected` execution, documented as "no position was
  opened" (engine.rs:75), can leave all of leg 1 open after a timeout without a
  handle, dust or a short swap; and a leg 2 below the minimum, where the code says
  "unwind leg1 to flatten" (engine.rs:1828), leaves what leg 2 filled.
- `OpenPositionsAccounted`: evicted, expired and panicked signals are counted for
  ever, so at the default limit of one an expired signal pauses trading with "Open
  position limit ({}) reached" (limits.rs:143) and nothing open.
- `ReservationsAccounted`: the task and the consumer both release a reservation
  (queue.rs:453, arb_bot.rs:2575), which frees another signal's amount up to that
  size; it needs more than one open position.
- `DivergenceIsMissed`: after a gap, where ws.rs:70 asks for "reconnection and fresh
  snapshot", the task rejoins on its cached book with update id 0, so levels that
  changed in between stay wrong until they change again; so do levels deeper than
  the 20 a REST snapshot has (arb_bot.rs:539).
- `QuoteAgeBounded`: the age of a bookTicker quote is judged by the time read before
  the REST call, so it can be older than `max_age` by the length of that call.
- `Termination`, `SubmissionEnds`, `PauseEnds`, `EntriesResolve`: `ChainClient` is built
  on an HTTP provider without a request timeout (chain/client.rs:50), and so is the
  Flashbots client (chain/flashbots.rs:112). Where no timer of the caller runs
  around it, a node that accepts a request and never answers holds an execution (a
  cancellation, a DEX unwind), a rebalance with its trading pause, or the whole
  reconcile worker.
- `EntriesResolve`: an entry also stays pending while its receipt query fails,
  whatever its age (reconcile.rs:562, as reconcile.rs:389 says).
- `UnwoundOnceAfterRevert`: once per add; `add` puts a terminal row back to pending
  (reconcile.rs:255), so a second add of a reverted swap has its leg 1 unwound again.
- `VerdictMatchesChain`: the row is updated by signal id, so an `add` between receipt
  and update has the new entry marked with the old one's verdict.
- `MismatchMeansMoved`: off Arbitrum the tracker keeps the name ETH and the
  verification looks for WETH (tracker.rs:80, arb_bot.rs:4095), so an exchange account
  that holds ETH alone halts the bot at every verification.
- `RebalanceFillIsBooked` (in `LedgersBalance`): a rebalance order that filled less
  than the minimum is given up and what it did fill is not booked
  (arb_bot.rs:1320).
- `DecayHalvesAtExpiry` (in `SignalsAreSound`): the score is halved at expiry and gone
  at twice the lifetime, where scorer.rs:267 says "0 beyond" expiry.
- `PrivacyIsKept` (in `StartIsCovered`): with `--require-private-dex` and without
  `--use-flashbots` a live start goes on with public swaps (arb_bot.rs:2355), where
  README.md:126 calls a missing auth key a startup error, the readiness check fails
  these flags (live_readiness.rs:836) and `--check-config` asks for the key
  (arb_bot.rs:4215). With `--use-flashbots` the start refuses.
- `NonceReuseHasCause`: a transfer rolls its nonce back when its send fails, though
  the node may have taken it; a swap does not.
- `ExtraOrderMeansLostAnswer`: an order POST is retried on a timeout without a
  client order id.
- `CheckedConfigStarts` (in `StartIsCovered`): what `--check-config` does not look at is listed in the
  property.

### Bounds

The sizes are the smallest at which the cases differ: one amount per fill class and
one above the request; two signals that compete for one balance and one the other
way; two calls with one id and one with another; as many instants as a window, a
cool-off and a TTL need to end within a behaviour; two entries, so that one is
marked when the update of the other fails. A queue of one is what makes eviction and
refusal happen with three signals and two positions; the order among several queued
signals is not tried. `RiskControl` needs as many trades as two full windows and one
more (2 * `MaxPerHour` + 1), and limits low enough that a trade under way overshoots
them. `DexSubmission` needs two jobs for a shared lane, two attempts for a send that
failed and arrived, and two blocks so that a bundle's target can pass. `DepthFeed`
needs three updates for a gap between two received ones and two prices so that a
missed level and a seen one differ and a snapshot of one level leaves one out;
`MaxCall` is the length of a REST call with its attempts, timeouts and waits, and a
call of one tick is longer than `MaxAge`. In `Gateway` the budget admits one read
and the order, so the second read has to wait for a window. `Treasury` starts with
the asset on one side, split, and too small to move, and one fill can fall between
any two reads. The clocks of `ExecutionGuards` and `RiskControl` stop at `MaxTime`;
the other bounds are the constants commented "bound" in each module. The inputs of
the trials are chosen around the thresholds of the code they call (zero, one below,
at, one above).

### Fairness

A call has to answer only if a timeout bounds it. The exchange's HTTP client
(http_client.rs:94) and the alert sink (alerts.rs:366) have one, the local store
returns; `ChainClient` and the Flashbots client have none.

`LegExecution`: the leg timers fire, the exchange and the store answer. No leg call
and no call to the chain has to. `TradingPipeline`: the runtime polls every ready
task; executions return, which is an assumption here: `Termination` of
`LegExecution` says when they do not. A panic never has to happen. `Reconcile`: the
worker is polled, time passes, and a store update succeeds or fails; the receipt
query need not return, and failures and crashes are unrestricted, so
`EntriesResolve` names them. `RiskControl`: the loop top, `wait_for_halt` (polled
every 250 ms) and the consumer's steps after it took a result; its alerts have a
request timeout. The wallet sync of the main loop (arb_bot.rs:3037) is a call to
the chain outside the race with the halt: `BreachStopsBot` assumes that it returns.
`DexSubmission`: the leg timer only; neither the nodes and the relay nor the chain
owe anything. `Treasury`: the rebalance loop is polled and its waits end, except on
the chain; fills, syncs and credits need not happen. `DepthFeed`: the depth task is
its own loop and REST ends by its timeout; the network refuses finitely many
connects and answers the others (`connect_async`, ws.rs:311, has no timeout), and
the exchange need not trade. `Gateway`: tasks are polled, time passes, and the
semaphore is first come, first served (strong fairness of `AcquirePermit`).

## Proofs

TLAPS checks these for every value of the constants under the named assumptions
of the modules: positive size, thresholds and slippage in range; any finite set of
signals, any balances and limits; any positive breaker threshold, window and TTL in
seconds, any cool-off; results no worse than `WorstLoss` and at least one open position;
for the wallet any set of jobs, number of restarts and blocks, and at least one
send attempt; any set of prices and any maximal age; for the transport positive
weights, a default budget no larger than the exchange's, and a polling interval
longer than the window; for the treasury any initial holdings, threshold, minimum
balance, withdrawal fee, tolerance and bounds that are natural numbers. About the
reconciler there is no assumption. A REST call of the depth feed takes at most
`MaxCall`, and the widths of `Amm` are any numbers in their order. The theorems on
pure code say what they assume of their arguments.

| Theorem | Statement |
|---|---|
| `LegExecutionProofs!TypeCorrect` | `Spec => []TypeOK` |
| `LegExecutionProofs!UnwindMatches` | `Spec => []UnwindMatchesLeg1` |
| `LegExecutionProofs!DoneHedged` | `Spec => []DoneIsHedged` |
| `LegExecutionProofs!SettledFlat` | `Spec => []SettledIsFlat` |
| `LegExecutionProofs!EntryOpen` | `Spec => []EntryIsOpenLeg1` |
| `LegExecutionProofs!ResidualOneSource` | `Spec => []ResidualHasOneSource` |
| `LegExecutionProofs!ExecutionKeepsPromise` | `Spec => KeepsPromise`, the refinement of `HedgePromise` |
| `ExecutionGuardsProofs!BreakerIsExact` | `Spec => []BreakerMatchesHistory` |
| `ExecutionGuardsProofs!TripIsFinal` | `Spec => []TripStopsNewCalls` |
| `ExecutionGuardsProofs!ReplayIsBlocked` | `Spec => FreshMeansUnmarked`, an action property |
| `LegExecutionProofs!ReconcileTypeCorrect` | `RecSpec => []RecTypeOK` |
| `LegExecutionProofs!VerdictMatches` | `RecSpec => []VerdictMatchesChain` |
| `LegExecutionProofs!UnwoundOnce` | `RecSpec => []UnwoundOnceAfterRevert`, with `add` as the upsert it is |
| `TradingPipelineProofs!PositionsAccounted` | `Spec => []OpenPositionsAccounted` |
| `TradingPipelineProofs!DrainedLeavesNone` | `Spec => []DrainedMeansIdle` |
| `TradingPipelineProofs!ReservationsFollow` | `Spec => []ReservationsAccounted` |
| `RiskControlProofs!TypeCorrect` | `Spec => []TypeOK`, with the ranges of the counters |
| `RiskControlProofs!LossesBounded` | `Spec => []LossBounded` |
| `RiskControlProofs!RateBounded` | `Spec => []HourlyRate` |
| `DexSubmissionProofs!CancelledDead` | `Spec => []CancelledMeansDead` |
| `DexSubmissionProofs!ReuseHasCause` | `Spec => []NonceReuseHasCause` |
| `DexSubmissionProofs!GapOwned` | `Spec => []NonceGapHasOwner` |
| `TreasuryProofs!PauseCoversPlan` | `Spec => []PauseMatchesPlan` |
| `TreasuryProofs!HaltMeansMoved` | `Spec => MismatchMeansMoved`, an action property |
| `TreasuryProofs!MinimumIsSpared` | `Spec => []PlanSparesMinimum` |
| `MarketProofs!DivergenceExplained` | `Spec => []DivergenceIsMissed` |
| `MarketProofs!QuotesAreFresh` | `Spec => []QuoteAgeBounded` |
| `GatewayProofs!ExtraOrderNeedsLoss` | `Spec => []ExtraOrderMeansLostAnswer` |
| `GatewayProofs!OverBudgetOnlyIfForgotten` | `Spec => []OverBudgetHasCause` |

The theorems on pure code, each for all arguments of the types it names:

| Theorem | Statement |
|---|---|
| `TreasuryProofs!PlansStayWithinTarget` | `Plan` and `PlanExecutable`, over any list of venues: no venue ends below the equal share or its minimum for having sent, none above the equal share for having received, and every transfer exceeds its fee |
| `RiskControlProofs!LedgerIsFaithful` | `ArbRecord` of `CalcActualPnl`: the rows are the legs that bought and sold, on different venues, and the gross is their cash up to the part of leg 1 that leg 2 did not match |
| `RiskControlProofs!SyncKeepsReservations` | `UpdateFromWallet` of `FetchWallet`: what is available is what is held less what is reserved, and `VerifyBalances` finds nothing |
| `RiskControlProofs!WrapIsPaid` | `WrapNativeEth` answers a transaction only if the native balance covers its value and its gas |
| `RiskControlProofs!StartupCoversTransfers` | under a configuration that `WethTransferConfig` accepts, `CexToWallet` never fails over address, token or decimals |
| `RiskControlProofs!StepsStayAllowed` | `ValidateRebalanceStep` passes only steps with allowed assets and venues, worth at most the maximum by any prices the feeds agree with |
| `MarketProofs!SwapsFavourPool` | `GetAmountOut`, `SimulateSwap`, `CompareSimulation`, when the swap is answered: output below the reserve, price at most the spot price, product of the reserves kept, no gain on a round trip, calculation and simulation equal |
| `MarketProofs!AmountInIsEnough` | what `GetAmountIn` answers is enough, and at most one more than needed; where it panics, no input below the largest 128-bit number is enough |
| `MarketProofs!SearchFindsEdge` | `FindMaxSizeForImpact` answers, if no impact fails on the way, a size within the limit whose successor is not, or is beyond half the reserve |
| `MarketProofs!WalkIsBest` | `WalkTheBook`, on a side with its best price first: the smaller of the amount and the depth is taken, "full" means all of it, and no other way of taking it costs less (or earns more) |
| `MarketProofs!NormalizedIsLargest` | `NormalizeLimitOrder` answers the largest order within the request that the filters take, and refuses one within the maxima only if there is none |

*Engine.* A report is about the past, and venues move after it is made, so no
property is inductive alone. `BookedInv` says leg 1 is booked exactly when its
venue is done with it, at what it filled; `VenueInv` that only a final order has a
fill; `AwaitInv` what each await point excludes (no unwind before `unwind`, no
swap before `leg2`, ...); `CleanInv` that an unwind for a clean reason starts with
leg 2 ruled out. With them each action preserves each property: a late landing
cannot touch an order that is final, and an order that is not final was not
booked. One lemma per action, one step per conjunct. `ReportInv` adds how each
report came about (a rejection sent neither leg 2 nor an unwind, ...), from which
the one source of a residual position follows.

*Refinement.* `TruthInv`, a consequence of the two, says that a verdict of "hedged"
or "flat" is true and that no order is left that could change it. A step of the
engine moves no position, so it judges or stutters; a step of a venue changes one
position, once, and never under a verdict.

*Guards.* `WindowInv` says that the breaker's deque is the end of the history of
failures, that what was pruned had left the window of the last failure and that
what is kept had not; a count over the deque is then a count over the history.
`ReplayInv` relates the memory of executed signals to what was marked: an entry
gives the age of its mark to within a second, and one that is gone had expired.
`FreshMeansUnmarked` is a property of steps and follows from it at the one step that
reads the memory.

*Reconciler.* `RecTickInv` says that entries still to be inspected or marked are
pending, or superseded by an entry that then counts as raced, and that the verdict
about to be written is one the chain has given; `RecBatchInv` that an outcome waiting
for its unwind is marked and not yet attempted. Entries are therefore listed, marked
and handled at most once each, also when `add` overwrites their row in between.

*Pipeline.* Each property compares a counter with a number of signals. A step moves
one signal, or a few, from one status to another: the lemmas named `...Moves` say
what that does to the sets of signals that hold a permit, a position or a
reservation, and the rest only counts. A sum of reserved amounts is the cardinality
of a set of units. `WorkerInv`, `TickInv` and `SentInv` are what the counting needs:
who is in the worker's hands when it stops, one signal a tick, each completion once.

*Risk.* Whether one more loss keeps within the bound depends on how many trades can
still report one. `LossInv` therefore charges every counted trade, and the one that
passed its check and is not yet counted, with `WorstLoss` in advance; `OpenInv` says
that every trade that reports was counted, so the charge it gives back is there.
`HourInv` does the same for the hourly counter. `WorstLoss` is an assumption about
the market: `RiskLimits.max_loss_per_trade` is read nowhere in the code. The hourly
rate spans two windows: `WindowInv` says which of the recorded starts belong to the
current one, and that all but `MaxPerHour` of the others lie an hour before it.

*Nonces.* `ChainInv` says a nonce is mined once, which makes a mined replacement and
a mined swap exclude each other (`DeadInv`). Reuse speaks of what was sent, but
whether a nonce that `mark_failed` gives back may be handed out again depends on who
still holds it. `OwnInv` therefore covers reservations as well: no job holds a nonce
that another holds or has sent; `AheadInv` keeps the counter above all of them, and
`FreshInv` says that nothing is out before the first read from the node. They are
claimed only until the first restart, and not of a transfer that rolled back a nonce
already sent (`Culprit`), because the code does not keep them there. Most steps of a
job touch no reservation: they are shown to be `Quiet`, and one lemma serves all.
The gaps hold across restarts. `Fits` says that a job moves to another nonce, or ends
with a receipt, only when the account is past its nonce; `GapInv` that what is in the
mempool has an owner too, because the counter starts again from there. That the
node's answer is the first nonce nothing carries (`PendingIsFirstFree`) needs that
there is one, which is a pigeonhole argument.

*Depth feed.* The cached book agrees with the exchange's at the update it was
published under, but for `missed`. An update keeps that when its range joins the
book's: a level that no update of the union changed is the same at both ends
(`Steady`). For a sequenced book that is the test in `Sequence`. A book taken over
from the cache has no number, and `JoinInv` says why its first update joins it all
the same: the new stream carries nothing older than what the cache holds. For the age
of a quote, `reader.begun` is at most `MaxCall` earlier than now while a call is on its
way.

*Treasury.* `Paused` ties the pause to where the rebalance loop is, and adds the one
tick that may be past its check, without which the bound on late signals is not
inductive. That a mismatch means a movement needs what held two reads earlier:
`ReadIsFresh` says that until the balance moves again what the sync read is what
there is, and once applied what the tracker holds, under the name the verification
looks for unless `NamesClash`. `PlanLeft` says that the steps
left are the end of a sound plan. That a fresh plan is one is
`PlansStayWithinTarget`, an induction over the rounds of the planner's two loops:
in `PlanStates`, what is left of a venue's surplus or deficit and what the steps so
far move add up to what it was.

*Arithmetic.* The pool and the order filters need the two bounds of a floor division
(`FloorDivision`) and that it is the largest such number (`FloorAtLeast`); the rest is
multiplication and the cancelling of a common factor. The widths only decide whether
there is an answer (`SwapAnswer`), so the arithmetic is that of the naturals. A swap back is a swap in the
pool the first one leaves, so the same lemma (`SwapOutput`) serves twice. The search
for the largest size is a loop, and its invariant `Windows` says that the best size
found is feasible and just below the window and that the size just above the window
is not; each round keeps that and shrinks the window, or is stuck on an impact that
fails, so after the last one the window is empty or the failure is the answer.
Monotony of the impact, which floored amounts do not have, is not used.

*Book walk.* The walk stops at some price: every level it took from is no dearer, every
level it did not empty no cheaper (`Stops`). At the difference to that price no other
choice from a level is better (`LevelCost`), and over two choices of the same amount the
differences cancel (`NoCheaper`). Selling is the same with the prices negated.

*Transport.* Whether one more order may be placed depends on the attempts made, and
whether an answer stands for an order on which answer it is. `Bounded` ties a call's
orders and lost answers to its attempts; `Paired` lets an order go without a lost
answer only while its "ok" is on the way or was read. `BudgetInv` adds to what the
exchange has counted the weight of the requests still on the way: both are within
the limiter's own count until it forgets some.

Only model-checked: all liveness properties (fairness is outside what TLAPS handles
here), and the properties of the pure code other than those above. `LedgersBalance`,
`MovesAreGuarded`, `PoolArithmeticIsSafe` and `AnswersAreFaithful` each combine
several; the theorems above state `LedgerMatchesLegs`, `GrossIsCash`,
`ReservationsSurviveSync`, `PlanStaysWithinTarget` (without the cost estimate),
`WrapIsFunded` (its first half), `StartupCoversRuntime`, `SwapKeepsProduct`,
`AmountInSuffices`, `MaxSizeIsEdge`, `StepWithinAllowance`, `WalkPaysBestPrices` (the
walk itself) and `NormalizedIsAccepted` (for filters already parsed) for all inputs, and
the others remain as they are checked. The searches of `Routing`, `V3Pool` and
`LivePrices` are recursive operators, in whose presence tlapm has no SMT solver; the
library's `FoldSet` and `SelectSeq`, which `Inventory`, `Accounting`, `Appraisal` and
`ExchangeApi` use, come without induction theorems the installed provers can
instantiate. The inductions above (`Steady`, `PendingIsFirstFree`, `Induct`) are over
sets of naturals and go by the least counterexample, and a loop is a recursive function
(`Fold` and `SumOf` of `Results`) whose rounds they count (`LoopExists`). The modules
under proof do not extend `SequencesExt`: tlapm carries every definition in scope
through each obligation, and that module's made the proofs several times slower.

## Not modelled

- Metrics, events, alerts, charts, CSV and log lines: they change no trading state.
- Signing, ABI encoding and decoding, URL building, key handling, argument parsing.
- The fork simulator's EVM and the RPC reads behind prices: their answers are
  choices of the environment.
- The transaction builder, the chain analyser and the core value types: encoding
  and arithmetic wrappers without state.
- Two orders of one leg: the engine never sends a leg twice (the transport may,
  which is `Gateway`). `Gateway` is not composed with `LegExecution`: a duplicate
  order is invisible to the engine.
- A malformed pair in the consumer.
- Command-line tools: demos and reports around the modelled parts.

## Read in passing

Behaviour met while modelling that no property above is about.

*Execution.* Two calls of `execute` with one signal id both pass `is_duplicate` if
the second comes before the first is marked (the bot's ids are random and each
signal is pushed once). `unwind_position` builds its signal with price zero
(engine.rs:440) and `LiveLegs::unwind` takes its limit price from it
(engine.rs:1076), which `normalize_limit_order` refuses (client.rs:133), so the
reconciler's unwind of a CEX leg on Binance fails and is logged. A bundle reported as not included can still be mined
afterwards.

*Risk.* `RiskManager`'s daily loss and losing streak are never reset, since nothing
calls `reset_daily` (limits.rs:226). Losses of executions that do not end in `Done`
reach neither the risk manager nor the breaker (arb_bot.rs:2698).
`--max-daily-loss-usd 0` is documented to disable the breaker (arb_bot.rs:366), but
`record_pnl` compares with it all the same (recovery.rs:198), so any loss trips it.
`max_loss_per_trade` and `max_position_per_token` are read nowhere.

*Balances.* `verify_cex_balance` answers `None` for a failed read and for a match
alike (arb_bot.rs:4112), and `verify_rebalance_after_step` (arb_bot.rs:1183) takes it for
a failure; only trade steps between two exchanges get there, which Binance and one
wallet never plan. A wallet read that fails, or an exchange report that leaves an
asset out, drops the entry with its reservation. ETH and WETH share one key on
Arbitrum. Arbitrage fills never call `record_trade`; rebalance transfers are
not recorded in the tracker. `RebalanceExecutor` retries an order only when it
reports no fill, and Bybit's client always reports none.

*Exchange.* Filters are cached for ever. The limiter only reads the
REQUEST_WEIGHT / MINUTE bucket, a 429 resets its counter, and a weight above the
threshold would wait for ever. Bybit requests are signed once before their retries.
One failed poll ends the wait for a transfer.

*Pricing and strategy.* `as_u128` panics on an input above 128 bits, which an output
close to an 18-decimal reserve asks for (amm.rs:209), and a DEX price of zero panics in
the generator's division (generator.rs:231). `MAX_SQRT_RATIO` lies above the ratio of
`MAX_TICK` (v3/math.rs:11), so the last ratios have no tick of their own. The doc of
`subscribe_depth_stream` promises a first snapshot and reconnects, and leaves both to
its caller. Gas only rescales decimals when it is deducted from an
output. `find_max_size_for_impact` finds a local edge, since the integer impact is
not monotone. The router ignores `is_partial`. V3 prices keep being served when
their log feed is stale. `detect_cross_dex_arb` sees a single pool; a missing fork
simulator counts as confirmation.

*Start.* `fee_bps` in the address book is an alias for
hundredths of a basis point. Of several seeds for one venue the last replaces the
others.

## Plan

1. More of the pure code for all inputs: `TradeMovesBalances` needs a sum over the assets
   of a book, `SummaryAddsUp` one over the rows of a day.
2. Compose `LegExecution` with `Reconcile`, so that an execution that timed out
   ends flat, and with `Gateway`, so that a duplicated order shows in the exposure.
