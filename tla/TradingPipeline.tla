--------------------------- MODULE TradingPipeline ---------------------------
(***************************************************************************)
(* From a scored signal to its settled result: the enqueue end of `tick`   *)
(* and the main loop (src/bin/arb_bot.rs), the open-position counter of    *)
(* `RiskManager` (src/safety/limits.rs), `SignalQueue` and `QueueWorker`   *)
(* (src/executor/queue.rs), the reservations of `InventoryTracker`         *)
(* (src/inventory/tracker.rs), the spawned executions and the completion   *)
(* consumer.  Five kinds of task interleave: the main loop, the queue      *)
(* worker, one task per execution, the consumer, and whoever calls halt.   *)
(*                                                                         *)
(* Executor::execute is one step here (LegExecution has its inside).       *)
(***************************************************************************)
EXTENDS Integers, Sequences, FiniteSets

CONSTANTS
  Signals,         \* the signals the generator produces in a run
  Info,            \* per signal: direction, size, cex_price, dex_price, score
  Free,            \* per inventory key: the free balance
  MaxSize,         \* QueueConfig.max_size
  MaxConcurrent,   \* QueueWorker.max_concurrent_executions (already at least 1)
  MaxOpen          \* RiskLimits.max_open_positions

Keys == {"cex_base", "cex_quote", "wallet_base", "wallet_quote"}
Directions == {"BuyCexSellDex", "BuyDexSellCex"}

ASSUME SignalsAssumption == IsFiniteSet(Signals)
ASSUME InfoAssumption ==
  Info \in [Signals -> [direction: Directions, size: Nat \ {0}, cex_price: Nat \ {0},
                        dex_price: Nat \ {0}, score: Nat]]
ASSUME LimitsAssumption ==
  /\ Free \in [Keys -> Nat]
  /\ MaxSize \in Nat \ {0} /\ MaxConcurrent \in Nat \ {0} /\ MaxOpen \in Nat

VARIABLES
  status,          \* where each signal is
  enqueued_at,     \* per signal: when it entered the heap
  clock,           \* the next enqueue instant
  expired,         \* signals past their TTL or max_age
  open_positions,  \* RiskManager.open_positions
  reserved,        \* per inventory key: VenueBalance.reserved
  permits,         \* available permits of the worker's semaphore
  completions,     \* the completion channel
  main,            \* the main loop: running, stopping, draining the worker, exited
  worker,          \* the queue worker: top of its loop, popping, draining, stopped
  halted,          \* HaltCoordinator flag
  clean            \* did the drain finish before its timeout?

vars == <<status, enqueued_at, clock, expired, open_positions, reserved, permits, completions,
          main, worker, halted, clean>>

Statuses == {"new", "checked", "started", "unqueued", "queued", "popped", "reserved", "executing",
             "executed", "sent", "settling", "settled", "dropped", "evicted", "expired", "panicked",
             "lost"}

With(st) == {s \in Signals : status[s] = st}
Among(sts) == {s \in Signals : status[s] \in sts}

\* Counted by record_trade_started and still on their way to a settlement.
LiveStatuses == {"started", "unqueued", "queued", "popped", "reserved", "executing", "executed",
                 "sent", "settling"}
Live == Among(LiveStatuses)
\* What the current tick, the worker and the consumer work on.
InTick == Among({"checked", "started", "unqueued"})
InWorker == Among({"popped", "reserved"})
InConsumer == With("settling")
Queued == With("queued")
\* Tasks that hold a permit.
Running == Among({"executing", "executed"})
\* Signals whose reservations were made and not yet released by their task.
Holding == Among({"reserved", "executing", "executed"})

Alive == main # "exited"

-----------------------------------------------------------------------------
(* Pure helpers.                                                           *)

\* `Ord for PrioritizedSignal`: higher score first, then the older entry.
Beats(a, b) ==
  \/ Info[a].score > Info[b].score
  \/ Info[a].score = Info[b].score /\ enqueued_at[a] < enqueued_at[b]

\* What a signal's two legs take: quote for the buy leg, base for the sell leg.
LegAmounts(s, buy_price) ==
  LET buy == IF Info[s].direction = "BuyCexSellDex" THEN "cex_quote" ELSE "wallet_quote"
      sell == IF Info[s].direction = "BuyCexSellDex" THEN "wallet_base" ELSE "cex_base"
  IN [k \in Keys |-> IF k = buy THEN Info[s].size * buy_price
                     ELSE IF k = sell THEN Info[s].size ELSE 0]

\* The amounts `run_loop` reserves: the buy leg at the price of its own venue.
ReservedBy(s) ==
  LegAmounts(s, IF Info[s].direction = "BuyCexSellDex" THEN Info[s].cex_price ELSE Info[s].dex_price)

\* The amounts the completion consumer releases: always at the CEX price.
ReleasedByConsumer(s) == LegAmounts(s, Info[s].cex_price)

\* `InventoryTracker::get_available`; reservations may exceed the free balance.
CanExecute(s) == \A k \in Keys : ReservedBy(s)[k] = 0 \/ Free[k] >= reserved[k] + ReservedBy(s)[k]

\* Mutant: only the quote of the buy leg is reserved.
ReserveBuyLeg(s) ==
  [k \in Keys |-> reserved[k] + IF k \in {"cex_quote", "wallet_quote"} THEN ReservedBy(s)[k] ELSE 0]

\* `InventoryTracker::reserve` on both legs.
Reserve(s) == [k \in Keys |-> reserved[k] + ReservedBy(s)[k]]

\* Mutants: a release that frees nothing, and one that does not clamp.
ReleaseNothing(amounts) == reserved
ReleaseUnclamped(amounts) == [k \in Keys |-> reserved[k] - amounts[k]]

\* `InventoryTracker::release` on both legs: clamps at zero.
Release(amounts) ==
  [k \in Keys |-> IF reserved[k] < amounts[k] THEN 0 ELSE reserved[k] - amounts[k]]

SatSub1(n) == IF n = 0 THEN 0 ELSE n - 1

-----------------------------------------------------------------------------
Init ==
  /\ status = [s \in Signals |-> "new"]
  /\ enqueued_at = [s \in Signals |-> 0] /\ clock = 0 /\ expired = {}
  /\ open_positions = 0
  /\ reserved = [k \in Keys |-> 0]
  /\ permits = MaxConcurrent
  /\ completions = <<>>
  /\ main = "running" /\ worker = "top"
  /\ halted = FALSE /\ clean = FALSE

Move(s, st) == status' = [status EXCEPT ![s] = st]

-----------------------------------------------------------------------------
(* The main loop.                                                          *)

\* Mutant: the tick does not consult the open-position limit.
TickCheckUnlimited(s) ==
  /\ main = "running" /\ InTick = {} /\ status[s] = "new"
  /\ Move(s, "checked")
  /\ UNCHANGED <<enqueued_at, clock, expired, open_positions, reserved, permits, completions,
                 main, worker, halted, clean>>

\* A tick passes trading_pause and check_pre_trade for a signal; one under way
\* goes on after a halt until wait_for_halt polls.
TickCheck(s) ==
  /\ main = "running" /\ InTick = {} /\ status[s] = "new"
  /\ open_positions < MaxOpen
  /\ Move(s, "checked")
  /\ UNCHANGED <<enqueued_at, clock, expired, open_positions, reserved, permits, completions,
                 main, worker, halted, clean>>

\* The score is below min_score: on to the next signal.
TickBelowScore(s) ==
  /\ main = "running" /\ status[s] = "checked"
  /\ Move(s, "dropped")
  /\ UNCHANGED <<enqueued_at, clock, expired, open_positions, reserved, permits, completions,
                 main, worker, halted, clean>>

\* After scoring: record_trade_started.
TickStart(s) ==
  /\ main = "running" /\ status[s] = "checked"
  /\ open_positions' = open_positions + 1
  /\ Move(s, "started")
  /\ UNCHANGED <<enqueued_at, clock, expired, reserved, permits, completions, main, worker,
                 halted, clean>>

\* `SignalQueue::push`: room, or the weakest entry gives way, or the incoming
\* signal is dropped.  Nobody is told about an evicted entry.
Push(s) ==
  /\ main = "running" /\ status[s] = "started"
  /\ \/ /\ Cardinality(Queued) < MaxSize
        /\ Move(s, "queued")
        /\ enqueued_at' = [enqueued_at EXCEPT ![s] = clock] /\ clock' = clock + 1
     \/ \E w \in Queued :
          /\ Cardinality(Queued) >= MaxSize
          /\ \A q \in Queued \ {w} : Beats(q, w)
          /\ \/ /\ Info[s].score <= Info[w].score
                /\ Move(s, "unqueued")
                /\ UNCHANGED <<enqueued_at, clock>>
             \/ /\ Info[s].score > Info[w].score
                /\ status' = [status EXCEPT ![s] = "queued", ![w] = "evicted"]
                /\ enqueued_at' = [enqueued_at EXCEPT ![s] = clock] /\ clock' = clock + 1
  /\ UNCHANGED <<expired, open_positions, reserved, permits, completions, main, worker, halted, clean>>

\* push returned false: record_trade_not_started.
TickNotStarted(s) ==
  /\ main = "running" /\ status[s] = "unqueued"
  /\ open_positions' = SatSub1(open_positions)
  /\ Move(s, "dropped")
  /\ UNCHANGED <<enqueued_at, clock, expired, reserved, permits, completions, main, worker,
                 halted, clean>>

\* Someone calls HaltCoordinator::halt (loss limit, watchdog file, endpoint).
Halt ==
  /\ Alive /\ ~halted /\ halted' = TRUE
  /\ UNCHANGED <<status, enqueued_at, clock, expired, open_positions, reserved, permits,
                 completions, main, worker, clean>>

\* The main loop leaves: on a halt the tick is dropped at whatever await it is
\* suspended in, on ctrl-c only between ticks.
Shutdown ==
  /\ main = "running" /\ (halted \/ InTick = {})
  /\ main' = "stopping"
  /\ status' = [s \in Signals |-> IF s \in InTick THEN "lost" ELSE status[s]]
  /\ UNCHANGED <<enqueued_at, clock, expired, open_positions, reserved, permits, completions,
                 worker, halted, clean>>

\* The BotStopped alert is out: the worker is told to stop.
SignalStop ==
  /\ main = "stopping" /\ main' = "draining"
  /\ UNCHANGED <<status, enqueued_at, clock, expired, open_positions, reserved, permits,
                 completions, worker, halted, clean>>

\* The worker was drained, or shutdown_drain_secs passed: the process ends.
Exit ==
  /\ main = "draining" /\ main' = "exited"
  /\ clean' = (worker = "stopped")
  /\ UNCHANGED <<status, enqueued_at, clock, expired, open_positions, reserved, permits,
                 completions, worker, halted>>

\* A queued signal outlives its TTL or the queue's max_age.
Expire(s) ==
  /\ Alive /\ status[s] \in {"checked", "started", "queued"} /\ s \notin expired
  /\ expired' = expired \cup {s}
  /\ UNCHANGED <<status, enqueued_at, clock, open_positions, reserved, permits, completions, main,
                 worker, halted, clean>>

-----------------------------------------------------------------------------
(* The queue worker and the execution tasks.                               *)

\* The top of run_loop: the shutdown flag is read before, not with, the pop.
WorkerCheck ==
  /\ Alive /\ worker = "top" /\ InWorker = {}
  /\ worker' = IF main = "draining" THEN "draining" ELSE "pop"
  /\ UNCHANGED <<status, enqueued_at, clock, expired, open_positions, reserved, permits,
                 completions, main, halted, clean>>

\* `pop_valid`: the best valid signal; stale ones that rank above it are
\* thrown away on the way, silently.
WorkerPop ==
  /\ Alive /\ worker = "pop" /\ worker' = "top"
  /\ \/ \E s \in Queued \ expired :
          /\ \A q \in (Queued \ expired) \ {s} : Beats(s, q)
          /\ status' = [q \in Signals |->
               IF q = s THEN "popped"
               ELSE IF q \in Queued \cap expired /\ Beats(q, s) THEN "expired" ELSE status[q]]
     \/ /\ Queued \subseteq expired
        /\ status' = [q \in Signals |-> IF q \in Queued THEN "expired" ELSE status[q]]
  /\ UNCHANGED <<enqueued_at, clock, expired, open_positions, reserved, permits, completions, main,
                 halted, clean>>

\* Mutant: a signal that cannot be reserved is dropped without a completion.
WorkerReserveSilent(s) ==
  /\ Alive /\ status[s] = "popped"
  /\ \/ CanExecute(s) /\ Move(s, "reserved") /\ reserved' = Reserve(s)
     \/ ~CanExecute(s) /\ Move(s, "lost") /\ UNCHANGED reserved
  /\ UNCHANGED <<enqueued_at, clock, expired, open_positions, permits, completions, main, worker,
                 halted, clean>>

\* Under the inventory lock: both legs are reserved, or the signal is rejected
\* to the completion sink.
WorkerReserve(s) ==
  /\ Alive /\ status[s] = "popped"
  /\ \/ /\ CanExecute(s) /\ Move(s, "reserved")
        /\ reserved' = Reserve(s) /\ UNCHANGED completions
     \/ /\ ~CanExecute(s) /\ Move(s, "sent")
        /\ completions' = Append(completions, s) /\ UNCHANGED reserved
  /\ UNCHANGED <<enqueued_at, clock, expired, open_positions, permits, main, worker, halted, clean>>

\* Mutant: the execution is spawned without a permit.
WorkerSpawnUnbounded(s) ==
  /\ Alive /\ status[s] = "reserved"
  /\ permits' = SatSub1(permits)
  /\ Move(s, "executing")
  /\ UNCHANGED <<enqueued_at, clock, expired, open_positions, reserved, completions, main, worker,
                 halted, clean>>

\* A permit is taken and the execution spawned.
WorkerSpawn(s) ==
  /\ Alive /\ status[s] = "reserved" /\ permits > 0
  /\ permits' = permits - 1
  /\ Move(s, "executing")
  /\ UNCHANGED <<enqueued_at, clock, expired, open_positions, reserved, completions, main, worker,
                 halted, clean>>

\* Executor::execute returns.
Execute(s) ==
  /\ Alive /\ status[s] = "executing"
  /\ Move(s, "executed")
  /\ UNCHANGED <<enqueued_at, clock, expired, open_positions, reserved, permits, completions, main,
                 worker, halted, clean>>

\* The task releases its reservations, sends its context and drops its permit.
TaskFinish(s) ==
  /\ Alive /\ status[s] = "executed"
  /\ reserved' = Release(ReservedBy(s))
  /\ completions' = Append(completions, s)
  /\ permits' = permits + 1
  /\ Move(s, "sent")
  /\ UNCHANGED <<enqueued_at, clock, expired, open_positions, main, worker, halted, clean>>

\* The execution panics: its permit is dropped with the task, and neither the
\* reservation nor the position is given back.
TaskPanic(s) ==
  /\ Alive /\ status[s] = "executing"
  /\ permits' = permits + 1
  /\ Move(s, "panicked")
  /\ UNCHANGED <<enqueued_at, clock, expired, open_positions, reserved, completions, main, worker,
                 halted, clean>>

\* acquire_many(max_concurrent_executions) succeeds: every task is over.
WorkerDrained ==
  /\ Alive /\ worker = "draining" /\ permits = MaxConcurrent
  /\ worker' = "stopped"
  /\ UNCHANGED <<status, enqueued_at, clock, expired, open_positions, reserved, permits,
                 completions, main, halted, clean>>

-----------------------------------------------------------------------------
(* The completion consumer.                                                *)

\* A context is received and its amounts are released a second time.
ConsumerRelease ==
  /\ Alive /\ completions # <<>> /\ InConsumer = {}
  /\ LET s == Head(completions) IN
       /\ Move(s, "settling")
       /\ reserved' = Release(ReleasedByConsumer(s))
  /\ completions' = Tail(completions)
  /\ UNCHANGED <<enqueued_at, clock, expired, open_positions, permits, main, worker, halted, clean>>

\* record_trade_result or record_trade_cancelled.
ConsumerSettle(s) ==
  /\ Alive /\ status[s] = "settling"
  /\ open_positions' = SatSub1(open_positions)
  /\ Move(s, "settled")
  /\ UNCHANGED <<enqueued_at, clock, expired, reserved, permits, completions, main, worker, halted,
                 clean>>

\* The process is over.
Exited == main = "exited" /\ UNCHANGED vars

-----------------------------------------------------------------------------
MainStep ==
  \E s \in Signals :
    TickCheck(s) \/ TickBelowScore(s) \/ TickStart(s) \/ Push(s) \/ TickNotStarted(s)
WorkerStep ==
  \/ WorkerCheck \/ WorkerPop \/ WorkerDrained
  \/ \E s \in Signals : WorkerReserve(s) \/ WorkerSpawn(s)
TaskStep(s) == Execute(s) \/ TaskFinish(s)
ConsumerStep == ConsumerRelease \/ \E s \in Signals : ConsumerSettle(s)

Next ==
  \/ MainStep \/ WorkerStep \/ ConsumerStep
  \/ Halt \/ Shutdown \/ SignalStop \/ Exit \/ Exited
  \/ \E s \in Signals : TaskStep(s) \/ TaskPanic(s) \/ Expire(s)

Spec == Init /\ [][Next]_vars

\* The runtime polls every ready task, and executions return: LegExecution shows
\* that they do unless a call to the chain never answers.
Fairness ==
  /\ WF_vars(WorkerStep) /\ WF_vars(ConsumerStep)
  /\ \A s \in Signals : WF_vars(TaskStep(s))
FairSpec == Spec /\ Fairness

-----------------------------------------------------------------------------
(* Properties.                                                             *)

\* The type invariant: reservations and counters never go below zero, permits
\* never above max_concurrent_executions.
TypeOK ==
  /\ status \in [Signals -> Statuses]
  /\ enqueued_at \in [Signals -> Nat] /\ clock \in Nat /\ expired \subseteq Signals
  /\ open_positions \in Nat
  /\ reserved \in [Keys -> Nat]
  /\ permits \in 0..MaxConcurrent
  /\ completions \in Seq(Signals)
  /\ main \in {"running", "stopping", "draining", "exited"}
  /\ worker \in {"top", "pop", "draining", "stopped"}
  /\ halted \in BOOLEAN /\ clean \in BOOLEAN

\* The open-position counter is exact about what is under way and about what was
\* forgotten: it counts the signals between record_trade_started and their
\* settlement and, for ever, those that the queue evicted or let expire, whose
\* execution panicked, or whose tick a halt dropped.  It never passes the limit.
Forgotten == Among({"evicted", "expired", "panicked"})
OpenPositionsAccounted ==
  /\ TypeOK
  /\ Cardinality(Live \cup Forgotten) <= open_positions
  /\ open_positions <= Cardinality(Live \cup Forgotten \cup With("lost"))
  /\ open_positions <= MaxOpen

\* max_concurrent_executions caps the running executions, and a worker that
\* reports itself drained leaves none behind.
DrainedMeansIdle ==
  /\ Cardinality(Running) <= MaxConcurrent
  /\ worker = "stopped" => Running = {}
  /\ clean => Running = {}

\* The sum of an amount over a set of signals, counted unit by unit: the laws of
\* cardinalities are then the laws of the sum.
Total(amount, signals) == Cardinality(UNION {{s} \X (1..amount[s]) : s \in signals})
Made(k) == [s \in Signals |-> ReservedBy(s)[k]]
ReleasedAgain(k) == [s \in Signals |-> ReleasedByConsumer(s)[k]]

\* Reservations follow the executions they were made for.  None outlives its
\* execution, unless that panicked; and what is missing from those under way was
\* released a second time, so two signals commit one balance only up to what the
\* consumer has released for completions before.
ReservationsAccounted ==
  \A k \in Keys :
    /\ reserved[k] <= Total(Made(k), Holding \cup With("panicked"))
    /\ Total(Made(k), Holding) - reserved[k] <= Total(ReleasedAgain(k), Among({"settling", "settled"}))

\* Every signal in the queue is eventually settled, dropped or lost in a panic,
\* unless the bot shuts down first, given that executions return.
SignalsResolve ==
  \A s \in Signals :
    status[s] = "queued" ~> (status[s] \in {"settled", "evicted", "expired", "panicked"} \/ main # "running")
=============================================================================
