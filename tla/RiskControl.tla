----------------------------- MODULE RiskControl -----------------------------
(***************************************************************************)
(* What may stop the bot from trading: `RiskManager` (src/safety/limits.rs)*)
(* and `safety_check` (src/safety/killswitch.rs), `PnlBreaker`             *)
(* (src/executor/recovery.rs) and `HaltCoordinator`                        *)
(* (src/observability/server.rs), as the main loop and the completion      *)
(* consumer of src/bin/arb_bot.rs use them.  Queue, worker and executions  *)
(* are reduced to a number of trades under way (TradingPipeline has them). *)
(*                                                                         *)
(* USD amounts are integers.  `now` counts instants, Hour and Day of them  *)
(* to an hour and a day.                                                   *)
(***************************************************************************)
EXTENDS Integers, Sequences

CONSTANTS
  Capital,          \* --initial-capital-usd
  MaxDailyLoss, MaxOpen, MaxPerHour, LossLimit, MaxTrade,  \* RiskLimits
  MaxTradePct, MaxDrawdownPct,                             \* RiskLimits, in percent
  AbsTrade, AbsDailyLoss, AbsPerHour, MinCapital,          \* the ABSOLUTE_ limits
  BreakerLoss,      \* PnlBreakerConfig.max_daily_loss_usd
  Notionals,        \* notional_usd of the signals
  Results,          \* actual_net_pnl of completed trades
  WorstLoss,        \* no completed trade loses more; the code sets no such limit
  Hour, Day,
  MaxTime, MaxTrades  \* bounds: the last instant, trades in a behaviour

ASSUME LimitsAssumption ==
  /\ Capital \in Nat /\ MaxDailyLoss \in Nat /\ MaxOpen \in Nat \ {0} /\ MaxPerHour \in Nat
  /\ LossLimit \in Nat /\ MaxTrade \in Nat /\ MaxTradePct \in Nat /\ MaxDrawdownPct \in Nat
  /\ AbsTrade \in Nat /\ AbsDailyLoss \in Nat /\ AbsPerHour \in Nat /\ MinCapital \in Nat
  /\ BreakerLoss \in Nat
ASSUME TradesAssumption ==
  /\ Notionals \subseteq Nat /\ Results \subseteq Int /\ WorstLoss \in Nat
  /\ \A r \in Results : r >= -WorstLoss
ASSUME TimeAssumption ==
  /\ Hour \in Nat \ {0} /\ Day \in Nat \ {0} /\ MaxTime \in Nat /\ MaxTrades \in Nat

VARIABLES
  now,
  main,               \* the main loop: loop top, in a tick, signal checked, trade started, left
  daily_pnl, current_capital, peak_capital, consecutive_losses,
  trades_this_hour, hour_started_at, open_positions,       \* RiskManager
  cumulative_pnl, day, tripped,                            \* PnlBreaker; tripped: halted
  halt,               \* HaltCoordinator: the first reason given, or "none"
  consumer,           \* where the completion consumer is
  net,                \* the result it is working on
  flying,             \* trades under way: queued, executing or completed
  starts              \* ghost: when the trades counted by the RiskManager started

\* The state that only some actions touch.
riskvars == <<daily_pnl, current_capital, peak_capital, consecutive_losses>>
hourvars == <<trades_this_hour, hour_started_at>>
breakervars == <<cumulative_pnl, day, tripped>>
vars == <<now, main, daily_pnl, current_capital, peak_capital, consecutive_losses,
          trades_this_hour, hour_started_at, open_positions, cumulative_pnl, day, tripped,
          halt, consumer, net, flying, starts>>

Mains == {"top", "tick", "checked", "started", "left"}
Consumers == {"idle", "alert", "result", "capital", "kill"}
Reasons == {"none", "pnl", "capital", "manual"}

-----------------------------------------------------------------------------
(* RiskManager.                                                            *)

\* `reset_hour_if_needed`: the window starts anew at the first use after it ends.
HourOver == now - hour_started_at >= Hour
CurrentTrades == IF HourOver THEN 0 ELSE trades_this_hour
CurrentHour == IF HourOver THEN now ELSE hour_started_at

\* `drawdown_pct` >= max_drawdown_pct, without the division.
DrawdownReached ==
  IF peak_capital <= 0 THEN MaxDrawdownPct = 0
  ELSE (peak_capital - current_capital) * 100 >= MaxDrawdownPct * peak_capital

\* `safety_check`
SafetyCheck(value) ==
  /\ value <= AbsTrade
  /\ daily_pnl > -AbsDailyLoss
  /\ current_capital >= MinCapital
  /\ CurrentTrades < AbsPerHour

\* Mutant: the loss limits are not consulted.
TradingPauseNoLossLimit ==
  \/ open_positions >= MaxOpen
  \/ DrawdownReached
  \/ CurrentTrades >= MaxPerHour
  \/ ~SafetyCheck(0)

\* `trading_pause`: is trading blocked whatever the signal?
TradingPause ==
  \/ open_positions >= MaxOpen
  \/ daily_pnl <= -MaxDailyLoss
  \/ DrawdownReached
  \/ consecutive_losses >= LossLimit
  \/ CurrentTrades >= MaxPerHour
  \/ ~SafetyCheck(0)

\* `check_pre_trade` lets a trade of this value pass.
CheckPreTrade(value) ==
  /\ value <= MaxTrade
  /\ value * 100 <= current_capital * MaxTradePct
  /\ ~TradingPause
  /\ SafetyCheck(value)

SatSub1(n) == IF n = 0 THEN 0 ELSE n - 1

\* `HaltCoordinator::halt`: the first reason stays.
HaltWith(reason) == halt' = IF halt = "none" THEN reason ELSE halt

-----------------------------------------------------------------------------
Init ==
  /\ now = 0 /\ main = "top"
  /\ daily_pnl = 0 /\ current_capital = Capital /\ peak_capital = Capital
  /\ consecutive_losses = 0 /\ trades_this_hour = 0 /\ hour_started_at = 0
  /\ open_positions = 0
  /\ cumulative_pnl = 0 /\ day = 0 /\ tripped = "no"
  /\ halt = "none" /\ consumer = "idle" /\ net = 0 /\ flying = 0 /\ starts = <<>>

ResetHour == trades_this_hour' = CurrentTrades /\ hour_started_at' = CurrentHour

Time ==
  /\ now < MaxTime /\ now' = now + 1
  /\ UNCHANGED <<main, riskvars, hourvars, open_positions, breakervars, halt, consumer, net,
                 flying, starts>>

-----------------------------------------------------------------------------
(* The main loop.                                                          *)

\* The top of the loop: leave when halted, otherwise a tick, which ends at
\* once while trading is paused.
LoopTop ==
  /\ main = "top"
  /\ \/ halt # "none" /\ main' = "left" /\ UNCHANGED hourvars
     \/ halt = "none" /\ ResetHour /\ main' = IF TradingPause THEN "top" ELSE "tick"
  /\ UNCHANGED <<now, riskvars, open_positions, breakervars, halt, consumer, net, flying, starts>>

\* The tick has a signal: check_pre_trade.
CheckSignal(value) ==
  /\ main = "tick" /\ Len(starts) < MaxTrades
  /\ ResetHour
  /\ main' = IF CheckPreTrade(value) THEN "checked" ELSE "tick"
  /\ UNCHANGED <<now, riskvars, open_positions, breakervars, halt, consumer, net, flying, starts>>

\* The order book is fetched and the score is too low.
SkipSignal ==
  /\ main = "checked" /\ main' = "tick"
  /\ UNCHANGED <<now, riskvars, hourvars, open_positions, breakervars, halt, consumer, net,
                 flying, starts>>

\* The score is high enough: record_trade_started.
RecordTradeStarted ==
  /\ main = "checked" /\ main' = "started"
  /\ trades_this_hour' = CurrentTrades + 1 /\ hour_started_at' = CurrentHour
  /\ open_positions' = open_positions + 1
  /\ starts' = Append(starts, now)
  /\ UNCHANGED <<now, riskvars, breakervars, halt, consumer, net, flying>>

\* The queue takes the signal.
Pushed ==
  /\ main = "started" /\ main' = "tick" /\ flying' = flying + 1
  /\ UNCHANGED <<now, riskvars, hourvars, open_positions, breakervars, halt, consumer, net, starts>>

\* The queue refuses it: record_trade_not_started.
RecordTradeNotStarted ==
  /\ main = "started" /\ main' = "tick"
  /\ trades_this_hour' = SatSub1(trades_this_hour) /\ UNCHANGED hour_started_at
  /\ open_positions' = SatSub1(open_positions)
  /\ starts' = SubSeq(starts, 1, Len(starts) - 1)
  /\ UNCHANGED <<now, riskvars, breakervars, halt, consumer, net, flying>>

TickEnd ==
  /\ main = "tick" /\ main' = "top"
  /\ UNCHANGED <<now, riskvars, hourvars, open_positions, breakervars, halt, consumer, net,
                 flying, starts>>

\* ctrl-c is seen between two ticks.
CtrlC ==
  /\ main = "top" /\ main' = "left"
  /\ UNCHANGED <<now, riskvars, hourvars, open_positions, breakervars, halt, consumer, net,
                 flying, starts>>

\* wait_for_halt wins the select: the tick is dropped where it stands, and a
\* trade that was counted and not yet queued stays counted.
DropTick ==
  /\ main \in {"tick", "checked", "started"} /\ halt # "none" /\ main' = "left"
  /\ UNCHANGED <<now, riskvars, hourvars, open_positions, breakervars, halt, consumer, net,
                 flying, starts>>

\* The watchdog file, the admin endpoint or a balance mismatch.
ManualHalt ==
  /\ HaltWith("manual")
  /\ UNCHANGED <<now, main, riskvars, hourvars, open_positions, breakervars, consumer, net,
                 flying, starts>>

-----------------------------------------------------------------------------
(* The queue and the completion consumer.                                  *)

\* A queued signal expires or is evicted: nobody tells the RiskManager.
SignalDropped ==
  /\ flying > 0 /\ flying' = flying - 1
  /\ UNCHANGED <<now, main, riskvars, hourvars, open_positions, breakervars, halt, consumer, net,
                 starts>>

\* Mutant: a cancelled trade no longer counts towards the hour.
RecordTradeCancelledUncounted ==
  /\ consumer = "idle" /\ flying > 0 /\ flying' = flying - 1
  /\ open_positions' = SatSub1(open_positions) /\ trades_this_hour' = SatSub1(trades_this_hour)
  /\ UNCHANGED <<now, main, riskvars, hour_started_at, breakervars, halt, consumer, net, starts>>

\* An execution that did not end in Done: record_trade_cancelled.
RecordTradeCancelled ==
  /\ consumer = "idle" /\ flying > 0 /\ flying' = flying - 1
  /\ open_positions' = SatSub1(open_positions)
  /\ UNCHANGED <<now, main, riskvars, hourvars, breakervars, halt, consumer, net, starts>>

\* Done: `PnlBreaker::record_pnl`, which starts a new day first.
RecordPnl(pnl) ==
  LET today == now \div Day
      kept == IF today = day THEN tripped ELSE "no"
      total == (IF today = day THEN cumulative_pnl ELSE 0) + pnl IN
  /\ consumer = "idle" /\ flying > 0 /\ flying' = flying - 1
  /\ net' = pnl /\ day' = today /\ cumulative_pnl' = total
  /\ tripped' = IF total < -BreakerLoss THEN "yes" ELSE kept
  /\ consumer' = IF tripped' = "yes" /\ tripped = "no" THEN "alert" ELSE "result"
  /\ UNCHANGED <<now, main, riskvars, hourvars, open_positions, halt, starts>>

\* Mutant: the alert is sent and the halt forgotten.
PnlHaltForgotten ==
  /\ consumer = "alert" /\ consumer' = "result" /\ UNCHANGED halt
  /\ UNCHANGED <<now, main, riskvars, hourvars, open_positions, breakervars, net, flying, starts>>

\* The alert is out: halt.
PnlHalt ==
  /\ consumer = "alert" /\ consumer' = "result" /\ HaltWith("pnl")
  /\ UNCHANGED <<now, main, riskvars, hourvars, open_positions, breakervars, net, flying, starts>>

\* `record_trade_result`
RecordTradeResult ==
  /\ consumer = "result" /\ consumer' = "capital"
  /\ daily_pnl' = daily_pnl + net /\ current_capital' = current_capital + net
  /\ peak_capital' = IF current_capital' > peak_capital THEN current_capital' ELSE peak_capital
  /\ open_positions' = SatSub1(open_positions)
  /\ consecutive_losses' = IF net < 0 THEN consecutive_losses + 1 ELSE 0
  /\ UNCHANGED <<now, main, hourvars, breakervars, halt, net, flying, starts>>

\* `is_below_absolute_min_capital`
CheckCapital ==
  /\ consumer = "capital"
  /\ consumer' = IF current_capital < MinCapital THEN "kill" ELSE "idle"
  /\ net' = 0
  /\ UNCHANGED <<now, main, riskvars, hourvars, open_positions, breakervars, halt, flying, starts>>

\* The alert is out: halt.
CapitalHalt ==
  /\ consumer = "kill" /\ consumer' = "idle" /\ HaltWith("capital")
  /\ UNCHANGED <<now, main, riskvars, hourvars, open_positions, breakervars, net, flying, starts>>

-----------------------------------------------------------------------------
Loop ==
  \/ LoopTop \/ SkipSignal \/ RecordTradeStarted \/ Pushed \/ RecordTradeNotStarted
  \/ TickEnd \/ CtrlC \/ DropTick
  \/ \E value \in Notionals : CheckSignal(value)

Consume ==
  \/ RecordTradeCancelled \/ PnlHalt \/ RecordTradeResult \/ CheckCapital \/ CapitalHalt
  \/ \E pnl \in Results : RecordPnl(pnl)

Next == Time \/ Loop \/ ManualHalt \/ SignalDropped \/ Consume

Spec == Init /\ [][Next]_vars

\* The loop and the consumer are polled; wait_for_halt is polled during a tick.
FairSpec ==
  /\ Spec
  /\ WF_vars(LoopTop) /\ WF_vars(DropTick)
  /\ WF_vars(PnlHalt) /\ WF_vars(RecordTradeResult) /\ WF_vars(CheckCapital) /\ WF_vars(CapitalHalt)

-----------------------------------------------------------------------------
(* Properties.                                                             *)

\* Types and ranges of the variables.
TypeOK ==
  /\ now \in Nat /\ main \in Mains /\ consumer \in Consumers /\ halt \in Reasons
  /\ daily_pnl \in Int /\ current_capital \in Int /\ peak_capital \in Int
  /\ consecutive_losses \in Nat /\ trades_this_hour \in 0..MaxPerHour /\ hour_started_at \in Nat
  /\ open_positions \in 0..MaxOpen /\ cumulative_pnl \in Int /\ day \in Nat
  /\ tripped \in {"yes", "no"} /\ net \in Int /\ net >= -WorstLoss
  /\ flying \in Nat /\ starts \in Seq(Nat)

\* The limits of `check_pre_trade` are read before trades under way report, so
\* they may be overshot, but by no more than MaxOpen trades can do: by their
\* worst losses for the daily limit, by their number for the losing streak.
LossBounded ==
  /\ daily_pnl >= -MaxDailyLoss - WorstLoss * MaxOpen
  /\ consecutive_losses < LossLimit + MaxOpen

\* `max_trades_per_hour` is counted in windows that follow each other, so any
\* hour holds trades of at most two of them: of 2 * MaxPerHour + 1 trades in a
\* row the last starts at least an hour after the first.
HourlyRate ==
  \A i \in DOMAIN starts :
    i + 2 * MaxPerHour \in DOMAIN starts => starts[i + 2 * MaxPerHour] - starts[i] >= Hour

\* "Once halted, the bot breaks out of the main loop": a tripped PnL breaker and
\* a capital below the absolute minimum both end the main loop.
BreachStopsBot == (tripped = "yes" \/ current_capital < MinCapital) ~> (main = "left")

=============================================================================
