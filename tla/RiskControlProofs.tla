-------------------------- MODULE RiskControlProofs --------------------------
(***************************************************************************)
(* Proofs about RiskControl, for all limits, results and times.            *)
(*                                                                         *)
(* LossBounded is not inductive: that one more loss stays within the bound *)
(* depends on how many trades can still report one.  LossInv charges every *)
(* counted trade, and the one that has passed its check, with its worst    *)
(* loss in advance; OpenInv says that whoever reports was counted, so its  *)
(* charge is returned.  HourlyRate needs to know how the recorded starts   *)
(* lie to the current hour window and the one before it: WindowInv.        *)
(*                                                                         *)
(* The last part is about the pure operators that keep the books: the      *)
(* ledger's row, the wallet sync and the transfer from the exchange.       *)
(***************************************************************************)
EXTENDS RiskControl, Accounting, RebalanceOps, TLAPS

\* The provers a leaf is tried with unless it names its own.
USE SMTT(60), SMT, ZenonT(60)

\* Counted trades and the one that was checked and is about to be counted.
Charged == IF main = "checked" THEN open_positions + 1 ELSE open_positions
\* Trades that will be taken off the counter: under way, not yet queued, in the
\* consumer's hands.
Due ==
  flying + (IF main = "started" THEN 1 ELSE 0)
         + (IF consumer \in {"alert", "result"} THEN 1 ELSE 0)

OpenInv == Charged <= MaxOpen /\ Due <= open_positions
HourInv == main = "checked" => trades_this_hour < MaxPerHour
LossInv ==
  /\ daily_pnl - WorstLoss * Charged >= -MaxDailyLoss - WorstLoss * MaxOpen
  /\ consecutive_losses + Charged < LossLimit + MaxOpen
IInv == TypeOK /\ OpenInv /\ HourInv /\ LossInv

-----------------------------------------------------------------------------
\* A worst loss more per trade: multiplication by WorstLoss is monotone and
\* distributes over one more trade.
LEMMA Charge ==
  ASSUME NEW n \in Nat
  PROVE  /\ WorstLoss * n \in Nat
         /\ WorstLoss * (n + 1) = WorstLoss * n + WorstLoss
         /\ n <= MaxOpen => WorstLoss * n <= WorstLoss * MaxOpen
  <1>1. WorstLoss \in Nat /\ MaxOpen \in Nat
    BY LimitsAssumption, TradesAssumption
  <1>2. WorstLoss * n \in Nat /\ WorstLoss * (n + 1) = WorstLoss * n + WorstLoss
    BY <1>1, SMT
  <1>3. ASSUME n <= MaxOpen PROVE WorstLoss * n <= WorstLoss * MaxOpen
    <2>1. PICK d \in Nat : MaxOpen = n + d
      BY <1>1, <1>3
    <2>2. WorstLoss * d \in Nat
      BY <1>1, SMT
    <2>3. WorstLoss * MaxOpen = WorstLoss * n + WorstLoss * d
      BY <1>1, <2>1, SMT
    <2> QED BY <1>2, <2>2, <2>3
  <1> QED BY <1>2, <1>3

LEMMA InitInv == Init => IInv
  BY LimitsAssumption, TradesAssumption, Charge
     DEF Init, IInv, TypeOK, OpenInv, HourInv, LossInv, Charged, Due, Mains, Consumers, Reasons

LEMMA TimeInv ==
  ASSUME IInv, Time
  PROVE  IInv'
  <1>1. TypeOK'
    BY LimitsAssumption, TradesAssumption, TimeAssumption DEF IInv, TypeOK, OpenInv, HourInv,
       Charged, Due, Mains, Consumers, Reasons, Time, riskvars, hourvars, breakervars
  <1>2. OpenInv'
    BY LimitsAssumption DEF IInv, TypeOK, OpenInv, Charged, Due, Time, riskvars, hourvars,
       breakervars
  <1>3. HourInv'
    BY LimitsAssumption, TimeAssumption DEF IInv, TypeOK, HourInv, Time, riskvars, hourvars,
       breakervars
  <1>4. LossInv'
    BY LimitsAssumption, TradesAssumption, Charge DEF IInv, TypeOK, OpenInv, LossInv, Charged,
       Due, Time, riskvars, hourvars, breakervars
  <1> QED BY <1>1, <1>2, <1>3, <1>4 DEF IInv

LEMMA LoopTopInv ==
  ASSUME IInv, LoopTop
  PROVE  IInv'
  <1>1. TypeOK'
    BY LimitsAssumption, TradesAssumption, TimeAssumption DEF IInv, TypeOK, OpenInv, HourInv,
       Charged, Due, Mains, Consumers, Reasons, LoopTop, ResetHour, CurrentTrades, CurrentHour,
       riskvars, hourvars, breakervars
  <1>2. OpenInv'
    BY LimitsAssumption DEF IInv, TypeOK, OpenInv, Charged, Due, LoopTop, ResetHour,
       CurrentTrades, CurrentHour, riskvars, hourvars, breakervars
  <1>3. HourInv'
    BY LimitsAssumption, TimeAssumption DEF IInv, TypeOK, HourInv, LoopTop, ResetHour,
       CurrentTrades, CurrentHour, riskvars, hourvars, breakervars
  <1>4. LossInv'
    BY LimitsAssumption, TradesAssumption, Charge DEF IInv, TypeOK, OpenInv, LossInv, Charged,
       Due, LoopTop, ResetHour, CurrentTrades, CurrentHour, riskvars, hourvars, breakervars
  <1> QED BY <1>1, <1>2, <1>3, <1>4 DEF IInv

LEMMA CheckSignalInv ==
  ASSUME NEW value \in Notionals, IInv, CheckSignal(value)
  PROVE  IInv'
  <1>1. TypeOK'
    BY LimitsAssumption, TradesAssumption, TimeAssumption DEF IInv, TypeOK, OpenInv, HourInv,
       Charged, Due, Mains, Consumers, Reasons, CheckSignal, ResetHour, CurrentTrades,
       CurrentHour, CheckPreTrade, TradingPause, riskvars, hourvars, breakervars
  <1>2. OpenInv'
    BY LimitsAssumption DEF IInv, TypeOK, OpenInv, Charged, Due, CheckSignal, ResetHour,
       CurrentTrades, CurrentHour, CheckPreTrade, TradingPause, riskvars, hourvars, breakervars
  <1>3. HourInv'
    BY LimitsAssumption, TimeAssumption DEF IInv, TypeOK, HourInv, CheckSignal, ResetHour,
       CurrentTrades, CurrentHour, CheckPreTrade, TradingPause, riskvars, hourvars, breakervars
  <1>4. LossInv'
    BY LimitsAssumption, TradesAssumption, Charge DEF IInv, TypeOK, OpenInv, LossInv, Charged,
       Due, CheckSignal, ResetHour, CurrentTrades, CurrentHour, CheckPreTrade, TradingPause,
       riskvars, hourvars, breakervars
  <1> QED BY <1>1, <1>2, <1>3, <1>4 DEF IInv

LEMMA SkipSignalInv ==
  ASSUME IInv, SkipSignal
  PROVE  IInv'
  <1>1. TypeOK'
    BY LimitsAssumption, TradesAssumption, TimeAssumption DEF IInv, TypeOK, OpenInv, HourInv,
       Charged, Due, Mains, Consumers, Reasons, SkipSignal, riskvars, hourvars, breakervars
  <1>2. OpenInv'
    BY LimitsAssumption DEF IInv, TypeOK, OpenInv, Charged, Due, SkipSignal, riskvars, hourvars,
       breakervars
  <1>3. HourInv'
    BY LimitsAssumption, TimeAssumption DEF IInv, TypeOK, HourInv, SkipSignal, riskvars,
       hourvars, breakervars
  <1>4. LossInv'
    BY LimitsAssumption, TradesAssumption, Charge DEF IInv, TypeOK, OpenInv, LossInv, Charged,
       Due, SkipSignal, riskvars, hourvars, breakervars
  <1> QED BY <1>1, <1>2, <1>3, <1>4 DEF IInv

LEMMA RecordTradeStartedInv ==
  ASSUME IInv, RecordTradeStarted
  PROVE  IInv'
  <1>1. TypeOK'
    BY LimitsAssumption, TradesAssumption, TimeAssumption DEF IInv, TypeOK, OpenInv, HourInv,
       Charged, Due, Mains, Consumers, Reasons, RecordTradeStarted, CurrentTrades, CurrentHour,
       riskvars, hourvars, breakervars
  <1>2. OpenInv'
    BY LimitsAssumption DEF IInv, TypeOK, OpenInv, Charged, Due, RecordTradeStarted,
       CurrentTrades, CurrentHour, riskvars, hourvars, breakervars
  <1>3. HourInv'
    BY LimitsAssumption, TimeAssumption DEF IInv, TypeOK, HourInv, RecordTradeStarted,
       CurrentTrades, CurrentHour, riskvars, hourvars, breakervars
  <1>4. LossInv'
    BY LimitsAssumption, TradesAssumption, Charge DEF IInv, TypeOK, OpenInv, LossInv, Charged,
       Due, RecordTradeStarted, CurrentTrades, CurrentHour, riskvars, hourvars, breakervars
  <1> QED BY <1>1, <1>2, <1>3, <1>4 DEF IInv

LEMMA PushedInv ==
  ASSUME IInv, Pushed
  PROVE  IInv'
  <1>1. TypeOK'
    BY LimitsAssumption, TradesAssumption, TimeAssumption DEF IInv, TypeOK, OpenInv, HourInv,
       Charged, Due, Mains, Consumers, Reasons, Pushed, riskvars, hourvars, breakervars
  <1>2. OpenInv'
    BY LimitsAssumption DEF IInv, TypeOK, OpenInv, Charged, Due, Pushed, riskvars, hourvars,
       breakervars
  <1>3. HourInv'
    BY LimitsAssumption, TimeAssumption DEF IInv, TypeOK, HourInv, Pushed, riskvars, hourvars,
       breakervars
  <1>4. LossInv'
    BY LimitsAssumption, TradesAssumption, Charge DEF IInv, TypeOK, OpenInv, LossInv, Charged,
       Due, Pushed, riskvars, hourvars, breakervars
  <1> QED BY <1>1, <1>2, <1>3, <1>4 DEF IInv

LEMMA RecordTradeNotStartedInv ==
  ASSUME IInv, RecordTradeNotStarted
  PROVE  IInv'
  <1>1. TypeOK'
    BY LimitsAssumption, TradesAssumption, TimeAssumption DEF IInv, TypeOK, OpenInv, HourInv,
       Charged, Due, Mains, Consumers, Reasons, RecordTradeNotStarted, SatSub1, riskvars,
       hourvars, breakervars
  <1>2. OpenInv'
    BY LimitsAssumption DEF IInv, TypeOK, OpenInv, Charged, Due, RecordTradeNotStarted, SatSub1,
       riskvars, hourvars, breakervars
  <1>3. HourInv'
    BY LimitsAssumption, TimeAssumption DEF IInv, TypeOK, HourInv, RecordTradeNotStarted,
       SatSub1, riskvars, hourvars, breakervars
  <1>4. LossInv'
    BY LimitsAssumption, TradesAssumption, Charge DEF IInv, TypeOK, OpenInv, LossInv, Charged,
       Due, RecordTradeNotStarted, SatSub1, riskvars, hourvars, breakervars
  <1> QED BY <1>1, <1>2, <1>3, <1>4 DEF IInv

LEMMA TickEndInv ==
  ASSUME IInv, TickEnd
  PROVE  IInv'
  <1>1. TypeOK'
    BY LimitsAssumption, TradesAssumption, TimeAssumption DEF IInv, TypeOK, OpenInv, HourInv,
       Charged, Due, Mains, Consumers, Reasons, TickEnd, riskvars, hourvars, breakervars
  <1>2. OpenInv'
    BY LimitsAssumption DEF IInv, TypeOK, OpenInv, Charged, Due, TickEnd, riskvars, hourvars,
       breakervars
  <1>3. HourInv'
    BY LimitsAssumption, TimeAssumption DEF IInv, TypeOK, HourInv, TickEnd, riskvars, hourvars,
       breakervars
  <1>4. LossInv'
    BY LimitsAssumption, TradesAssumption, Charge DEF IInv, TypeOK, OpenInv, LossInv, Charged,
       Due, TickEnd, riskvars, hourvars, breakervars
  <1> QED BY <1>1, <1>2, <1>3, <1>4 DEF IInv

LEMMA CtrlCInv ==
  ASSUME IInv, CtrlC
  PROVE  IInv'
  <1>1. TypeOK'
    BY LimitsAssumption, TradesAssumption, TimeAssumption DEF IInv, TypeOK, OpenInv, HourInv,
       Charged, Due, Mains, Consumers, Reasons, CtrlC, riskvars, hourvars, breakervars
  <1>2. OpenInv'
    BY LimitsAssumption DEF IInv, TypeOK, OpenInv, Charged, Due, CtrlC, riskvars, hourvars,
       breakervars
  <1>3. HourInv'
    BY LimitsAssumption, TimeAssumption DEF IInv, TypeOK, HourInv, CtrlC, riskvars, hourvars,
       breakervars
  <1>4. LossInv'
    BY LimitsAssumption, TradesAssumption, Charge DEF IInv, TypeOK, OpenInv, LossInv, Charged,
       Due, CtrlC, riskvars, hourvars, breakervars
  <1> QED BY <1>1, <1>2, <1>3, <1>4 DEF IInv

LEMMA DropTickInv ==
  ASSUME IInv, DropTick
  PROVE  IInv'
  <1>1. TypeOK'
    BY LimitsAssumption, TradesAssumption, TimeAssumption DEF IInv, TypeOK, OpenInv, HourInv,
       Charged, Due, Mains, Consumers, Reasons, DropTick, riskvars, hourvars, breakervars
  <1>2. OpenInv'
    BY LimitsAssumption DEF IInv, TypeOK, OpenInv, Charged, Due, DropTick, riskvars, hourvars,
       breakervars
  <1>3. HourInv'
    BY LimitsAssumption, TimeAssumption DEF IInv, TypeOK, HourInv, DropTick, riskvars, hourvars,
       breakervars
  <1>4. LossInv'
    BY LimitsAssumption, TradesAssumption, Charge DEF IInv, TypeOK, OpenInv, LossInv, Charged,
       Due, DropTick, riskvars, hourvars, breakervars
  <1> QED BY <1>1, <1>2, <1>3, <1>4 DEF IInv

LEMMA ManualHaltInv ==
  ASSUME IInv, ManualHalt
  PROVE  IInv'
  <1>1. TypeOK'
    BY LimitsAssumption, TradesAssumption, TimeAssumption DEF IInv, TypeOK, OpenInv, HourInv,
       Charged, Due, Mains, Consumers, Reasons, ManualHalt, HaltWith, riskvars, hourvars,
       breakervars
  <1>2. OpenInv'
    BY LimitsAssumption DEF IInv, TypeOK, OpenInv, Charged, Due, ManualHalt, HaltWith, riskvars,
       hourvars, breakervars
  <1>3. HourInv'
    BY LimitsAssumption, TimeAssumption DEF IInv, TypeOK, HourInv, ManualHalt, HaltWith,
       riskvars, hourvars, breakervars
  <1>4. LossInv'
    BY LimitsAssumption, TradesAssumption, Charge DEF IInv, TypeOK, OpenInv, LossInv, Charged,
       Due, ManualHalt, HaltWith, riskvars, hourvars, breakervars
  <1> QED BY <1>1, <1>2, <1>3, <1>4 DEF IInv

LEMMA SignalDroppedInv ==
  ASSUME IInv, SignalDropped
  PROVE  IInv'
  <1>1. TypeOK'
    BY LimitsAssumption, TradesAssumption, TimeAssumption DEF IInv, TypeOK, OpenInv, HourInv,
       Charged, Due, Mains, Consumers, Reasons, SignalDropped, riskvars, hourvars, breakervars
  <1>2. OpenInv'
    BY LimitsAssumption DEF IInv, TypeOK, OpenInv, Charged, Due, SignalDropped, riskvars,
       hourvars, breakervars
  <1>3. HourInv'
    BY LimitsAssumption, TimeAssumption DEF IInv, TypeOK, HourInv, SignalDropped, riskvars,
       hourvars, breakervars
  <1>4. LossInv'
    BY LimitsAssumption, TradesAssumption, Charge DEF IInv, TypeOK, OpenInv, LossInv, Charged,
       Due, SignalDropped, riskvars, hourvars, breakervars
  <1> QED BY <1>1, <1>2, <1>3, <1>4 DEF IInv

LEMMA RecordTradeCancelledInv ==
  ASSUME IInv, RecordTradeCancelled
  PROVE  IInv'
  <1>1. TypeOK'
    BY LimitsAssumption, TradesAssumption, TimeAssumption DEF IInv, TypeOK, OpenInv, HourInv,
       Charged, Due, Mains, Consumers, Reasons, RecordTradeCancelled, SatSub1, riskvars,
       hourvars, breakervars
  <1>2. OpenInv'
    BY LimitsAssumption DEF IInv, TypeOK, OpenInv, Charged, Due, RecordTradeCancelled, SatSub1,
       riskvars, hourvars, breakervars
  <1>3. HourInv'
    BY LimitsAssumption, TimeAssumption DEF IInv, TypeOK, HourInv, RecordTradeCancelled,
       SatSub1, riskvars, hourvars, breakervars
  <1>4. LossInv'
    BY LimitsAssumption, TradesAssumption, Charge DEF IInv, TypeOK, OpenInv, LossInv, Charged,
       Due, RecordTradeCancelled, SatSub1, riskvars, hourvars, breakervars
  <1> QED BY <1>1, <1>2, <1>3, <1>4 DEF IInv

LEMMA RecordPnlInv ==
  ASSUME NEW pnl \in Results, IInv, RecordPnl(pnl)
  PROVE  IInv'
  <1>1. TypeOK'
    BY LimitsAssumption, TradesAssumption, TimeAssumption DEF IInv, TypeOK, OpenInv, HourInv,
       Charged, Due, Mains, Consumers, Reasons, RecordPnl, riskvars, hourvars, breakervars
  <1>2. OpenInv'
    BY LimitsAssumption DEF IInv, TypeOK, OpenInv, Charged, Due, RecordPnl, riskvars, hourvars,
       breakervars
  <1>3. HourInv'
    BY LimitsAssumption, TimeAssumption DEF IInv, TypeOK, HourInv, RecordPnl, riskvars,
       hourvars, breakervars
  <1>4. LossInv'
    BY LimitsAssumption, TradesAssumption, Charge DEF IInv, TypeOK, OpenInv, LossInv, Charged,
       Due, RecordPnl, riskvars, hourvars, breakervars
  <1> QED BY <1>1, <1>2, <1>3, <1>4 DEF IInv

LEMMA PnlHaltInv ==
  ASSUME IInv, PnlHalt
  PROVE  IInv'
  <1>1. TypeOK'
    BY LimitsAssumption, TradesAssumption, TimeAssumption DEF IInv, TypeOK, OpenInv, HourInv,
       Charged, Due, Mains, Consumers, Reasons, PnlHalt, HaltWith, riskvars, hourvars,
       breakervars
  <1>2. OpenInv'
    BY LimitsAssumption DEF IInv, TypeOK, OpenInv, Charged, Due, PnlHalt, HaltWith, riskvars,
       hourvars, breakervars
  <1>3. HourInv'
    BY LimitsAssumption, TimeAssumption DEF IInv, TypeOK, HourInv, PnlHalt, HaltWith, riskvars,
       hourvars, breakervars
  <1>4. LossInv'
    BY LimitsAssumption, TradesAssumption, Charge DEF IInv, TypeOK, OpenInv, LossInv, Charged,
       Due, PnlHalt, HaltWith, riskvars, hourvars, breakervars
  <1> QED BY <1>1, <1>2, <1>3, <1>4 DEF IInv

LEMMA RecordTradeResultInv ==
  ASSUME IInv, RecordTradeResult
  PROVE  IInv'
  <1>1. TypeOK'
    BY LimitsAssumption, TradesAssumption, TimeAssumption DEF IInv, TypeOK, OpenInv, HourInv,
       Charged, Due, Mains, Consumers, Reasons, RecordTradeResult, SatSub1, riskvars, hourvars,
       breakervars
  <1>2. OpenInv'
    BY LimitsAssumption DEF IInv, TypeOK, OpenInv, Charged, Due, RecordTradeResult, SatSub1,
       riskvars, hourvars, breakervars
  <1>3. HourInv'
    BY LimitsAssumption, TimeAssumption DEF IInv, TypeOK, HourInv, RecordTradeResult, SatSub1,
       riskvars, hourvars, breakervars
  <1>4. LossInv'
    BY LimitsAssumption, TradesAssumption, Charge DEF IInv, TypeOK, OpenInv, LossInv, Charged,
       Due, RecordTradeResult, SatSub1, riskvars, hourvars, breakervars
  <1> QED BY <1>1, <1>2, <1>3, <1>4 DEF IInv

LEMMA CheckCapitalInv ==
  ASSUME IInv, CheckCapital
  PROVE  IInv'
  <1>1. TypeOK'
    BY LimitsAssumption, TradesAssumption, TimeAssumption DEF IInv, TypeOK, OpenInv, HourInv,
       Charged, Due, Mains, Consumers, Reasons, CheckCapital, riskvars, hourvars, breakervars
  <1>2. OpenInv'
    BY LimitsAssumption DEF IInv, TypeOK, OpenInv, Charged, Due, CheckCapital, riskvars,
       hourvars, breakervars
  <1>3. HourInv'
    BY LimitsAssumption, TimeAssumption DEF IInv, TypeOK, HourInv, CheckCapital, riskvars,
       hourvars, breakervars
  <1>4. LossInv'
    BY LimitsAssumption, TradesAssumption, Charge DEF IInv, TypeOK, OpenInv, LossInv, Charged,
       Due, CheckCapital, riskvars, hourvars, breakervars
  <1> QED BY <1>1, <1>2, <1>3, <1>4 DEF IInv

LEMMA CapitalHaltInv ==
  ASSUME IInv, CapitalHalt
  PROVE  IInv'
  <1>1. TypeOK'
    BY LimitsAssumption, TradesAssumption, TimeAssumption DEF IInv, TypeOK, OpenInv, HourInv,
       Charged, Due, Mains, Consumers, Reasons, CapitalHalt, HaltWith, riskvars, hourvars,
       breakervars
  <1>2. OpenInv'
    BY LimitsAssumption DEF IInv, TypeOK, OpenInv, Charged, Due, CapitalHalt, HaltWith,
       riskvars, hourvars, breakervars
  <1>3. HourInv'
    BY LimitsAssumption, TimeAssumption DEF IInv, TypeOK, HourInv, CapitalHalt, HaltWith,
       riskvars, hourvars, breakervars
  <1>4. LossInv'
    BY LimitsAssumption, TradesAssumption, Charge DEF IInv, TypeOK, OpenInv, LossInv, Charged,
       Due, CapitalHalt, HaltWith, riskvars, hourvars, breakervars
  <1> QED BY <1>1, <1>2, <1>3, <1>4 DEF IInv

LEMMA StutterInv == IInv /\ UNCHANGED vars => IInv'
  BY DEF IInv, TypeOK, OpenInv, HourInv, LossInv, Charged, Due, vars

LEMMA NextInv == IInv /\ [Next]_vars => IInv'
  <1> SUFFICES ASSUME IInv, [Next]_vars PROVE IInv'
    OBVIOUS
  <1>1. CASE Time
    BY <1>1, TimeInv
  <1>2. CASE LoopTop
    BY <1>2, LoopTopInv
  <1>3. CASE \E value \in Notionals : CheckSignal(value)
    BY <1>3, CheckSignalInv
  <1>4. CASE SkipSignal
    BY <1>4, SkipSignalInv
  <1>5. CASE RecordTradeStarted
    BY <1>5, RecordTradeStartedInv
  <1>6. CASE Pushed
    BY <1>6, PushedInv
  <1>7. CASE RecordTradeNotStarted
    BY <1>7, RecordTradeNotStartedInv
  <1>8. CASE TickEnd
    BY <1>8, TickEndInv
  <1>9. CASE CtrlC
    BY <1>9, CtrlCInv
  <1>10. CASE DropTick
    BY <1>10, DropTickInv
  <1>11. CASE ManualHalt
    BY <1>11, ManualHaltInv
  <1>12. CASE SignalDropped
    BY <1>12, SignalDroppedInv
  <1>13. CASE RecordTradeCancelled
    BY <1>13, RecordTradeCancelledInv
  <1>14. CASE \E pnl \in Results : RecordPnl(pnl)
    BY <1>14, RecordPnlInv
  <1>15. CASE PnlHalt
    BY <1>15, PnlHaltInv
  <1>16. CASE RecordTradeResult
    BY <1>16, RecordTradeResultInv
  <1>17. CASE CheckCapital
    BY <1>17, CheckCapitalInv
  <1>18. CASE CapitalHalt
    BY <1>18, CapitalHaltInv
  <1>19. CASE UNCHANGED vars
    BY <1>19, StutterInv
  <1> QED
    BY <1>1, <1>2, <1>3, <1>4, <1>5, <1>6, <1>7, <1>8, <1>9, <1>10, <1>11, <1>12, <1>13, <1>14,
       <1>15, <1>16, <1>17, <1>18, <1>19 DEF Next, Loop, Consume

LEMMA Invariance == Spec => []IInv
  BY InitInv, NextInv, PTL DEF Spec

-----------------------------------------------------------------------------
\* The counters stay in range: in particular no more than MaxOpen positions and
\* no more than MaxPerHour trades a window are ever counted, although the check
\* and the count are separate critical sections of the RiskManager.
THEOREM TypeCorrect == Spec => []TypeOK
  <1>1. IInv => TypeOK
    BY DEF IInv
  <1> QED BY Invariance, <1>1, PTL

\* However trades and reports interleave, the recorded daily loss exceeds its
\* limit by at most the worst losses of MaxOpen trades, and the losing streak
\* by at most their number.
THEOREM LossesBounded == Spec => []LossBounded
  <1>1. IInv => LossBounded
    BY LimitsAssumption, TradesAssumption, Charge
       DEF IInv, TypeOK, LossInv, LossBounded, Charged
  <1> QED BY Invariance, <1>1, PTL

-----------------------------------------------------------------------------
(* The hourly rate.                                                        *)

\* How the starts lie to the hour window: the last trades_this_hour of them are
\* its own, those before were over when it began, and all but MaxPerHour of
\* those lie an hour back, because the window before it began at least an hour
\* earlier and held no more.
WindowInv ==
  /\ trades_this_hour <= Len(starts) /\ hour_started_at <= now
  /\ main = "started" => trades_this_hour > 0
  /\ \A i \in DOMAIN starts :
       /\ starts[i] <= now
       /\ i + trades_this_hour <= Len(starts) => starts[i] <= hour_started_at
       /\ i + trades_this_hour + MaxPerHour <= Len(starts) => starts[i] + Hour <= hour_started_at
RateInv == WindowInv /\ HourlyRate

\* reset_hour_if_needed: when the window ends, its trades become the ones before.
LEMMA Rollover ==
  ASSUME IInv, WindowInv
  PROVE  /\ CurrentTrades \in 0..MaxPerHour /\ CurrentTrades <= Len(starts)
         /\ CurrentHour \in Nat /\ CurrentHour <= now
         /\ \A i \in DOMAIN starts :
              /\ i + CurrentTrades <= Len(starts) => starts[i] <= CurrentHour
              /\ i + CurrentTrades + MaxPerHour <= Len(starts) => starts[i] + Hour <= CurrentHour
  <1>1. /\ trades_this_hour \in 0..MaxPerHour /\ hour_started_at \in Nat /\ now \in Nat
        /\ starts \in Seq(Nat) /\ MaxPerHour \in Nat /\ Hour \in Nat
    BY LimitsAssumption, TimeAssumption DEF IInv, TypeOK
  <1>2. CASE ~HourOver
    BY <1>1, <1>2 DEF WindowInv, CurrentTrades, CurrentHour
  <1>3. CASE HourOver
    <2>1. CurrentTrades = 0 /\ CurrentHour = now /\ hour_started_at + Hour <= now
      BY <1>1, <1>3 DEF HourOver, CurrentTrades, CurrentHour
    <2>2. ASSUME NEW i \in DOMAIN starts, i + MaxPerHour <= Len(starts)
          PROVE  starts[i] + Hour <= now
      <3>1. i \in Nat /\ starts[i] \in Nat /\ Len(starts) \in Nat
        BY <1>1
      <3>2. i + trades_this_hour <= Len(starts)
        BY <1>1, <2>2, <3>1
      <3>3. starts[i] <= hour_started_at
        BY <3>2 DEF WindowInv
      <3> QED BY <1>1, <2>1, <3>1, <3>3
    <2> QED BY <1>1, <2>1, <2>2 DEF WindowInv
  <1> QED BY <1>2, <1>3

\* The check before a trade and the top of the loop may only start a new window.
LEMMA ResetRate ==
  ASSUME IInv, RateInv, ResetHour, UNCHANGED <<now, starts>>, main' # "started"
  PROVE  RateInv'
  <1>1. CurrentTrades = trades_this_hour' /\ CurrentHour = hour_started_at'
    BY DEF ResetHour
  <1>2. WindowInv'
    BY <1>1, Rollover DEF RateInv, WindowInv
  <1>3. HourlyRate'
    BY DEF RateInv, HourlyRate
  <1> QED BY <1>2, <1>3 DEF RateInv

\* A trade is counted.  Of the 2 * MaxPerHour before it the first lies beyond
\* the window before the current one.
LEMMA StartedRate ==
  ASSUME IInv, RateInv, RecordTradeStarted
  PROVE  RateInv'
  <1>1. /\ now \in Nat /\ starts \in Seq(Nat) /\ MaxPerHour \in Nat /\ Hour \in Nat
        /\ trades_this_hour < MaxPerHour /\ trades_this_hour \in Nat
    BY LimitsAssumption, TimeAssumption DEF IInv, TypeOK, HourInv, RecordTradeStarted
  <1>2. /\ starts' = Append(starts, now) /\ now' = now /\ main' = "started"
        /\ trades_this_hour' = CurrentTrades + 1 /\ hour_started_at' = CurrentHour
    BY DEF RecordTradeStarted
  <1>3. /\ Len(starts') = Len(starts) + 1 /\ DOMAIN starts' = 1..(Len(starts) + 1)
        /\ DOMAIN starts = 1..Len(starts) /\ Len(starts) \in Nat
        /\ starts'[Len(starts) + 1] = now
        /\ \A i \in 1..Len(starts) : starts'[i] = starts[i] /\ starts[i] \in Nat
    BY <1>1, <1>2
  <1>4. CurrentTrades < MaxPerHour /\ CurrentTrades \in Nat
    BY <1>1 DEF CurrentTrades
  <1>5. CurrentTrades <= Len(starts) /\ CurrentHour \in Nat /\ CurrentHour <= now
    BY Rollover DEF RateInv
  <1>6. ASSUME NEW i \in DOMAIN starts'
        PROVE  /\ starts'[i] <= now'
               /\ i + trades_this_hour' <= Len(starts') => starts'[i] <= hour_started_at'
               /\ i + trades_this_hour' + MaxPerHour <= Len(starts') => starts'[i] + Hour <= hour_started_at'
    <2>1. CASE i = Len(starts) + 1
      BY <1>1, <1>2, <1>3, <1>4, <2>1
    <2>2. CASE i \in DOMAIN starts
      <3>1. starts[i] <= now
        BY <2>2 DEF RateInv, WindowInv
      <3>2. /\ i + CurrentTrades <= Len(starts) => starts[i] <= CurrentHour
            /\ i + CurrentTrades + MaxPerHour <= Len(starts) => starts[i] + Hour <= CurrentHour
        BY <2>2, Rollover DEF RateInv
      <3> QED BY <1>1, <1>2, <1>3, <1>4, <2>2, <3>1, <3>2
    <2> QED BY <1>3, <2>1, <2>2
  <1>7. WindowInv'
    BY <1>2, <1>3, <1>4, <1>5, <1>6 DEF WindowInv
  <1>8. ASSUME NEW i \in DOMAIN starts', i + 2 * MaxPerHour \in DOMAIN starts'
        PROVE  starts'[i + 2 * MaxPerHour] - starts'[i] >= Hour
    <2>1. CASE i + 2 * MaxPerHour \in DOMAIN starts
      <3>1. i \in DOMAIN starts
        BY <1>1, <1>3, <1>8, <2>1
      <3> QED BY <1>3, <2>1, <3>1 DEF RateInv, HourlyRate
    <2>2. CASE i + 2 * MaxPerHour = Len(starts) + 1
      <3>1. starts'[i] + Hour <= CurrentHour
        BY <1>1, <1>2, <1>3, <1>4, <1>6, <1>8, <2>2
      <3>2. starts'[i] \in Nat
        BY <1>1, <1>3
      <3> QED BY <1>1, <1>3, <1>5, <2>2, <3>1, <3>2
    <2> QED BY <1>1, <1>3, <1>8, <2>1, <2>2
  <1>9. HourlyRate'
    BY <1>8 DEF HourlyRate
  <1> QED BY <1>7, <1>9 DEF RateInv

\* The length of a sequence without its last element.
LEMMA DropLastLen ==
  ASSUME NEW s, Len(s) - 1 \in Nat
  PROVE  Len(SubSeq(s, 1, Len(s) - 1)) = Len(s) - 1
  OBVIOUS

\* A trade that the queue refused is taken back: it was the window's last.
LEMMA NotStartedRate ==
  ASSUME IInv, RateInv, RecordTradeNotStarted
  PROVE  RateInv'
  <1>1. /\ now \in Nat /\ starts \in Seq(Nat) /\ MaxPerHour \in Nat /\ Hour \in Nat
        /\ trades_this_hour \in Nat /\ trades_this_hour > 0 /\ trades_this_hour <= Len(starts)
    BY LimitsAssumption, TimeAssumption DEF IInv, TypeOK, RateInv, WindowInv, RecordTradeNotStarted
  <1>2. /\ starts' = SubSeq(starts, 1, Len(starts) - 1) /\ now' = now /\ main' = "tick"
        /\ trades_this_hour' = trades_this_hour - 1 /\ hour_started_at' = hour_started_at
    BY <1>1 DEF RecordTradeNotStarted, SatSub1
  <1>3. /\ Len(starts') = Len(starts) - 1 /\ DOMAIN starts' = 1..(Len(starts) - 1)
        /\ DOMAIN starts = 1..Len(starts) /\ Len(starts) \in Nat
        /\ \A i \in 1..(Len(starts) - 1) : starts'[i] = starts[i]
    <2>1. Len(starts) \in Nat /\ Len(starts) - 1 \in Nat
      BY <1>1
    <2>2. starts' \in Seq(Nat)
      BY RecordTradeNotStartedInv DEF IInv, TypeOK
    <2>4. Len(starts') = Len(starts) - 1
      BY <1>2, <2>1, DropLastLen
    <2>3. ASSUME NEW i \in 1..(Len(starts) - 1) PROVE starts'[i] = starts[i]
      BY <1>1, <1>2, <2>1
    <2> QED BY <1>1, <2>1, <2>2, <2>3, <2>4
  <1>4. WindowInv'
    <2>1. ASSUME NEW i \in DOMAIN starts'
          PROVE  /\ i \in DOMAIN starts /\ starts'[i] = starts[i]
                 /\ i + trades_this_hour' <= Len(starts') <=> i + trades_this_hour <= Len(starts)
                 /\ i + trades_this_hour' + MaxPerHour <= Len(starts')
                    <=> i + trades_this_hour + MaxPerHour <= Len(starts)
      <3>1. i \in Nat /\ i \in DOMAIN starts /\ starts'[i] = starts[i]
        BY <1>3
      <3>2. i + trades_this_hour' <= Len(starts') <=> i + trades_this_hour <= Len(starts)
        BY <1>1, <1>2, <1>3, <3>1
      <3>3. i + trades_this_hour' + MaxPerHour <= Len(starts')
            <=> i + trades_this_hour + MaxPerHour <= Len(starts)
        <4>1. i + trades_this_hour' + MaxPerHour = (i + trades_this_hour + MaxPerHour) - 1
          BY <1>1, <1>2, <3>1
        <4>2. Len(starts') = Len(starts) - 1 /\ Len(starts) \in Nat
          BY <1>3
        <4>3. i + trades_this_hour + MaxPerHour \in Nat
          BY <1>1, <3>1
        <4> QED BY <4>1, <4>2, <4>3
      <3> QED BY <3>1, <3>2, <3>3
    <2>2. trades_this_hour' <= Len(starts')
      BY <1>1, <1>2, <1>3
    <2> QED BY <1>2, <2>1, <2>2 DEF RateInv, WindowInv
  <1>5. HourlyRate'
    <2>1. \A i \in DOMAIN starts' : i \in DOMAIN starts /\ starts'[i] = starts[i]
      BY <1>3
    <2> QED BY <2>1 DEF RateInv, HourlyRate
  <1> QED BY <1>4, <1>5 DEF RateInv

\* Every other step leaves the window and the starts alone.
LEMMA QuietRate ==
  ASSUME RateInv, IInv, now' \in Nat, now' >= now, UNCHANGED <<hourvars, starts>>,
         main' = "started" => main = "started"
  PROVE  RateInv'
  <1>1. now \in Nat /\ hour_started_at \in Nat /\ starts \in Seq(Nat)
    BY DEF IInv, TypeOK
  <1>2. WindowInv'
    BY <1>1 DEF RateInv, WindowInv, hourvars
  <1>3. HourlyRate'
    BY DEF RateInv, HourlyRate
  <1> QED BY <1>2, <1>3 DEF RateInv

\* Every step keeps the windows and the rate.
LEMMA RateNext == IInv /\ RateInv /\ [Next]_vars => RateInv'
  <1> SUFFICES ASSUME IInv, RateInv, [Next]_vars PROVE RateInv'
    OBVIOUS
  <1>0. now \in Nat
    BY DEF IInv, TypeOK
  <1>1. CASE LoopTop \/ \E value \in Notionals : CheckSignal(value)
    <2>1. CASE ResetHour
      <3>1. UNCHANGED <<now, starts>> /\ main' # "started"
        BY <1>1 DEF LoopTop, CheckSignal
      <3> QED BY <2>1, <3>1, ResetRate
    <2>2. CASE ~ResetHour
      <3>1. UNCHANGED <<now, hourvars, starts>> /\ main' # "started"
        BY <1>1, <2>2 DEF LoopTop, CheckSignal
      <3> QED BY <1>0, <3>1, QuietRate
    <2> QED BY <2>1, <2>2
  <1>2. CASE RecordTradeStarted
    BY <1>2, StartedRate
  <1>3. CASE RecordTradeNotStarted
    BY <1>3, NotStartedRate
  <1>4. CASE Time
    <2>1. now' \in Nat /\ now' >= now /\ UNCHANGED <<main, hourvars, starts>>
      BY <1>0, <1>4 DEF Time
    <2> QED BY <2>1, QuietRate
  <1>5. CASE SkipSignal \/ Pushed \/ TickEnd \/ CtrlC \/ DropTick
    <2>1. main' # "started" /\ UNCHANGED <<now, hourvars, starts>>
      BY <1>5 DEF SkipSignal, Pushed, TickEnd, CtrlC, DropTick
    <2> QED BY <1>0, <2>1, QuietRate
  <1>6. CASE ManualHalt \/ SignalDropped \/ Consume
    <2>1. UNCHANGED <<now, main, hourvars, starts>>
      BY <1>6 DEF ManualHalt, SignalDropped, Consume, RecordTradeCancelled, PnlHalt,
         RecordTradeResult, CheckCapital, CapitalHalt, RecordPnl
    <2> QED BY <1>0, <2>1, QuietRate
  <1>7. CASE UNCHANGED vars
    <2>1. UNCHANGED <<now, main, hourvars, starts>>
      BY <1>7 DEF vars, hourvars
    <2> QED BY <1>0, <2>1, QuietRate
  <1> QED
    BY <1>1, <1>2, <1>3, <1>4, <1>5, <1>6, <1>7 DEF Next, Loop

\* Of 2 * MaxPerHour + 1 trades in a row the last starts at least an hour after
\* the first, wherever the hour windows begin and whatever the queue refuses.
THEOREM RateBounded == Spec => []HourlyRate
  <1>1. Init => RateInv
    BY DEF Init, RateInv, WindowInv, HourlyRate
  <1>2. RateInv => HourlyRate
    BY DEF RateInv
  <1> QED BY <1>1, <1>2, RateNext, Invariance, PTL DEF Spec

-----------------------------------------------------------------------------
(* What the accounting and the transfers promise, for any amounts. *)

\* A leg with its fill applied, and a context with both.
Filled(leg) == \E p, s \in Int : leg.price = <<p>> /\ leg.size = <<s>>
Complete(ctx) ==
  /\ ctx.dir \in {"buy_cex", "buy_dex"} /\ ctx.leg1_venue \in {"cex", "dex"}
  /\ Filled(ctx.leg1) /\ Filled(ctx.leg2)
  /\ ImpliedQuoteUsd(ctx.signal) \in Int

\* The leg that bought, and the leg that sold.
Bought(ctx) == IF ctx.dir = "buy_cex" THEN CexLeg(ctx) ELSE DexLeg(ctx)
Sold(ctx) == IF ctx.dir = "buy_cex" THEN DexLeg(ctx) ELSE CexLeg(ctx)

\* What a leg was worth in dollars.
Worth(leg, signal) == leg.size[1] * leg.price[1] * ImpliedQuoteUsd(signal)

\* What a filled leg holds.
LEMMA FilledParts ==
  ASSUME NEW leg, Filled(leg)
  PROVE  /\ leg.price # <<>> /\ leg.size # <<>> /\ leg.price[1] \in Int /\ leg.size[1] \in Int
         /\ OrElse(leg.price, 0) = leg.price[1] /\ OrElse(leg.size, 0) = leg.size[1]
<1>1. PICK p \in Int, s \in Int : leg.price = <<p>> /\ leg.size = <<s>>
  BY DEF Filled
<1>2. leg.price # <<>> /\ leg.size # <<>> /\ leg.price[1] \in Int /\ leg.size[1] \in Int
  BY <1>1
<1> QED
  BY <1>2, Zenon DEF OrElse

\* What the two legs earn a unit: calc_actual_pnl answers this times the first
\* leg's size.
Edge(ctx) ==
  IF ctx.dir = "buy_cex" THEN DexLeg(ctx).price[1] - CexLeg(ctx).price[1]
  ELSE -(DexLeg(ctx).price[1] - CexLeg(ctx).price[1])

\* It is that product, whatever the fees.
LEMMA GrossAnswered ==
  ASSUME NEW ctx, Complete(ctx), NEW fees, NEW usd
  PROVE  CalcActualPnl(ctx, fees, usd).gross = Edge(ctx) * ctx.leg1.size[1] * ImpliedQuoteUsd(ctx.signal)
<1>1. ctx.leg1.price # <<>> /\ ctx.leg1.size # <<>> /\ ctx.leg2.price # <<>>
  BY FilledParts, Zenon DEF Complete
<1> DEFINE g == Edge(ctx) * ctx.leg1.size[1] * ImpliedQuoteUsd(ctx.signal)
           value == ctx.leg1.size[1] * CexLeg(ctx).price[1] * ImpliedQuoteUsd(ctx.signal)
           c == CexFeeUsd(ctx, fees, usd, value)
           f == GasFeeUsd(ctx, fees, usd, value)
<1>2. CalcActualPnl(ctx, fees, usd) = [gross |-> g, fees |-> c + f, cex_fee |-> c, gas_fee |-> f]
  BY <1>1, Zenon DEF CalcActualPnl, Edge
<1> HIDE DEF g, c, f
<1>3. CalcActualPnl(ctx, fees, usd).gross = g
  BY <1>2
<1> QED
  BY <1>3 DEF g

\* The ledger's row of a completed execution is what its two legs did, whichever
\* venue went first and whichever way the trade went: its buy is the leg that
\* bought, its sell the leg that sold, on different venues.  Its gross is the
\* cash the fills moved, up to the part of the first leg that the second did not
\* match, which is valued at the second leg's price (engine.rs
\* `calc_actual_pnl`, arb_bot.rs `execution_to_arb_record`).
THEOREM LedgerIsFaithful ==
  ASSUME NEW ctx, Complete(ctx), NEW fees, NEW usd
  PROVE  LET row == ArbRecord(ctx, CalcActualPnl(ctx, fees, usd))
             u == ImpliedQuoteUsd(ctx.signal)
         IN /\ row.buy.amount = Bought(ctx).size[1] /\ row.buy.price = Bought(ctx).price[1] * u
            /\ row.sell.amount = Sold(ctx).size[1] /\ row.sell.price = Sold(ctx).price[1] * u
            /\ row.buy.venue # row.sell.venue /\ (row.buy.venue = "binance" <=> ctx.dir = "buy_cex")
            /\ row.gross = Worth(Sold(ctx), ctx.signal) - Worth(Bought(ctx), ctx.signal)
                           + (Bought(ctx).size[1] - Sold(ctx).size[1]) * ctx.leg2.price[1] * u
            /\ row.net = row.gross - row.fees
<1> DEFINE pnl == CalcActualPnl(ctx, fees, usd)
           row == ArbRecord(ctx, pnl)
           u == ImpliedQuoteUsd(ctx.signal)
           first == ctx.leg1
           second == ctx.leg2
<1>1. /\ ctx.dir \in {"buy_cex", "buy_dex"} /\ ctx.leg1_venue \in {"cex", "dex"}
      /\ Filled(first) /\ Filled(second) /\ u \in Int
  BY DEF Complete
<1>2. /\ first.price[1] \in Int /\ first.size[1] \in Int /\ second.price[1] \in Int /\ second.size[1] \in Int
      /\ OrElse(first.price, 0) = first.price[1] /\ OrElse(first.size, 0) = first.size[1]
      /\ OrElse(second.price, 0) = second.price[1] /\ OrElse(second.size, 0) = second.size[1]
  BY <1>1, FilledParts
<1>3. pnl.gross = Edge(ctx) * first.size[1] * u
  BY GrossAnswered
<1> DEFINE bought == IF (ctx.dir = "buy_cex") = (ctx.leg1_venue = "cex") THEN first ELSE second
           sold == IF (ctx.dir = "buy_cex") = (ctx.leg1_venue = "cex") THEN second ELSE first
           buyer == IF ctx.dir = "buy_cex" THEN "binance" ELSE "wallet"
           seller == IF ctx.dir = "buy_cex" THEN "wallet" ELSE "binance"
           buy == LedgerLeg(buyer, "buy", bought, ctx.signal)
           sell == LedgerLeg(seller, "sell", sold, ctx.signal)
<1>4. row = [buy |-> buy, sell |-> sell, hour |-> ctx.signal.hour, gross |-> pnl.gross,
             fees |-> pnl.fees, net |-> pnl.gross - pnl.fees]
  BY Zenon DEF ArbRecord
<1>5. /\ buyer # seller /\ (buyer = "binance" <=> ctx.dir = "buy_cex")
  BY Zenon
<1>6. /\ Bought(ctx) = bought /\ Sold(ctx) = sold
      /\ (bought = first /\ sold = second) \/ (bought = second /\ sold = first)
      /\ Edge(ctx) = sold.price[1] - bought.price[1]
  <2>1. CASE ctx.dir = "buy_cex" /\ ctx.leg1_venue = "cex"
    <3>1. bought = first /\ sold = second
      BY <2>1, Zenon
    <3> HIDE DEF bought, sold
    <3> QED
      BY <1>2, <2>1, <3>1 DEF Bought, Sold, Edge, CexLeg, DexLeg
  <2>2. CASE ctx.dir = "buy_cex" /\ ctx.leg1_venue # "cex"
    BY <1>2, <2>2 DEF Bought, Sold, Edge, CexLeg, DexLeg
  <2>3. CASE ctx.dir # "buy_cex" /\ ctx.leg1_venue = "cex"
    BY <1>2, <2>3 DEF Bought, Sold, Edge, CexLeg, DexLeg
  <2>4. CASE ctx.dir # "buy_cex" /\ ctx.leg1_venue # "cex"
    <3>1. bought = first /\ sold = second
      BY <2>4, Zenon
    <3> HIDE DEF bought, sold
    <3> QED
      BY <1>2, <2>4, <3>1 DEF Bought, Sold, Edge, CexLeg, DexLeg
  <2> QED
    BY <2>1, <2>2, <2>3, <2>4, Zenon
<1> HIDE DEF bought, sold, buyer, seller, first, second, pnl, u, row
<1>7. /\ buy.amount = bought.size[1] /\ buy.price = bought.price[1] * u /\ buy.venue = buyer
      /\ sell.amount = sold.size[1] /\ sell.price = sold.price[1] * u /\ sell.venue = seller
  <2>1. /\ OrElse(bought.price, 0) = bought.price[1] /\ OrElse(bought.size, 0) = bought.size[1]
        /\ OrElse(sold.price, 0) = sold.price[1] /\ OrElse(sold.size, 0) = sold.size[1]
    BY <1>2, <1>6
  <2> QED
    BY <2>1 DEF LedgerLeg, u
<1>8. pnl.gross = sold.size[1] * sold.price[1] * u - bought.size[1] * bought.price[1] * u
                  + (bought.size[1] - sold.size[1]) * second.price[1] * u
  <2> DEFINE p1 == first.price[1]
             s1 == first.size[1]
             p2 == second.price[1]
             s2 == second.size[1]
  <2>1. CASE bought = first /\ sold = second
    <3>1. pnl.gross = (p2 - p1) * s1 * u
      BY <1>3, <1>6, <2>1
    <3>2. p1 \in Int /\ p2 \in Int /\ s1 \in Int /\ s2 \in Int
      BY <1>2
    <3> HIDE DEF p1, p2, s1, s2
    <3>3. (p2 - p1) * s1 * u = s2 * p2 * u - s1 * p1 * u + (s1 - s2) * p2 * u
      BY <1>1, <3>2
    <3> QED
      BY <2>1, <3>1, <3>3 DEF p1, p2, s1, s2
  <2>2. CASE bought = second /\ sold = first
    <3>1. pnl.gross = (p1 - p2) * s1 * u
      BY <1>3, <1>6, <2>2
    <3>2. p1 \in Int /\ p2 \in Int /\ s1 \in Int /\ s2 \in Int
      BY <1>2
    <3> HIDE DEF p1, p2, s1, s2
    <3>3. (p1 - p2) * s1 * u = s1 * p1 * u - s2 * p2 * u + (s2 - s1) * p2 * u
      BY <1>1, <3>2
    <3> QED
      BY <2>2, <3>1, <3>3 DEF p1, p2, s1, s2
  <2> QED
    BY <1>6, <2>1, <2>2
<1> HIDE DEF buy, sell
<1>9. row.buy = buy /\ row.sell = sell /\ row.gross = pnl.gross /\ row.net = pnl.gross - pnl.fees /\ row.fees = pnl.fees
  BY <1>4
<1>10. /\ row.buy.amount = bought.size[1] /\ row.buy.price = bought.price[1] * u
       /\ row.sell.amount = sold.size[1] /\ row.sell.price = sold.price[1] * u
       /\ row.buy.venue # row.sell.venue /\ (row.buy.venue = "binance" <=> ctx.dir = "buy_cex")
       /\ row.net = row.gross - row.fees
  BY <1>5, <1>7, <1>9
<1> QED
  BY <1>6, <1>8, <1>9, <1>10, Zenon DEF row, pnl, u, second, Worth

\* A wallet sync keeps what in-flight trades have reserved: every asset it read
\* can be spent up to what the wallet holds less its reservation, is tracked at
\* what the wallet holds, and a verification against the same reading finds
\* nothing, whatever was tracked before and whichever reads failed (tracker.rs
\* `update_from_wallet`, `verify_balances`).
THEOREM SyncKeepsReservations ==
  ASSUME NEW A, NEW held \in [A -> Nat], NEW failed, NEW known, NEW tolerance \in Nat
  PROVE  LET fresh == FetchWallet(held, failed)
             synced == UpdateFromWallet(known, fresh)
         IN /\ VerifyBalances(synced, fresh, tolerance) = {}
            /\ \A a \in DOMAIN synced : Available(synced, a) = held[a] - KeptReserved(known, a)
            /\ \A a \in A \ failed : Tracked(synced, a) = held[a]
<1> DEFINE fresh == FetchWallet(held, failed)
           synced == UpdateFromWallet(known, fresh)
           D == {a \in A \ failed : held[a] > 0}
<1>1. fresh = [a \in D |-> held[a]]
  BY DEF FetchWallet
<1>2. synced = [a \in D |-> Entry(held[a], 0, KeptReserved(known, a))]
  BY <1>1 DEF UpdateFromWallet
<1>3. \A a \in D : held[a] \in Nat
  OBVIOUS
<1> HIDE DEF fresh, synced
<1>4. ASSUME NEW a \in D
      PROVE  /\ synced[a].free = held[a] /\ synced[a].reserved = KeptReserved(known, a)
             /\ a \in DOMAIN synced /\ Tracked(synced, a) = held[a]
  BY <1>2, <1>3 DEF Entry, Tracked, Total
<1>5. VerifyBalances(synced, fresh, tolerance) = {}
  <2>1. SUFFICES ASSUME NEW a \in DOMAIN fresh,
                        100 * AbsDiff(Tracked(synced, a), fresh[a]) > Tracked(synced, a) * tolerance
                 PROVE  FALSE
    BY Zenon DEF VerifyBalances
  <2>2. a \in D /\ fresh[a] = held[a] /\ Tracked(synced, a) = held[a] /\ held[a] \in Nat
    BY <1>1, <1>3, <1>4
  <2>3. AbsDiff(held[a], held[a]) = 0
    BY <2>2 DEF AbsDiff
  <2>4. held[a] * tolerance \in Nat
    BY <2>2
  <2> QED
    BY <2>1, <2>2, <2>3, <2>4
<1>6. \A a \in DOMAIN synced : Available(synced, a) = held[a] - KeptReserved(known, a)
  <2>1. DOMAIN synced = D
    BY <1>2
  <2> QED
    BY <1>4, <2>1 DEF Available
<1>7. \A a \in A \ failed : Tracked(synced, a) = held[a]
  <2>1. SUFFICES ASSUME NEW a \in A \ failed, a \notin D PROVE Tracked(synced, a) = held[a]
    BY <1>4
  <2>2. held[a] = 0
    BY <2>1
  <2>3. a \notin DOMAIN synced
    BY <1>2, <2>1
  <2> QED
    BY <2>2, <2>3, Zenon DEF Tracked
<1> QED
  BY <1>5, <1>6, <1>7 DEF fresh, synced

\* An answer is one or the other.
LEMMA OkIsNotErr ==
  ASSUME NEW v, NEW e
  PROVE  Ok(v) # Err(e) /\ Ok(v).ok /\ ~Err(e).ok /\ Ok(v).val = v
<1>1. Ok(v).ok = TRUE /\ Err(e).ok = FALSE
  BY Zenon DEF Ok, Err
<1> QED
  BY <1>1, Zenon DEF Ok

\* The token that a wrap looks up.
LEMMA TokenLookedUp ==
  ASSUME NEW tokens
  PROVE  (\E v : WethToken(tokens) = Ok(v)) \/ WethToken(tokens) = Err("token")
BY Zenon DEF WethToken

\* A wrap is signed only for the amount withdrawn, and only when the wallet's
\* native balance pays it and its gas at the node's fee, whether the gas was
\* estimated or is the configured fallback (arb_bot.rs
\* `wrap_native_eth_for_rebalance`).
THEOREM WrapIsPaid ==
  ASSUME NEW amount \in Nat, NEW transfer, NEW env, env.native \in Nat, env.max_fee.val \in Nat,
         WrapGasLimit(transfer, env) \in Nat, NEW value, NEW limit,
         WrapNativeEth(amount, transfer, env) = Ok([value |-> value, gas_limit |-> limit])
  PROVE  /\ value = amount /\ limit = WrapGasLimit(transfer, env)
         /\ value + env.max_fee.val * limit <= env.native
<1> DEFINE token == WethToken(transfer.tokens)
           signed == [value |-> value, gas_limit |-> limit]
           fallback == NativeRequired(amount, env.max_fee.val, transfer.wrap_gas)
           needed == NativeRequired(amount, env.max_fee.val, WrapGasLimit(transfer, env))
<1>1. token.ok
  <2>1. SUFFICES ASSUME ~token.ok PROVE FALSE
    OBVIOUS
  <2>2. token = Ok(signed)
    BY <2>1, Zenon DEF WrapNativeEth
  <2> QED
    BY <2>1, <2>2, OkIsNotErr, Zenon
<1>2. env.max_fee.ok
  <2>1. SUFFICES ASSUME ~env.max_fee.ok PROVE FALSE
    OBVIOUS
  <2>2. env.max_fee = Ok(signed) \/ Err("decimals") = Ok(signed)
    BY <1>1, <2>1, Zenon DEF WrapNativeEth
  <2> QED
    BY <2>1, <2>2, OkIsNotErr, Zenon
<1>3. ~(env.native < needed)
  <2>1. SUFFICES ASSUME env.native < needed PROVE FALSE
    OBVIOUS
  <2>2. \E e : Err(e) = Ok(signed)
    BY <1>1, <1>2, <2>1, Zenon DEF WrapNativeEth
  <2> QED
    BY <2>2, OkIsNotErr, Zenon
<1>4. \/ \E e : Err(e) = Ok(signed)
      \/ Ok([value |-> amount, gas_limit |-> WrapGasLimit(transfer, env)]) = Ok(signed)
  BY <1>1, <1>2, <1>3, Zenon DEF WrapNativeEth
<1>5. signed = [value |-> amount, gas_limit |-> WrapGasLimit(transfer, env)]
  BY <1>4, OkIsNotErr, Zenon
<1>6. value = amount /\ limit = WrapGasLimit(transfer, env)
  BY <1>5
<1>7. needed = amount + env.max_fee.val * WrapGasLimit(transfer, env)
  BY Zenon DEF NativeRequired
<1> HIDE DEF needed
<1>8. amount + env.max_fee.val * WrapGasLimit(transfer, env) <= env.native
  <2> DEFINE g == WrapGasLimit(transfer, env)
             m == env.max_fee.val
  <2>1. g \in Nat /\ m \in Nat /\ needed = amount + m * g
    BY <1>7
  <2> HIDE DEF g, m
  <2>2. amount + m * g <= env.native
    BY <1>3, <2>1
  <2> QED
    BY <2>2 DEF g, m
<1> QED
  BY <1>6, <1>8

\* The transfer configuration that passes at startup leaves nothing of it to
\* fail over later: a withdrawal of an allowed asset never ends with an error
\* about its address, its token or the token's decimals, which would come when
\* the coins have already left the exchange (arb_bot.rs
\* `validate_rebalance_weth_transfer_config` against
\* `execute_cex_to_wallet_withdraw`).
THEOREM StartupCoversTransfers ==
  ASSUME NEW assets, NEW chain, NEW withdraw, withdraw.asset \in assets, NEW transfer, NEW env,
         env.max_fee = Err("node") \/ \E n : env.max_fee = Ok(n),
         WethTransferConfig(assets, transfer.tokens, chain, transfer.to, transfer.wallet) = Ok("valid")
  PROVE  CexToWallet(withdraw, transfer, env).res
           \notin {Err("address"), Err("token"), Err("decimals")}
<1> DEFINE send == withdraw.amount - withdraw.fee
           wrap == WrapNativeEth(send, transfer, env)
           capable == WithdrawalCapability(env.coins, withdraw, send, transfer.network)
           out == CexToWallet(withdraw, transfer, env)
           barred == {Err("address"), Err("token"), Err("decimals")}
<1>1. /\ \A v : Ok(v) \notin barred
      /\ \A e \in {"amount", "withdrawal", "coin", "network", "disabled", "minimum", "fee", "node", "gas_cap", "native"} :
           Err(e) \notin barred
  <2>1. \A e, f : Err(e) = Err(f) => e = f
    BY DEF Err
  <2> QED
    BY <2>1, OkIsNotErr
<1>2. capable.ok \/ capable.err \in {"coin", "network", "disabled", "minimum", "fee"}
  <2>1. capable = Ok("capable") \/ \E e \in {"coin", "network", "disabled", "minimum", "fee"} : capable = Err(e)
    BY Zenon DEF WithdrawalCapability
  <2>2. \A e : Err(e).err = e
    BY DEF Err
  <2> QED
    BY <2>1, <2>2, OkIsNotErr, Zenon
<1>3. ASSUME withdraw.asset = "WETH"
      PROVE  transfer.to = transfer.wallet /\ wrap \notin barred
  <2> DEFINE token == WethToken(transfer.tokens)
             setup == WethTransferConfig(assets, transfer.tokens, chain, transfer.to, transfer.wallet)
  <2>1. "WETH" \in assets /\ \A e : setup # Err(e)
    BY <1>3, OkIsNotErr, Zenon
  <2>2. transfer.to = transfer.wallet
    BY <2>1, Zenon DEF WethTransferConfig
  <2>3. PICK v : token = Ok(v)
    <3>1. SUFFICES ASSUME token = Err("token") PROVE FALSE
      BY TokenLookedUp, Zenon
    <3>2. ~token.ok
      BY <3>1, OkIsNotErr, Zenon
    <3>3. \E e : setup = Err(e)
      BY <2>1, <3>1, <3>2, Zenon DEF WethTransferConfig
    <3> QED
      BY <2>1, <3>3, Zenon
  <2>4. token.ok /\ token.val.decimals = 18
    <3>1. token.ok /\ token.val = v
      BY <2>3, OkIsNotErr, Zenon
    <3>2. SUFFICES ASSUME token.val.decimals # 18 PROVE FALSE
      BY <3>1, Zenon
    <3>3. \E e : setup = Err(e)
      BY <2>1, <3>1, <3>2, Zenon DEF WethTransferConfig
    <3> QED
      BY <2>1, <3>3, Zenon
  <2>5. \/ ~env.max_fee.ok /\ wrap = env.max_fee
        \/ wrap = Err("gas_cap") \/ wrap = Err("native") \/ \E w : wrap = Ok(w)
    BY <2>4, Zenon DEF WrapNativeEth
  <2>6. ~env.max_fee.ok => env.max_fee = Err("node")
    BY OkIsNotErr, Zenon
  <2>7. \/ wrap = Err("node") \/ wrap = Err("gas_cap") \/ wrap = Err("native")
        \/ \E w : wrap = Ok(w)
    BY <2>5, <2>6, Zenon
  <2> HIDE DEF wrap, barred
  <2> QED
    BY <1>1, <2>2, <2>7
<1> HIDE DEF wrap, barred, capable
<1>4. \/ out.res = Err("amount") \/ out.res = Err("withdrawal") \/ out.res = Ok("withdrawn")
      \/ withdraw.asset = "WETH" /\ transfer.to # transfer.wallet
      \/ ~capable.ok /\ out.res = Err(capable.err)
      \/ withdraw.asset = "WETH" /\ out.res \in {Ok("wrapped"), wrap}
  <2> DEFINE stop(e) == [res |-> Err(e), withdrawn |-> 0, wrap |-> Err("none")]
             sent == [stop("withdrawal") EXCEPT !.withdrawn = IF env.withdrawal.err = "unconfirmed" THEN send ELSE 0]
             plain == [res |-> Ok("withdrawn"), withdrawn |-> send, wrap |-> Err("none")]
             wrapped == [res |-> IF wrap.ok THEN Ok("wrapped") ELSE wrap, withdrawn |-> send, wrap |-> wrap]
  <2>1. \/ out = stop("amount")
        \/ withdraw.asset = "WETH" /\ transfer.to # transfer.wallet
        \/ ~capable.ok /\ out = stop(capable.err)
        \/ out = sent
        \/ out = plain
        \/ withdraw.asset = "WETH" /\ out = wrapped
    BY Zenon DEF CexToWallet, capable, wrap
  <2>2. /\ \A e : stop(e).res = Err(e)
        /\ sent.res = Err("withdrawal") /\ plain.res = Ok("withdrawn")
        /\ wrapped.res \in {Ok("wrapped"), wrap}
    OBVIOUS
  <2> HIDE DEF stop, sent, plain, wrapped, out
  <2> QED
    BY <2>1, <2>2, Zenon
<1> HIDE DEF out
<1>5. out.res \notin barred
  BY <1>1, <1>2, <1>3, <1>4
<1> QED
  BY <1>5, Zenon DEF out, barred

\* The asset a step is valued by.
Valued(step) == IF step.kind = "trade" THEN step.base ELSE step.asset

\* The feeds that answer quote what the assets of A are worth.
TrueFeeds(latest, usd, A) ==
  /\ \A c \in UsdCoins \cap A : usd[c] = 1
  /\ "WETH" \in A => usd["WETH"] = usd["ETH"]
  /\ \A a \in A : latest[<<a, "USDC">>].ok => latest[<<a, "USDC">>] = Ok(usd[a])
  /\ \A a \in A : latest[<<a, "ETH">>].ok => latest[<<a, "ETH">>].val * usd["ETH"] = usd[a]

\* A price that asset_usd_price answers is what the asset is worth.
LEMMA PriceIsTrue ==
  ASSUME NEW A, "ETH" \in A, NEW usd \in [A -> Nat], NEW latest, TrueFeeds(latest, usd, A),
         NEW asset \in A, AssetUsdPrice(asset, latest).ok
  PROVE  AssetUsdPrice(asset, latest) = Ok(usd[asset])
<1> DEFINE a == IF asset = "WETH" THEN "ETH" ELSE asset
<1> HIDE DEF a
<1>1. a \in A /\ usd[a] = usd[asset]
  <2>1. CASE asset = "WETH"
    BY <2>1, Zenon DEF a, TrueFeeds
  <2>2. CASE asset # "WETH"
    BY <2>2, Zenon DEF a
  <2> QED
    BY <2>1, <2>2, Zenon
<1>2. ~Err("price").ok /\ \A v : Ok(v).val = v
  BY OkIsNotErr, Zenon
<1>3. AssetUsdPrice(asset, latest) =
        (IF a \in UsdCoins THEN Ok(1)
         ELSE IF latest[<<a, "USDC">>].ok THEN latest[<<a, "USDC">>]
         ELSE IF a = "ETH" \/ ~latest[<<a, "ETH">>].ok \/ ~latest[<<"ETH", "USDC">>].ok THEN Err("price")
         ELSE Ok(latest[<<a, "ETH">>].val * latest[<<"ETH", "USDC">>].val))
  BY Zenon DEF AssetUsdPrice, a
<1>4. CASE a \in UsdCoins
  BY <1>1, <1>3, <1>4, Zenon DEF TrueFeeds
<1>5. CASE a \notin UsdCoins /\ latest[<<a, "USDC">>].ok
  BY <1>1, <1>3, <1>5, Zenon DEF TrueFeeds
<1>6. CASE a \notin UsdCoins /\ ~latest[<<a, "USDC">>].ok
  <2>1. latest[<<a, "ETH">>].ok /\ latest[<<"ETH", "USDC">>].ok
    BY <1>2, <1>3, <1>6, Zenon
  <2>2. AssetUsdPrice(asset, latest) = Ok(latest[<<a, "ETH">>].val * latest[<<"ETH", "USDC">>].val)
    BY <1>2, <1>3, <1>6, Zenon
  <2>3. latest[<<"ETH", "USDC">>].val = usd["ETH"]
    <3>1. latest[<<"ETH", "USDC">>] = Ok(usd["ETH"])
      BY <2>1, Zenon DEF TrueFeeds
    <3> QED
      BY <1>2, <3>1, Zenon
  <2>4. latest[<<a, "ETH">>].val * usd["ETH"] = usd[a]
    BY <1>1, <2>1, Zenon DEF TrueFeeds
  <2> QED
    BY <1>1, <2>2, <2>3, <2>4, Zenon
<1> QED
  BY <1>4, <1>5, <1>6, Zenon

\* A step that passes validation touches only allowed assets and venues and,
\* when a maximum is set, is worth at most that in dollars, whichever of the
\* price feeds answered and whether the price came directly or through ETH
\* (arb_bot.rs `validate_rebalance_step`, `asset_usd_price`).
THEOREM StepsStayAllowed ==
  ASSUME NEW A, "ETH" \in A, NEW usd \in [A -> Nat], NEW latest, TrueFeeds(latest, usd, A),
         NEW step, step.amount \in Nat, Valued(step) \in A, NEW setup, setup.max_step_usd \in Int,
         ValidateRebalanceStep(step, setup, latest) = Ok("valid")
  PROVE  /\ StepAssets(step) \subseteq setup.assets
         /\ StepVenues(step) \subseteq setup.venues
         /\ setup.max_step_usd > 0 => step.amount * usd[Valued(step)] <= setup.max_step_usd
<1> DEFINE notional == StepNotional(step, latest)
           price == AssetUsdPrice(Valued(step), latest)
<1>1. \A e : Ok("valid") # Err(e) /\ Ok("valid").ok
  BY OkIsNotErr, Zenon
<1>2. notional = IF price.ok THEN Ok(step.amount * price.val) ELSE price
  BY Zenon DEF StepNotional, Valued
<1>3. ValidateRebalanceStep(step, setup, latest) =
        (IF setup.min_fill_pct \notin 0..100 THEN Err("min_fill")
         ELSE IF ~(StepAssets(step) \subseteq setup.assets) THEN Err("asset")
         ELSE IF ~(StepVenues(step) \subseteq setup.venues) THEN Err("venue")
         ELSE IF setup.max_step_usd <= 0 THEN Ok("valid")
         ELSE IF ~notional.ok THEN notional
         ELSE IF notional.val > setup.max_step_usd THEN Err("notional")
         ELSE Ok("valid"))
  BY Zenon DEF ValidateRebalanceStep
<1> HIDE DEF notional, price
<1>4. StepAssets(step) \subseteq setup.assets /\ StepVenues(step) \subseteq setup.venues
  BY <1>1, <1>3, Zenon
<1>5. ASSUME setup.max_step_usd > 0 PROVE step.amount * usd[Valued(step)] <= setup.max_step_usd
  <2>1. ~(setup.max_step_usd <= 0)
    BY <1>5
  <2>2. notional.ok /\ ~(notional.val > setup.max_step_usd)
    BY <1>1, <1>3, <1>4, <2>1, Zenon
  <2>3. price.ok
    BY <1>2, <2>2, Zenon
  <2>4. price = Ok(usd[Valued(step)])
    BY <2>3, PriceIsTrue, Zenon DEF price
  <2>5. price.val = usd[Valued(step)]
    BY <2>4, OkIsNotErr, Zenon
  <2>6. notional.val = step.amount * usd[Valued(step)]
    <3>1. notional = Ok(step.amount * price.val)
      BY <1>2, <2>3, Zenon
    <3> QED
      BY <2>5, <3>1, OkIsNotErr, Zenon
  <2>7. step.amount * usd[Valued(step)] \in Nat
    <3>1. usd[Valued(step)] \in Nat
      BY Zenon
    <3> QED
      BY <3>1
  <2> DEFINE worth == step.amount * usd[Valued(step)]
  <2> HIDE DEF worth
  <2>8. worth \in Nat /\ ~(worth > setup.max_step_usd)
    BY <2>2, <2>6, <2>7, Zenon DEF worth
  <2>9. worth <= setup.max_step_usd
    BY <2>8
  <2> QED
    BY <2>9 DEF worth
<1> QED
  BY <1>4, <1>5, Zenon
=============================================================================
