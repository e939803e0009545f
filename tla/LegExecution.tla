---------------------------- MODULE LegExecution ----------------------------
(***************************************************************************)
(* One two-leg execution of `Executor` (src/executor/engine.rs) against    *)
(* the venues it trades on: `execute_cex_first`, `execute_dex_first`,      *)
(* their finalizers, the race-on-cancel branch, the partial-fill           *)
(* classifier, the unwind and the push to the reconcile store.             *)
(*                                                                         *)
(* The engine sees a venue only through replies that can be late, lost or  *)
(* replaced by an error.  The module therefore keeps both sides: what the  *)
(* execution context believes (`leg1_fill_size`, `leg2_fill_size`, ...)    *)
(* and what really happened at the venues (`cex`, `dex`, `unw`).  The      *)
(* properties relate the two.                                              *)
(*                                                                         *)
(* Amounts are units of the base asset, so the direction of the trade is a *)
(* sign that cancels out: leg 1 opens a position, leg 2 and the unwind     *)
(* close it.                                                               *)
(***************************************************************************)
EXTENDS Integers

CONSTANTS
  Size,         \* signal.size
  FullPct,      \* ExecutorConfig.min_fill_ratio, in percent
  ProceedPct,   \* ExecutorConfig.partial_proceed_min_ratio, in percent
  DustPct,      \* ExecutorConfig.partial_dust_ratio, in percent
  SlippageBps,  \* DexSwapperConfig.slippage_bps
  DexSurplus    \* most base units a swap yields above the requested size

ASSUME SizeAssumption == Size \in Nat \ {0}
ASSUME RatioAssumption == FullPct \in 1..100 /\ ProceedPct \in Nat /\ DustPct \in Nat
ASSUME SwapAssumption == SlippageBps \in Nat /\ SlippageBps <= 10000 /\ DexSurplus \in Nat

VARIABLES
  config,          \* the Features this executor runs with
  at,              \* the await point the execution is suspended at
  state,           \* ctx.state
  reason,          \* ctx.error, by cause
  leg1_fill_size,  \* ctx.leg1_fill_size (0 for None)
  leg2_fill_size,  \* ctx.leg2_fill_size (0 for None)
  sink,            \* the leg-2 HandleSink
  unwind_status,   \* what log_unwind returned
  entry,           \* the reconcile-store entry of this signal
  cex,             \* truth: the arbitrage order at the exchange
  dex,             \* truth: the arbitrage swap on chain
  unw              \* truth: the unwind order or swap

ctxvars == <<at, state, reason, leg1_fill_size, leg2_fill_size, unwind_status>>
vars == <<config, at, state, reason, leg1_fill_size, leg2_fill_size, unwind_status,
          sink, entry, cex, dex, unw>>

\* ExecutorConfig.use_flashbots (DEX first); a backend that fills the leg-1
\* HandleSink (SimulatedLegs does, LiveLegs does not); a reconcile store.
Features == {"use_flashbots", "tracks_cex", "has_store"}
DexFirst == "use_flashbots" \in config

Terminal == {"Done", "Failed", "Rejected", "Leg2Reverted", "Leg2Timeout"}
States == Terminal \cup
  {"Validating", "Leg1Pending", "Leg1Cancelling", "Leg2Pending", "Unwinding"}
Awaits == {"start", "leg1", "cancel_cex", "leg2", "cancel_dex", "unwind", "push", "returned"}

Reasons ==
  {"none", "cex_error", "cex_timeout_no_handle", "cancelled", "race_partial",
   "cancel_unknown", "cex_rejected", "leg1_abort", "leg1_dust", "dex_error",
   "dex_partial", "dex_reverted", "dex_rejected", "timeout_replaced",
   "timeout_reverted", "timeout_mined", "timeout_unknown", "dex1_error", "dex1_timeout",
   "dex1_not_executed", "dex1_partial", "cex2_error", "cex2_partial",
   "cex2_rejected", "cex2_timeout"}

-----------------------------------------------------------------------------
(* Pure helpers of the engine.                                             *)

\* Mutant: the classifier takes the proceed threshold for the full one.
ClassifyFillLoose(filled, requested) ==
  CASE requested <= 0 -> "Dust"
    [] requested > 0 /\ filled * 100 >= ProceedPct * requested -> "Full"
    [] OTHER -> "Dust"

\* `Executor::classify_fill`: a fill ratio against the three thresholds.
ClassifyFill(filled, requested) ==
  IF requested <= 0 THEN "Dust"
  ELSE IF filled * 100 >= FullPct * requested THEN "Full"
  ELSE IF filled * 100 >= ProceedPct * requested THEN "ProceedReduced"
  ELSE IF filled * 100 >= DustPct * requested THEN "AbortUnwind"
  ELSE "Dust"

\* `Executor::meets_min_fill`
MeetsMinFill(filled, requested) == ClassifyFill(filled, requested) = "Full"

\* The fill check of the unwind: `validate_cex_unwind_fill` (99.9 %) for a CEX
\* leg 1, `LiveLegs::meets_unwind_fill` (slippage) for a DEX leg 1.
MeetsUnwindFill(filled, requested) ==
  IF DexFirst
  THEN requested > 0 /\ filled * 10000 >= requested * (10000 - SlippageBps)
  ELSE filled * 1000 >= requested * 999

Leg1Truth == IF DexFirst THEN dex.filled ELSE cex.filled
Leg2Truth == IF DexFirst THEN cex.filled ELSE dex.filled

\* The open position, in base units: what leg 1 opened and nothing closed.
Exposure == Leg1Truth - Leg2Truth - unw.filled

Quiescent == cex.st # "inflight" /\ dex.st \notin {"inflight", "contested"} /\ unw.st # "inflight"

-----------------------------------------------------------------------------
Init ==
  /\ config \in SUBSET Features
  /\ at = "start" /\ state = "Validating" /\ reason = "none"
  /\ leg1_fill_size = 0 /\ leg2_fill_size = 0
  /\ sink = "empty" /\ unwind_status = "none" /\ entry = "none"
  /\ cex = [st |-> "none", req |-> 0, filled |-> 0]
  /\ dex = [st |-> "none", req |-> 0, filled |-> 0]
  /\ unw = [st |-> "none", req |-> 0, filled |-> 0]

(* How an execution step ends.                                             *)

Return(st, r) ==
  /\ at' = "returned" /\ state' = st /\ reason' = r
  /\ UNCHANGED <<leg1_fill_size, leg2_fill_size, unwind_status>>

Reject(r) == Return("Rejected", r)

\* Leg 1 is recorded, then unwound in full; `reason` decides the final state.
BeginUnwind(fill, r) ==
  /\ at' = "unwind" /\ state' = "Unwinding" /\ reason' = r
  /\ leg1_fill_size' = fill
  /\ UNCHANGED <<leg2_fill_size, unwind_status>>

\* Mutant: leg 1 is booked at the size of the signal.
BeginLeg2AtSignalSize(fill) ==
  /\ at' = "leg2" /\ state' = "Leg2Pending"
  /\ leg1_fill_size' = Size
  /\ UNCHANGED <<reason, leg2_fill_size, unwind_status>>

\* Leg 1 is recorded and leg 2 is sent at the size leg 1 really filled.
BeginLeg2(fill) ==
  /\ at' = "leg2" /\ state' = "Leg2Pending"
  /\ leg1_fill_size' = fill
  /\ UNCHANGED <<reason, leg2_fill_size, unwind_status>>

Complete(fill) ==
  /\ at' = "returned" /\ state' = "Done"
  /\ leg2_fill_size' = fill
  /\ UNCHANGED <<reason, leg1_fill_size, unwind_status>>

SendCex(n) == cex' = [st |-> "inflight", req |-> n, filled |-> 0]
SendDex(n) == dex' = [st |-> "ready", req |-> n, filled |-> 0]

-----------------------------------------------------------------------------
(* Leg 1.                                                                  *)

\* Entry of execute_cex_first / execute_dex_first: the leg-1 call is issued.
Start ==
  /\ at = "start"
  /\ at' = "leg1" /\ state' = "Leg1Pending"
  /\ \/ DexFirst /\ SendDex(Size) /\ UNCHANGED cex
     \/ ~DexFirst /\ SendCex(Size) /\ UNCHANGED dex
  /\ UNCHANGED <<config, reason, leg1_fill_size, leg2_fill_size, unwind_status, sink, entry, unw>>

\* The S9 branch on an accepted leg-1 fill.  The best-effort cancel of the
\* remainder has no effect here: the order behind an accepted reply is closed.
AcceptLeg1(fill) ==
  LET class == ClassifyFill(fill, Size) IN
    \/ class \in {"Full", "ProceedReduced"} /\ BeginLeg2(fill) /\ SendDex(fill)
    \/ class = "AbortUnwind" /\ BeginUnwind(fill, "leg1_abort") /\ UNCHANGED dex
    \/ class = "Dust" /\ Reject("leg1_dust") /\ UNCHANGED dex

\* The CEX leg-1 call returns.  A partial fill comes back either as
\* PARTIALLY_FILLED (accepted) or under another status (rejected); an error
\* says nothing about the order.
Leg1CexReply ==
  /\ at = "leg1" /\ ~DexFirst
  /\ \/ Reject("cex_error") /\ UNCHANGED dex
     \/ cex.st = "closed" /\ cex.filled < cex.req /\ Reject("cex_rejected") /\ UNCHANGED dex
     \/ cex.st = "closed" /\ cex.filled > 0 /\ AcceptLeg1(cex.filled)
  /\ UNCHANGED <<config, sink, entry, cex, unw>>

\* leg1_timeout fires.  Without a handle the engine relies on IOC semantics.
Leg1CexTimeout ==
  /\ at = "leg1" /\ ~DexFirst
  /\ \/ "tracks_cex" \notin config /\ Reject("cex_timeout_no_handle")
     \/ /\ "tracks_cex" \in config
        /\ at' = "cancel_cex" /\ state' = "Leg1Cancelling"
        /\ UNCHANGED <<reason, leg1_fill_size, leg2_fill_size, unwind_status>>
  /\ UNCHANGED <<config, sink, entry, cex, dex, unw>>

\* Mutant: a race-partial is booked at the requested size.
RaceOnCancelAtRequestedSize(n) ==
  \/ n = 0 /\ Reject("cancelled") /\ UNCHANGED dex
  \/ n > 0 /\ n < Size /\ BeginUnwind(Size, "race_partial") /\ UNCHANGED dex
  \/ n = Size /\ AcceptLeg1(n)

\* What the engine does with the fill n that a conclusive cancel_cex reports:
\* Cancelled, PartiallyFilled (re-classified) or RaceFilled.
RaceOnCancel(n) ==
  \/ n = 0 /\ Reject("cancelled") /\ UNCHANGED dex
  \/ n > 0 /\ (n = Size \/ ClassifyFill(n, Size) \in {"Full", "ProceedReduced"}) /\ AcceptLeg1(n)
  \/ /\ n > 0 /\ n < Size /\ ClassifyFill(n, Size) \in {"AbortUnwind", "Dust"}
     /\ BeginUnwind(n, "race_partial") /\ UNCHANGED dex

\* cancel_cex(handle) returns.  A conclusive answer closes the order at its
\* final fill; Unknown and errors leave it as it was.
CancelCexReply ==
  /\ at = "cancel_cex"
  /\ \/ /\ Return("Failed", "cancel_unknown")
        /\ UNCHANGED <<cex, dex>>
     \/ \E n \in 0..cex.req :
          /\ cex.st = "closed" => n = cex.filled
          /\ cex' = [st |-> "closed", req |-> cex.req, filled |-> n]
          /\ RaceOnCancel(n)
  /\ UNCHANGED <<config, sink, entry, unw>>

\* The DEX leg-1 call (Flashbots mode) returns.
Leg1DexReply ==
  /\ at = "leg1" /\ DexFirst
  /\ \/ dex.st \in {"ready", "mined"} /\ Reject("dex1_error") /\ UNCHANGED cex
     \/ Reject("dex1_not_executed") /\ UNCHANGED cex
     \/ /\ dex.st = "mined"
        /\ \/ ~MeetsMinFill(dex.filled, Size) /\ Reject("dex1_partial") /\ UNCHANGED cex
           \/ MeetsMinFill(dex.filled, Size) /\ BeginLeg2(dex.filled) /\ SendCex(dex.filled)
  /\ UNCHANGED <<config, sink, entry, dex, unw>>

\* The Flashbots window closes without a receipt: assumed not landed.
Leg1DexTimeout ==
  /\ at = "leg1" /\ DexFirst
  /\ Reject("dex1_timeout")
  /\ UNCHANGED <<config, sink, entry, cex, dex, unw>>

-----------------------------------------------------------------------------
(* Leg 2.                                                                  *)

\* The accepted branch of finalize_cex_first_leg2.
FinalizeDexAccepted(fill) ==
  \/ MeetsMinFill(fill, leg1_fill_size) /\ Complete(fill)
  \/ ~MeetsMinFill(fill, leg1_fill_size) /\ BeginUnwind(leg1_fill_size, "dex_partial")

\* The DEX leg-2 call of a CEX-first execution returns.  Every failure of the
\* swap other than a revert - a bad quote, a failed submission, an error while
\* waiting for the receipt - comes back as Rejected.
Leg2DexReply ==
  /\ at = "leg2" /\ ~DexFirst
  /\ \/ dex.st = "mined" /\ FinalizeDexAccepted(dex.filled)
     \/ dex.st = "reverted" /\ BeginUnwind(leg1_fill_size, "dex_reverted")
     \/ BeginUnwind(leg1_fill_size, "dex_rejected")
     \/ dex.st \in {"ready", "mined"} /\ BeginUnwind(leg1_fill_size, "dex_error")
  /\ UNCHANGED <<config, sink, entry, cex, dex, unw>>

\* ctx.leg2_timeout: no unwind, on to the reconcile store.
TimeOutLeg2(r) ==
  /\ at' = "push" /\ state' = "Leg2Timeout" /\ reason' = r
  /\ UNCHANGED <<leg1_fill_size, leg2_fill_size, unwind_status>>

\* Mutant: the timeout arm waits for a handle to cancel.
Leg2DexTimeoutNeedsHandle ==
  /\ at = "leg2" /\ ~DexFirst
  /\ sink = "tx_hash" /\ at' = "cancel_dex"
  /\ UNCHANGED <<state, reason, leg1_fill_size, leg2_fill_size, unwind_status>>
  /\ UNCHANGED <<config, sink, entry, cex, dex, unw>>

\* leg2_timeout fires on the swap.  With a transaction hash in the sink the
\* engine tries to cancel it, without one the state is unknown.
Leg2DexTimeout ==
  /\ at = "leg2" /\ ~DexFirst
  /\ \/ sink = "empty" /\ TimeOutLeg2("timeout_unknown")
     \/ /\ sink = "tx_hash" /\ at' = "cancel_dex"
        /\ UNCHANGED <<state, reason, leg1_fill_size, leg2_fill_size, unwind_status>>
  /\ UNCHANGED <<config, sink, entry, cex, dex, unw>>

\* The inconclusive answer: the replacement may have been broadcast.
CancelDexUnknown ==
  /\ TimeOutLeg2("timeout_unknown")
  /\ \/ UNCHANGED dex
     \/ dex.st = "inflight" /\ dex' = [dex EXCEPT !.st = "contested"]

\* cancel_dex(handle) returns: the same-nonce replacement was mined, or the
\* original was, or nothing is known.
CancelDexReply ==
  /\ at = "cancel_dex"
  /\ \/ /\ dex.st = "inflight" /\ dex' = [dex EXCEPT !.st = "replaced"]
        /\ BeginUnwind(leg1_fill_size, "timeout_replaced")
     \/ dex.st = "mined" /\ TimeOutLeg2("timeout_mined") /\ UNCHANGED dex
     \/ dex.st = "reverted" /\ BeginUnwind(leg1_fill_size, "timeout_reverted") /\ UNCHANGED dex
     \/ CancelDexUnknown
  /\ UNCHANGED <<config, sink, entry, cex, unw>>

\* maybe_push_reconcile: needs a store and a transaction hash; a failed write
\* is logged and swallowed.
PushReconcile ==
  /\ at = "push"
  /\ \/ "has_store" \in config /\ sink = "tx_hash" /\ entry' \in {"pending", "lost"}
     \/ ~("has_store" \in config /\ sink = "tx_hash") /\ UNCHANGED entry
  /\ at' = "returned"
  /\ UNCHANGED <<config, state, reason, leg1_fill_size, leg2_fill_size, unwind_status,
                 sink, cex, dex, unw>>

\* The CEX leg-2 call of a DEX-first execution returns.
Leg2CexReply ==
  /\ at = "leg2" /\ DexFirst
  /\ \/ BeginUnwind(leg1_fill_size, "cex2_error")
     \/ /\ cex.st = "closed" /\ cex.filled < cex.req
        /\ BeginUnwind(leg1_fill_size, "cex2_rejected")
     \/ /\ cex.st = "closed" /\ cex.filled > 0
        /\ \/ MeetsMinFill(cex.filled, leg1_fill_size) /\ Complete(cex.filled)
           \/ /\ ~MeetsMinFill(cex.filled, leg1_fill_size)
              /\ BeginUnwind(leg1_fill_size, "cex2_partial")
  /\ UNCHANGED <<config, sink, entry, cex, dex, unw>>

\* Mutant: the open leg 1 is unwound while the order may be live.
Leg2CexTimeoutUnwinds ==
  /\ at = "leg2" /\ DexFirst
  /\ BeginUnwind(leg1_fill_size, "cex2_timeout")
  /\ UNCHANGED <<config, sink, entry, cex, dex, unw>>

\* The CEX leg-2 call times out: the order may be live, nothing is unwound and
\* nothing is pushed to the reconcile store.
Leg2CexTimeout ==
  /\ at = "leg2" /\ DexFirst
  /\ Return("Leg2Timeout", "cex2_timeout")
  /\ UNCHANGED <<config, sink, entry, cex, dex, unw>>

-----------------------------------------------------------------------------
(* Unwind: log_unwind and LiveLegs::unwind / unwind_dex.                   *)

\* Mutant: a short unwind is sent again for the whole fill.
UnwindSendAgain ==
  /\ at = "unwind" /\ unw.st # "inflight" /\ unw.filled < leg1_fill_size
  /\ unw' = [st |-> "inflight", req |-> leg1_fill_size, filled |-> 0]
  /\ UNCHANGED ctxvars /\ UNCHANGED <<config, sink, entry, cex, dex>>

\* The reverse order is sent for the recorded leg-1 fill.
UnwindSend ==
  /\ at = "unwind" /\ unw.st = "none" /\ leg1_fill_size > 0
  /\ unw' = [st |-> "inflight", req |-> leg1_fill_size, filled |-> 0]
  /\ UNCHANGED ctxvars /\ UNCHANGED <<config, sink, entry, cex, dex>>

FinalState == IF reason \in {"dex_reverted", "timeout_reverted"} THEN "Leg2Reverted" ELSE "Failed"

\* Mutant: the unwind's fill is not checked.
UnwindOkUnchecked == unw.st = "closed"

\* When the backend's unwind returns Ok.
UnwindOk ==
  \/ leg1_fill_size = 0
  \/ unw.st = "closed" /\ MeetsUnwindFill(unw.filled, leg1_fill_size)

\* log_unwind returns: "unwound", or UNWIND_FAILED on any error.
UnwindReply ==
  /\ at = "unwind"
  /\ \/ UnwindOk /\ unwind_status' = "unwound"
     \/ unwind_status' = "UNWIND_FAILED"
  /\ at' = "returned" /\ state' = FinalState
  /\ UNCHANGED <<config, reason, leg1_fill_size, leg2_fill_size, sink, entry, cex, dex, unw>>

-----------------------------------------------------------------------------
(* The venues.  None of these steps waits for the engine: an order or a     *)
(* transaction in flight lands, or not, whatever the execution does next.  *)

DexCallActive == at = (IF DexFirst THEN "leg1" ELSE "leg2")

\* The swap passed its preflight and its transaction reached the network.
DexBroadcast ==
  /\ DexCallActive /\ dex.st = "ready"
  /\ dex' = [dex EXCEPT !.st = "inflight"]
  /\ UNCHANGED ctxvars /\ UNCHANGED <<config, sink, entry, cex, unw>>

\* submit_swap returned and its hash is written to the sink (leg 2 only: the
\* DEX-first leg 1 goes through the untracked execute_dex).
DexSinkSet ==
  /\ at = "leg2" /\ ~DexFirst /\ sink = "empty" /\ dex.st \notin {"none", "ready"}
  /\ sink' = "tx_hash"
  /\ UNCHANGED ctxvars /\ UNCHANGED <<config, entry, cex, dex, unw>>

\* The transaction in flight is mined, reverted, or loses its nonce to the
\* replacement.
DexLands ==
  /\ dex.st \in {"inflight", "contested"}
  /\ \/ \E n \in 1..(dex.req + DexSurplus) :
          dex' = [st |-> "mined", req |-> dex.req, filled |-> n]
     \/ dex' = [dex EXCEPT !.st = "reverted"]
     \/ dex.st = "contested" /\ dex' = [dex EXCEPT !.st = "replaced"]
  /\ UNCHANGED ctxvars /\ UNCHANGED <<config, sink, entry, cex, unw>>

\* The IOC order reaches the matching engine: some part fills, the rest dies.
CexLands ==
  /\ cex.st = "inflight"
  /\ \E n \in 0..cex.req : cex' = [st |-> "closed", req |-> cex.req, filled |-> n]
  /\ UNCHANGED ctxvars /\ UNCHANGED <<config, sink, entry, dex, unw>>

\* The unwind order or swap lands.
UnwindLands ==
  /\ unw.st = "inflight"
  /\ \E n \in 0..(unw.req + (IF DexFirst THEN DexSurplus ELSE 0)) :
       unw' = [st |-> "closed", req |-> unw.req, filled |-> n]
  /\ UNCHANGED ctxvars /\ UNCHANGED <<config, sink, entry, cex, dex>>

-----------------------------------------------------------------------------
Returned == at = "returned"

\* The execution is over; the venues may still move.
Finished == Returned /\ UNCHANGED vars

Timeouts == Leg1CexTimeout \/ Leg1DexTimeout \/ Leg2DexTimeout \/ Leg2CexTimeout
LegReplies == Leg1CexReply \/ Leg1DexReply \/ Leg2DexReply \/ Leg2CexReply
Answers == CancelCexReply \/ CancelDexReply \/ PushReconcile \/ UnwindReply
Venues == DexBroadcast \/ DexSinkSet \/ DexLands \/ CexLands \/ UnwindLands

Next == Start \/ Timeouts \/ LegReplies \/ Answers \/ UnwindSend \/ Venues \/ Finished

Spec == Init /\ [][Next]_vars

\* The two calls to the chain that no timer of the engine bounds: the ChainClient
\* behind them has no request timeout either.
ChainAwaited == (at = "cancel_dex" /\ sink = "tx_hash") \/ (at = "unwind" /\ DexFirst)

\* The leg timers fire, the exchange's HTTP client times out, the local store
\* returns; no leg call and no call to the chain ever has to answer.
Fairness ==
  /\ WF_vars(Start) /\ WF_vars(Timeouts) /\ WF_vars(CancelCexReply) /\ WF_vars(PushReconcile)
  /\ WF_vars(UnwindReply /\ ~DexFirst)
FairSpec == Spec /\ Fairness

-----------------------------------------------------------------------------
(* Properties.                                                             *)

\* The type invariant: recorded fills and order sizes are never negative.
TypeOK ==
  /\ config \in SUBSET Features
  /\ at \in Awaits /\ state \in States /\ reason \in Reasons
  /\ leg1_fill_size \in Nat /\ leg2_fill_size \in Nat
  /\ sink \in {"empty", "tx_hash"}
  /\ unwind_status \in {"none", "unwound", "UNWIND_FAILED"}
  /\ entry \in {"none", "pending", "lost"}
  /\ cex \in [st: {"none", "inflight", "closed"}, req: Nat, filled: Nat]
  /\ dex \in [st: {"none", "ready", "inflight", "contested", "mined", "reverted", "replaced"},
              req: Nat, filled: Nat]
  /\ unw \in [st: {"none", "inflight", "closed"}, req: Nat, filled: Nat]

\* `Done` means both legs really filled: leg 1 is booked at what the venue
\* filled, leg 2 covers it up to min_fill_ratio, no order of either leg can
\* still move the position, and nothing was unwound on top.
DoneIsHedged ==
  state = "Done" =>
    /\ leg1_fill_size = Leg1Truth /\ leg2_fill_size = Leg2Truth
    /\ Leg2Truth * 100 >= FullPct * Leg1Truth /\ Leg1Truth > 0
    /\ cex.st = "closed" /\ dex.st = "mined" /\ unw.st = "none"

\* The outcomes the engine treats as settled - a clean cancel, a race-partial
\* or an aborted partial unwound, a revert, a swap replaced at its own nonce -
\* really are, and stay so whatever lands later: leg 2 can never fill, and what
\* leg 1 filled is covered by the unwind up to its tolerance.
CleanReasons ==
  {"cancelled", "race_partial", "leg1_abort", "dex_reverted", "timeout_replaced", "timeout_reverted"}
SettledIsFlat ==
  (Returned /\ reason \in CleanReasons /\ unwind_status # "UNWIND_FAILED") =>
    /\ Leg2Truth = 0 /\ cex.st = "closed" /\ dex.st \in {"none", "reverted", "replaced"}
    /\ Leg1Truth > 0 => unw.st = "closed" /\ MeetsUnwindFill(unw.filled, Leg1Truth)

\* An unwind is sized by what leg 1 really filled, whichever path recorded it:
\* reply, race-on-cancel, reduced partial or DEX-first.
UnwindMatchesLeg1 ==
  unw.st # "none" => unw.req = Leg1Truth /\ leg1_fill_size = Leg1Truth

\* A signal is handed to the reconcile worker only with its leg-1 position
\* still open at the recorded size: the engine has sent no unwind and never
\* will, so the worker's unwind is the only one.
EntryIsOpenLeg1 ==
  entry = "pending" =>
    /\ Returned /\ state = "Leg2Timeout" /\ ~DexFirst
    /\ sink = "tx_hash" /\ leg1_fill_size = cex.filled /\ cex.filled > 0
    /\ unw.st = "none"

\* Once the venues are still, a position that an execution leaves open has one
\* source.  A rejection leaves what leg 1 filled, after a lost answer, a timeout
\* without a handle, dust or a short swap, and nothing else was sent; a timed-out
\* leg 2 leaves both legs as they are; an unwind leaves what leg 2 filled, and
\* only where the engine took a partial, failed or refused leg 2 for none.
LostReplies == {"dex_error", "dex_rejected", "cex2_error", "cex2_rejected"}
ResidualHasOneSource ==
  (Returned /\ Quiescent /\ Exposure # 0) =>
    \/ state = "Done" /\ Leg2Truth * 100 >= FullPct * Leg1Truth
    \/ state = "Rejected" /\ Leg2Truth = 0 /\ unw.st = "none" /\ reason # "cancelled"
    \/ reason = "cancel_unknown" /\ Leg2Truth = 0 /\ unw.st = "none"
    \/ state = "Leg2Timeout" /\ unw.st = "none"
    \/ /\ unwind_status # "none"
       /\ Leg2Truth > 0 => reason \in LostReplies \cup {"dex_partial", "cex2_partial"}
       /\ unw.st = "closed" /\ unw.filled = unw.req => Exposure = -Leg2Truth

\* However silent the venues are, an execution returns, or it hangs for good in
\* one of two calls to the chain: the cancellation of a swap it knows the hash
\* of, or the unwind swap of a DEX-first execution.  No other await of the engine
\* can hold it.
Termination == <>Returned \/ <>[]ChainAwaited

\* What the verdict of an execution comes to: `Done` claims a hedge, the clean
\* reasons claim a closed position, everything else leaves it to the operator.
VerdictOf ==
  IF ~Returned THEN "open"
  ELSE IF state = "Done" THEN "hedged"
  ELSE IF reason \in CleanReasons /\ unwind_status # "UNWIND_FAILED" THEN "flat"
  ELSE "unsure"

\* The weaker of the two unwind tolerances.
UnwindBps == IF SlippageBps > 10 THEN 10000 - SlippageBps ELSE 9990

Promise == INSTANCE HedgePromise
  WITH FullPct <- FullPct, UndoneBps <- UnwindBps, verdict <- VerdictOf, opened <- Leg1Truth,
       hedged <- Leg2Truth, undone <- unw.filled

\* The execution implements the promise: whatever the venues do late, in part or
\* not at all, each leg moves the position once and only after the leg it rests
\* on, and no step of engine or venue makes a hedged or flat verdict untrue.
KeepsPromise == Promise!Spec

(* What the documentation says and the code does not do.                   *)

\* The reconcile module: leg 1 is not flattened while the swap "may still
\* land", because that "would create double exposure".
NoUnwindWhileSwapMayLand ==
  ~DexFirst => ~(unw.st # "none" /\ dex.st \in {"inflight", "contested"})

=============================================================================
