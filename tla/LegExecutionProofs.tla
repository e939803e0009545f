------------------------- MODULE LegExecutionProofs -------------------------
(***************************************************************************)
(* Proofs about LegExecution, for every order size, every setting of the   *)
(* fill thresholds and every slippage.                                     *)
(*                                                                         *)
(* None of the safety properties is inductive by itself: that an unwind is *)
(* sized by the truth rests on leg 1 being final at its venue before it is *)
(* booked, and that a settled execution stays flat rests on what each      *)
(* await point says about the two venues.  IInv collects these facts;      *)
(* ReportInv adds how each report came about, which the residual position  *)
(* and the refinement of HedgePromise need.                                *)
(*                                                                         *)
(* The last part proves what Reconcile does, for every set of signals, of  *)
(* the executions that end with a swap of unknown fate.                    *)
(***************************************************************************)
EXTENDS LegExecution, Reconcile, TLAPS

\* The provers a leaf is tried with unless it names its own.
USE SMTT(60), SMT, ZenonT(60)

\* Where the execution is, and what it has done up to there.
AwaitInv ==
  /\ at \in {"start", "leg1", "cancel_cex", "leg2", "cancel_dex"} => reason = "none" /\ unw.st = "none"
  /\ at # "returned" => entry = "none" /\ state # "Done" /\ unwind_status = "none"
  /\ at \in {"push", "cancel_dex", "cancel_cex"} => ~DexFirst
  /\ at = "push" => state = "Leg2Timeout" /\ unw.st = "none" /\ reason \notin CleanReasons
  /\ at = "start" => cex.st = "none" /\ dex.st = "none"
  /\ at \in {"leg1", "cancel_cex"} =>
       IF DexFirst THEN cex.st = "none" ELSE dex.st = "none"

\* A venue reports a fill only once its order is final.
VenueInv ==
  /\ cex.st # "closed" => cex.filled = 0
  /\ dex.st # "mined" => dex.filled = 0
  /\ dex.st = "mined" => dex.filled > 0

\* Leg 1 is booked when, and only when, its venue is done with it.
BookedInv ==
  /\ at \in {"start", "leg1", "cancel_cex"} => leg1_fill_size = 0
  /\ at \in {"leg2", "cancel_dex", "unwind", "push"} => leg1_fill_size > 0
  /\ leg1_fill_size > 0 =>
       IF DexFirst THEN dex.st = "mined" /\ leg1_fill_size = dex.filled
       ELSE cex.st = "closed" /\ leg1_fill_size = cex.filled
  /\ unw.st # "none" =>
       unw.req = leg1_fill_size /\ leg1_fill_size > 0 /\ at \in {"unwind", "returned"}

\* An unwind for a clean reason starts with leg 2 ruled out.
CleanInv ==
  at = "unwind" /\ reason \in CleanReasons =>
    ~DexFirst /\ dex.st \in {"none", "reverted", "replaced"}

IInv ==
  /\ TypeOK /\ AwaitInv /\ VenueInv /\ BookedInv /\ CleanInv
  /\ DoneIsHedged /\ SettledIsFlat /\ EntryIsOpenLeg1

-----------------------------------------------------------------------------
(* Members of the enumerations, so that no proof below expands them.       *)

\* The await points.
LEMMA AwaitsMembers ==
  /\ "start" \in Awaits /\ "leg1" \in Awaits /\ "cancel_cex" \in Awaits /\ "leg2" \in Awaits
  /\ "cancel_dex" \in Awaits /\ "unwind" \in Awaits /\ "push" \in Awaits /\ "returned" \in Awaits
BY DEF Awaits

\* The executor states.
LEMMA StatesMembers ==
  /\ "Validating" \in States /\ "Leg1Pending" \in States /\ "Leg1Cancelling" \in States
  /\ "Leg2Pending" \in States /\ "Unwinding" \in States /\ "Done" \in States /\ "Failed" \in States
  /\ "Rejected" \in States /\ "Leg2Reverted" \in States /\ "Leg2Timeout" \in States
BY DEF States, Terminal

\* The causes.
LEMMA ReasonsMembers ==
  /\ "none" \in Reasons /\ "cex_error" \in Reasons /\ "cex_timeout_no_handle" \in Reasons
  /\ "cancelled" \in Reasons /\ "race_partial" \in Reasons /\ "cancel_unknown" \in Reasons
  /\ "cex_rejected" \in Reasons /\ "leg1_abort" \in Reasons /\ "leg1_dust" \in Reasons
  /\ "dex_error" \in Reasons /\ "dex_partial" \in Reasons /\ "dex_reverted" \in Reasons
  /\ "dex_rejected" \in Reasons /\ "timeout_replaced" \in Reasons /\ "timeout_reverted" \in Reasons
  /\ "timeout_mined" \in Reasons /\ "timeout_unknown" \in Reasons /\ "dex1_error" \in Reasons
  /\ "dex1_timeout" \in Reasons /\ "dex1_not_executed" \in Reasons /\ "dex1_partial" \in Reasons
  /\ "cex2_error" \in Reasons /\ "cex2_partial" \in Reasons /\ "cex2_rejected" \in Reasons
  /\ "cex2_timeout" \in Reasons
BY DEF Reasons

\* A fill classified as full covers the request up to min_fill_ratio.
LEMMA FullFill ==
  ASSUME NEW f \in Nat, NEW r \in Nat, MeetsMinFill(f, r)
  PROVE  f * 100 >= FullPct * r
BY RatioAssumption DEF MeetsMinFill, ClassifyFill

-----------------------------------------------------------------------------
\* A fresh execution context satisfies the invariant.
LEMMA InitInv == Init => IInv
<1> SUFFICES ASSUME Init PROVE IInv
  OBVIOUS
<1>1. TypeOK
  BY AwaitsMembers, StatesMembers, ReasonsMembers DEF Init, TypeOK
<1>2. AwaitInv /\ VenueInv /\ BookedInv /\ CleanInv
  BY DEF Init, AwaitInv, VenueInv, BookedInv, CleanInv
<1>3. DoneIsHedged /\ SettledIsFlat /\ EntryIsOpenLeg1
  BY DEF Init, DoneIsHedged, SettledIsFlat, EntryIsOpenLeg1, Returned
<1> QED
  BY <1>1, <1>2, <1>3 DEF IInv

\* The leg-1 call is issued: nothing is booked yet.
LEMMA StartInv == IInv /\ Start => IInv'
<1> SUFFICES ASSUME IInv, Start PROVE IInv'
  OBVIOUS
<1>1. TypeOK'
  BY SizeAssumption, AwaitsMembers, StatesMembers, ReasonsMembers
  DEF IInv, TypeOK, Start, SendCex, SendDex
<1>2. AwaitInv'
  BY DEF IInv, AwaitInv, DexFirst, CleanReasons, Start, SendCex, SendDex
<1>3. VenueInv'
  BY DEF IInv, TypeOK, VenueInv, Start, SendCex, SendDex
<1>4. BookedInv'
  BY DEF IInv, TypeOK, AwaitInv, VenueInv, BookedInv, DexFirst, Start, SendCex, SendDex
<1>5. CleanInv'
  BY DEF IInv, TypeOK, AwaitInv, BookedInv, CleanInv, DexFirst, CleanReasons, Start,
      SendCex, SendDex
<1>6. DoneIsHedged'
  BY <1>1 DEF IInv, TypeOK, AwaitInv, VenueInv, BookedInv, DoneIsHedged, DexFirst,
      Leg1Truth, Leg2Truth, Start, SendCex, SendDex
<1>7. SettledIsFlat'
  BY DEF IInv, TypeOK, AwaitInv, VenueInv, BookedInv, CleanInv, SettledIsFlat, Returned,
      CleanReasons, DexFirst,
      Leg1Truth, Leg2Truth, MeetsUnwindFill,
      Start, SendCex, SendDex
<1>8. EntryIsOpenLeg1'
  BY DEF IInv, TypeOK, AwaitInv, BookedInv, EntryIsOpenLeg1, Returned, DexFirst, Start,
      SendCex, SendDex
<1> QED
  BY <1>1, <1>2, <1>3, <1>4, <1>5, <1>6, <1>7, <1>8 DEF IInv

\* An accepted reply books leg 1 at the closed order's fill.
LEMMA Leg1CexReplyInv == IInv /\ Leg1CexReply => IInv'
<1> SUFFICES ASSUME IInv, Leg1CexReply PROVE IInv'
  OBVIOUS
<1>1. TypeOK'
  BY AwaitsMembers, StatesMembers, ReasonsMembers
  DEF IInv, TypeOK, Leg1CexReply, AcceptLeg1, Reject, Return, BeginUnwind, BeginLeg2, SendDex
<1>2. AwaitInv'
  BY DEF IInv, AwaitInv, DexFirst, CleanReasons, Leg1CexReply, AcceptLeg1, Reject, Return,
      BeginUnwind, BeginLeg2, SendDex
<1>3. VenueInv'
  BY DEF IInv, TypeOK, VenueInv, Leg1CexReply, AcceptLeg1, Reject, Return, BeginUnwind,
      BeginLeg2, SendDex
<1>4. BookedInv'
  BY DEF IInv, TypeOK, AwaitInv, VenueInv, BookedInv, DexFirst, Leg1CexReply, AcceptLeg1,
      Reject, Return, BeginUnwind, BeginLeg2, SendDex
<1>5. CleanInv'
  BY DEF IInv, TypeOK, AwaitInv, BookedInv, CleanInv, DexFirst, CleanReasons,
      Leg1CexReply, AcceptLeg1, Reject, Return, BeginUnwind, BeginLeg2, SendDex
<1>6. DoneIsHedged'
  BY <1>1 DEF IInv, TypeOK, AwaitInv, VenueInv, BookedInv, DoneIsHedged, DexFirst,
      Leg1Truth, Leg2Truth, Leg1CexReply, AcceptLeg1, Reject, Return, BeginUnwind,
      BeginLeg2, SendDex
<1>7. SettledIsFlat'
  BY DEF IInv, TypeOK, AwaitInv, VenueInv, BookedInv, CleanInv, SettledIsFlat, Returned,
      CleanReasons, DexFirst,
      Leg1Truth, Leg2Truth, MeetsUnwindFill,
      Leg1CexReply, AcceptLeg1, Reject, Return, BeginUnwind, BeginLeg2, SendDex
<1>8. EntryIsOpenLeg1'
  BY DEF IInv, TypeOK, AwaitInv, BookedInv, EntryIsOpenLeg1, Returned, DexFirst,
      Leg1CexReply, AcceptLeg1, Reject, Return, BeginUnwind, BeginLeg2, SendDex
<1> QED
  BY <1>1, <1>2, <1>3, <1>4, <1>5, <1>6, <1>7, <1>8 DEF IInv

\* A leg-1 timeout books nothing.
LEMMA Leg1CexTimeoutInv == IInv /\ Leg1CexTimeout => IInv'
<1> SUFFICES ASSUME IInv, Leg1CexTimeout PROVE IInv'
  OBVIOUS
<1>1. TypeOK'
  BY AwaitsMembers, StatesMembers, ReasonsMembers
  DEF IInv, TypeOK, Leg1CexTimeout, Reject, Return
<1>2. AwaitInv'
  BY DEF IInv, AwaitInv, DexFirst, CleanReasons, Leg1CexTimeout, Reject, Return
<1>3. VenueInv'
  BY DEF IInv, TypeOK, VenueInv, Leg1CexTimeout, Reject, Return
<1>4. BookedInv'
  BY DEF IInv, TypeOK, AwaitInv, VenueInv, BookedInv, DexFirst, Leg1CexTimeout, Reject, Return
<1>5. CleanInv'
  BY DEF IInv, TypeOK, AwaitInv, BookedInv, CleanInv, DexFirst, CleanReasons,
      Leg1CexTimeout, Reject, Return
<1>6. DoneIsHedged'
  BY <1>1 DEF IInv, TypeOK, AwaitInv, VenueInv, BookedInv, DoneIsHedged, DexFirst,
      Leg1Truth, Leg2Truth, Leg1CexTimeout, Reject, Return
<1>7. SettledIsFlat'
  BY DEF IInv, TypeOK, AwaitInv, VenueInv, BookedInv, CleanInv, SettledIsFlat, Returned,
      CleanReasons, DexFirst,
      Leg1Truth, Leg2Truth, MeetsUnwindFill,
      Leg1CexTimeout, Reject, Return
<1>8. EntryIsOpenLeg1'
  BY DEF IInv, TypeOK, AwaitInv, BookedInv, EntryIsOpenLeg1, Returned, DexFirst,
      Leg1CexTimeout, Reject, Return
<1> QED
  BY <1>1, <1>2, <1>3, <1>4, <1>5, <1>6, <1>7, <1>8 DEF IInv

\* A conclusive cancel closes the order at the fill it books.
LEMMA CancelCexReplyInv == IInv /\ CancelCexReply => IInv'
<1> SUFFICES ASSUME IInv, CancelCexReply PROVE IInv'
  OBVIOUS
<1>1. TypeOK'
  BY AwaitsMembers, StatesMembers, ReasonsMembers
  DEF IInv, TypeOK, CancelCexReply, RaceOnCancel, AcceptLeg1, Reject, Return, BeginUnwind,
      BeginLeg2, SendDex
<1>2. AwaitInv'
  BY DEF IInv, AwaitInv, DexFirst, CleanReasons, CancelCexReply, RaceOnCancel, AcceptLeg1,
      Reject, Return, BeginUnwind, BeginLeg2, SendDex
<1>3. VenueInv'
  BY DEF IInv, TypeOK, VenueInv, CancelCexReply, RaceOnCancel, AcceptLeg1, Reject, Return,
      BeginUnwind, BeginLeg2, SendDex
<1>4. BookedInv'
  BY DEF IInv, TypeOK, AwaitInv, VenueInv, BookedInv, DexFirst, CancelCexReply,
      RaceOnCancel, AcceptLeg1, Reject, Return, BeginUnwind, BeginLeg2, SendDex
<1>5. CleanInv'
  BY DEF IInv, TypeOK, AwaitInv, BookedInv, CleanInv, DexFirst, CleanReasons,
      CancelCexReply, RaceOnCancel, AcceptLeg1, Reject, Return, BeginUnwind, BeginLeg2,
      SendDex
<1>6. DoneIsHedged'
  BY <1>1 DEF IInv, TypeOK, AwaitInv, VenueInv, BookedInv, DoneIsHedged, DexFirst,
      Leg1Truth, Leg2Truth, CancelCexReply, RaceOnCancel, AcceptLeg1, Reject, Return,
      BeginUnwind, BeginLeg2, SendDex
<1>7. SettledIsFlat'
  BY DEF IInv, TypeOK, AwaitInv, VenueInv, BookedInv, CleanInv, SettledIsFlat, Returned,
      CleanReasons, DexFirst,
      Leg1Truth, Leg2Truth, MeetsUnwindFill,
      CancelCexReply, RaceOnCancel, AcceptLeg1, Reject, Return, BeginUnwind, BeginLeg2, SendDex
<1>8. EntryIsOpenLeg1'
  BY DEF IInv, TypeOK, AwaitInv, BookedInv, EntryIsOpenLeg1, Returned, DexFirst,
      CancelCexReply, RaceOnCancel, AcceptLeg1, Reject, Return, BeginUnwind, BeginLeg2,
      SendDex
<1> QED
  BY <1>1, <1>2, <1>3, <1>4, <1>5, <1>6, <1>7, <1>8 DEF IInv

\* A mined DEX leg 1 is booked at what it filled.
LEMMA Leg1DexReplyInv == IInv /\ Leg1DexReply => IInv'
<1> SUFFICES ASSUME IInv, Leg1DexReply PROVE IInv'
  OBVIOUS
<1>1. TypeOK'
  BY AwaitsMembers, StatesMembers, ReasonsMembers
  DEF IInv, TypeOK, Leg1DexReply, Reject, Return, BeginLeg2, SendCex
<1>2. AwaitInv'
  BY DEF IInv, AwaitInv, DexFirst, CleanReasons, Leg1DexReply, Reject, Return, BeginLeg2,
      SendCex
<1>3. VenueInv'
  BY DEF IInv, TypeOK, VenueInv, Leg1DexReply, Reject, Return, BeginLeg2, SendCex
<1>4. BookedInv'
  BY DEF IInv, TypeOK, AwaitInv, VenueInv, BookedInv, DexFirst, Leg1DexReply, Reject,
      Return, BeginLeg2, SendCex
<1>5. CleanInv'
  BY DEF IInv, TypeOK, AwaitInv, BookedInv, CleanInv, DexFirst, CleanReasons,
      Leg1DexReply, Reject, Return, BeginLeg2, SendCex
<1>6. DoneIsHedged'
  BY <1>1 DEF IInv, TypeOK, AwaitInv, VenueInv, BookedInv, DoneIsHedged, DexFirst,
      Leg1Truth, Leg2Truth, Leg1DexReply, Reject, Return, BeginLeg2, SendCex
<1>7. SettledIsFlat'
  BY DEF IInv, TypeOK, AwaitInv, VenueInv, BookedInv, CleanInv, SettledIsFlat, Returned,
      CleanReasons, DexFirst,
      Leg1Truth, Leg2Truth, MeetsUnwindFill,
      Leg1DexReply, Reject, Return, BeginLeg2, SendCex
<1>8. EntryIsOpenLeg1'
  BY DEF IInv, TypeOK, AwaitInv, BookedInv, EntryIsOpenLeg1, Returned, DexFirst,
      Leg1DexReply, Reject, Return, BeginLeg2, SendCex
<1> QED
  BY <1>1, <1>2, <1>3, <1>4, <1>5, <1>6, <1>7, <1>8 DEF IInv

\* A DEX leg-1 timeout books nothing.
LEMMA Leg1DexTimeoutInv == IInv /\ Leg1DexTimeout => IInv'
<1> SUFFICES ASSUME IInv, Leg1DexTimeout PROVE IInv'
  OBVIOUS
<1>1. TypeOK'
  BY AwaitsMembers, StatesMembers, ReasonsMembers
  DEF IInv, TypeOK, Leg1DexTimeout, Reject, Return
<1>2. AwaitInv'
  BY DEF IInv, AwaitInv, DexFirst, CleanReasons, Leg1DexTimeout, Reject, Return
<1>3. VenueInv'
  BY DEF IInv, TypeOK, VenueInv, Leg1DexTimeout, Reject, Return
<1>4. BookedInv'
  BY DEF IInv, TypeOK, AwaitInv, VenueInv, BookedInv, DexFirst, Leg1DexTimeout, Reject, Return
<1>5. CleanInv'
  BY DEF IInv, TypeOK, AwaitInv, BookedInv, CleanInv, DexFirst, CleanReasons,
      Leg1DexTimeout, Reject, Return
<1>6. DoneIsHedged'
  BY <1>1 DEF IInv, TypeOK, AwaitInv, VenueInv, BookedInv, DoneIsHedged, DexFirst,
      Leg1Truth, Leg2Truth, Leg1DexTimeout, Reject, Return
<1>7. SettledIsFlat'
  BY DEF IInv, TypeOK, AwaitInv, VenueInv, BookedInv, CleanInv, SettledIsFlat, Returned,
      CleanReasons, DexFirst,
      Leg1Truth, Leg2Truth, MeetsUnwindFill,
      Leg1DexTimeout, Reject, Return
<1>8. EntryIsOpenLeg1'
  BY DEF IInv, TypeOK, AwaitInv, BookedInv, EntryIsOpenLeg1, Returned, DexFirst,
      Leg1DexTimeout, Reject, Return
<1> QED
  BY <1>1, <1>2, <1>3, <1>4, <1>5, <1>6, <1>7, <1>8 DEF IInv

\* A reply of the swap completes or unwinds; only a revert is clean.
LEMMA Leg2DexReplyInv == IInv /\ Leg2DexReply => IInv'
<1> SUFFICES ASSUME IInv, Leg2DexReply PROVE IInv'
  OBVIOUS
<1>1. TypeOK'
  BY AwaitsMembers, StatesMembers, ReasonsMembers
  DEF IInv, TypeOK, Leg2DexReply, FinalizeDexAccepted, Complete, BeginUnwind
<1>2. AwaitInv'
  BY DEF IInv, AwaitInv, DexFirst, CleanReasons, Leg2DexReply, FinalizeDexAccepted,
      Complete, BeginUnwind
<1>3. VenueInv'
  BY DEF IInv, TypeOK, VenueInv, Leg2DexReply, FinalizeDexAccepted, Complete, BeginUnwind
<1>4. BookedInv'
  BY DEF IInv, TypeOK, AwaitInv, VenueInv, BookedInv, DexFirst, Leg2DexReply,
      FinalizeDexAccepted, Complete, BeginUnwind
<1>5. CleanInv'
  BY DEF IInv, TypeOK, AwaitInv, BookedInv, CleanInv, DexFirst, CleanReasons,
      Leg2DexReply, FinalizeDexAccepted, Complete, BeginUnwind
<1>6. DoneIsHedged'
  BY <1>1, FullFill DEF IInv, TypeOK, AwaitInv, VenueInv, BookedInv, DoneIsHedged,
      DexFirst, Leg1Truth, Leg2Truth, Leg2DexReply, FinalizeDexAccepted, Complete,
      BeginUnwind
<1>7. SettledIsFlat'
  BY DEF IInv, TypeOK, AwaitInv, VenueInv, BookedInv, CleanInv, SettledIsFlat, Returned,
      CleanReasons, DexFirst,
      Leg1Truth, Leg2Truth, MeetsUnwindFill,
      Leg2DexReply, FinalizeDexAccepted, Complete, BeginUnwind
<1>8. EntryIsOpenLeg1'
  BY DEF IInv, TypeOK, AwaitInv, BookedInv, EntryIsOpenLeg1, Returned, DexFirst,
      Leg2DexReply, FinalizeDexAccepted, Complete, BeginUnwind
<1> QED
  BY <1>1, <1>2, <1>3, <1>4, <1>5, <1>6, <1>7, <1>8 DEF IInv

\* A swap timeout either gives up or asks for a cancel.
LEMMA Leg2DexTimeoutInv == IInv /\ Leg2DexTimeout => IInv'
<1> SUFFICES ASSUME IInv, Leg2DexTimeout PROVE IInv'
  OBVIOUS
<1>1. TypeOK'
  BY AwaitsMembers, StatesMembers, ReasonsMembers
  DEF IInv, TypeOK, Leg2DexTimeout, TimeOutLeg2
<1>2. AwaitInv'
  BY DEF IInv, AwaitInv, DexFirst, CleanReasons, Leg2DexTimeout, TimeOutLeg2
<1>3. VenueInv'
  BY DEF IInv, TypeOK, VenueInv, Leg2DexTimeout, TimeOutLeg2
<1>4. BookedInv'
  BY DEF IInv, TypeOK, AwaitInv, VenueInv, BookedInv, DexFirst, Leg2DexTimeout, TimeOutLeg2
<1>5. CleanInv'
  BY DEF IInv, TypeOK, AwaitInv, BookedInv, CleanInv, DexFirst, CleanReasons,
      Leg2DexTimeout, TimeOutLeg2
<1>6. DoneIsHedged'
  BY <1>1 DEF IInv, TypeOK, AwaitInv, VenueInv, BookedInv, DoneIsHedged, DexFirst,
      Leg1Truth, Leg2Truth, Leg2DexTimeout, TimeOutLeg2
<1>7. SettledIsFlat'
  BY DEF IInv, TypeOK, AwaitInv, VenueInv, BookedInv, CleanInv, SettledIsFlat, Returned,
      CleanReasons, DexFirst,
      Leg1Truth, Leg2Truth, MeetsUnwindFill,
      Leg2DexTimeout, TimeOutLeg2
<1>8. EntryIsOpenLeg1'
  BY DEF IInv, TypeOK, AwaitInv, BookedInv, EntryIsOpenLeg1, Returned, DexFirst,
      Leg2DexTimeout, TimeOutLeg2
<1> QED
  BY <1>1, <1>2, <1>3, <1>4, <1>5, <1>6, <1>7, <1>8 DEF IInv

\* A replaced or reverted swap can no longer fill.
LEMMA CancelDexReplyInv == IInv /\ CancelDexReply => IInv'
<1> SUFFICES ASSUME IInv, CancelDexReply PROVE IInv'
  OBVIOUS
<1>1. TypeOK'
  BY AwaitsMembers, StatesMembers, ReasonsMembers
  DEF IInv, TypeOK, CancelDexReply, CancelDexUnknown, TimeOutLeg2, BeginUnwind
<1>2. AwaitInv'
  BY DEF IInv, AwaitInv, DexFirst, CleanReasons, CancelDexReply, CancelDexUnknown,
      TimeOutLeg2, BeginUnwind
<1>3. VenueInv'
  BY DEF IInv, TypeOK, VenueInv, CancelDexReply, CancelDexUnknown, TimeOutLeg2, BeginUnwind
<1>4. BookedInv'
  BY DEF IInv, TypeOK, AwaitInv, VenueInv, BookedInv, DexFirst, CancelDexReply,
      CancelDexUnknown, TimeOutLeg2, BeginUnwind
<1>5. CleanInv'
  BY DEF IInv, TypeOK, AwaitInv, BookedInv, CleanInv, DexFirst, CleanReasons,
      CancelDexReply, CancelDexUnknown, TimeOutLeg2, BeginUnwind
<1>6. DoneIsHedged'
  BY <1>1 DEF IInv, TypeOK, AwaitInv, VenueInv, BookedInv, DoneIsHedged, DexFirst,
      Leg1Truth, Leg2Truth, CancelDexReply, CancelDexUnknown, TimeOutLeg2, BeginUnwind
<1>7. SettledIsFlat'
  BY DEF IInv, TypeOK, AwaitInv, VenueInv, BookedInv, CleanInv, SettledIsFlat, Returned,
      CleanReasons, DexFirst,
      Leg1Truth, Leg2Truth, MeetsUnwindFill,
      CancelDexReply, CancelDexUnknown, TimeOutLeg2, BeginUnwind
<1>8. EntryIsOpenLeg1'
  BY DEF IInv, TypeOK, AwaitInv, BookedInv, EntryIsOpenLeg1, Returned, DexFirst,
      CancelDexReply, CancelDexUnknown, TimeOutLeg2, BeginUnwind
<1> QED
  BY <1>1, <1>2, <1>3, <1>4, <1>5, <1>6, <1>7, <1>8 DEF IInv

\* Only a timed-out CEX-first execution reaches the store.
LEMMA PushReconcileInv == IInv /\ PushReconcile => IInv'
<1> SUFFICES ASSUME IInv, PushReconcile PROVE IInv'
  OBVIOUS
<1>1. TypeOK'
  BY AwaitsMembers, StatesMembers, ReasonsMembers
  DEF IInv, TypeOK, PushReconcile
<1>2. AwaitInv'
  BY DEF IInv, AwaitInv, DexFirst, CleanReasons, PushReconcile
<1>3. VenueInv'
  BY DEF IInv, TypeOK, VenueInv, PushReconcile
<1>4. BookedInv'
  BY DEF IInv, TypeOK, AwaitInv, VenueInv, BookedInv, DexFirst, PushReconcile
<1>5. CleanInv'
  BY DEF IInv, TypeOK, AwaitInv, BookedInv, CleanInv, DexFirst, CleanReasons, PushReconcile
<1>6. DoneIsHedged'
  BY <1>1 DEF IInv, TypeOK, AwaitInv, VenueInv, BookedInv, DoneIsHedged, DexFirst,
      Leg1Truth, Leg2Truth, PushReconcile
<1>7. SettledIsFlat'
  BY DEF IInv, TypeOK, AwaitInv, VenueInv, BookedInv, CleanInv, SettledIsFlat, Returned,
      CleanReasons, DexFirst,
      Leg1Truth, Leg2Truth, MeetsUnwindFill,
      PushReconcile
<1>8. EntryIsOpenLeg1'
  BY DEF IInv, TypeOK, AwaitInv, BookedInv, EntryIsOpenLeg1, Returned, DexFirst, PushReconcile
<1> QED
  BY <1>1, <1>2, <1>3, <1>4, <1>5, <1>6, <1>7, <1>8 DEF IInv

\* A reply of the CEX leg 2 completes or unwinds.
LEMMA Leg2CexReplyInv == IInv /\ Leg2CexReply => IInv'
<1> SUFFICES ASSUME IInv, Leg2CexReply PROVE IInv'
  OBVIOUS
<1>1. TypeOK'
  BY AwaitsMembers, StatesMembers, ReasonsMembers
  DEF IInv, TypeOK, Leg2CexReply, Complete, BeginUnwind
<1>2. AwaitInv'
  BY DEF IInv, AwaitInv, DexFirst, CleanReasons, Leg2CexReply, Complete, BeginUnwind
<1>3. VenueInv'
  BY DEF IInv, TypeOK, VenueInv, Leg2CexReply, Complete, BeginUnwind
<1>4. BookedInv'
  BY DEF IInv, TypeOK, AwaitInv, VenueInv, BookedInv, DexFirst, Leg2CexReply, Complete,
      BeginUnwind
<1>5. CleanInv'
  BY DEF IInv, TypeOK, AwaitInv, BookedInv, CleanInv, DexFirst, CleanReasons,
      Leg2CexReply, Complete, BeginUnwind
<1>6. DoneIsHedged'
  BY <1>1, FullFill DEF IInv, TypeOK, AwaitInv, VenueInv, BookedInv, DoneIsHedged,
      DexFirst, Leg1Truth, Leg2Truth, Leg2CexReply, Complete, BeginUnwind
<1>7. SettledIsFlat'
  BY DEF IInv, TypeOK, AwaitInv, VenueInv, BookedInv, CleanInv, SettledIsFlat, Returned,
      CleanReasons, DexFirst,
      Leg1Truth, Leg2Truth, MeetsUnwindFill,
      Leg2CexReply, Complete, BeginUnwind
<1>8. EntryIsOpenLeg1'
  BY DEF IInv, TypeOK, AwaitInv, BookedInv, EntryIsOpenLeg1, Returned, DexFirst,
      Leg2CexReply, Complete, BeginUnwind
<1> QED
  BY <1>1, <1>2, <1>3, <1>4, <1>5, <1>6, <1>7, <1>8 DEF IInv

\* A CEX leg-2 timeout returns without an unwind.
LEMMA Leg2CexTimeoutInv == IInv /\ Leg2CexTimeout => IInv'
<1> SUFFICES ASSUME IInv, Leg2CexTimeout PROVE IInv'
  OBVIOUS
<1>1. TypeOK'
  BY AwaitsMembers, StatesMembers, ReasonsMembers
  DEF IInv, TypeOK, Leg2CexTimeout, Return
<1>2. AwaitInv'
  BY DEF IInv, AwaitInv, DexFirst, CleanReasons, Leg2CexTimeout, Return
<1>3. VenueInv'
  BY DEF IInv, TypeOK, VenueInv, Leg2CexTimeout, Return
<1>4. BookedInv'
  BY DEF IInv, TypeOK, AwaitInv, VenueInv, BookedInv, DexFirst, Leg2CexTimeout, Return
<1>5. CleanInv'
  BY DEF IInv, TypeOK, AwaitInv, BookedInv, CleanInv, DexFirst, CleanReasons,
      Leg2CexTimeout, Return
<1>6. DoneIsHedged'
  BY <1>1 DEF IInv, TypeOK, AwaitInv, VenueInv, BookedInv, DoneIsHedged, DexFirst,
      Leg1Truth, Leg2Truth, Leg2CexTimeout, Return
<1>7. SettledIsFlat'
  BY DEF IInv, TypeOK, AwaitInv, VenueInv, BookedInv, CleanInv, SettledIsFlat, Returned,
      CleanReasons, DexFirst,
      Leg1Truth, Leg2Truth, MeetsUnwindFill,
      Leg2CexTimeout, Return
<1>8. EntryIsOpenLeg1'
  BY DEF IInv, TypeOK, AwaitInv, BookedInv, EntryIsOpenLeg1, Returned, DexFirst,
      Leg2CexTimeout, Return
<1> QED
  BY <1>1, <1>2, <1>3, <1>4, <1>5, <1>6, <1>7, <1>8 DEF IInv

\* The unwind is sized by the booked leg 1.
LEMMA UnwindSendInv == IInv /\ UnwindSend => IInv'
<1> SUFFICES ASSUME IInv, UnwindSend PROVE IInv'
  OBVIOUS
<1>1. TypeOK'
  BY AwaitsMembers, StatesMembers, ReasonsMembers
  DEF IInv, TypeOK, UnwindSend, ctxvars
<1>2. AwaitInv'
  BY DEF IInv, AwaitInv, DexFirst, CleanReasons, UnwindSend, ctxvars, BookedInv
<1>3. VenueInv'
  BY DEF IInv, TypeOK, VenueInv, UnwindSend, ctxvars
<1>4. BookedInv'
  BY DEF IInv, TypeOK, AwaitInv, VenueInv, BookedInv, DexFirst, UnwindSend, ctxvars
<1>5. CleanInv'
  BY DEF IInv, TypeOK, AwaitInv, BookedInv, CleanInv, DexFirst, CleanReasons, UnwindSend,
      ctxvars
<1>6. DoneIsHedged'
  BY <1>1 DEF IInv, TypeOK, AwaitInv, VenueInv, BookedInv, DoneIsHedged, DexFirst,
      Leg1Truth, Leg2Truth, UnwindSend, ctxvars
<1>7. SettledIsFlat'
  BY DEF IInv, TypeOK, AwaitInv, VenueInv, BookedInv, CleanInv, SettledIsFlat, Returned,
      CleanReasons, DexFirst,
      Leg1Truth, Leg2Truth, MeetsUnwindFill,
      UnwindSend, ctxvars
<1>8. EntryIsOpenLeg1'
  BY DEF IInv, TypeOK, AwaitInv, BookedInv, EntryIsOpenLeg1, Returned, DexFirst,
      UnwindSend, ctxvars
<1> QED
  BY <1>1, <1>2, <1>3, <1>4, <1>5, <1>6, <1>7, <1>8 DEF IInv

\* An unwind reported as done met its fill check.
LEMMA UnwindReplyInv == IInv /\ UnwindReply => IInv'
<1> SUFFICES ASSUME IInv, UnwindReply PROVE IInv'
  OBVIOUS
<1>1. TypeOK'
  BY AwaitsMembers, StatesMembers, ReasonsMembers
  DEF IInv, TypeOK, UnwindReply, FinalState
<1>2. AwaitInv'
  BY DEF IInv, AwaitInv, DexFirst, CleanReasons, UnwindReply
<1>3. VenueInv'
  BY DEF IInv, TypeOK, VenueInv, UnwindReply
<1>4. BookedInv'
  BY DEF IInv, TypeOK, AwaitInv, VenueInv, BookedInv, DexFirst, UnwindReply
<1>5. CleanInv'
  BY DEF IInv, TypeOK, AwaitInv, BookedInv, CleanInv, DexFirst, CleanReasons, UnwindReply
<1>6. DoneIsHedged'
  BY <1>1 DEF IInv, TypeOK, AwaitInv, VenueInv, BookedInv, DoneIsHedged, DexFirst,
      Leg1Truth, Leg2Truth, UnwindReply, FinalState
<1>7. SettledIsFlat'
  BY DEF IInv, TypeOK, AwaitInv, VenueInv, BookedInv, CleanInv, SettledIsFlat, Returned,
      CleanReasons, DexFirst,
      Leg1Truth, Leg2Truth, MeetsUnwindFill,
      UnwindReply, UnwindOk
<1>8. EntryIsOpenLeg1'
  BY DEF IInv, TypeOK, AwaitInv, BookedInv, EntryIsOpenLeg1, Returned, DexFirst, UnwindReply
<1> QED
  BY <1>1, <1>2, <1>3, <1>4, <1>5, <1>6, <1>7, <1>8 DEF IInv

\* A broadcast happens only while the swap call is running.
LEMMA DexBroadcastInv == IInv /\ DexBroadcast => IInv'
<1> SUFFICES ASSUME IInv, DexBroadcast PROVE IInv'
  OBVIOUS
<1>1. TypeOK'
  BY AwaitsMembers, StatesMembers, ReasonsMembers
  DEF IInv, TypeOK, DexBroadcast, ctxvars, DexCallActive
<1>2. AwaitInv'
  BY DEF IInv, AwaitInv, DexFirst, CleanReasons, DexBroadcast, ctxvars, DexCallActive
<1>3. VenueInv'
  BY DEF IInv, TypeOK, VenueInv, DexBroadcast, ctxvars, DexCallActive
<1>4. BookedInv'
  BY DEF IInv, TypeOK, AwaitInv, VenueInv, BookedInv, DexFirst, DexBroadcast, ctxvars,
      DexCallActive
<1>5. CleanInv'
  BY DEF IInv, TypeOK, AwaitInv, BookedInv, CleanInv, DexFirst, CleanReasons,
      DexBroadcast, ctxvars, DexCallActive
<1>6. DoneIsHedged'
  BY <1>1 DEF IInv, TypeOK, AwaitInv, VenueInv, BookedInv, DoneIsHedged, DexFirst,
      Leg1Truth, Leg2Truth, DexBroadcast, ctxvars, DexCallActive
<1>7. SettledIsFlat'
  BY DEF IInv, TypeOK, AwaitInv, VenueInv, BookedInv, CleanInv, SettledIsFlat, Returned,
      CleanReasons, DexFirst,
      Leg1Truth, Leg2Truth, MeetsUnwindFill,
      DexBroadcast, ctxvars, DexCallActive
<1>8. EntryIsOpenLeg1'
  BY DEF IInv, TypeOK, AwaitInv, BookedInv, EntryIsOpenLeg1, Returned, DexFirst,
      DexBroadcast, ctxvars, DexCallActive
<1> QED
  BY <1>1, <1>2, <1>3, <1>4, <1>5, <1>6, <1>7, <1>8 DEF IInv

\* The hash is written only while leg 2 is running.
LEMMA DexSinkSetInv == IInv /\ DexSinkSet => IInv'
<1> SUFFICES ASSUME IInv, DexSinkSet PROVE IInv'
  OBVIOUS
<1>1. TypeOK'
  BY AwaitsMembers, StatesMembers, ReasonsMembers
  DEF IInv, TypeOK, DexSinkSet, ctxvars
<1>2. AwaitInv'
  BY DEF IInv, AwaitInv, DexFirst, CleanReasons, DexSinkSet, ctxvars
<1>3. VenueInv'
  BY DEF IInv, TypeOK, VenueInv, DexSinkSet, ctxvars
<1>4. BookedInv'
  BY DEF IInv, TypeOK, AwaitInv, VenueInv, BookedInv, DexFirst, DexSinkSet, ctxvars
<1>5. CleanInv'
  BY DEF IInv, TypeOK, AwaitInv, BookedInv, CleanInv, DexFirst, CleanReasons, DexSinkSet,
      ctxvars
<1>6. DoneIsHedged'
  BY <1>1 DEF IInv, TypeOK, AwaitInv, VenueInv, BookedInv, DoneIsHedged, DexFirst,
      Leg1Truth, Leg2Truth, DexSinkSet, ctxvars
<1>7. SettledIsFlat'
  BY DEF IInv, TypeOK, AwaitInv, VenueInv, BookedInv, CleanInv, SettledIsFlat, Returned,
      CleanReasons, DexFirst,
      Leg1Truth, Leg2Truth, MeetsUnwindFill,
      DexSinkSet, ctxvars
<1>8. EntryIsOpenLeg1'
  BY DEF IInv, TypeOK, AwaitInv, BookedInv, EntryIsOpenLeg1, Returned, DexFirst,
      DexSinkSet, ctxvars
<1> QED
  BY <1>1, <1>2, <1>3, <1>4, <1>5, <1>6, <1>7, <1>8 DEF IInv

\* A transaction that lands leaves every booked leg alone.
LEMMA DexLandsInv == IInv /\ DexLands => IInv'
<1> SUFFICES ASSUME IInv, DexLands PROVE IInv'
  OBVIOUS
<1>0. /\ dex' \in [st : {"none", "ready", "inflight", "contested", "mined", "reverted", "replaced"},
                     req : Nat, filled : Nat]
      /\ dex'.st = "mined" => dex'.filled > 0
      /\ dex'.st # "mined" => dex'.filled = 0
      /\ dex'.st \in {"mined", "reverted", "replaced"}
  <2>1. dex \in [st : {"none", "ready", "inflight", "contested", "mined", "reverted", "replaced"},
                 req : Nat, filled : Nat]
    BY DEF IInv, TypeOK
  <2>2. dex.filled = 0
    BY DEF IInv, VenueInv, DexLands
  <2>3. CASE \E n \in 1..(dex.req + DexSurplus) : dex' = [st |-> "mined", req |-> dex.req, filled |-> n]
    <3>1. PICK n \in 1..(dex.req + DexSurplus) : dex' = [st |-> "mined", req |-> dex.req, filled |-> n]
      BY <2>3, Zenon
    <3>2. dex.req \in Nat
      BY <2>1
    <3>3. n \in Nat /\ n > 0
      BY <3>2, SwapAssumption
    <3> QED
      BY <2>1, <3>1, <3>3
  <2>4. CASE dex' = [dex EXCEPT !.st = "reverted"] \/ dex' = [dex EXCEPT !.st = "replaced"]
    BY <2>1, <2>2, <2>4
  <2> QED
    BY <2>3, <2>4 DEF DexLands
<1>1. TypeOK'
  BY <1>0, AwaitsMembers, StatesMembers, ReasonsMembers
  DEF IInv, TypeOK, DexLands, ctxvars
<1>2. AwaitInv'
  BY DEF IInv, AwaitInv, DexFirst, CleanReasons, DexLands, ctxvars
<1>3. VenueInv'
  BY <1>0 DEF IInv, VenueInv, DexLands, ctxvars
<1>4. BookedInv'
  BY DEF IInv, TypeOK, AwaitInv, VenueInv, BookedInv, DexFirst, DexLands, ctxvars
<1>5. CleanInv'
  BY DEF IInv, TypeOK, AwaitInv, BookedInv, CleanInv, DexFirst, CleanReasons, DexLands, ctxvars
<1>6. DoneIsHedged'
  BY <1>1 DEF IInv, TypeOK, AwaitInv, VenueInv, BookedInv, DoneIsHedged, DexFirst,
      Leg1Truth, Leg2Truth, DexLands, ctxvars
<1>7. SettledIsFlat'
  BY DEF IInv, TypeOK, AwaitInv, VenueInv, BookedInv, CleanInv, SettledIsFlat, Returned,
      CleanReasons, DexFirst,
      Leg1Truth, Leg2Truth, MeetsUnwindFill,
      DexLands, ctxvars
<1>8. EntryIsOpenLeg1'
  BY DEF IInv, TypeOK, AwaitInv, BookedInv, EntryIsOpenLeg1, Returned, DexFirst, DexLands,
      ctxvars
<1> QED
  BY <1>1, <1>2, <1>3, <1>4, <1>5, <1>6, <1>7, <1>8 DEF IInv

\* An order that lands was not booked before.
LEMMA CexLandsInv == IInv /\ CexLands => IInv'
<1> SUFFICES ASSUME IInv, CexLands PROVE IInv'
  OBVIOUS
<1>1. TypeOK'
  BY AwaitsMembers, StatesMembers, ReasonsMembers
  DEF IInv, TypeOK, CexLands, ctxvars
<1>2. AwaitInv'
  BY DEF IInv, AwaitInv, DexFirst, CleanReasons, CexLands, ctxvars
<1>3. VenueInv'
  BY DEF IInv, TypeOK, VenueInv, CexLands, ctxvars
<1>4. BookedInv'
  BY DEF IInv, TypeOK, AwaitInv, VenueInv, BookedInv, DexFirst, CexLands, ctxvars
<1>5. CleanInv'
  BY DEF IInv, TypeOK, AwaitInv, BookedInv, CleanInv, DexFirst, CleanReasons, CexLands, ctxvars
<1>6. DoneIsHedged'
  BY <1>1 DEF IInv, TypeOK, AwaitInv, VenueInv, BookedInv, DoneIsHedged, DexFirst,
      Leg1Truth, Leg2Truth, CexLands, ctxvars
<1>7. SettledIsFlat'
  BY DEF IInv, TypeOK, AwaitInv, VenueInv, BookedInv, CleanInv, SettledIsFlat, Returned,
      CleanReasons, DexFirst,
      Leg1Truth, Leg2Truth, MeetsUnwindFill,
      CexLands, ctxvars
<1>8. EntryIsOpenLeg1'
  BY DEF IInv, TypeOK, AwaitInv, BookedInv, EntryIsOpenLeg1, Returned, DexFirst, CexLands,
      ctxvars
<1> QED
  BY <1>1, <1>2, <1>3, <1>4, <1>5, <1>6, <1>7, <1>8 DEF IInv

\* An unwind that lands late leaves a finished report alone.
LEMMA UnwindLandsInv == IInv /\ UnwindLands => IInv'
<1> SUFFICES ASSUME IInv, UnwindLands PROVE IInv'
  OBVIOUS
<1>0. unw' \in [st : {"none", "inflight", "closed"}, req : Nat, filled : Nat]
  <2>1. unw.req \in Nat
    BY DEF IInv, TypeOK
  <2>2. PICK n \in 0..(unw.req + (IF DexFirst THEN DexSurplus ELSE 0)) :
          unw' = [st |-> "closed", req |-> unw.req, filled |-> n]
    BY Zenon DEF UnwindLands
  <2>3. n \in Nat
    BY <2>1, SwapAssumption
  <2> QED
    BY <2>1, <2>2, <2>3
<1>1. TypeOK'
  BY <1>0, AwaitsMembers, StatesMembers, ReasonsMembers
  DEF IInv, TypeOK, UnwindLands, ctxvars
<1>2. AwaitInv'
  BY DEF IInv, AwaitInv, DexFirst, CleanReasons, UnwindLands, ctxvars
<1>3. VenueInv'
  BY DEF IInv, TypeOK, VenueInv, UnwindLands, ctxvars
<1>4. BookedInv'
  BY DEF IInv, TypeOK, AwaitInv, VenueInv, BookedInv, DexFirst, UnwindLands, ctxvars
<1>5. CleanInv'
  BY DEF IInv, TypeOK, AwaitInv, BookedInv, CleanInv, DexFirst, CleanReasons, UnwindLands,
      ctxvars
<1>6. DoneIsHedged'
  BY <1>1 DEF IInv, TypeOK, AwaitInv, VenueInv, BookedInv, DoneIsHedged, DexFirst,
      Leg1Truth, Leg2Truth, UnwindLands, ctxvars
<1>7. SettledIsFlat'
  BY DEF IInv, TypeOK, AwaitInv, VenueInv, BookedInv, CleanInv, SettledIsFlat, Returned,
      CleanReasons, DexFirst,
      Leg1Truth, Leg2Truth, MeetsUnwindFill,
      UnwindLands, ctxvars
<1>8. EntryIsOpenLeg1'
  BY DEF IInv, TypeOK, AwaitInv, BookedInv, EntryIsOpenLeg1, Returned, DexFirst,
      UnwindLands, ctxvars
<1> QED
  BY <1>1, <1>2, <1>3, <1>4, <1>5, <1>6, <1>7, <1>8 DEF IInv

\* A step that changes nothing keeps the invariant.
LEMMA StutterInv == IInv /\ UNCHANGED vars => IInv'
<1> SUFFICES ASSUME IInv, UNCHANGED vars PROVE IInv'
  OBVIOUS
<1>1. TypeOK' /\ AwaitInv' /\ VenueInv' /\ BookedInv' /\ CleanInv'
  BY DEF IInv, TypeOK, AwaitInv, VenueInv, BookedInv, CleanInv, DexFirst, vars
<1>2. DoneIsHedged' /\ EntryIsOpenLeg1'
  BY DEF IInv, DoneIsHedged, EntryIsOpenLeg1, Returned, DexFirst, Leg1Truth, Leg2Truth, vars
<1>3. SettledIsFlat'
  BY DEF IInv, SettledIsFlat, Returned, DexFirst, Leg1Truth, Leg2Truth, MeetsUnwindFill, vars
<1> QED
  BY <1>1, <1>2, <1>3 DEF IInv

\* IInv is inductive.
LEMMA NextInv == IInv /\ [Next]_vars => IInv'
BY StartInv, Leg1CexReplyInv, Leg1CexTimeoutInv, CancelCexReplyInv, Leg1DexReplyInv,
    Leg1DexTimeoutInv, Leg2DexReplyInv, Leg2DexTimeoutInv, CancelDexReplyInv,
    PushReconcileInv, Leg2CexReplyInv, Leg2CexTimeoutInv, UnwindSendInv, UnwindReplyInv,
    DexBroadcastInv, DexSinkSetInv, DexLandsInv, CexLandsInv, UnwindLandsInv, StutterInv
DEF Next, Timeouts, LegReplies, Answers, Venues, Finished

\* The invariant holds in every state of every execution.
LEMMA Invariance == Spec => []IInv
BY InitInv, NextInv, PTL DEF Spec

-----------------------------------------------------------------------------
\* Recorded fills and order sizes keep their types whatever the venues answer,
\* at every await point of execute_cex_first and execute_dex_first.
THEOREM TypeCorrect == Spec => []TypeOK
<1>1. IInv => TypeOK
  BY DEF IInv
<1> QED
  BY <1>1, Invariance, PTL

\* Every unwind LiveLegs::unwind sends is sized by what leg 1 really filled.
THEOREM UnwindMatches == Spec => []UnwindMatchesLeg1
<1>1. IInv => UnwindMatchesLeg1
  BY DEF IInv, BookedInv, UnwindMatchesLeg1, Leg1Truth
<1> QED
  BY <1>1, Invariance, PTL

\* complete_with_actuals is reached only with both legs final and hedged up to
\* min_fill_ratio, and nothing that lands later changes that.
THEOREM DoneHedged == Spec => []DoneIsHedged
<1>1. IInv => DoneIsHedged
  BY DEF IInv
<1> QED
  BY <1>1, Invariance, PTL

\* A settled execution (clean cancel, unwound partial, revert, replaced swap)
\* is flat up to the unwind tolerance, whatever lands after it returned.
THEOREM SettledFlat == Spec => []SettledIsFlat
<1>1. IInv => SettledIsFlat
  BY DEF IInv
<1> QED
  BY <1>1, Invariance, PTL

\* What maybe_push_reconcile stores is a leg 1 still open at the recorded size.
THEOREM EntryOpen == Spec => []EntryIsOpenLeg1
<1>1. IInv => EntryIsOpenLeg1
  BY DEF IInv
<1> QED
  BY <1>1, Invariance, PTL

-----------------------------------------------------------------------------
(* What an execution leaves behind.                                        *)

Leg2Unsent == IF DexFirst THEN cex.st = "none" ELSE dex.st = "none"
OpenReasons == LostReplies \cup {"dex_partial", "cex2_partial"}

\* How each report came about: leg 2 is sent only on a booked leg 1, a rejection
\* sends neither leg 2 nor an unwind, and an unwind either has leg 2 ruled out or
\* a reason that does not say.
ReportInv ==
  /\ unw.st # "closed" => unw.filled = 0
  /\ Leg2Unsent \/ leg1_fill_size > 0
  /\ at = "unwind" => reason \in OpenReasons \cup CleanReasons
  /\ Returned =>
       \/ state = "Done"
       \/ state = "Rejected" /\ Leg2Unsent /\ unw.st = "none" /\ unwind_status = "none"
       \/ reason = "cancel_unknown" /\ Leg2Unsent /\ unw.st = "none"
       \/ state = "Leg2Timeout" /\ unw.st = "none" /\ reason \notin CleanReasons
       \/ /\ unwind_status # "none" /\ leg1_fill_size > 0
          /\ \/ reason \in OpenReasons
             \/ reason \in CleanReasons /\ ~DexFirst /\ dex.st \in {"none", "reverted", "replaced"}

\* Every step of the engine and of the venues keeps ReportInv.
LEMMA ReportNext == IInv /\ ReportInv /\ [Next]_vars => ReportInv'
<1> SUFFICES ASSUME IInv, ReportInv, [Next]_vars PROVE ReportInv'
  OBVIOUS
<1> USE DEF IInv, TypeOK, AwaitInv, BookedInv, CleanInv, ReportInv, Leg2Unsent, OpenReasons,
            LostReplies, CleanReasons, Returned, DexFirst
<1>1. CASE Start
  BY <1>1 DEF Start, SendCex, SendDex
<1>2. CASE Leg1CexReply
  BY <1>2 DEF Leg1CexReply, AcceptLeg1, Reject, Return, BeginUnwind, BeginLeg2, SendDex
<1>3. CASE Leg1CexTimeout
  BY <1>3 DEF Leg1CexTimeout, Reject, Return
<1>4. CASE CancelCexReply
  BY <1>4 DEF CancelCexReply, RaceOnCancel, AcceptLeg1, Reject, Return, BeginUnwind, BeginLeg2, SendDex
<1>5. CASE Leg1DexReply
  BY <1>5 DEF Leg1DexReply, Reject, Return, BeginLeg2, SendCex, VenueInv
<1>6. CASE Leg1DexTimeout
  BY <1>6 DEF Leg1DexTimeout, Reject, Return
<1>7. CASE Leg2DexReply
  BY <1>7 DEF Leg2DexReply, FinalizeDexAccepted, Complete, BeginUnwind
<1>8. CASE Leg2DexTimeout
  BY <1>8 DEF Leg2DexTimeout, TimeOutLeg2
<1>9. CASE CancelDexReply
  BY <1>9 DEF CancelDexReply, CancelDexUnknown, TimeOutLeg2, BeginUnwind
<1>10. CASE PushReconcile
  BY <1>10 DEF PushReconcile
<1>11. CASE Leg2CexReply
  BY <1>11 DEF Leg2CexReply, Complete, BeginUnwind
<1>12. CASE Leg2CexTimeout
  BY <1>12 DEF Leg2CexTimeout, Return
<1>13. CASE UnwindSend
  BY <1>13 DEF UnwindSend, ctxvars
<1>14. CASE UnwindReply
  BY <1>14 DEF UnwindReply, FinalState
<1>15. CASE DexBroadcast
  BY <1>15 DEF DexBroadcast, ctxvars, DexCallActive
<1>16. CASE DexSinkSet
  BY <1>16 DEF DexSinkSet, ctxvars
<1>17. CASE DexLands
  BY <1>17 DEF DexLands, ctxvars
<1>18. CASE CexLands
  BY <1>18 DEF CexLands, ctxvars
<1>19. CASE UnwindLands
  BY <1>19 DEF UnwindLands, ctxvars
<1>20. CASE UNCHANGED vars
  BY <1>20 DEF vars
<1> QED
  BY <1>1, <1>2, <1>3, <1>4, <1>5, <1>6, <1>7, <1>8, <1>9, <1>10, <1>11, <1>12, <1>13,
     <1>14, <1>15, <1>16, <1>17, <1>18, <1>19, <1>20, ZenonT(60) DEF Next, Timeouts, LegReplies,
     Answers, Venues, Finished

\* ReportInv holds of every execution.
LEMMA Reports == Spec => []ReportInv
<1>1. Init => ReportInv
  BY DEF Init, ReportInv, Leg2Unsent, OpenReasons, LostReplies, CleanReasons, Returned
<1> QED
  BY <1>1, ReportNext, Invariance, PTL DEF Spec

\* Whatever position an execution leaves open at quiet venues has one source:
\* an unbooked leg 1, an uncancelled leg 2, or a leg 2 that was taken for none.
THEOREM ResidualOneSource == Spec => []ResidualHasOneSource
<1>1. IInv /\ ReportInv => ResidualHasOneSource
  <2> SUFFICES ASSUME IInv, ReportInv, Returned, Quiescent, Exposure # 0
               PROVE  \/ state = "Done" /\ Leg2Truth * 100 >= FullPct * Leg1Truth
                      \/ state = "Rejected" /\ Leg2Truth = 0 /\ unw.st = "none" /\ reason # "cancelled"
                      \/ reason = "cancel_unknown" /\ Leg2Truth = 0 /\ unw.st = "none"
                      \/ state = "Leg2Timeout" /\ unw.st = "none"
                      \/ /\ unwind_status # "none"
                         /\ Leg2Truth > 0 => reason \in LostReplies \cup {"dex_partial", "cex2_partial"}
                         /\ unw.st = "closed" /\ unw.filled = unw.req => Exposure = -Leg2Truth
    BY DEF ResidualHasOneSource
  <2>0. /\ Leg1Truth \in Nat /\ Leg2Truth \in Nat /\ unw.filled \in Nat
        /\ Leg2Unsent => Leg2Truth = 0
    BY DEF IInv, TypeOK, VenueInv, Leg1Truth, Leg2Truth, Leg2Unsent
  <2>1. CASE state = "Done"
    BY <2>1 DEF IInv, DoneIsHedged
  <2>2. CASE state = "Rejected" /\ Leg2Unsent /\ unw.st = "none" /\ unwind_status = "none"
    <3>1. reason = "cancelled" => Leg1Truth = 0
      BY <2>0, <2>2 DEF IInv, SettledIsFlat, CleanReasons
    <3>2. unw.filled = 0
      BY <2>2 DEF ReportInv
    <3> QED
      BY <2>0, <2>2, <3>1, <3>2 DEF Exposure
  <2>3. CASE reason = "cancel_unknown" /\ Leg2Unsent /\ unw.st = "none"
    BY <2>0, <2>3
  <2>4. CASE state = "Leg2Timeout" /\ unw.st = "none"
    BY <2>4
  <2>5. CASE /\ unwind_status # "none" /\ leg1_fill_size > 0
             /\ \/ reason \in OpenReasons
                \/ reason \in CleanReasons /\ ~DexFirst /\ dex.st \in {"none", "reverted", "replaced"}
    <3>1. Leg2Truth > 0 => reason \in OpenReasons
      BY <2>0, <2>5 DEF IInv, VenueInv, Leg2Truth
    <3>2. unw.st = "closed" => unw.req = Leg1Truth
      BY DEF IInv, BookedInv, Leg1Truth
    <3>3. unw.st = "closed" /\ unw.filled = unw.req => Exposure = -Leg2Truth
      BY <2>0, <3>2 DEF Exposure
    <3> QED
      BY <2>5, <3>1, <3>3 DEF OpenReasons
  <2> QED
    BY <2>1, <2>2, <2>3, <2>4, <2>5 DEF ReportInv
<1> QED
  BY <1>1, Invariance, Reports, PTL

-----------------------------------------------------------------------------
(* The refinement of HedgePromise.                                         *)

\* An unwind accepted by either fill check closes the position up to UnwindBps.
LEMMA AcceptedUnwind ==
  ASSUME NEW f \in Nat, NEW r \in Nat, MeetsUnwindFill(f, r)
  PROVE  f * 10000 >= UnwindBps * r
<1>1. /\ UnwindBps \in Int /\ UnwindBps <= 9990
      /\ SlippageBps \in Int /\ UnwindBps <= 10000 - SlippageBps
  BY SwapAssumption DEF UnwindBps
<1>2. CASE DexFirst
  <2>1. f * 10000 >= r * (10000 - SlippageBps)
    BY <1>2 DEF MeetsUnwindFill
  <2>2. r * (10000 - SlippageBps) >= UnwindBps * r
    BY <1>1
  <2> QED
    BY <1>1, <2>1, <2>2
<1>3. CASE ~DexFirst
  <2>1. f * 1000 >= r * 999
    BY <1>3 DEF MeetsUnwindFill
  <2>2. 9990 * r >= UnwindBps * r
    BY <1>1
  <2> QED
    BY <1>1, <2>1, <2>2
<1> QED
  BY <1>2, <1>3

\* A verdict of "hedged" or "flat" is true, and no order is left that could
\* change it.
TruthInv ==
  /\ VerdictOf = "hedged" =>
       /\ Leg1Truth > 0 /\ Leg2Truth * 100 >= FullPct * Leg1Truth /\ unw.filled = 0
       /\ cex.st = "closed" /\ dex.st = "mined" /\ unw.st = "none"
  /\ VerdictOf = "flat" =>
       /\ Leg2Truth = 0 /\ cex.st = "closed" /\ dex.st \in {"none", "reverted", "replaced"}
       /\ Leg1Truth > 0 => unw.st = "closed" /\ unw.filled * 10000 >= UnwindBps * Leg1Truth

\* TruthInv follows from what is known of the reports.
LEMMA Truthful == IInv /\ ReportInv => TruthInv
<1> SUFFICES ASSUME IInv, ReportInv PROVE TruthInv
  OBVIOUS
<1>1. Leg1Truth \in Nat /\ Leg2Truth \in Nat /\ unw.filled \in Nat
  BY DEF IInv, TypeOK, Leg1Truth, Leg2Truth
<1>2. CASE VerdictOf = "hedged"
  BY <1>1, <1>2 DEF IInv, ReportInv, DoneIsHedged, TruthInv, VerdictOf
<1>3. CASE VerdictOf = "flat"
  <2>1. Returned /\ reason \in CleanReasons /\ unwind_status # "UNWIND_FAILED"
    BY <1>3 DEF VerdictOf
  <2>2. /\ Leg2Truth = 0 /\ cex.st = "closed" /\ dex.st \in {"none", "reverted", "replaced"}
        /\ Leg1Truth > 0 => unw.st = "closed" /\ MeetsUnwindFill(unw.filled, Leg1Truth)
    BY <2>1 DEF IInv, SettledIsFlat
  <2> QED
    BY <1>1, <1>3, <2>2, AcceptedUnwind DEF TruthInv
<1> QED
  BY <1>2, <1>3 DEF TruthInv

\* The fills at the venues, which the promise is about.
truth == <<Leg1Truth, Leg2Truth, unw.filled>>

\* A step of an execution under way that moves no position gives a verdict, or
\* none.
LEMMA JudgeStep ==
  ASSUME TruthInv', at # "returned", UNCHANGED truth
  PROVE  [Promise!Next]_(Promise!hvars)
<1>1. VerdictOf = "open"
  BY DEF VerdictOf, Returned
<1>2. VerdictOf' \in {"open", "hedged", "flat", "unsure"}
  BY DEF VerdictOf
<1>3. CASE VerdictOf' = "open"
  BY <1>1, <1>3 DEF Promise!hvars, truth
<1>4. CASE VerdictOf' # "open"
  BY <1>1, <1>2, <1>4 DEF Promise!Next, Promise!Judge, TruthInv, truth
<1> QED
  BY <1>3, <1>4

\* The verdict depends on the report only.
LEMMA VerdictKept == UNCHANGED <<at, state, reason, unwind_status>> => VerdictOf' = VerdictOf
BY Zenon DEF VerdictOf, Returned

\* The engine's own steps, but for the cancel of leg 1.
EngineStep ==
  \/ Start \/ Timeouts \/ Leg1CexReply \/ Leg1DexReply \/ Leg2DexReply \/ Leg2CexReply
  \/ CancelDexReply \/ PushReconcile \/ UnwindReply

\* They move no position.
LEMMA EngineMovesNothing ==
  ASSUME IInv, EngineStep
  PROVE  at # "returned" /\ UNCHANGED truth
<1> USE DEF IInv, TypeOK, VenueInv, Leg1Truth, Leg2Truth, DexFirst, truth
<1>1. CASE Start
  BY <1>1 DEF Start, SendCex, SendDex, AwaitInv
<1>2. CASE Leg1CexReply
  BY <1>2 DEF Leg1CexReply, AcceptLeg1, SendDex, AwaitInv
<1>3. CASE Leg1CexTimeout
  BY <1>3 DEF Leg1CexTimeout
<1>4. CASE Leg1DexReply
  BY <1>4 DEF Leg1DexReply, SendCex, AwaitInv
<1>5. CASE Leg1DexTimeout
  BY <1>5 DEF Leg1DexTimeout
<1>6. CASE Leg2DexReply
  BY <1>6 DEF Leg2DexReply
<1>7. CASE Leg2DexTimeout
  BY <1>7 DEF Leg2DexTimeout
<1>8. CASE CancelDexReply
  BY <1>8 DEF CancelDexReply, CancelDexUnknown
<1>9. CASE PushReconcile
  BY <1>9 DEF PushReconcile
<1>10. CASE Leg2CexReply
  BY <1>10 DEF Leg2CexReply
<1>11. CASE Leg2CexTimeout
  BY <1>11 DEF Leg2CexTimeout
<1>12. CASE UnwindReply
  BY <1>12 DEF UnwindReply
<1> QED
  BY <1>1, <1>2, <1>3, <1>4, <1>5, <1>6, <1>7, <1>8, <1>9, <1>10, <1>11, <1>12, Zenon
     DEF EngineStep, Timeouts

\* A fill that lands at a venue opens, hedges or undoes the position, whatever
\* the execution has come to by then.
LEMMA CexLandsStep ==
  ASSUME IInv, ReportInv, TruthInv, CexLands
  PROVE  [Promise!Next]_(Promise!hvars)
<1>1. PICK n \in 0..cex.req : cex' = [st |-> "closed", req |-> cex.req, filled |-> n]
  BY DEF CexLands
<1>2. /\ VerdictOf' = VerdictOf /\ VerdictOf \notin {"hedged", "flat"}
      /\ UNCHANGED <<config, dex, unw>>
  BY VerdictKept DEF CexLands, ctxvars, TruthInv
<1>3. cex.filled = 0 /\ cex'.filled = n /\ n \in Nat
  BY <1>1 DEF CexLands, IInv, TypeOK, VenueInv
<1>4. CASE n = 0
  BY <1>2, <1>3, <1>4 DEF Promise!hvars, Leg1Truth, Leg2Truth, DexFirst
<1>5. CASE n > 0 /\ DexFirst
  <2>1. Leg1Truth > 0 /\ Leg2Truth = 0
    BY <1>3, <1>5 DEF CexLands, IInv, TypeOK, VenueInv, BookedInv, ReportInv, Leg2Unsent, Leg1Truth, Leg2Truth
  <2>2. Leg2Truth' = n /\ UNCHANGED <<Leg1Truth, unw>>
    BY <1>2, <1>3, <1>5 DEF Leg1Truth, Leg2Truth, DexFirst
  <2> QED
    BY <1>2, <1>3, <1>5, <2>1, <2>2 DEF Promise!Next, Promise!Hedge, Promise!Settled
<1>6. CASE n > 0 /\ ~DexFirst
  <2>1. Leg1Truth = 0 /\ Leg2Truth = 0 /\ unw.filled = 0
    BY <1>3, <1>6 DEF CexLands, IInv, TypeOK, VenueInv, BookedInv, ReportInv, Leg2Unsent, Leg1Truth, Leg2Truth
  <2>2. Leg1Truth' = n /\ UNCHANGED <<Leg2Truth, unw>>
    BY <1>2, <1>3, <1>6 DEF Leg1Truth, Leg2Truth, DexFirst
  <2> QED
    BY <1>2, <1>3, <1>6, <2>1, <2>2 DEF Promise!Next, Promise!Open, Promise!Settled
<1> QED
  BY <1>3, <1>4, <1>5, <1>6

\* The same of the swap; a revert or a lost nonce moves nothing.
LEMMA DexLandsStep ==
  ASSUME IInv, ReportInv, TruthInv, TypeOK', DexLands
  PROVE  [Promise!Next]_(Promise!hvars)
<1>1. /\ VerdictOf' = VerdictOf /\ VerdictOf \notin {"hedged", "flat"}
      /\ UNCHANGED <<config, cex, unw>>
  BY VerdictKept DEF DexLands, ctxvars, TruthInv
<1>2. dex.filled = 0 /\ dex.filled \in Nat /\ dex'.filled \in Nat
  BY DEF DexLands, IInv, TypeOK, VenueInv
<1>3. CASE dex'.filled = 0
  BY <1>1, <1>2, <1>3 DEF Promise!hvars, Leg1Truth, Leg2Truth, DexFirst
<1>4. CASE dex'.filled > 0 /\ ~DexFirst
  <2>1. Leg1Truth > 0 /\ Leg2Truth = 0
    BY <1>2, <1>4 DEF DexLands, IInv, TypeOK, VenueInv, BookedInv, ReportInv, Leg2Unsent, Leg1Truth, Leg2Truth
  <2>2. Leg2Truth' = dex'.filled /\ UNCHANGED <<Leg1Truth, unw>>
    BY <1>1, <1>2, <1>4 DEF Leg1Truth, Leg2Truth, DexFirst
  <2> QED
    BY <1>1, <1>2, <1>4, <2>1, <2>2 DEF Promise!Next, Promise!Hedge, Promise!Settled
<1>5. CASE dex'.filled > 0 /\ DexFirst
  <2>1. Leg1Truth = 0 /\ Leg2Truth = 0 /\ unw.filled = 0
    BY <1>2, <1>5 DEF DexLands, IInv, TypeOK, VenueInv, BookedInv, ReportInv, Leg2Unsent, Leg1Truth, Leg2Truth
  <2>2. Leg1Truth' = dex'.filled /\ UNCHANGED <<Leg2Truth, unw>>
    BY <1>1, <1>2, <1>5 DEF Leg1Truth, Leg2Truth, DexFirst
  <2> QED
    BY <1>1, <1>2, <1>5, <2>1, <2>2 DEF Promise!Next, Promise!Open, Promise!Settled
<1> QED
  BY <1>2, <1>3, <1>4, <1>5

\* An unwind undoes a position that is open, and undoes it once.
LEMMA UnwindLandsStep ==
  ASSUME IInv, ReportInv, TruthInv, TypeOK', UnwindLands
  PROVE  [Promise!Next]_(Promise!hvars)
<1>1. VerdictOf' = VerdictOf /\ UNCHANGED <<Leg1Truth, Leg2Truth>>
  BY VerdictKept DEF UnwindLands, ctxvars, Leg1Truth, Leg2Truth, DexFirst
<1>2. Leg1Truth > 0 /\ unw.st = "inflight" /\ unw.filled = 0
  BY DEF UnwindLands, IInv, BookedInv, ReportInv, Leg1Truth
<1>3. VerdictOf \notin {"hedged", "flat"}
  BY <1>2 DEF TruthInv
<1>4. unw'.filled \in Nat
  BY DEF TypeOK
<1>5. CASE unw'.filled = 0
  BY <1>1, <1>2, <1>5 DEF Promise!hvars
<1>6. CASE unw'.filled # 0
  BY <1>1, <1>2, <1>3, <1>4, <1>6 DEF Promise!Next, Promise!Undo, Promise!Settled
<1> QED
  BY <1>5, <1>6

\* A conclusive cancel that closes the order at a fill opens the position: the
\* whole order counts as full, so no fill it reports is dropped as dust.
LEMMA CancelCexStep ==
  ASSUME IInv, ReportInv, TruthInv', CancelCexReply
  PROVE  [Promise!Next]_(Promise!hvars)
<1>1. /\ at = "cancel_cex" /\ ~DexFirst /\ UNCHANGED <<config, unw>>
      /\ dex.filled = 0 /\ unw.filled = 0 /\ VerdictOf = "open"
  BY DEF CancelCexReply, IInv, AwaitInv, VenueInv, ReportInv, VerdictOf, Returned
<1>2. dex'.filled = 0
  BY <1>1 DEF CancelCexReply, RaceOnCancel, AcceptLeg1, Return, SendDex
<1>3. CASE cex'.filled = cex.filled
  BY <1>1, <1>2, <1>3, JudgeStep DEF truth, Leg1Truth, Leg2Truth, DexFirst
<1>4. CASE cex'.filled # cex.filled
  <2>1. PICK n \in 0..cex.req :
          /\ cex.st = "closed" => n = cex.filled
          /\ cex' = [st |-> "closed", req |-> cex.req, filled |-> n]
          /\ RaceOnCancel(n)
    BY <1>4 DEF CancelCexReply
  <2>2. cex.filled = 0 /\ cex'.filled = n /\ n \in Nat /\ n > 0
    BY <1>4, <2>1 DEF IInv, TypeOK, VenueInv
  <2>3. ClassifyFill(Size, Size) = "Full"
    BY SizeAssumption, RatioAssumption DEF ClassifyFill
  <2>4. at' \in {"leg2", "unwind"}
    BY <2>1, <2>2, <2>3 DEF RaceOnCancel, AcceptLeg1, BeginLeg2, BeginUnwind
  <2>5. VerdictOf' = "open"
    BY <2>4 DEF VerdictOf, Returned
  <2> QED
    BY <1>1, <1>2, <2>2, <2>5
    DEF Promise!Next, Promise!Open, Promise!Settled, Leg1Truth, Leg2Truth, DexFirst
<1> QED
  BY <1>3, <1>4

\* Every step of engine or venue is a step of the promise or leaves it alone.
LEMMA PromiseNext ==
  IInv /\ ReportInv /\ TruthInv /\ TypeOK' /\ TruthInv' /\ [Next]_vars => [Promise!Next]_(Promise!hvars)
<1> SUFFICES ASSUME IInv, ReportInv, TruthInv, TypeOK', TruthInv', [Next]_vars
             PROVE  [Promise!Next]_(Promise!hvars)
  OBVIOUS
<1>1. CASE EngineStep
  BY <1>1, EngineMovesNothing, JudgeStep
<1>2. CASE CancelCexReply
  BY <1>2, CancelCexStep
<1>3. CASE UnwindSend
  <2>1. at # "returned" /\ UNCHANGED truth
    BY <1>3 DEF UnwindSend, ReportInv, truth, Leg1Truth, Leg2Truth, DexFirst
  <2> QED
    BY <2>1, JudgeStep
<1>4. CASE DexBroadcast \/ DexSinkSet
  <2>1. VerdictOf' = VerdictOf /\ UNCHANGED truth
    BY <1>4, VerdictKept DEF DexBroadcast, DexSinkSet, IInv, TypeOK, ctxvars, truth, Leg1Truth, Leg2Truth, DexFirst
  <2> QED
    BY <2>1 DEF truth, Promise!hvars
<1>5. CASE CexLands
  BY <1>5, CexLandsStep
<1>6. CASE DexLands
  BY <1>6, DexLandsStep
<1>7. CASE UnwindLands
  BY <1>7, UnwindLandsStep
<1>8. CASE UNCHANGED vars
  BY <1>8, VerdictKept DEF vars, Promise!hvars, Leg1Truth, Leg2Truth, DexFirst
<1> QED
  BY <1>1, <1>2, <1>3, <1>4, <1>5, <1>6, <1>7, <1>8
  DEF Next, EngineStep, LegReplies, Answers, Venues, Finished

\* The execution implements the promise: each leg moves the position once and
\* only after the leg it rests on, and no later step of engine or venue makes a
\* hedged or flat verdict untrue.
THEOREM ExecutionKeepsPromise == Spec => KeepsPromise
<1>1. Init => Promise!Init
  BY DEF Init, Promise!Init, VerdictOf, Returned, Leg1Truth, Leg2Truth
<1>2. IInv => TypeOK
  BY DEF IInv
<1> QED
  BY <1>1, <1>2, Truthful, Invariance, Reports, PromiseNext, PTL DEF Spec, KeepsPromise, Promise!Spec

-----------------------------------------------------------------------------
(* The reconciler of the executions that time out in leg 2.                *)
(*                                                                         *)
(* tick_once reads a receipt, writes the store and only later unwinds; a   *)
(* crash, a failed write or a second `add` of the same signal may fall     *)
(* between any two.  What carries a verdict across these gaps is that the  *)
(* store has one row per signal, and that a tick lists, marks and handles  *)
(* a signal at most once: RecRowInv, RecTickInv and RecBatchInv.           *)

\* One entry per signal is in its row, and no entry names the swap of an
\* execution that is not there yet.
RecRowInv ==
  /\ \A d, e \in Entries : InRow(d) /\ InRow(e) /\ d.signal = e.signal => d = e
  /\ \A e \in Entries : IF status[e] = "absent" THEN hash[e] = e ELSE status[hash[e]] # "absent"

\* An entry the tick has listed is pending, or was replaced by one that is.
RecListed(e) ==
  /\ status[e] \in {"pending", "superseded"} /\ attempts[e] = 0
  /\ \A d \in Entries : d.signal = e.signal /\ InRow(d) =>
       status[d] = "pending" /\ attempts[d] = 0 /\ (d = e \/ d \in raced)

\* The entries of a tick are of different signals, the one being marked included.
RecTickInv ==
  /\ \A e \in todo : RecListed(e)
  /\ \A d, e \in todo : d.signal = e.signal => d = e
  /\ phase = "mark" =>
       /\ RecListed(current.entry) /\ Given(current.entry, MarkedAs[current.outcome])
       /\ \A e \in todo : e.signal # current.entry.signal
  /\ phase \in {"sleep", "handle"} => todo = {}

\* An outcome waiting to be handled is marked, its unwind is not yet attempted,
\* and the tick does not come back to its signal.
RecBatchInv ==
  /\ \A o \in out :
       /\ Given(o.entry, MarkedAs[o.outcome])
       /\ status[o.entry] \in {MarkedAs[o.outcome], "superseded"}
       /\ o.outcome = "ReceiptReverted" => attempts[o.entry] = 0
       /\ \A e \in todo : e.signal # o.entry.signal
       /\ phase = "mark" => current.entry.signal # o.entry.signal
  /\ \A o, p \in out : o.entry.signal = p.entry.signal => o = p

RecIInv ==
  /\ RecTypeOK /\ RecRowInv /\ RecTickInv /\ RecBatchInv
  /\ VerdictMatchesChain /\ UnwoundOnceAfterRevert

-----------------------------------------------------------------------------
\* An empty store satisfies the invariant.
LEMMA RecInitInv == RecInit => RecIInv
BY DEF RecInit, RecIInv, RecTypeOK, RecRowInv, RecTickInv, RecBatchInv, InRow,
   VerdictMatchesChain, UnwoundOnceAfterRevert

\* Whatever the row held, the tick's entries are still pending or replaced.
LEMMA RecUpsertListed ==
  ASSUME RecIInv, NEW e0 \in Entries, Upsert(e0), NEW e \in Entries, RecListed(e), Listed(e.signal)
  PROVE  RecListed(e)'
<1>1. status'[e] \in {"pending", "superseded"} /\ attempts'[e] = 0
  BY DEF RecIInv, RecTypeOK, RecListed, InRow, Upsert
<1>2. ASSUME NEW d \in Entries, d.signal = e.signal, InRow(d)'
      PROVE  status'[d] = "pending" /\ attempts'[d] = 0 /\ (d = e \/ d \in raced')
  <2>1. CASE d = e0
    <3>1. status[e0] = "absent" /\ status'[e0] = "pending" /\ attempts'[e0] = attempts[e0]
      BY Zenon DEF Upsert
    <3>2. attempts[e0] \in Nat /\ attempts[e0] <= 1 /\ attempts[e0] # 1
      BY <3>1 DEF RecIInv, RecTypeOK, UnwoundOnceAfterRevert
    <3>3. d \in raced'
      BY <1>2, <2>1, Zenon DEF Upsert
    <3> QED
      BY <2>1, <3>1, <3>2, <3>3
  <2>2. CASE d # e0
    BY <2>2, <1>2 DEF RecIInv, RecTypeOK, RecListed, InRow, Upsert
  <2> QED
    BY <2>1, <2>2
<1> QED
  BY <1>1, <1>2, Zenon DEF RecListed

\* `add` keeps the invariant, whichever swap the new entry names.
LEMMA RecUpsertInv ==
  ASSUME RecIInv, NEW e0 \in Entries, Upsert(e0), RecTypeOK',
         \A d \in Entries : d # e0 => hash'[d] = hash[d],
         hash'[e0] = e0 \/ status[hash'[e0]] # "absent",
         \A d \in Entries : status[d] # "absent" => tx'[d] = tx[d]
  PROVE  RecIInv'
<1>1. UNCHANGED <<old, phase, todo, current, out, attempts>> /\ raced \subseteq raced' /\ status[e0] = "absent"
  BY DEF Upsert
<1>2. status'[e0] = "pending"
  BY Zenon DEF Upsert
<1>3. \A d \in Entries : d # e0 =>
        status'[d] = IF d.signal = e0.signal /\ InRow(d) THEN "superseded" ELSE status[d]
  BY Zenon DEF Upsert
<1>4. \A d \in Entries : hash[d] \in Entries /\ hash'[d] \in Entries
  BY DEF RecIInv, RecTypeOK
<1>5. \A d \in Entries : status[d] # "absent" => hash'[d] = hash[d] /\ tx'[hash[d]] = tx[hash[d]]
  BY <1>1, <1>4, Zenon DEF RecIInv, RecRowInv
<1>6. \A d \in Entries : (status[d] # "absent" => status'[d] # "absent") /\ (InRow(d)' /\ d # e0 => InRow(d))
  BY <1>2, <1>3 DEF InRow
<1>7. RecRowInv'
  <2>1. ASSUME NEW d \in Entries, NEW e \in Entries, InRow(d)', InRow(e)', d.signal = e.signal PROVE d = e
    <3>1. \A b \in Entries : InRow(b)' /\ b # e0 => b.signal # e0.signal
      BY <1>3 DEF InRow
    <3> QED
      BY <1>6, <2>1, <3>1, Zenon DEF RecIInv, RecRowInv
  <2>2. ASSUME NEW e \in Entries
        PROVE  IF status'[e] = "absent" THEN hash'[e] = e ELSE status'[hash'[e]] # "absent"
    <3>1. CASE e = e0
      BY <1>2, <1>4, <1>6, <3>1
    <3>2. CASE e # e0 /\ status[e] = "absent"
      <4>1. status'[e] = "absent"
        BY <1>3, <3>2 DEF InRow
      <4> QED
        BY <3>2, <4>1, Zenon DEF RecIInv, RecRowInv
    <3>3. CASE status[e] # "absent"
      <4>1. status[hash[e]] # "absent" /\ hash'[e] = hash[e]
        BY <1>5, <3>3, Zenon DEF RecIInv, RecRowInv
      <4> QED
        BY <1>4, <1>6, <3>3, <4>1, Zenon
    <3> QED
      BY <3>1, <3>2, <3>3
  <2> QED
    BY <2>1, <2>2, Zenon DEF RecRowInv
<1>8. \A e \in Entries : \A st : status[e] # "absent" /\ Given(e, st) => Given(e, st)'
  BY <1>1, <1>5, Zenon DEF Given
<1>9. RecTickInv'
  <2>1. \A e \in todo : RecListed(e)'
    <3>1. todo \subseteq Entries
      BY DEF RecIInv, RecTypeOK
    <3> QED
      BY <3>1, RecUpsertListed, Zenon DEF RecIInv, RecTickInv, Listed
  <2>2. ASSUME phase = "mark"
        PROVE  RecListed(current.entry)' /\ Given(current.entry, MarkedAs[current.outcome])'
    <3>1. PICK c, m : c = current.entry /\ m = MarkedAs[current.outcome]
      OBVIOUS
    <3>2. c \in Entries
      BY <2>2, <3>1 DEF RecIInv, RecTypeOK
    <3>3. RecListed(c) /\ Given(c, m) /\ Listed(c.signal)
      BY <2>2, <3>1, Zenon DEF RecIInv, RecTickInv, Listed
    <3>4. status[c] # "absent"
      BY <3>3 DEF RecListed
    <3>5. RecListed(c)' /\ Given(c, m)'
      BY <1>8, <3>2, <3>3, <3>4, RecUpsertListed, Zenon
    <3> QED
      BY <1>1, <3>1, <3>5, Zenon DEF RecListed, InRow, Given
  <2> QED
    BY <1>1, <2>1, <2>2, Zenon DEF RecIInv, RecTickInv
<1>10. RecBatchInv'
  <2>1. \A o \in out : /\ o.entry \in Entries
                       /\ MarkedAs[o.outcome] \in {"resolved", "reverted", "expired"}
    BY DEF RecIInv, RecTypeOK, Outcomes, MarkedAs
  <2>2. ASSUME NEW o \in out
        PROVE  /\ Given(o.entry, MarkedAs[o.outcome])'
               /\ status'[o.entry] \in {MarkedAs[o.outcome], "superseded"}
    <3>1. /\ Given(o.entry, MarkedAs[o.outcome])
          /\ status[o.entry] \in {MarkedAs[o.outcome], "superseded"}
      BY Zenon DEF RecIInv, RecBatchInv
    <3>2. status[o.entry] # "absent"
      BY <2>1, <3>1
    <3>3. status'[o.entry] \in {status[o.entry], "superseded"}
      BY <1>1, <1>3, <2>1, <3>2, Zenon
    <3> QED
      BY <1>8, <2>1, <3>1, <3>2, <3>3, Zenon
  <2> QED
    BY <1>1, <2>2, Zenon DEF RecIInv, RecBatchInv
<1>11. VerdictMatchesChain'
  <2> SUFFICES ASSUME NEW e \in Entries, status'[e] \in {"resolved", "reverted", "expired"}
               PROVE  \/ Given(e, status[e])'
                      \/ /\ e \in raced'
                         /\ \E d \in Entries : /\ d.signal = e.signal /\ status'[d] = "superseded"
                                               /\ Given(d, status[e])'
    BY Zenon DEF VerdictMatchesChain
  <2>1. e # e0 /\ status'[e] = status[e]
    BY <1>2, <1>3
  <2>2. PICK st : st = status[e]
    BY Zenon
  <2>3. \A d \in Entries : Given(d, st)' <=> Given(d, status[e])'
    BY <2>1, <2>2, Zenon DEF Given
  <2>4. \A d \in Entries : status[d] = "superseded" => status'[d] = "superseded"
    BY <1>1, <1>3 DEF InRow
  <2>5. CASE Given(e, st)
    BY <1>8, <2>1, <2>3, <2>5, Zenon
  <2>6. CASE e \in raced
    <3>1. ASSUME NEW d \in Entries, d.signal = e.signal, status[d] = "superseded", Given(d, st)
          PROVE  d.signal = e.signal /\ status'[d] = "superseded" /\ Given(d, status[e])'
      <4>1. status[d] # "absent"
        BY <3>1
      <4> QED
        BY <1>8, <2>3, <2>4, <3>1, <4>1, Zenon
    <3> QED
      BY <1>1, <1>8, <2>1, <2>2, <2>3, <2>6, <3>1, Zenon DEF RecIInv, VerdictMatchesChain
  <2> QED
    BY <2>1, <2>2, <2>5, <2>6, Zenon DEF RecIInv, VerdictMatchesChain
<1>12. UnwoundOnceAfterRevert'
  <2> SUFFICES ASSUME NEW e \in Entries
               PROVE  /\ attempts'[e] <= 1
                      /\ attempts'[e] = 1 => tx'[hash'[e]] = "reverted" /\ status'[e] \in {"reverted", "superseded"}
    BY Zenon DEF UnwoundOnceAfterRevert
  <2>1. /\ attempts[e] <= 1
        /\ attempts[e] = 1 => tx[hash[e]] = "reverted" /\ status[e] \in {"reverted", "superseded"}
    BY Zenon DEF RecIInv, UnwoundOnceAfterRevert
  <2>2. status[e] \in {"reverted", "superseded"} => status'[e] \in {"reverted", "superseded"}
    BY <1>1, <1>3
  <2> QED
    BY <1>1, <1>5, <2>1, <2>2
<1> QED
  BY <1>7, <1>9, <1>10, <1>11, <1>12 DEF RecIInv

\* A timed-out execution enters the store, or replaces the row of its id.
LEMMA RecAddInv ==
  ASSUME RecIInv, NEW e0 \in Entries, Add(e0) PROVE RecIInv'
<1>1. Upsert(e0) /\ hash' = hash
  BY DEF Add
<1>2. RecTypeOK'
  BY DEF RecIInv, RecTypeOK, Add, Upsert, TxStates
<1>3. status[e0] = "absent" /\ hash[e0] = e0
  BY <1>1 DEF RecIInv, RecRowInv, Upsert
<1>4. \A d \in Entries : status[d] # "absent" => tx'[d] = tx[d]
  BY <1>3 DEF RecIInv, RecTypeOK, Add
<1> QED
  BY <1>1, <1>2, <1>3, <1>4, RecUpsertInv, Zenon

\* A row is queued again for the swap it names.
LEMMA RecRequeueInv ==
  ASSUME RecIInv, NEW e0 \in Entries, Requeue(e0) PROVE RecIInv'
<1>1. PICK d \in Entries : InRow(d) /\ hash' = [hash EXCEPT ![e0] = hash[d]]
  BY Zenon DEF Requeue
<1>2. Upsert(e0) /\ tx' = tx
  BY DEF Requeue
<1>3. RecTypeOK'
  BY <1>1 DEF RecIInv, RecTypeOK, Requeue, Upsert
<1>4. hash'[e0] = hash[d] /\ (\A e \in Entries : e # e0 => hash'[e] = hash[e])
  BY <1>1 DEF RecIInv, RecTypeOK
<1>5. status[hash[d]] # "absent"
  BY <1>1, Zenon DEF RecIInv, RecRowInv, InRow
<1> QED
  BY <1>2, <1>3, <1>4, <1>5, RecUpsertInv, Zenon

\* The store, the chain and what was unwound: what most steps leave alone.
RecHeld == <<hash, tx, status, raced, old, attempts>>

\* What is known of an entry outlasts a step that only moves the worker.
LEMMA RecHeldKept ==
  ASSUME RecIInv, UNCHANGED RecHeld
  PROVE  /\ RecRowInv' /\ VerdictMatchesChain' /\ UnwoundOnceAfterRevert'
         /\ \A e \in Entries : RecListed(e) => RecListed(e)'
         /\ \A e \in Entries : \A st : Given(e, st) => Given(e, st)'
<1>1. RecRowInv'
  BY Zenon DEF RecIInv, RecRowInv, InRow, RecHeld
<1>2. \A e \in Entries : \A st : Given(e, st)' <=> Given(e, st)
  BY Zenon DEF Given, RecHeld
<1>3. VerdictMatchesChain'
  BY <1>2, Zenon DEF RecIInv, VerdictMatchesChain, RecHeld
<1>4. UnwoundOnceAfterRevert'
  BY Zenon DEF RecIInv, UnwoundOnceAfterRevert, RecHeld
<1>5. \A e \in Entries : RecListed(e) => RecListed(e)'
  BY Zenon DEF RecListed, InRow, RecHeld
<1> QED
  BY <1>1, <1>2, <1>3, <1>4, <1>5, Zenon

\* A tick that goes on, or ends, with fewer entries to inspect.
LEMMA RecTickKept ==
  ASSUME RecIInv,
         \A e \in Entries : RecListed(e) => RecListed(e)',
         \A e \in Entries : \A st : Given(e, st) => Given(e, st)',
         todo' \subseteq todo, phase' \in {"sleep", "handle"} => todo' = {},
         phase' = "mark" => phase = "mark" /\ current' = current
  PROVE  RecTickInv'
<1>1. todo \subseteq Entries /\ (phase = "mark" => current.entry \in Entries)
  BY DEF RecIInv, RecTypeOK
<1>2. \A e \in todo' : RecListed(e)'
  BY <1>1, Zenon DEF RecIInv, RecTickInv
<1>3. phase' = "mark" =>
        /\ RecListed(current.entry)' /\ Given(current.entry, MarkedAs[current.outcome])'
        /\ \A e \in todo' : e.signal # current'.entry.signal
  BY <1>1, Zenon DEF RecIInv, RecTickInv
<1> QED
  BY <1>2, <1>3, Zenon DEF RecIInv, RecTickInv

\* A batch of fewer outcomes, none of them unwound meanwhile.
LEMMA RecBatchKept ==
  ASSUME RecIInv, UNCHANGED status, todo' \subseteq todo, out' \subseteq out,
         \A e \in Entries : \A st : Given(e, st) => Given(e, st)',
         \A o \in out' : attempts'[o.entry] = attempts[o.entry],
         phase' = "mark" => \A o \in out' : current'.entry.signal # o.entry.signal
  PROVE  RecBatchInv'
<1>1. \A o \in out : o.entry \in Entries
  BY DEF RecIInv, RecTypeOK
<1>2. \A o \in out' : Given(o.entry, MarkedAs[o.outcome])'
  BY <1>1, Zenon DEF RecIInv, RecBatchInv
<1> QED
  BY <1>2, Zenon DEF RecIInv, RecBatchInv

\* The types of a step that only moves the worker.
LEMMA RecTypeKept ==
  ASSUME RecTypeOK, UNCHANGED RecHeld, todo' \subseteq Entries, out' \subseteq out,
         phase' \in {"sleep", "tick", "mark", "handle"},
         IF phase' = "mark" THEN current' \in [entry : Entries, outcome : Outcomes] ELSE current' = Idle
  PROVE  RecTypeOK'
<1>1. /\ hash' = hash /\ tx' = tx /\ status' = status /\ raced' = raced /\ old' = old
      /\ attempts' = attempts
  BY Zenon DEF RecHeld
<1> QED
  BY <1>1, Zenon DEF RecTypeOK

\* A receipt that appears settles no verdict already given.
LEMMA RecTxLandsInv ==
  ASSUME RecIInv, NEW e0 \in Entries, TxLands(e0) PROVE RecIInv'
<1>1. /\ UNCHANGED <<hash, status, raced, old, phase, todo, current, out, attempts>>
      /\ tx' \in [Entries -> TxStates \cup {"none"}]
      /\ \A e \in Entries : tx[e] \in {"mined", "reverted"} => tx'[e] = tx[e]
  BY DEF RecIInv, RecTypeOK, TxLands, TxStates, rowvars
<1>2. RecTypeOK'
  BY <1>1, Zenon DEF RecIInv, RecTypeOK
<1>3. \A e \in Entries : \A st : Given(e, st) => Given(e, st)'
  <2>1. \A e \in Entries : hash[e] \in Entries
    BY DEF RecIInv, RecTypeOK
  <2> QED
    BY <1>1, <2>1 DEF Given
<1>4. RecRowInv'
  BY <1>1, Zenon DEF RecIInv, RecRowInv, InRow
<1>5. RecTickInv'
  <2>1. \A e \in Entries : RecListed(e) => RecListed(e)'
    BY <1>1, Zenon DEF RecListed, InRow
  <2> QED
    BY <1>1, <1>3, <2>1, RecTickKept, Zenon DEF RecIInv, RecTickInv
<1>6. RecBatchInv'
  BY <1>1, <1>3, RecBatchKept, Zenon DEF RecIInv, RecBatchInv
<1>7. VerdictMatchesChain'
  BY <1>1, <1>3, Zenon DEF RecIInv, VerdictMatchesChain
<1>8. UnwoundOnceAfterRevert'
  <2>1. \A e \in Entries : hash[e] \in Entries
    BY DEF RecIInv, RecTypeOK
  <2> QED
    BY <1>1, <2>1 DEF RecIInv, UnwoundOnceAfterRevert
<1> QED
  BY <1>2, <1>4, <1>5, <1>6, <1>7, <1>8 DEF RecIInv

\* An entry grows old.
LEMMA RecAgesInv ==
  ASSUME RecIInv, NEW e0 \in Entries, Ages(e0) PROVE RecIInv'
<1>1. UNCHANGED <<hash, tx, status, raced, phase, todo, current, out, attempts>> /\ old' = old \cup {e0}
  BY DEF Ages, rowvars
<1>2. RecTypeOK'
  <2>1. old' \subseteq Entries
    BY <1>1 DEF RecIInv, RecTypeOK
  <2> QED
    BY <1>1, <2>1, Zenon DEF RecIInv, RecTypeOK
<1>3. \A e \in Entries : \A st : Given(e, st) => Given(e, st)'
  BY <1>1, Zenon DEF Given
<1>4. RecRowInv'
  BY <1>1, Zenon DEF RecIInv, RecRowInv, InRow
<1>5. RecTickInv'
  <2>1. \A e \in Entries : RecListed(e) => RecListed(e)'
    BY <1>1, Zenon DEF RecListed, InRow
  <2> QED
    BY <1>1, <1>3, <2>1, RecTickKept, Zenon DEF RecIInv, RecTickInv
<1>6. RecBatchInv'
  BY <1>1, <1>3, RecBatchKept, Zenon DEF RecIInv, RecBatchInv
<1>7. VerdictMatchesChain'
  BY <1>1, <1>3, Zenon DEF RecIInv, VerdictMatchesChain
<1>8. UnwoundOnceAfterRevert'
  BY <1>1, Zenon DEF RecIInv, UnwoundOnceAfterRevert
<1> QED
  BY <1>2, <1>4, <1>5, <1>6, <1>7, <1>8 DEF RecIInv

\* The tick starts from the pending entries.
LEMMA RecListPendingInv ==
  ASSUME RecIInv, ListPending PROVE RecIInv'
<1>1. /\ UNCHANGED RecHeld /\ UNCHANGED current /\ phase = "sleep" /\ phase' = "tick" /\ out' = {}
      /\ todo' = {e \in Entries : status[e] = "pending"}
  BY DEF ListPending, rowvars, RecHeld
<1>2. RecTypeOK'
  <2>1. current' = Idle /\ out' \subseteq out /\ todo' \subseteq Entries
    BY <1>1 DEF RecIInv, RecTypeOK
  <2> QED
    BY <1>1, <2>1, RecTypeKept, Zenon DEF RecIInv
<1>3. RecTickInv'
  <2>1. todo' \subseteq Entries /\ (\A e \in todo' : status[e] = "pending" /\ attempts[e] = 0)
    BY <1>1 DEF RecIInv, RecTypeOK, UnwoundOnceAfterRevert
  <2>2. \A e \in todo', d \in Entries : d.signal = e.signal /\ InRow(d) => d = e
    BY <2>1, Zenon DEF RecIInv, RecRowInv, InRow
  <2>3. \A e \in todo' : RecListed(e)
    BY <2>1, <2>2, Zenon DEF RecListed, InRow
  <2>4. \A d, e \in todo' : d.signal = e.signal => d = e
    BY <2>1, <2>2, Zenon DEF InRow
  <2> QED
    BY <1>1, <2>1, <2>3, <2>4, RecHeldKept, Zenon DEF RecTickInv
<1>4. RecBatchInv'
  BY <1>1, Zenon DEF RecBatchInv
<1> QED
  BY <1>1, <1>2, <1>3, <1>4, RecHeldKept, Zenon DEF RecIInv

\* What inspect answers is what the chain or the age says.
LEMMA RecInspectGiven ==
  ASSUME NEW e \in Entries, Inspect(e) \in Outcomes PROVE Given(e, MarkedAs[Inspect(e)])
BY DEF Inspect, Outcomes, MarkedAs, Given

\* The verdict on one entry, or none yet.
LEMMA RecInspectNextInv ==
  ASSUME RecIInv, NEW e0 \in Entries, InspectNext(e0) PROVE RecIInv'
<1>1. /\ UNCHANGED RecHeld /\ UNCHANGED out /\ phase = "tick" /\ e0 \in todo /\ todo' = todo \ {e0}
      /\ \/ /\ Inspect(e0) \in Outcomes /\ phase' = "mark"
            /\ current' = [entry |-> e0, outcome |-> Inspect(e0)]
         \/ UNCHANGED <<phase, current>>
  BY DEF InspectNext, rowvars, RecHeld
<1>2. todo \subseteq Entries /\ todo' \subseteq todo /\ current = Idle /\ e0 \notin todo'
  BY <1>1 DEF RecIInv, RecTypeOK
<1>3. CASE phase' = "tick" /\ current' = current
  <2>1. RecTypeOK'
    BY <1>1, <1>2, <1>3, RecTypeKept, Zenon DEF RecIInv
  <2>2. RecTickInv'
    BY <1>1, <1>2, <1>3, RecHeldKept, RecTickKept, Zenon
  <2>3. RecBatchInv'
    BY <1>1, <1>2, <1>3, RecHeldKept, RecBatchKept, Zenon DEF RecHeld
  <2> QED
    BY <1>1, <2>1, <2>2, <2>3, RecHeldKept, Zenon DEF RecIInv
<1>4. CASE phase' = "mark" /\ Inspect(e0) \in Outcomes /\ current' = [entry |-> e0, outcome |-> Inspect(e0)]
  <2>1. current'.entry = e0 /\ current'.outcome = Inspect(e0)
        /\ current' \in [entry : Entries, outcome : Outcomes]
    BY <1>4
  <2>2. RecTypeOK'
    BY <1>1, <1>2, <1>4, <2>1, RecTypeKept, Zenon DEF RecIInv
  <2>3. RecListed(e0)' /\ Given(e0, MarkedAs[Inspect(e0)])
    BY <1>1, <1>4, RecHeldKept, RecInspectGiven, Zenon DEF RecIInv, RecTickInv
  <2>4. RecListed(current.entry)' /\ Given(current.entry, MarkedAs[current.outcome])'
    BY <1>1, <2>1, <2>3, Zenon DEF RecListed, InRow, Given, RecHeld
  <2>5. (\A e \in todo' : e.signal # e0.signal) /\ (\A o \in out : e0.signal # o.entry.signal)
    BY <1>1, <1>2, Zenon DEF RecIInv, RecTickInv, RecBatchInv
  <2>6. RecTickInv'
    BY <1>1, <1>2, <1>4, <2>1, <2>4, <2>5, RecHeldKept, Zenon DEF RecIInv, RecTickInv
  <2>7. RecBatchInv'
    BY <1>1, <1>2, <2>1, <2>5, RecHeldKept, RecBatchKept, Zenon DEF RecHeld
  <2> QED
    BY <1>1, <2>2, <2>6, <2>7, RecHeldKept, Zenon DEF RecIInv
<1> QED
  BY <1>1, <1>3, <1>4

\* A failed query leaves the entry as it is.
LEMMA RecInspectErrorInv ==
  ASSUME RecIInv, NEW e0 \in Entries, InspectError(e0) PROVE RecIInv'
<1>1. /\ UNCHANGED RecHeld /\ UNCHANGED <<phase, current, out>> /\ phase = "tick" /\ todo' \subseteq todo
  BY DEF InspectError, rowvars, RecHeld
<1>2. todo \subseteq Entries /\ todo' \subseteq Entries /\ current = Idle
  BY <1>1 DEF RecIInv, RecTypeOK
<1>3. RecTypeOK'
  BY <1>1, <1>2, RecTypeKept, Zenon DEF RecIInv
<1>4. RecTickInv'
  BY <1>1, RecHeldKept, RecTickKept, Zenon
<1>5. RecBatchInv'
  BY <1>1, RecHeldKept, RecBatchKept, Zenon DEF RecHeld
<1> QED
  BY <1>1, <1>3, <1>4, <1>5, RecHeldKept, Zenon DEF RecIInv

\* The verdict reaches the row before its outcome the batch.
LEMMA RecMarkInv ==
  ASSUME RecIInv, Mark PROVE RecIInv'
<1>0. PICK c, m : c = current.entry /\ m = MarkedAs[current.outcome]
  OBVIOUS
<1>1. /\ UNCHANGED <<hash, tx, raced, old, todo, attempts>>
      /\ phase = "mark" /\ phase' = "tick" /\ out' = out \cup {current} /\ current' = Idle
      /\ status' = [d \in Entries |-> IF d.signal = c.signal /\ InRow(d) THEN m ELSE status[d]]
  BY <1>0, Zenon DEF Mark
<1>2. current \in [entry : Entries, outcome : Outcomes]
  BY <1>1, Zenon DEF RecIInv, RecTypeOK
<1>3. c \in Entries /\ m \in {"resolved", "reverted", "expired"}
  BY <1>0, <1>2 DEF Outcomes, MarkedAs
<1>4. /\ RecListed(c) /\ Given(c, m) /\ \A e \in todo : e.signal # c.signal
      /\ \A o \in out : c.signal # o.entry.signal
  BY <1>0, <1>1, Zenon DEF RecIInv, RecTickInv, RecBatchInv
<1>5. todo \subseteq Entries /\ \A o \in out : o.entry \in Entries
  BY DEF RecIInv, RecTypeOK
<1>6. \A d \in Entries : status'[d] = IF d.signal = c.signal /\ InRow(d) THEN m ELSE status[d]
  BY <1>1, Zenon
<1>7. \A d \in Entries : (InRow(d)' <=> InRow(d)) /\ (status'[d] = "absent" <=> status[d] = "absent")
  BY <1>3, <1>6 DEF InRow
<1>8. \A e \in Entries : \A st : Given(e, st)' <=> Given(e, st)
  BY <1>1, Zenon DEF Given
<1>9. RecTypeOK'
  <2>1. status' \in [Entries -> {"absent", "superseded", "pending", "resolved", "reverted", "expired"}]
    BY <1>1, <1>3 DEF RecIInv, RecTypeOK
  <2>2. out' \subseteq [entry : Entries, outcome : Outcomes] /\ phase' # "mark"
    BY <1>1, <1>2 DEF RecIInv, RecTypeOK
  <2> QED
    BY <1>1, <2>1, <2>2, Zenon DEF RecIInv, RecTypeOK
<1>10. RecRowInv'
  <2>1. \A d, e \in Entries : InRow(d)' /\ InRow(e)' /\ d.signal = e.signal => d = e
    BY <1>7, Zenon DEF RecIInv, RecRowInv
  <2>2. \A e \in Entries : hash[e] \in Entries
    BY DEF RecIInv, RecTypeOK
  <2>3. \A e \in Entries : IF status'[e] = "absent" THEN hash'[e] = e ELSE status'[hash'[e]] # "absent"
    BY <1>1, <1>7, <2>2, Zenon DEF RecIInv, RecRowInv
  <2> QED
    BY <2>1, <2>3, Zenon DEF RecRowInv
<1>11. RecTickInv'
  <2>1. ASSUME NEW e \in todo PROVE RecListed(e)'
    <3>1. e \in Entries /\ RecListed(e) /\ e.signal # c.signal
      BY <1>4, <1>5, Zenon DEF RecIInv, RecTickInv
    <3>2. \A d \in Entries : d.signal = e.signal => status'[d] = status[d]
      BY <1>6, <3>1, Zenon
    <3> QED
      BY <1>1, <1>7, <3>1, <3>2, Zenon DEF RecListed
  <2>2. phase' \notin {"sleep", "mark", "handle"}
    BY <1>1
  <2> QED
    BY <1>1, <2>1, <2>2, Zenon DEF RecIInv, RecTickInv
<1>12. status'[c] \in {m, "superseded"} /\ attempts'[c] = 0
  BY <1>1, <1>3, <1>4, <1>6 DEF RecListed, InRow
<1>13. RecBatchInv'
  <2>1. \A o \in out : status'[o.entry] = status[o.entry] /\ o.entry.signal # c.signal
    BY <1>4, <1>5, <1>6, Zenon
  <2>2. \A o \in out : Given(o.entry, MarkedAs[o.outcome])'
    BY <1>5, <1>8, Zenon DEF RecIInv, RecBatchInv
  <2>3. ASSUME NEW o \in out'
        PROVE  /\ Given(o.entry, MarkedAs[o.outcome])'
               /\ status'[o.entry] \in {MarkedAs[o.outcome], "superseded"}
               /\ o.outcome = "ReceiptReverted" => attempts'[o.entry] = 0
               /\ \A e \in todo' : e.signal # o.entry.signal
    <3>1. CASE o \in out
      BY <1>1, <2>1, <2>2, <3>1, Zenon DEF RecIInv, RecBatchInv
    <3>2. CASE o = current
      BY <1>0, <1>1, <1>3, <1>4, <1>8, <1>12, <3>2, Zenon
    <3> QED
      BY <1>1, <3>1, <3>2
  <2>4. \A o, p \in out' : o.entry.signal = p.entry.signal => o = p
    BY <1>0, <1>1, <1>4, Zenon DEF RecIInv, RecBatchInv
  <2>5. phase' # "mark"
    BY <1>1
  <2> QED
    BY <2>3, <2>4, <2>5, Zenon DEF RecBatchInv
<1>14. VerdictMatchesChain'
  <2> SUFFICES ASSUME NEW e \in Entries, status'[e] \in {"resolved", "reverted", "expired"}
               PROVE  \/ Given(e, status[e])'
                      \/ /\ e \in raced'
                         /\ \E d \in Entries : /\ d.signal = e.signal /\ status'[d] = "superseded"
                                               /\ Given(d, status[e])'
    BY Zenon DEF VerdictMatchesChain
  <2>1. CASE e.signal = c.signal /\ InRow(e)
    <3>1. status'[e] = m /\ (e = c \/ e \in raced)
      BY <1>4, <1>6, <2>1, Zenon DEF RecListed
    <3>2. Given(c, m)'
      BY <1>3, <1>4, <1>8, Zenon
    <3>3. CASE e = c
      BY <3>1, <3>2, <3>3, Zenon DEF Given
    <3>4. CASE e # c
      <4>1. ~InRow(c)
        BY <1>3, <2>1, <3>4, Zenon DEF RecIInv, RecRowInv
      <4>2. status[c] = "superseded"
        BY <1>4, <4>1 DEF RecListed, InRow
      <4>3. status'[c] = "superseded"
        BY <1>3, <1>6, <4>1, <4>2, Zenon
      <4>4. Given(c, status[e])'
        BY <3>1, <3>2, Zenon DEF Given
      <4> QED
        BY <1>1, <1>3, <2>1, <3>1, <3>4, <4>3, <4>4, Zenon
    <3> QED
      BY <3>3, <3>4
  <2>2. CASE ~(e.signal = c.signal /\ InRow(e))
    <3>1. status'[e] = status[e]
      BY <1>6, <2>2, Zenon
    <3>2. \A d \in Entries : status[d] = "superseded" => status'[d] = "superseded"
      BY <1>6, Zenon DEF InRow
    <3>3. \A d \in Entries : Given(d, status[e])' <=> Given(d, status[e])
      BY <1>1, <3>1, Zenon DEF Given
    <3> QED
      BY <1>1, <3>1, <3>2, <3>3, Zenon DEF RecIInv, VerdictMatchesChain
  <2> QED
    BY <2>1, <2>2
<1>15. UnwoundOnceAfterRevert'
  <2> SUFFICES ASSUME NEW e \in Entries
               PROVE  /\ attempts'[e] <= 1
                      /\ attempts'[e] = 1 => tx'[hash'[e]] = "reverted" /\ status'[e] \in {"reverted", "superseded"}
    BY Zenon DEF UnwoundOnceAfterRevert
  <2>1. CASE e.signal = c.signal /\ InRow(e)
    <3>1. attempts[e] = 0
      BY <1>4, <2>1, Zenon DEF RecListed
    <3> QED
      BY <1>1, <3>1
  <2>2. CASE ~(e.signal = c.signal /\ InRow(e))
    <3>1. status'[e] = status[e]
      BY <1>6, <2>2, Zenon
    <3> QED
      BY <1>1, <3>1, Zenon DEF RecIInv, UnwoundOnceAfterRevert
  <2> QED
    BY <2>1, <2>2
<1> QED
  BY <1>9, <1>10, <1>11, <1>13, <1>14, <1>15 DEF RecIInv

\* A failed write or a crash drops the batch and keeps the store, and so does the
\* end of a batch.
LEMMA RecDroppedInv ==
  ASSUME RecIInv, UNCHANGED RecHeld, phase' \in {"sleep", "handle"}, todo' = {}, out' \subseteq out,
         current' = Idle
  PROVE  RecIInv'
<1>1. phase' # "mark" /\ todo' \subseteq todo /\ todo' \subseteq Entries
      /\ phase' \in {"sleep", "tick", "mark", "handle"}
  OBVIOUS
<1>2. RecTypeOK'
  BY <1>1, RecTypeKept, Zenon DEF RecIInv
<1>3. RecTickInv'
  BY <1>1, RecHeldKept, RecTickKept, Zenon
<1>4. RecBatchInv'
  BY <1>1, RecHeldKept, RecBatchKept, Zenon DEF RecHeld
<1> QED
  BY <1>2, <1>3, <1>4, RecHeldKept, Zenon DEF RecIInv

\* A failed write, a crash, the end of a tick and the end of its batch.
LEMMA RecTickEndsInv ==
  ASSUME RecIInv, MarkError \/ Crash \/ TickDone \/ HandleDone PROVE RecIInv'
<1>1. CASE MarkError \/ Crash
  <2>1. UNCHANGED RecHeld /\ phase' = "sleep" /\ todo' = {} /\ out' \subseteq out /\ current' = Idle
    BY <1>1 DEF MarkError, Crash, rowvars, RecHeld
  <2> QED
    BY <2>1, RecDroppedInv
<1>2. CASE TickDone \/ HandleDone
  <2>1. /\ UNCHANGED RecHeld /\ UNCHANGED <<todo, out, current>> /\ phase \in {"tick", "handle"}
        /\ phase' \in {"sleep", "handle"} /\ (todo = {} \/ phase = "handle")
    BY <1>2 DEF TickDone, HandleDone, rowvars, RecHeld
  <2>2. todo = {} /\ current = Idle
    BY <2>1 DEF RecIInv, RecTypeOK, RecTickInv
  <2> QED
    BY <2>1, <2>2, RecDroppedInv
<1> QED
  BY <1>1, <1>2

\* A revert is unwound when its outcome leaves the batch.
LEMMA RecHandleOutcomeInv ==
  ASSUME RecIInv, HandleOutcome PROVE RecIInv'
<1>1. PICK o \in out :
        /\ out' = out \ {o}
        /\ \/ /\ o.outcome = "ReceiptReverted"
              /\ attempts' = [attempts EXCEPT ![o.entry] = @ + 1]
           \/ UNCHANGED attempts
  BY Zenon DEF HandleOutcome
<1>2. /\ UNCHANGED <<hash, tx, status, raced, old, phase, todo, current>> /\ phase = "handle"
  BY Zenon DEF HandleOutcome, rowvars
<1>3. o.entry \in Entries /\ out' \subseteq out /\ todo = {} /\ phase' # "mark"
  BY <1>1, <1>2 DEF RecIInv, RecTypeOK, RecTickInv
<1>4. attempts \in [Entries -> Nat] /\ attempts' \in [Entries -> Nat]
  BY <1>1, <1>3 DEF RecIInv, RecTypeOK
<1>5. \A e \in Entries : e # o.entry => attempts'[e] = attempts[e]
  BY <1>1, <1>4
<1>6. RecTypeOK'
  <2>1. out' \subseteq [entry : Entries, outcome : Outcomes]
    BY <1>3, Zenon DEF RecIInv, RecTypeOK
  <2> QED
    BY <1>2, <1>4, <2>1, Zenon DEF RecIInv, RecTypeOK
<1>7. \A e \in Entries : \A st : Given(e, st)' <=> Given(e, st)
  BY <1>2, Zenon DEF Given
<1>8. RecRowInv'
  BY <1>2, Zenon DEF RecIInv, RecRowInv, InRow
<1>9. RecTickInv'
  BY <1>2, <1>3, Zenon DEF RecTickInv
<1>10. RecBatchInv'
  <2>1. \A p \in out' : p.entry # o.entry /\ p.entry \in Entries
    <3>1. \A p \in out' : p \in out /\ p # o
      BY <1>1
    <3>2. \A p \in out : p.entry \in Entries
      BY DEF RecIInv, RecTypeOK
    <3> QED
      BY <3>1, <3>2, Zenon DEF RecIInv, RecBatchInv
  <2>2. \A p \in out' : attempts'[p.entry] = attempts[p.entry]
    BY <1>5, <2>1, Zenon
  <2> QED
    BY <1>2, <1>3, <1>7, <2>2, RecBatchKept, Zenon
<1>11. VerdictMatchesChain'
  BY <1>2, <1>7, Zenon DEF RecIInv, VerdictMatchesChain
<1>12. UnwoundOnceAfterRevert'
  <2>1. CASE UNCHANGED attempts
    BY <1>2, <2>1, Zenon DEF RecIInv, UnwoundOnceAfterRevert
  <2>2. CASE o.outcome = "ReceiptReverted" /\ attempts' = [attempts EXCEPT ![o.entry] = @ + 1]
    <3>1. MarkedAs[o.outcome] = "reverted"
      BY <2>2 DEF MarkedAs
    <3>2. /\ attempts[o.entry] = 0 /\ Given(o.entry, "reverted")
          /\ status[o.entry] \in {"reverted", "superseded"}
      BY <2>2, <3>1, Zenon DEF RecIInv, RecBatchInv
    <3>3. attempts'[o.entry] = 1
      BY <1>3, <1>4, <2>2, <3>2
    <3>4. tx[hash[o.entry]] = "reverted"
      BY <3>2, Zenon DEF Given
    <3>5. ASSUME NEW e \in Entries
          PROVE  /\ attempts'[e] <= 1
                 /\ attempts'[e] = 1 => tx'[hash'[e]] = "reverted" /\ status'[e] \in {"reverted", "superseded"}
      <4>1. CASE e = o.entry
        BY <1>2, <3>2, <3>3, <3>4, <4>1
      <4>2. CASE e # o.entry
        BY <1>2, <1>5, <4>2, Zenon DEF RecIInv, UnwoundOnceAfterRevert
      <4> QED
        BY <4>1, <4>2
    <3> QED
      BY <3>5, Zenon DEF UnwoundOnceAfterRevert
  <2> QED
    BY <1>1, <2>1, <2>2
<1> QED
  BY <1>6, <1>8, <1>9, <1>10, <1>11, <1>12 DEF RecIInv

\* A step that changes nothing keeps the invariant.
LEMMA RecStutterInv == RecIInv /\ UNCHANGED recvars => RecIInv'
<1> SUFFICES ASSUME RecIInv, UNCHANGED recvars PROVE RecIInv'
  OBVIOUS
<1>1. UNCHANGED RecHeld /\ UNCHANGED <<phase, todo, current, out>>
  BY Zenon DEF recvars, RecHeld
<1>2. RecTypeOK'
  BY <1>1, Zenon DEF RecIInv, RecTypeOK, RecHeld
<1>3. RecTickInv'
  BY <1>1, RecHeldKept, RecTickKept, Zenon DEF RecIInv, RecTickInv
<1>4. RecBatchInv'
  BY <1>1, RecHeldKept, RecBatchKept, Zenon DEF RecIInv, RecBatchInv, RecHeld
<1> QED
  BY <1>1, <1>2, <1>3, <1>4, RecHeldKept, Zenon DEF RecIInv

\* RecIInv is inductive.
LEMMA RecNextInv == RecIInv /\ [RecNext]_recvars => RecIInv'
BY RecAddInv, RecRequeueInv, RecTxLandsInv, RecAgesInv, RecListPendingInv, RecInspectNextInv,
   RecInspectErrorInv, RecMarkInv, RecTickEndsInv, RecHandleOutcomeInv, RecStutterInv
DEF RecNext, WorkerStep, Answered, Failures, Environment

\* The invariant holds in every reachable state.
LEMMA RecInvariance == RecSpec => []RecIInv
BY RecInitInv, RecNextInv, PTL DEF RecSpec

-----------------------------------------------------------------------------
\* The store only ever holds the statuses tick_once writes (never Errored), and
\* the worker's batch only verdicts.
THEOREM ReconcileTypeCorrect == RecSpec => []RecTypeOK
<1>1. RecIInv => RecTypeOK
  BY DEF RecIInv
<1> QED
  BY <1>1, RecInvariance, PTL

\* A verdict in the store is the chain's, though tick_once writes it after the
\* receipt query and by signal id: it is the verdict on another swap than the
\* row names only where `add` replaced the entry in the middle of its tick.
THEOREM VerdictMatches == RecSpec => []VerdictMatchesChain
<1>1. RecIInv => VerdictMatchesChain
  BY DEF RecIInv
<1> QED
  BY <1>1, RecInvariance, PTL

\* handle_reconcile_outcomes unwinds a leg 1 only behind a reverted swap and at
\* most once for each `add` of its signal, whatever fails, crashes or is queued
\* again between receipt, store and unwind.
THEOREM UnwoundOnce == RecSpec => []UnwoundOnceAfterRevert
<1>1. RecIInv => UnwoundOnceAfterRevert
  BY DEF RecIInv
<1> QED
  BY <1>1, RecInvariance, PTL

=============================================================================
