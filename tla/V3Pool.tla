------------------------------- MODULE V3Pool -------------------------------
(* The concentrated-liquidity pool of pricing/v3: tick arithmetic, the swap  *)
(* step and the quote loop.  The fixed-point scales are parameters: the code *)
(* has Q = 2^96, a tick range of +-887272, twenty constants for the powers   *)
(* of the tick base and fees in parts per million; a model gives small ones. *)
EXTENDS Results

CONSTANTS
  MaxTick,        \* MAX_TICK; MIN_TICK is its negation
  Powers,         \* the constants of get_sqrt_ratio_at_tick, one per bit of |tick|
  One,            \* their scale (2^128 in the code)
  Q,              \* the price scale (2^96)
  MinSqrtRatio,   \* MIN_SQRT_RATIO
  MaxSqrtRatio,   \* MAX_SQRT_RATIO, which is well above the ratio of MAX_TICK
  FeeScale,       \* FEE_PPM
  MaxSwapSteps    \* MAX_SWAP_STEPS

MinTick == -MaxTick

Abs(n) == IF n < 0 THEN -n ELSE n

Bit(n, i) == (n \div 2^(i - 1)) % 2

\* Rust's % takes the sign of the dividend.
Rem(a, b) == IF a >= 0 THEN a % b ELSE -((-a) % b)

\* The product of the constants of the set bits of |tick|.
RECURSIVE RatioOfBits(_, _)
RatioOfBits(n, i) ==
  IF i = 0 THEN One
  ELSE IF Bit(n, i) = 1 THEN (RatioOfBits(n, i - 1) * Powers[i]) \div One
  ELSE RatioOfBits(n, i - 1)

\* The product scaled to a price and rounded to nearest, for every tick.
SqrtRatio ==
  [tick \in MinTick..MaxTick |->
     LET down == RatioOfBits(Abs(tick), Len(Powers))
         ratio == IF tick > 0 THEN (One * One - 1) \div down ELSE down
     IN  (ratio * Q) \div One + (((2 * ratio * Q) \div One) % 2)]

GetSqrtRatioAtTick(tick) ==
  IF Abs(tick) > MaxTick \/ SqrtRatio[tick] > MaxSqrtRatio THEN Err("AbiDecode")
  ELSE Ok(Larger(SqrtRatio[tick], MinSqrtRatio))

\* Mutant: the binary search compares strictly.
RECURSIVE SearchTickStrict(_, _, _)
SearchTickStrict(price, lo, hi) ==
  IF lo > hi THEN Ok(hi)
  ELSE LET mid == lo + (hi - lo) \div 2
           r == GetSqrtRatioAtTick(mid)
       IN  IF ~r.ok THEN r
           ELSE IF r.val < price THEN SearchTickStrict(price, mid + 1, hi)
           ELSE SearchTickStrict(price, lo, mid - 1)

RECURSIVE SearchTick(_, _, _)
SearchTick(price, lo, hi) ==
  IF lo > hi THEN Ok(hi)
  ELSE LET mid == lo + (hi - lo) \div 2
           r == GetSqrtRatioAtTick(mid)
       IN  IF ~r.ok THEN r
           ELSE IF r.val <= price THEN SearchTick(price, mid + 1, hi)
           ELSE SearchTick(price, lo, mid - 1)

GetTickAtSqrtRatio(price) ==
  IF price < MinSqrtRatio \/ price >= MaxSqrtRatio THEN Err("AbiDecode")
  ELSE SearchTick(price, MinTick, MaxTick)

----------------------------------------------------------------------------
(* v3/tick.rs *)

FeeTierToTickSpacing(fee) ==
  CASE fee = 100 -> 1 [] fee = 500 -> 10 [] fee = 3000 -> 60 [] fee = 10000 -> 200 [] OTHER -> 60

\* TLA+'s \div already floors towards minus infinity.
FloorDivTick(tick, spacing) == tick \div spacing

NearestUsableTick(tick, spacing) ==
  LET down == FloorDivTick(tick, spacing) * spacing
      up == down + spacing
      near == IF Abs(tick - down) <= Abs(tick - up) THEN down ELSE up
  IN  IF near < MinTick THEN MinTick + Abs(Rem(MinTick, spacing))
      ELSE IF near > MaxTick THEN MaxTick - Abs(Rem(MaxTick, spacing))
      ELSE near

\* Mutant: next_tick_boundary without its case for a tick already on a boundary.
NextBoundaryStuck(tick, spacing, zeroForOne) ==
  IF zeroForOne
  THEN LET b == FloorDivTick(tick, spacing) * spacing
       IN  IF b < MinTick THEN MinTick ELSE b
  ELSE LET b == (FloorDivTick(tick, spacing) + 1) * spacing
       IN  IF b > MaxTick THEN MaxTick ELSE b

NextTickBoundary(tick, spacing, zeroForOne) ==
  IF zeroForOne
  THEN LET c == FloorDivTick(tick, spacing)
           b == (IF Rem(tick, spacing) = 0 THEN c - 1 ELSE c) * spacing
       IN  IF b < MinTick THEN MinTick ELSE b
  ELSE LET b == (FloorDivTick(tick, spacing) + 1) * spacing
       IN  IF b > MaxTick THEN MaxTick ELSE b

----------------------------------------------------------------------------
(* v3/math.rs: the swap step *)

GetAmount0Delta(a, b, liq, up) ==
  LET lo == Smaller(a, b)
      hi == Larger(a, b)
      num == liq * Q * (hi - lo)
  IN  IF lo = 0 THEN 0
      ELSE IF up THEN CeilDiv(num, hi * lo) ELSE num \div (hi * lo)

GetAmount1Delta(a, b, liq, up) ==
  LET num == liq * (Larger(a, b) - Smaller(a, b))
  IN  IF up THEN CeilDiv(num, Q) ELSE num \div Q

NextSqrt0(cur, liq, amt) ==
  IF amt = 0 THEN cur ELSE (liq * Q * cur) \div (liq * Q + amt * cur)

NextSqrt1(cur, liq, amt) == cur + (amt * Q) \div liq

AfterFee(rem, fee) == (rem * (FeeScale - fee)) \div FeeScale

\* The fee compares with the whole remainder when the target is within reach:
\* a step that reaches its target consumes the curve amount and no fee.
SwapStepTo(next, ain, cur, zfo, liq, rem, fee) ==
  [next |-> next, in |-> ain,
   out |-> IF zfo THEN GetAmount1Delta(next, cur, liq, FALSE)
                  ELSE GetAmount0Delta(cur, next, liq, FALSE),
   fee |-> IF fee = 0 THEN 0
           ELSE IF ain < rem THEN rem - ain
           ELSE (ain * fee) \div (FeeScale - fee)]

ComputeSwapStep(cur, tgt, liq, rem, fee) ==
  LET zfo == cur >= tgt
      need == IF zfo THEN GetAmount0Delta(tgt, cur, liq, TRUE)
                     ELSE GetAmount1Delta(cur, tgt, liq, TRUE)
  IN  IF rem >= need THEN SwapStepTo(tgt, need, cur, zfo, liq, rem, fee)
      ELSE SwapStepTo(IF zfo THEN NextSqrt0(cur, liq, AfterFee(rem, fee))
                             ELSE NextSqrt1(cur, liq, AfterFee(rem, fee)),
                      rem, cur, zfo, liq, rem, fee)

----------------------------------------------------------------------------
(* v3/pool.rs: the quote loop.  A V3 pool is [id, kind, token0, token1, fee,  *)
(* spacing, sqrt, liq, tick].                                                *)

NewV3Pool(id, t0, t1, fee, sqrt, liq, tick) ==
  [id |-> id, kind |-> "V3", token0 |-> t0, token1 |-> t1, fee |-> fee,
   spacing |-> FeeTierToTickSpacing(fee), sqrt |-> sqrt, liq |-> liq, tick |-> tick]

\* The target of a step never lies behind the current price.
StepTarget(price, target, zfo) ==
  IF zfo THEN Smaller(target, price) ELSE Larger(target, price)

\* The accumulator of the loop is [sqrt, tick, rem, out, steps]; this is what
\* the step `s` towards the target makes of it, with the tick of its price.
ApplyStep(acc, boundary, target, s, tick) ==
  LET rem == SatSub(acc.rem, s.in)
  IN  [sqrt |-> s.next, rem |-> rem, out |-> acc.out + s.out, steps |-> acc.steps + 1,
       tick |-> IF s.next = target /\ rem > 0 THEN boundary
                ELSE IF tick.ok THEN tick.val ELSE acc.tick]

\* One iteration of the loop, towards the price `target` of the next boundary.
QuoteStep(p, acc, boundary, target) ==
  LET s == ComputeSwapStep(acc.sqrt, target, p.liq, acc.rem, p.fee)
  IN  ApplyStep(acc, boundary, target, s, GetTickAtSqrtRatio(s.next))

RECURSIVE QuoteLoop(_, _, _)
QuoteLoop(p, acc, zfo) ==
  LET boundary == NextTickBoundary(acc.tick, p.spacing, zfo)
  IN  IF \/ acc.rem = 0
         \/ p.liq = 0
         \/ acc.steps >= MaxSwapSteps
         \/ boundary = acc.tick
      THEN Ok(acc)
      ELSE AndThen(GetSqrtRatioAtTick(boundary),
                   LAMBDA price : QuoteLoop(p, QuoteStep(p, acc, boundary, StepTarget(acc.sqrt, price, zfo)), zfo))

QuoteFrom(p, ain, t) ==
  QuoteLoop(p, [sqrt |-> p.sqrt, tick |-> p.tick, rem |-> ain, out |-> 0, steps |-> 0], t = p.token0)

\* Mutant: the quote reported as filled whatever is left over.
QuoteSwapFilled(p, ain, t) ==
  IF ain = 0 THEN Err("ZeroAmountIn")
  ELSE IF t \notin {p.token0, p.token1} THEN Err("UnknownToken")
  ELSE MapOk(QuoteFrom(p, ain, t),
             LAMBDA q : [in |-> ain - q.rem, out |-> q.out, sqrt |-> q.sqrt,
                         tick |-> q.tick, steps |-> q.steps, partial |-> FALSE])

QuoteSwap(p, ain, t) ==
  IF ain = 0 THEN Err("ZeroAmountIn")
  ELSE IF t \notin {p.token0, p.token1} THEN Err("UnknownToken")
  ELSE MapOk(QuoteFrom(p, ain, t),
             LAMBDA q : [in |-> ain - q.rem, out |-> q.out, sqrt |-> q.sqrt,
                         tick |-> q.tick, steps |-> q.steps,
                         partial |-> q.rem > 0 /\ q.steps >= MaxSwapSteps])

\* V3_BASE_GAS and V3_GAS_PER_HOP.
V3_BASE_GAS == 80000
V3_GAS_PER_HOP == 60000
=============================================================================
