-------------------------------- MODULE Amm --------------------------------
(* The constant-product pool of pricing/amm.rs: exact integer swap math, the *)
(* price-impact search and the gas-adjusted cost of a trade.  A token is     *)
(* [id, dec]; a pair [id, kind, token0, token1, reserve0, reserve1, fee].    *)
(* Amounts are u128, their products U256; a product that does not fit is the *)
(* ArithmeticOverflow error, a conversion or an addition that does not fit   *)
(* is a panic, an error here that nothing recovers from.                     *)
EXTENDS Results

CONSTANTS U96, U128, U256,   \* the first numbers these widths do not hold
          DecimalUnit        \* 10^28: the last digit of a Decimal below 1

ASSUME WidthAssumption == /\ U96 \in Nat \ {0} /\ U128 \in Nat /\ U96 <= U128
                          /\ U256 = U128 * U128 /\ DecimalUnit \in Nat \ {0}

DEFAULT_FEE_BPS == 30
MAX_SWAP_RESERVE_DIVISOR == 2

NewPair(id, t0, t1, r0, r1, fee) ==
  IF fee >= BPS_SCALE THEN Err("InvalidFeeBps")
  ELSE Ok([id |-> id, kind |-> "V2", token0 |-> t0, token1 |-> t1,
           reserve0 |-> r0, reserve1 |-> r1, fee |-> fee])

Holds(p, t) == t \in {p.token0, p.token1}

ReserveIn(p, t) == IF t = p.token0 THEN p.reserve0 ELSE p.reserve1
ReserveOut(p, t) == IF t = p.token0 THEN p.reserve1 ELSE p.reserve0
TokenOutFor(p, t) == IF t = p.token0 THEN p.token1 ELSE p.token0

\* `u256_mul_checked` answers.
MulFits(a, b) == b = 0 \/ a <= (U256 - 1) \div b

\* Mutant: the output rounded up.
AmountOutRoundedUp(p, ain, t) ==
  IF ain = 0 \/ ~Holds(p, t) THEN Err("ZeroAmountIn")
  ELSE LET withFee == ain * (BPS_SCALE - p.fee)
       IN  IF ~MulFits(withFee, ReserveOut(p, t)) THEN Err("ArithmeticOverflow")
           ELSE Ok(CeilDiv(withFee * ReserveOut(p, t), ReserveIn(p, t) * BPS_SCALE + withFee))

\* A product or the sum of get_amount_out does not fit.
SwapOverflows(ain, gain, rin, rout) ==
  \/ ~MulFits(ain, gain) \/ ~MulFits(ain * gain, rout) \/ ~MulFits(rin, BPS_SCALE)
  \/ rin * BPS_SCALE + ain * gain >= U256

GetAmountOut(p, ain, t) ==
  IF ain = 0 THEN Err("ZeroAmountIn")
  ELSE IF ~Holds(p, t) THEN Err("UnknownToken")
  ELSE LET withFee == ain * (BPS_SCALE - p.fee)
       IN  IF SwapOverflows(ain, BPS_SCALE - p.fee, ReserveIn(p, t), ReserveOut(p, t))
           THEN Err("ArithmeticOverflow")
           ELSE Ok((withFee * ReserveOut(p, t)) \div (ReserveIn(p, t) * BPS_SCALE + withFee))

\* Mutant: get_amount_in without its final "+ 1".
AmountInRoundedDown(p, aout, tout) ==
  IF aout = 0 \/ ~Holds(p, tout) THEN Err("ZeroAmountOut")
  ELSE LET rin == ReserveOut(p, tout)
           rout == ReserveIn(p, tout)
       IN  IF aout >= rout \/ ~MulFits(rin * aout, BPS_SCALE) THEN Err("InsufficientLiquidity")
           ELSE Ok((rin * aout * BPS_SCALE) \div ((rout - aout) * (BPS_SCALE - p.fee)))

\* A product of get_amount_in does not fit.
CostOverflows(rin, aout, rest, gain) ==
  ~MulFits(rin, aout) \/ ~MulFits(rin * aout, BPS_SCALE) \/ ~MulFits(rest, gain)

\* as_u128 panics on a quotient above u128, and so does the "+ 1" on the largest.
GetAmountIn(p, aout, tout) ==
  IF aout = 0 THEN Err("ZeroAmountOut")
  ELSE IF ~Holds(p, tout) THEN Err("UnknownToken")
  ELSE LET rin == ReserveOut(p, tout)
           rout == ReserveIn(p, tout)
           quotient == (rin * aout * BPS_SCALE) \div ((rout - aout) * (BPS_SCALE - p.fee))
       IN  IF aout >= rout THEN Err("InsufficientLiquidity")
           ELSE IF CostOverflows(rin, aout, rout - aout, BPS_SCALE - p.fee) THEN Err("ArithmeticOverflow")
           ELSE IF quotient + 1 >= U128 THEN Panic
           ELSE Ok(quotient + 1)

\* The display prices are the exact fraction num / den: the decimals cancel out
\* of every comparison the properties make, and the 28 digits are not rounded.
GetSpotPrice(p, t) ==
  IF ~Holds(p, t) THEN Err("UnknownToken")
  ELSE IF p.reserve0 >= U96 \/ p.reserve1 >= U96 \/ ReserveIn(p, t) = 0 THEN Panic
  ELSE Ok([num |-> ReserveOut(p, t), den |-> ReserveIn(p, t)])

GetExecutionPrice(p, ain, t) ==
  LET out == GetAmountOut(p, ain, t)
  IN  IF ~out.ok THEN out
      ELSE IF ain >= U96 \/ out.val >= U96 THEN Panic
      ELSE Ok([num |-> out.val, den |-> ain])

AtMost(f, g) == f.num * g.den <= g.num * f.den

\* Decimal division: to the last digit, half to even.
RoundEven(a, b) ==
  LET q == a \div b
      r == a % b
  IN  IF 2 * r > b \/ (2 * r = b /\ q % 2 = 1) THEN q + 1 ELSE q

GetPriceImpact(p, ain, t) ==
  LET out == GetAmountOut(p, ain, t)
      expected == (ain * ReserveOut(p, t)) \div ReserveIn(p, t)
  IN  IF ~out.ok THEN out
      ELSE IF ReserveIn(p, t) = 0 THEN Panic
      ELSE IF expected = 0 \/ out.val >= expected THEN Ok([num |-> 0, den |-> 1])
      ELSE IF expected >= U96 THEN Panic
      ELSE Ok([num |-> RoundEven((expected - out.val) * DecimalUnit, expected), den |-> DecimalUnit])

\* Mutant: the input always added to the first reserve.
SimulateSwapOneSided(p, ain, t) ==
  LET out == GetAmountOut(p, ain, t)
  IN  IF ~out.ok THEN out
      ELSE Ok([p EXCEPT !.reserve0 = @ + ain, !.reserve1 = SatSub(@, out.val)])

\* The addition to a reserve is unchecked: it panics in a build with overflow
\* checks, as `cargo run` makes it.
SimulateSwap(p, ain, t) ==
  LET out == GetAmountOut(p, ain, t)
  IN  IF ~out.ok THEN out
      ELSE IF ReserveIn(p, t) + ain >= U128 THEN Panic
      ELSE IF t = p.token0
           THEN Ok([p EXCEPT !.reserve0 = @ + ain, !.reserve1 = SatSub(@, out.val)])
           ELSE Ok([p EXCEPT !.reserve0 = SatSub(@, out.val), !.reserve1 = @ + ain])

\* compare_simulation_vs_calculation of pricing/simulator.rs.
CompareSimulation(p, ain, t) ==
  LET out == GetAmountOut(p, ain, t)
      after == SimulateSwap(p, ain, t)
  IN  IF ~out.ok THEN out
      ELSE IF ~after.ok THEN after
      ELSE LET simulated == SatSub(ReserveOut(p, t), ReserveOut(after.val, t))
           IN  Ok([calculated |-> out.val, simulated |-> simulated,
                   isMatch |-> out.val = simulated])

ImpactRow(p, t, spot, ain) ==
  LET exec == GetExecutionPrice(p, ain, t)
      impact == GetPriceImpact(p, ain, t)
  IN  IF ~exec.ok THEN exec
      ELSE IF ~impact.ok THEN impact
      ELSE Ok([in |-> ain, out |-> exec.val.num, spot |-> spot, exec |-> exec.val, impact |-> impact.val])

GenerateImpactTable(p, t, sizes) ==
  LET spot == GetSpotPrice(p, t)
  IN  IF ~spot.ok THEN spot ELSE Collect([i \in DOMAIN sizes |-> ImpactRow(p, t, spot.val, sizes[i])])

\* A round of find_max_size_for_impact's loop on the window lo..hi: a size whose
\* impact has no answer ends the loop there.
Mid(s) == s.lo + (s.hi - s.lo) \div 2

Probe(p, t, limit, s) ==
  LET impact == GetPriceImpact(p, Mid(s), t)
  IN  IF s.lo > s.hi THEN s
      ELSE IF ~impact.ok THEN s
      ELSE IF AtMost(impact.val, limit)
           THEN [s EXCEPT !.lo = Mid(s) + 1, !.best = Mid(s)] ELSE [s EXCEPT !.hi = Mid(s) - 1]

\* The loop: the window shrinks in every round, so `top` rounds empty it; one
\* that is still open has met an error.
Search(p, t, limit, top) ==
  LET window[k \in 0..top] ==
        IF k = 0 THEN [lo |-> 1, hi |-> top, best |-> 1] ELSE Probe(p, t, limit, window[k - 1])
  IN  IF window[top].lo <= window[top].hi THEN GetPriceImpact(p, Mid(window[top]), t)
      ELSE Ok(window[top].best)

\* Mutant: the search with its upper bound taken as the answer when the loop ends.
FindMaxSizeUpper(p, t, limit) ==
  LET one == GetPriceImpact(p, 1, t)
  IN  IF ~one.ok THEN one
      ELSE IF ~AtMost(one.val, limit) THEN Err("NoFeasibleSize")
      ELSE MapOk(Search(p, t, limit, ReserveIn(p, t) \div MAX_SWAP_RESERVE_DIVISOR), LAMBDA n : n + 1)

FindMaxSizeForImpact(p, t, limit) ==
  LET one == GetPriceImpact(p, 1, t)
  IN  IF ~one.ok THEN one
      ELSE IF ~AtMost(one.val, limit) THEN Err("NoFeasibleSize")
      ELSE Search(p, t, limit, ReserveIn(p, t) \div MAX_SWAP_RESERVE_DIVISOR)

\* gas_units * gwei * 10^9 * 10^dec / 10^18: the code rescales the decimals of
\* a wei amount and applies no price, so one ETH counts as one output token.
GasInToken(units, gwei, dec) ==
  IF dec <= 9 THEN (units * gwei) \div 10^(9 - dec) ELSE units * gwei * 10^(dec - 9)

EstimateTrueCost(p, ain, t, gwei, units) ==
  LET gross == GetAmountOut(p, ain, t)
      gas == GasInToken(units, gwei, TokenOutFor(p, t).dec)
  IN  IF ~gross.ok THEN gross
      ELSE Ok([gross |-> gross.val, gas |-> gas, net |-> SatSub(gross.val, gas)])

\* What an eth_call answered: whether it succeeded, and the 32-byte words it
\* returned.  A word is a number; a u128 is its low half.
DecodeU128(word) == word % U128

FetchReserves(answer) ==
  IF ~answer.ok THEN Err("ChainCall")
  ELSE IF Len(answer.words) < 3 THEN Err("AbiDecode")
  ELSE Ok(<<DecodeU128(answer.words[1]), DecodeU128(answer.words[2])>>)

\* fetch_token_metadata: a token without readable decimals is an error, one
\* without a readable symbol gets the placeholder.
FetchTokenMetadata(chain, addr) ==
  IF ~chain[addr].decimalsOk THEN Err("AbiDecode")
  ELSE Ok([id |-> addr, dec |-> chain[addr].dec,
           symbol |-> IF chain[addr].symbolOk THEN "name" ELSE "???"])

FromChain(id, answer, t0, t1) ==
  LET r == FetchReserves(answer)
  IN  IF ~r.ok THEN r
      ELSE IF ~t0.ok THEN t0
      ELSE IF ~t1.ok THEN t1
      ELSE NewPair(id, t0.val, t1.val, r.val[1], r.val[2], DEFAULT_FEE_BPS)
=============================================================================
