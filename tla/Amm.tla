--------------------------------- MODULE Amm ---------------------------------
(***************************************************************************)
(* The pools of pricing/src/amm.rs as operators over a copy of a pool:     *)
(*                                                                         *)
(*   [kind |-> "v2", token0, token1, reserve0, reserve1]                   *)
(*   [kind |-> "v3", token0, token1, liquidity, sqrtPrice]                 *)
(*                                                                         *)
(* Amounts are integers, as in the code.  The words have symbolic sizes:   *)
(* U128 stands for 2^128, U256 for 2^256, Q96 for 2^96, so that a small    *)
(* instance keeps their proportions.  No step of the V2 formulas leaves    *)
(* 256 bits for amounts below 2^108 and the pair's 112-bit reserves; the   *)
(* V3 formulas do leave them.  That a token is one of the pool's holds     *)
(* for every caller.                                                       *)
(***************************************************************************)
EXTENDS Integers

CONSTANTS
    FeeBps,             \* UniswapV2Pair.fee_bps, 30 for a pair read from the chain
    FeePips,            \* UniswapV3Pool.fee
    Q96, U128, U256,    \* word sizes
    MinSqrt, MaxSqrt    \* the square roots of the price at the extreme ticks

ASSUME AmmAssumption ==
    /\ FeeBps \in Nat /\ FeeBps < 10000
    /\ FeePips \in Nat /\ FeePips < 1000000
    /\ Q96 \in Nat \ {0} /\ U128 \in Nat /\ U256 \in Nat
    /\ MinSqrt \in Nat \ {0} /\ MaxSqrt \in Nat
    /\ MinSqrt < MaxSqrt /\ MaxSqrt < U128
    /\ MinSqrt * MaxSqrt <= Q96 * Q96   \* 2^32 and, saturated, below 2^128

OtherToken(p, t) == IF t = p.token0 THEN p.token1 ELSE p.token0

----------------------------------------------------------------------------
(* UniswapV2Pair.                                                          *)

ReserveIn(p, t)  == IF t = p.token0 THEN p.reserve0 ELSE p.reserve1
ReserveOut(p, t) == IF t = p.token0 THEN p.reserve1 ELSE p.reserve0

\* Slip: the fee is not taken.
V2OutFree(x, rin, rout) ==
    IF x = 0 \/ rin = 0 \/ rout = 0 THEN 0 ELSE (x * rout) \div (rin + x)

\* get_amount_out.
V2Out(x, rin, rout) ==
    IF x = 0 \/ rin = 0 \/ rout = 0 THEN 0
    ELSE (x * (10000 - FeeBps) * rout) \div (rin * 10000 + x * (10000 - FeeBps))

V2AmountOut(p, x, t) == V2Out(x, ReserveIn(p, t), ReserveOut(p, t))

SimulateSwap(p, x, t) ==
    IF t = p.token0
    THEN [p EXCEPT !.reserve0 = @ + x, !.reserve1 = @ - V2AmountOut(p, x, t)]
    ELSE [p EXCEPT !.reserve1 = @ + x, !.reserve0 = @ - V2AmountOut(p, x, t)]

----------------------------------------------------------------------------
(* UniswapV3Pool.  A pool read from the chain has an empty map of ticks,   *)
(* so the loop of get_amount_out steps towards the extreme tick with the   *)
(* liquidity of the current one.  A step that stops short of it uses the   *)
(* amount up, and the loop ends.  A step that reaches it leaves a price    *)
(* from which no further step moves: unless the amount is used up exactly, *)
(* the loop never ends.                                                    *)

LessFee(x) == (x * (1000000 - FeePips)) \div 1000000

\* checked_mul(..).unwrap_or(ZERO)
OrZero(n) == IF n < U256 THEN n ELSE 0

\* Slip: the product is not scaled by 2^96.
MostInUnscaled(p, t) ==
    IF t = p.token0
    THEN OrZero(p.liquidity * (p.sqrtPrice - MinSqrt)) \div (p.sqrtPrice * MinSqrt)
    ELSE (p.liquidity * (MaxSqrt - p.sqrtPrice)) \div Q96

\* amount_in_max and amount_out of the whole way to the extreme tick.
MostIn(p, t) ==
    IF t = p.token0
    THEN OrZero(p.liquidity * (p.sqrtPrice - MinSqrt) * Q96)
            \div (p.sqrtPrice * MinSqrt)
    ELSE (p.liquidity * (MaxSqrt - p.sqrtPrice)) \div Q96
MostOut(p, t) ==
    IF t = p.token0
    THEN (p.liquidity * (p.sqrtPrice - MinSqrt)) \div Q96
    ELSE OrZero(p.liquidity * (MaxSqrt - p.sqrtPrice) * Q96)
            \div (p.sqrtPrice * MaxSqrt)
MostFee(p, t) == (MostIn(p, t) * FeePips + 999999) \div 1000000

StopsShort(p, x, t) == LessFee(x) < MostIn(p, t)

\* sqrt_p_next of a step that stops short.
NextSqrt(p, x, t) ==
    IF t = p.token0
    THEN (p.liquidity * p.sqrtPrice * Q96)
            \div (p.liquidity * Q96 + LessFee(x) * p.sqrtPrice)
    ELSE p.sqrtPrice + (LessFee(x) * Q96) \div p.liquidity

\* No conversion and no unwrap() of the step panics.
StepFits(p, x, t) ==
    /\ 2 * x < U128
    /\ MostIn(p, t) < U128
    /\ StopsShort(p, x, t) =>
          IF t = p.token0
          THEN p.liquidity * p.sqrtPrice * Q96 < U256
          ELSE p.liquidity * (NextSqrt(p, x, t) - p.sqrtPrice) * Q96 < U256

V3AmountOut(p, x, t) ==
    IF x = 0 THEN 0
    ELSE IF ~StopsShort(p, x, t) THEN MostOut(p, t)
    ELSE LET next == NextSqrt(p, x, t) IN
         IF t = p.token0
         THEN (p.liquidity * (p.sqrtPrice - next)) \div Q96
         ELSE (p.liquidity * (next - p.sqrtPrice) * Q96) \div (p.sqrtPrice * next)

\* The amount is used up by one step, whose results are 128-bit words and are
\* kept as signed ones.  (The code multiplies the amount by a million less the
\* fee in 128 bits, which wraps from 2^108 on: LessFee is exact below that.)
V3Returns(p, x, t) ==
    \/ x = 0
    \/ /\ StepFits(p, x, t)
       /\ StopsShort(p, x, t) \/ x <= MostIn(p, t) + MostFee(p, t)
       /\ 2 * V3AmountOut(p, x, t) < U128

----------------------------------------------------------------------------
(* Pool.                                                                   *)

AmountOut(p, x, t) ==
    IF p.kind = "v2" THEN V2AmountOut(p, x, t) ELSE V3AmountOut(p, x, t)

\* Whether get_amount_out comes back at all.
Returns(p, x, t) == p.kind = "v2" \/ V3Returns(p, x, t)

\* get_price_impact, in basis points.  The execution price of a V3 pool is
\* its spot price.
PriceImpact(p, x, t) ==
    IF p.kind = "v3" \/ ReserveIn(p, t) = 0 \/ ReserveOut(p, t) = 0 THEN 0
    ELSE IF x = 0 THEN 10000
    ELSE (10000 * (x * ReserveOut(p, t) - V2AmountOut(p, x, t) * ReserveIn(p, t)))
            \div (x * ReserveOut(p, t))
==============================================================================
