---------------------------- MODULE PricingProofs ----------------------------
(***************************************************************************)
(* What holds of the V2 formulas for any reserves, amounts and fee, of V3  *)
(* quotes in range, of the amounts along a route, and of the calls of the  *)
(* pricing engine for any tokens, pools and moves of the chain: their      *)
(* types, exact quotes from exact copies, no loops but triangles, and no   *)
(* call stuck while copies and amounts are in range.                       *)
(***************************************************************************)
EXTENDS Pricing, SequenceTheorems, TLAPS

----------------------------------------------------------------------------
(* Arithmetic.                                                             *)

\* Division rounds down.
LEMMA Quotient ==
    ASSUME NEW n \in Nat, NEW d \in Nat \ {0}
    PROVE  /\ n \div d \in Nat
           /\ d * (n \div d) <= n /\ n < d * (n \div d) + d
OBVIOUS

\* What is below k divisors has a quotient below k.
LEMMA QuotientBelow ==
    ASSUME NEW d \in Nat \ {0}, NEW q \in Nat, NEW k \in Nat, d * q < d * k
    PROVE  q < k
OBVIOUS

\* A common factor does not change the quotient.
LEMMA SameQuotient ==
    ASSUME NEW n \in Nat, NEW d \in Nat \ {0}, NEW c \in Nat \ {0}
    PROVE  (c * n) \div (c * d) = n \div d
<1> DEFINE q == n \div d
<1>1. q \in Nat /\ d * q <= n /\ n < d * q + d
  BY Quotient
<1> HIDE DEF q
<1>2. c * (d * q) <= c * n /\ c * n < c * (d * q + d)
  BY <1>1
<1>3. (c * d) * q <= c * n /\ c * n < (c * d) * q + c * d
  BY <1>1, <1>2
<1>4. c * d \in Nat \ {0} /\ c * n \in Nat
  OBVIOUS
<1>5. (c * n) \div (c * d) = q
  BY <1>1, <1>3, <1>4
<1> QED BY <1>5 DEF q

LEMMA SmallerFactor ==
    ASSUME NEW k \in Nat \ {0}, NEW m \in Nat, NEW n \in Nat, m < n
    PROVE  m * k < n * k
OBVIOUS

\* An exchange that keeps the product of the reserves, rounded down: w of one
\* token comes to a reserve r of it, and brings the quotient of the other one.
LEMMA ProductExchange ==
    ASSUME NEW w \in Nat, NEW r \in Nat \ {0}, NEW rout \in Nat \ {0},
           NEW y, y = (w * rout) \div (r + w)
    PROVE  y \in Nat /\ (r + w) * y <= w * rout /\ y < rout
<1>1. r + w \in Nat \ {0} /\ w * rout \in Nat
  OBVIOUS
<1>2. y \in Nat /\ (r + w) * y <= w * rout
  BY <1>1, Quotient
<1>3. w * rout < (r + w) * rout
  BY SmallerFactor
<1>4. (r + w) * y < (r + w) * rout
  <2>1. (r + w) * y \in Nat /\ (r + w) * rout \in Nat
    BY <1>1, <1>2
  <2> QED BY <1>1, <1>2, <1>3, <2>1
<1>5. y < rout
  BY <1>1, <1>2, <1>4, QuotientBelow
<1> QED BY <1>2, <1>5

----------------------------------------------------------------------------
(* UniswapV2Pair.                                                          *)

\* The part of an input that reaches the formula, and the reserve, in the
\* formula's units.
Weight(x) == x * (10000 - FeeBps)
Scaled(n) == n * 10000

LEMMA WeightInRange ==
    ASSUME NEW x \in Nat
    PROVE  /\ Weight(x) \in Nat /\ Scaled(x) \in Nat /\ Weight(x) <= Scaled(x)
           /\ x # 0 => Scaled(x) # 0
<1>1. FeeBps \in Nat /\ FeeBps <= 9999
  BY AmmAssumption, SMT DEF AmmAssumption
<1>2. 10000 - FeeBps \in Nat /\ 10000 - FeeBps <= 10000
  BY <1>1, SMT
<1> QED BY <1>2, SMT DEF Weight, Scaled

LEMMA V2OutIsExchange ==
    ASSUME NEW x \in Nat \ {0}, NEW rin \in Nat \ {0}, NEW rout \in Nat \ {0}
    PROVE  V2Out(x, rin, rout)
             = (Weight(x) * rout) \div (Scaled(rin) + Weight(x))
BY SMT DEF V2Out, Weight, Scaled

\* Over any reserves, and for any fee: no input brings the whole reserve.
THEOREM V2NeverEmpties ==
    ASSUME NEW x \in Nat, NEW rin \in Nat, NEW rout \in Nat
    PROVE  /\ V2Out(x, rin, rout) \in Nat /\ V2Out(x, rin, rout) <= rout
           /\ rout > 0 => V2Out(x, rin, rout) < rout
<1>1. CASE x = 0 \/ rin = 0 \/ rout = 0
  BY <1>1, SMT DEF V2Out
<1>2. CASE x # 0 /\ rin # 0 /\ rout # 0
  <2>1. V2Out(x, rin, rout) \in Nat /\ V2Out(x, rin, rout) < rout
    BY <1>2, WeightInRange, V2OutIsExchange, ProductExchange
  <2> QED BY <2>1
<1> QED BY <1>1, <1>2

LEMMA ProductKeptWhenScaled ==
    ASSUME NEW r \in Nat, NEW w \in Nat, NEW u \in Nat, w <= u,
           NEW rout \in Nat, NEW y \in Nat, y <= rout, (r + w) * y <= w * rout
    PROVE  r * rout <= (r + u) * (rout - y)
<1>1. PICK e \in Nat : u = w + e
  <2>1. u = w + (u - w) /\ u - w \in Nat
    OBVIOUS
  <2> QED BY <2>1
<1>2. PICK z \in Nat : rout = y + z
  <2>1. rout = y + (rout - y) /\ rout - y \in Nat
    OBVIOUS
  <2> QED BY <2>1
<1>3. r * y <= w * z
  BY <1>2
<1>4. (r + u) * z = r * z + w * z + e * z /\ r * rout = r * y + r * z
  BY <1>1, <1>2
<1>5. e * z \in Nat /\ r * y \in Nat /\ w * z \in Nat /\ r * z \in Nat
  OBVIOUS
<1>6. r * rout <= (r + u) * z
  BY <1>3, <1>4, <1>5
<1>7. rout - y = z
  BY <1>2
<1> QED BY <1>6, <1>7

\* A swap never lowers the product of the reserves, rounding included.
LEMMA ProductKept ==
    ASSUME NEW x \in Nat, NEW rin \in Nat, NEW rout \in Nat
    PROVE  rin * rout <= (rin + x) * (rout - V2Out(x, rin, rout))
<1> DEFINE y == V2Out(x, rin, rout)
<1>1. CASE x = 0 \/ rin = 0 \/ rout = 0
  <2>1. y = 0
    BY <1>1, SMT DEF V2Out
  <2> HIDE DEF y
  <2>2. rin * rout <= (rin + x) * (rout - y)
    BY <2>1, SMT
  <2> QED BY <2>2 DEF y
<1>2. CASE x # 0 /\ rin # 0 /\ rout # 0
  <2> DEFINE r == Scaled(rin)
             w == Weight(x)
             u == Scaled(x)
  <2>1. /\ r \in Nat \ {0} /\ w \in Nat /\ u \in Nat /\ w <= u
    BY <1>2, WeightInRange
  <2>2. y = (w * rout) \div (r + w)
    BY <1>2, V2OutIsExchange
  <2> HIDE DEF y, r, w, u
  <2>3. y \in Nat /\ (r + w) * y <= w * rout /\ y < rout
    BY <1>2, <2>1, <2>2, ProductExchange
  <2>4. r * rout <= (r + u) * (rout - y)
    BY <2>1, <2>3, ProductKeptWhenScaled
  <2>5. rin * rout <= (rin + x) * (rout - y)
    <3>1. PICK z \in Nat : rout - y = z
      BY <2>3
    <3>2. r * rout <= (r + u) * z
      BY <2>4, <3>1
    <3>3. (rin * 10000) * rout <= (rin * 10000 + x * 10000) * z
      BY <3>2, SMT DEF r, u, Scaled
    <3>4. (rin * rout) * 10000 <= ((rin + x) * z) * 10000
      BY <3>3, SMT
    <3>5. rin * rout \in Nat /\ (rin + x) * z \in Nat
      OBVIOUS
    <3>6. rin * rout <= (rin + x) * z
      BY <3>4, <3>5, SMT
    <3> QED BY <3>1, <3>6
  <2> QED BY <2>5 DEF y
<1> QED BY <1>1, <1>2

\* Whatever the reserves, the amount and the fee, swapping an amount and then
\* what it has brought back through the same pool returns no more than the
\* amount.
THEOREM RoundTripNeverGains ==
    ASSUME NEW x \in Nat, NEW rin \in Nat \ {0}, NEW rout \in Nat \ {0}
    PROVE  LET y == V2Out(x, rin, rout)
           IN  V2Out(y, rout - y, rin + x) <= x
<1> DEFINE y == V2Out(x, rin, rout)
           z == V2Out(y, rout - y, rin + x)
<1>1. y \in Nat /\ y < rout /\ rin * rout <= (rin + x) * (rout - y)
  BY V2NeverEmpties, ProductKept
<1> HIDE DEF y
<1>2. rout - y \in Nat /\ rin + x \in Nat /\ rin + x > 0
  BY <1>1
<1>3. /\ z \in Nat /\ z < rin + x
      /\ (rout - y) * (rin + x) <= ((rout - y) + y) * ((rin + x) - z)
  BY <1>1, <1>2, V2NeverEmpties, ProductKept
<1> HIDE DEF z
<1>4. PICK s \in Nat : s = (rin + x) - z
  BY <1>2, <1>3
<1>5. rin * rout <= s * rout
  <2>1. (rout - y) + y = rout
    BY <1>1
  <2>2. (rout - y) * (rin + x) = (rin + x) * (rout - y)
    BY <1>1
  <2>3. (rin + x) * (rout - y) \in Nat /\ rin * rout \in Nat /\ rout * s \in Nat
    BY <1>2, <1>4
  <2>4. (rin + x) * (rout - y) <= rout * s
    BY <1>3, <1>4, <2>1, <2>2
  <2>5. rout * s = s * rout
    BY <1>4
  <2> QED BY <1>1, <2>3, <2>4, <2>5
<1>6. rin <= s
  BY <1>4, <1>5, SmallerFactor
<1>7. z <= x
  BY <1>3, <1>4, <1>6
<1> QED BY <1>7 DEF y, z

\* With the fee of 30 basis points the copy's formula is the pair's own, to
\* the last unit: 10000 and 9970 round as 1000 and 997 do.
THEOREM LocalFormulaIsThePairs ==
    ASSUME FeeBps = 30, NEW x \in Nat, NEW rin \in Nat, NEW rout \in Nat
    PROVE  V2Out(x, rin, rout) = ChainOut(x, rin, rout)
<1>1. CASE rin = 0 \/ rout = 0
  BY <1>1, SMT DEF V2Out, ChainOut
<1>2. CASE rin # 0 /\ rout # 0
  <2> DEFINE n == x * 997 * rout
             d == rin * 1000 + x * 997
  <2>1. n \in Nat /\ d \in Nat \ {0}
    BY <1>2, SMT
  <2>2. ChainOut(x, rin, rout) = n \div d
    BY <1>2, SMT DEF ChainOut
  <2>3. CASE x = 0
    <3>1. n = 0
      BY <2>3, SMT
    <3>2. V2Out(x, rin, rout) = 0
      BY <2>3, SMT DEF V2Out
    <3> HIDE DEF n, d
    <3>3. n \div d = 0
      BY <2>1, <3>1, SMT
    <3> QED BY <2>2, <3>2, <3>3
  <2>4. CASE x # 0
    <3>1. V2Out(x, rin, rout) = (10 * n) \div (10 * d)
      <4>1. x * (10000 - FeeBps) * rout = 10 * n
        BY SMT
      <4>2. rin * 10000 + x * (10000 - FeeBps) = 10 * d
        BY SMT
      <4> QED BY <1>2, <2>4, <4>1, <4>2, SMT DEF V2Out
    <3> HIDE DEF n, d
    <3>2. (10 * n) \div (10 * d) = n \div d
      BY <2>1, SameQuotient
    <3> QED BY <2>2, <3>1, <3>2
  <2> QED BY <2>3, <2>4
<1> QED BY <1>1, <1>2

\* simulate_swap on any copy leaves reserves that are not negative, with a
\* product that is not smaller.
THEOREM SwapsKeepTheProduct ==
    ASSUME NEW p \in V2Pairs, NEW x \in Nat, NEW t
    PROVE  LET q == SimulateSwap(p, x, t)
           IN  /\ q \in V2Pairs
               /\ p.reserve0 * p.reserve1 <= q.reserve0 * q.reserve1
<1> DEFINE q == SimulateSwap(p, x, t)
           y == V2AmountOut(p, x, t)
<1>1. p.reserve0 \in Nat /\ p.reserve1 \in Nat
  BY DEF V2Pairs
<1>2. CASE t = p.token0
  <2>1. /\ y \in Nat /\ y <= p.reserve1
        /\ p.reserve0 * p.reserve1 <= (p.reserve0 + x) * (p.reserve1 - y)
    <3>1. y = V2Out(x, p.reserve0, p.reserve1)
      BY <1>2 DEF V2AmountOut, ReserveIn, ReserveOut
    <3> HIDE DEF y
    <3> QED BY <1>1, <3>1, V2NeverEmpties, ProductKept
  <2>2. q = [p EXCEPT !.reserve0 = @ + x, !.reserve1 = @ - y]
    BY <1>2 DEF SimulateSwap
  <2> HIDE DEF q, y
  <2>3. /\ q \in V2Pairs
        /\ q.reserve0 = p.reserve0 + x /\ q.reserve1 = p.reserve1 - y
    <3> DEFINE m == p.reserve0 + x
               n == p.reserve1 - y
    <3>1. q = [p EXCEPT !.reserve0 = m, !.reserve1 = n]
      BY <2>2 DEF V2Pairs
    <3>2. m \in Nat /\ n \in Nat
      BY <1>1, <2>1
    <3> HIDE DEF m, n
    <3>3. q \in V2Pairs /\ q.reserve0 = m /\ q.reserve1 = n
      BY <3>1, <3>2 DEF V2Pairs
    <3> QED BY <3>3 DEF m, n
  <2> QED BY <2>1, <2>3 DEF q
<1>3. CASE t # p.token0
  <2>1. /\ y \in Nat /\ y <= p.reserve0
        /\ p.reserve1 * p.reserve0 <= (p.reserve1 + x) * (p.reserve0 - y)
    <3>1. y = V2Out(x, p.reserve1, p.reserve0)
      BY <1>3 DEF V2AmountOut, ReserveIn, ReserveOut
    <3> HIDE DEF y
    <3> QED BY <1>1, <3>1, V2NeverEmpties, ProductKept
  <2>2. q = [p EXCEPT !.reserve1 = @ + x, !.reserve0 = @ - y]
    BY <1>3 DEF SimulateSwap
  <2> HIDE DEF q, y
  <2>3. /\ q \in V2Pairs
        /\ q.reserve1 = p.reserve1 + x /\ q.reserve0 = p.reserve0 - y
    <3> DEFINE m == p.reserve1 + x
               n == p.reserve0 - y
    <3>1. q = [p EXCEPT !.reserve1 = m, !.reserve0 = n]
      BY <2>2 DEF V2Pairs
    <3>2. m \in Nat /\ n \in Nat
      BY <1>1, <2>1
    <3> HIDE DEF m, n
    <3>3. q \in V2Pairs /\ q.reserve1 = m /\ q.reserve0 = n
      BY <3>1, <3>2 DEF V2Pairs
    <3> QED BY <3>3 DEF m, n
  <2>4. /\ p.reserve1 * p.reserve0 = p.reserve0 * p.reserve1
        /\ (p.reserve1 + x) * (p.reserve0 - y) = (p.reserve0 - y) * (p.reserve1 + x)
    BY <1>1, <2>1
  <2> QED BY <2>1, <2>3, <2>4 DEF q
<1> QED BY <1>2, <1>3

----------------------------------------------------------------------------
(* UniswapV3Pool.                                                          *)

\* A step of any pool that has a price brings an amount, and no debt.
LEMMA V3OutIsNat ==
    ASSUME NEW p \in V3Pools, NEW x \in Nat, NEW t
    PROVE  V3AmountOut(p, x, t) \in Nat
<1> DEFINE L == p.liquidity
           s == p.sqrtPrice
           w == LessFee(x)
<1>0. /\ MinSqrt \in Nat \ {0} /\ MaxSqrt \in Nat /\ Q96 \in Nat \ {0}
      /\ FeePips \in Nat /\ 1000000 - FeePips \in Nat
  BY AmmAssumption, SMT DEF AmmAssumption
<1>1. L \in Nat /\ s \in MinSqrt .. MaxSqrt
  BY DEF V3Pools
<1>2. s \in Nat \ {0} /\ s - MinSqrt \in Nat /\ MaxSqrt - s \in Nat
  BY <1>0, <1>1
<1>3. w \in Nat
  <2>1. x * (1000000 - FeePips) \in Nat
    BY <1>0
  <2> QED BY <2>1, Quotient, SMT DEF LessFee
<1> HIDE DEF L, s, w
<1>4. CASE ~StopsShort(p, x, t)
  <2>1. /\ L * (s - MinSqrt) \in Nat /\ L * (MaxSqrt - s) * Q96 \in Nat
        /\ s * MaxSqrt \in Nat \ {0}
    <3>1. MaxSqrt # 0
      BY <1>0, <1>2
    <3>2. L * (MaxSqrt - s) \in Nat
      BY <1>0, <1>1, <1>2
    <3> QED BY <1>0, <1>1, <1>2, <3>1, <3>2
  <2>2. OrZero(L * (MaxSqrt - s) * Q96) \in Nat
    BY <2>1 DEF OrZero
  <2>3. MostOut(p, t) \in Nat
    BY <1>0, <2>1, <2>2, Quotient DEF MostOut, L, s
  <2> QED BY <1>4, <2>3 DEF V3AmountOut
<1>5. CASE StopsShort(p, x, t)
  <2>1. L # 0
    <3> SUFFICES ASSUME L = 0 PROVE FALSE
      OBVIOUS
    <3>1. /\ L * (s - MinSqrt) * Q96 = 0 /\ L * (MaxSqrt - s) = 0
      BY <1>0, <1>2
    <3>2. s * MinSqrt \in Nat \ {0}
      BY <1>0, <1>2
    <3>3. OrZero(L * (s - MinSqrt) * Q96) = 0
      BY <3>1 DEF OrZero
    <3>4. \A d \in Nat \ {0} : 0 \div d = 0
      OBVIOUS
    <3>5. MostIn(p, t) = 0
      BY <1>0, <3>1, <3>2, <3>3, <3>4 DEF MostIn, L, s
    <3> QED BY <1>3, <1>5, <3>5 DEF StopsShort, w
  <2>2. CASE t = p.token0
    <3> DEFINE d == L * Q96 + w * s
               n == L * s * Q96
               next == n \div d
    <3>1. L * Q96 \in Nat \ {0} /\ w * s \in Nat
      BY <1>0, <1>1, <1>2, <1>3, <2>1
    <3>2. d \in Nat \ {0} /\ n \in Nat
      <4>1. L * s \in Nat
        BY <1>1, <1>2
      <4> QED BY <1>0, <3>1, <4>1
    <3>3. next \in Nat /\ d * next <= n
      <4> HIDE DEF d, n
      <4> QED BY <3>2, Quotient
    <3>4. n <= d * s
      <4>1. d * s = (L * Q96) * s + (w * s) * s
        BY <1>2, <3>1
      <4>2. (L * Q96) * s = n
        BY <1>0, <1>1, <1>2
      <4>3. (w * s) * s \in Nat
        BY <1>2, <3>1
      <4> HIDE DEF d, n
      <4> QED BY <3>2, <4>1, <4>2, <4>3
    <3>5. next <= s
      <4> HIDE DEF d, n, next
      <4>1. d * s < d * (s + 1) /\ d * s \in Nat /\ d * next \in Nat
        BY <1>2, <3>2, <3>3
      <4>0. d * (s + 1) \in Nat
        BY <1>2, <3>2
      <4>2. d * next < d * (s + 1)
        BY <3>2, <3>3, <3>4, <4>0, <4>1
      <4>3. next < s + 1
        BY <1>2, <3>2, <3>3, <4>2, QuotientBelow
      <4> QED BY <1>2, <3>3, <4>3
    <3>6. NextSqrt(p, x, t) = next
      BY <2>2 DEF NextSqrt, L, s, w
    <3> HIDE DEF next
    <3>7. L * (s - next) \in Nat
      <4>1. s - next \in Nat
        BY <1>2, <3>3, <3>5
      <4> QED BY <1>1, <4>1
    <3>8. (L * (s - next)) \div Q96 \in Nat
      BY <1>0, <3>7, Quotient
    <3> QED BY <1>5, <2>2, <3>6, <3>8 DEF V3AmountOut, L, s
  <2>3. CASE t # p.token0
    <3> DEFINE k == (w * Q96) \div L
               next == s + k
    <3>1. k \in Nat
      <4>1. w * Q96 \in Nat
        BY <1>0, <1>3
      <4> QED BY <1>1, <2>1, <4>1, Quotient
    <3>2. NextSqrt(p, x, t) = next
      BY <2>3 DEF NextSqrt, L, s, w
    <3> HIDE DEF k
    <3>3. next \in Nat \ {0} /\ next - s = k
      BY <1>2, <3>1
    <3> HIDE DEF next
    <3>4. L * (next - s) * Q96 \in Nat /\ s * next \in Nat \ {0}
      <4>1. L * k \in Nat
        BY <1>1, <3>1
      <4> QED BY <1>0, <1>2, <3>3, <4>1
    <3>5. (L * (next - s) * Q96) \div (s * next) \in Nat
      BY <3>4, Quotient
    <3> QED BY <1>5, <2>3, <3>2, <3>5 DEF V3AmountOut, L, s
  <2> QED BY <2>2, <2>3
<1>6. V3AmountOut(p, x, t) \in Nat
  BY <1>4, <1>5
<1> QED BY <1>6

LEMMA OutIsNat ==
    ASSUME NEW p \in V2Pairs \cup V3Pools, NEW x \in Nat, NEW t
    PROVE  AmountOut(p, x, t) \in Nat
<1>1. CASE p \in V2Pairs
  <2>1. p.kind = "v2" /\ p.reserve0 \in Nat /\ p.reserve1 \in Nat
    BY <1>1 DEF V2Pairs
  <2>2. ReserveIn(p, t) \in Nat /\ ReserveOut(p, t) \in Nat
    BY <2>1 DEF ReserveIn, ReserveOut
  <2> QED BY <2>1, <2>2, V2NeverEmpties DEF AmountOut, V2AmountOut
<1>2. CASE p \in V3Pools
  BY <1>2, V3OutIsNat DEF AmountOut, V3Pools
<1> QED BY <1>1, <1>2

\* The chain's formula never empties a pair either.
LEMMA ChainOutInRange ==
    ASSUME NEW x \in Nat, NEW rin \in Nat, NEW rout \in Nat
    PROVE  ChainOut(x, rin, rout) \in Nat /\ ChainOut(x, rin, rout) <= rout
<1>1. CASE rin = 0 \/ rout = 0
  BY <1>1, SMT DEF ChainOut
<1>2. CASE rin # 0 /\ rout # 0
  <2> DEFINE n == x * 997 * rout
             d == rin * 1000 + x * 997
  <2>1. n \in Nat /\ d \in Nat \ {0}
    BY <1>2, SMT
  <2>2. ChainOut(x, rin, rout) = n \div d
    BY <1>2, SMT DEF ChainOut
  <2>3. n < d * (rout + 1)
    <3>1. /\ d * (rout + 1) = rin * 1000 * rout + n + d
      BY <1>2, SMT
    <3>2. rin * 1000 * rout \in Nat
      BY SMT
    <3> HIDE DEF n, d
    <3> QED BY <2>1, <3>1, <3>2, SMT
  <2> HIDE DEF n, d
  <2>4. n \div d \in Nat /\ d * (n \div d) <= n
    BY <2>1, Quotient
  <2> DEFINE q == n \div d
  <2> HIDE DEF q
  <2>5. d * q < d * (rout + 1)
    <3>1. d * q \in Nat /\ d * (rout + 1) \in Nat
      BY <2>1, <2>4 DEF q
    <3> QED BY <2>1, <2>3, <2>4, <3>1 DEF q
  <2>6. q < rout + 1
    BY <2>1, <2>4, <2>5, QuotientBelow DEF q
  <2> QED BY <2>2, <2>4, <2>6 DEF q
<1> QED BY <1>1, <1>2

----------------------------------------------------------------------------
(***************************************************************************)
(* UniswapV3Pool, in range: the loop of get_amount_out makes one step.     *)
(***************************************************************************)

\* Products keep the order of their factors.
LEMMA FactorsInOrder ==
    ASSUME NEW a \in Nat, NEW b \in Nat, NEW c \in Nat, NEW d \in Nat,
           a <= b, c <= d
    PROVE  a * c \in Nat /\ b * d \in Nat /\ a * c <= b * d
<1>1. a * c <= b * c
  OBVIOUS
<1>2. b * c <= b * d
  OBVIOUS
<1> QED BY <1>1, <1>2

\* What k divisors exceed has a quotient below k.
LEMMA QuotientLess ==
    ASSUME NEW n \in Nat, NEW d \in Nat \ {0}, NEW k \in Nat, n < d * k
    PROVE  n \div d \in Nat /\ n \div d < k
<1>1. PICK q \in Nat : q = n \div d /\ d * q <= n
  BY Quotient
<1>2. d * q \in Nat /\ d * k \in Nat
  BY <1>1
<1>3. d * q < d * k
  BY <1>1, <1>2
<1> QED BY <1>1, <1>3, QuotientBelow

\* What holds k divisors has a quotient of k at least.
LEMMA QuotientMore ==
    ASSUME NEW n \in Nat, NEW d \in Nat \ {0}, NEW k \in Nat, d * k <= n
    PROVE  k <= n \div d
<1>1. PICK q \in Nat : q = n \div d /\ n < d * q + d
  BY Quotient
<1>2. d * q + d = d * (q + 1) /\ d * (q + 1) \in Nat /\ d * k \in Nat
  BY <1>1
<1>3. d * k < d * (q + 1)
  BY <1>1, <1>2
<1>4. k < q + 1
  BY <1>3, QuotientBelow
<1> QED BY <1>1, <1>4

\* The words' sizes, with names for the pool's state.
LEMMA V3Facts ==
    ASSUME NEW p \in V3Pools, NEW x \in Nat \ {0}, InRange(p, x),
           NEW L, L = p.liquidity, NEW s, s = p.sqrtPrice
    PROVE  /\ Q96 \in Nat \ {0} /\ U128 \in Nat /\ U256 \in Nat
           /\ MinSqrt \in Nat \ {0} /\ MaxSqrt \in Nat
           /\ s \in Nat \ {0} /\ MinSqrt <= s /\ s <= MaxSqrt
           /\ s - MinSqrt \in Nat /\ MaxSqrt - s \in Nat
           /\ MinSqrt <= s - MinSqrt /\ s <= MaxSqrt - s
           /\ L \in Nat \ {0}
           /\ L * Q96 <= U128 * MinSqrt
           /\ L * s * Q96 < U256
           /\ 2 * x < U128 /\ x * Q96 * Q96 < U256
           /\ (x + 1) * s <= L * Q96
           /\ (x + 1) * Q96 <= L * s
           /\ MinSqrt * MaxSqrt <= Q96 * Q96
<1>1. /\ Q96 \in Nat \ {0} /\ U128 \in Nat /\ U256 \in Nat
      /\ MinSqrt \in Nat \ {0} /\ MaxSqrt \in Nat
      /\ MinSqrt * MaxSqrt <= Q96 * Q96
  BY AmmAssumption, SMT DEF AmmAssumption
<1>2. L \in Nat /\ s \in MinSqrt .. MaxSqrt /\ p.kind = "v3"
  BY DEF V3Pools
<1>3. /\ L * Q96 <= U128 * MinSqrt
      /\ L * s * Q96 < U256
      /\ 2 * MinSqrt <= s /\ 2 * s <= MaxSqrt
      /\ 2 * x < U128 /\ x * Q96 * Q96 < U256
      /\ (x + 1) * s <= L * Q96
      /\ (x + 1) * Q96 <= L * s
  BY <1>2 DEF InRange
<1>4. /\ s \in Nat \ {0} /\ MinSqrt <= s /\ s <= MaxSqrt
      /\ s - MinSqrt \in Nat /\ MaxSqrt - s \in Nat
      /\ MinSqrt <= s - MinSqrt /\ s <= MaxSqrt - s
  BY <1>1, <1>2, <1>3
<1>5. L # 0
  <2> SUFFICES ASSUME L = 0 PROVE FALSE
    OBVIOUS
  <2>1. L * Q96 = 0
    BY <1>1
  <2>2. x + 1 \in Nat \ {0} /\ (x + 1) * s \in Nat \ {0}
    BY <1>4
  <2> QED BY <1>3, <2>1, <2>2
<1> QED BY <1>1, <1>2, <1>3, <1>4, <1>5

\* The fee is part of the amount.
LEMMA LessFeeIsLess ==
    ASSUME NEW x \in Nat
    PROVE  LessFee(x) \in Nat /\ LessFee(x) <= x
<1>1. PICK rate \in Nat : rate = 1000000 - FeePips /\ rate <= 1000000
  BY AmmAssumption, SMT DEF AmmAssumption
<1>2. PICK n \in Nat : n = x * rate
  OBVIOUS
<1>3. n <= 1000000 * x
  BY <1>1, <1>2, SMT
<1>4. n \div 1000000 \in Nat /\ n \div 1000000 <= x
  BY <1>3, SMT
<1> QED BY <1>1, <1>2, <1>4 DEF LessFee

\* The whole way to the extreme tick takes more than the amount, though it
\* fits in a word: the step stops short of it, which uses the amount up.
LEMMA V3StopsShort ==
    ASSUME NEW p \in V3Pools, NEW x \in Nat \ {0}, NEW t, InRange(p, x)
    PROVE  MostIn(p, t) < U128 /\ StopsShort(p, x, t)
<1>1. PICK L, s : L = p.liquidity /\ s = p.sqrtPrice
  OBVIOUS
<1>2. /\ Q96 \in Nat \ {0} /\ U128 \in Nat /\ U256 \in Nat
      /\ MinSqrt \in Nat \ {0} /\ MaxSqrt \in Nat
      /\ s \in Nat \ {0} /\ MinSqrt <= s /\ s <= MaxSqrt
      /\ s - MinSqrt \in Nat /\ MaxSqrt - s \in Nat
      /\ MinSqrt <= s - MinSqrt /\ s <= MaxSqrt - s
      /\ L \in Nat \ {0}
      /\ L * Q96 <= U128 * MinSqrt
      /\ L * s * Q96 < U256
      /\ (x + 1) * s <= L * Q96
      /\ (x + 1) * Q96 <= L * s
      /\ MinSqrt * MaxSqrt <= Q96 * Q96
  BY <1>1, V3Facts
<1>3. MostIn(p, t) < U128 /\ x + 1 <= MostIn(p, t)
  <2>1. CASE t = p.token0
    <3>1. PICK r \in Nat : r = s - MinSqrt
      BY <1>2
    <3>2. PICK n \in Nat : n = L * r * Q96
      BY <1>2
    <3>3. PICK d \in Nat \ {0} : d = s * MinSqrt
      BY <1>2
    <3>4. n = (L * Q96) * r
      BY <1>2, <3>1, <3>2
    <3>5. OrZero(n) = n
      <4>1. L * r <= L * s /\ L * r \in Nat /\ L * s \in Nat
        BY <1>2, <3>1, FactorsInOrder
      <4>2. (L * r) * Q96 <= (L * s) * Q96 /\ (L * s) * Q96 \in Nat
        BY <1>2, <4>1, FactorsInOrder
      <4> QED BY <1>2, <3>2, <4>2 DEF OrZero
    <3>6. n < d * U128
      <4>1. (L * Q96) * r <= (U128 * MinSqrt) * r
        BY <1>2, <3>1, FactorsInOrder
      <4>2. U128 # 0
        <5>1. L * Q96 \in Nat \ {0}
          BY <1>2
        <5> QED BY <1>2, <5>1
      <4>3. U128 * MinSqrt \in Nat \ {0} /\ r < s
        BY <1>2, <3>1, <4>2
      <4>4. r * (U128 * MinSqrt) < s * (U128 * MinSqrt)
        BY <1>2, <4>3, SmallerFactor
      <4>5. /\ r * (U128 * MinSqrt) = (U128 * MinSqrt) * r
            /\ s * (U128 * MinSqrt) = d * U128
        BY <1>2, <3>3, <4>3
      <4> QED BY <1>2, <3>3, <3>4, <4>1, <4>4, <4>5
    <3>7. d * (x + 1) <= n
      <4>1. (x + 1) * s \in Nat /\ L * Q96 \in Nat /\ MinSqrt <= r
        BY <1>2, <3>1
      <4>2. ((x + 1) * s) * MinSqrt <= (L * Q96) * r
        BY <1>2, <3>1, <4>1, FactorsInOrder
      <4>3. ((x + 1) * s) * MinSqrt = d * (x + 1)
        BY <1>2, <3>3
      <4> QED BY <3>4, <4>2, <4>3
    <3>8. MostIn(p, t) = n \div d
      BY <1>1, <2>1, <3>1, <3>2, <3>3, <3>5 DEF MostIn
    <3>9. x + 1 \in Nat
      OBVIOUS
    <3> QED BY <1>2, <3>6, <3>7, <3>8, <3>9, QuotientLess, QuotientMore
  <2>2. CASE t # p.token0
    <3>1. PICK r \in Nat : r = MaxSqrt - s
      BY <1>2
    <3>2. PICK n \in Nat : n = L * r
      BY <1>2
    <3>3. n < Q96 * U128
      <4>1. U128 # 0
        <5>1. L * Q96 \in Nat \ {0}
          BY <1>2
        <5> QED BY <1>2, <5>1
      <4>2. (L * Q96) * r <= (U128 * MinSqrt) * r
        BY <1>2, FactorsInOrder
      <4>3. r < MaxSqrt /\ U128 * MinSqrt \in Nat \ {0}
        BY <1>2, <3>1, <4>1
      <4>4. r * (U128 * MinSqrt) < MaxSqrt * (U128 * MinSqrt)
        BY <1>2, <4>3, SmallerFactor
      <4>5. MinSqrt * MaxSqrt \in Nat /\ Q96 * Q96 \in Nat
        BY <1>2
      <4>6. (MinSqrt * MaxSqrt) * U128 <= (Q96 * Q96) * U128
        BY <1>2, <4>5, FactorsInOrder
      <4>7. /\ r * (U128 * MinSqrt) = (U128 * MinSqrt) * r
            /\ MaxSqrt * (U128 * MinSqrt) = (MinSqrt * MaxSqrt) * U128
            /\ (Q96 * Q96) * U128 = Q96 * (Q96 * U128)
            /\ (L * Q96) * r = Q96 * n
        BY <1>2, <3>2
      <4>8. PICK a, b, c, d \in Nat : /\ a = Q96 * n /\ b = r * (U128 * MinSqrt)
                                      /\ c = (MinSqrt * MaxSqrt) * U128
                                      /\ d = Q96 * (Q96 * U128)
        BY <1>2, <4>3, <4>5
      <4>9. a <= b /\ b < c /\ c <= d
        BY <4>2, <4>4, <4>6, <4>7, <4>8
      <4>10. Q96 * n < Q96 * (Q96 * U128)
        BY <4>8, <4>9
      <4> QED BY <1>2, <4>10, QuotientBelow
    <3>4. Q96 * (x + 1) <= n
      <4>1. L * s <= L * r
        BY <1>2, <3>1, FactorsInOrder
      <4>2. L * s \in Nat /\ Q96 * (x + 1) = (x + 1) * Q96 /\ (x + 1) * Q96 \in Nat
        BY <1>2
      <4> QED BY <1>2, <3>2, <4>1, <4>2
    <3>5. MostIn(p, t) = n \div Q96
      BY <1>1, <2>2, <3>1, <3>2 DEF MostIn
    <3>6. x + 1 \in Nat
      OBVIOUS
    <3> QED BY <1>2, <3>3, <3>4, <3>5, <3>6, QuotientLess, QuotientMore
  <2> QED BY <2>1, <2>2
<1>4. MostIn(p, t) \in Nat
  <2>1. PICK m : m = MostIn(p, t)
    OBVIOUS
  <2>2. \A n \in Nat, d \in Nat \ {0} : n \div d \in Nat
    BY Quotient
  <2>3. L * (s - MinSqrt) * Q96 \in Nat /\ s * MinSqrt \in Nat \ {0}
        /\ L * (MaxSqrt - s) \in Nat
    BY <1>2
  <2> QED BY <1>1, <1>2, <2>2, <2>3 DEF MostIn, OrZero
<1>5. LessFee(x) < MostIn(p, t)
  BY <1>3, <1>4, LessFeeIsLess
<1> QED BY <1>3, <1>5 DEF StopsShort

\* A quotient that fits in a signed word.
LEMMA TwiceQuotientLess ==
    ASSUME NEW n \in Nat, NEW d \in Nat \ {0}, NEW k \in Nat, 2 * n < d * k
    PROVE  2 * (n \div d) < k
<1>1. PICK q \in Nat : q = n \div d /\ d * q <= n
  BY Quotient
<1>2. d * (2 * q) = 2 * (d * q) /\ d * q \in Nat /\ d * k \in Nat
  BY <1>1
<1>3. d * (2 * q) < d * k
  BY <1>1, <1>2
<1>4. 2 * q < k
  BY <1>1, <1>3, QuotientBelow
<1> QED BY <1>1, <1>4

\* The numbers of a step that stops short fit in their words.
LEMMA V3StepFits ==
    ASSUME NEW p \in V3Pools, NEW x \in Nat \ {0}, NEW t, InRange(p, x)
    PROVE  StepFits(p, x, t) /\ 2 * V3AmountOut(p, x, t) < U128
<1>1. PICK L, s : L = p.liquidity /\ s = p.sqrtPrice
  OBVIOUS
<1>2. /\ Q96 \in Nat \ {0} /\ U128 \in Nat /\ U256 \in Nat
      /\ MinSqrt \in Nat \ {0} /\ MaxSqrt \in Nat
      /\ s \in Nat \ {0} /\ MinSqrt <= s /\ s <= MaxSqrt
      /\ MinSqrt <= s - MinSqrt /\ s <= MaxSqrt - s
      /\ L \in Nat \ {0}
      /\ L * Q96 <= U128 * MinSqrt
      /\ L * s * Q96 < U256
      /\ 2 * x < U128 /\ x * Q96 * Q96 < U256
      /\ (x + 1) * s <= L * Q96
      /\ (x + 1) * Q96 <= L * s
      /\ MinSqrt * MaxSqrt <= Q96 * Q96
  BY <1>1, V3Facts
<1>3. PICK y \in Nat : y = LessFee(x) /\ y <= x
  BY LessFeeIsLess
<1>4. MostIn(p, t) < U128 /\ StopsShort(p, x, t)
  BY V3StopsShort
<1>5. U128 \in Nat \ {0}
  BY <1>2
\* The product of liquidity and price is below a word's.
<1>6. (L * Q96) * s <= (U128 * MinSqrt) * s
      /\ (L * Q96) * s \in Nat /\ (U128 * MinSqrt) * s \in Nat
  BY <1>2, FactorsInOrder
<1>7. CASE t = p.token0
  <2>1. PICK next \in Nat \ {0} : next = NextSqrt(p, x, t) /\ next <= s
    <3> DEFINE d == L * Q96 + y * s
               n == L * s * Q96
    <3>1. d \in Nat \ {0} /\ n \in Nat
      <4>1. L * Q96 \in Nat \ {0} /\ y * s \in Nat
        BY <1>2, <1>3
      <4>2. L * s \in Nat
        BY <1>2
      <4> QED BY <1>2, <4>1, <4>2
    <3>2. n < d * (s + 1)
      <4>1. d * (s + 1) = n + (y * s) * s + d /\ (y * s) * s \in Nat
        BY <1>2, <1>3
      <4> HIDE DEF d, n
      <4> QED BY <3>1, <4>1
    <3>3. n \div d \in Nat /\ n \div d < s + 1
      <4> HIDE DEF d, n
      <4> QED BY <1>2, <3>1, <3>2, QuotientLess
    <3>4. d * 1 <= n
      \* d <= 2 * L * Q96 <= s * L * Q96
      <4>1. PICK v \in Nat : v = L * Q96
        BY <1>2
      <4>2. y * s <= (x + 1) * s /\ y * s \in Nat /\ (x + 1) * s \in Nat
        BY <1>2, <1>3, FactorsInOrder
      <4>3. 2 * v <= s * v
        BY <1>2, <4>1, FactorsInOrder
      <4>4. n = s * v
        BY <1>2, <4>1
      <4>5. d <= 2 * v
        BY <1>2, <4>1, <4>2
      <4> HIDE DEF d, n
      <4> QED BY <3>1, <4>1, <4>3, <4>4, <4>5
    <3>5. 1 <= n \div d
      <4> HIDE DEF d, n
      <4> QED BY <3>1, <3>4, QuotientMore
    <3>6. NextSqrt(p, x, t) = n \div d
      BY <1>1, <1>3, <1>7 DEF NextSqrt
    <3> HIDE DEF d, n
    <3> QED BY <1>2, <3>3, <3>5, <3>6
  <2>2. StepFits(p, x, t)
    BY <1>1, <1>2, <1>4, <1>7 DEF StepFits
  <2>3. PICK r \in Nat : r = s - next /\ r < s
    BY <1>2, <2>1
  <2>4. 2 * (L * r) < Q96 * U128
    <3>1. L * r < L * s /\ L * r \in Nat /\ L * s \in Nat
      <4>1. r * L < s * L
        BY <1>2, <2>3, SmallerFactor
      <4> QED BY <1>2, <2>3, <4>1
    <3>2. ((2 * s) * MinSqrt) * U128 <= (Q96 * Q96) * U128
      <4>1. 2 * s <= MaxSqrt
        BY <1>2
      <4>2. (2 * s) * MinSqrt <= MaxSqrt * MinSqrt /\ (2 * s) * MinSqrt \in Nat
        BY <1>2, <4>1, FactorsInOrder
      <4>3. (2 * s) * MinSqrt <= Q96 * Q96 /\ Q96 * Q96 \in Nat
        BY <1>2, <4>2
      <4> QED BY <1>2, <4>2, <4>3, FactorsInOrder
    <3>3. PICK a, b, c \in Nat : /\ a = Q96 * (2 * (L * r))
                                 /\ b = Q96 * (2 * (L * s))
                                 /\ c = Q96 * (Q96 * U128)
      BY <1>2, <3>1
    <3>4. a < b
      <4>1. 2 * (L * r) < 2 * (L * s)
        BY <3>1
      <4>2. (2 * (L * r)) * Q96 < (2 * (L * s)) * Q96
        BY <1>2, <3>1, <4>1, SmallerFactor
      <4> QED BY <1>2, <3>1, <3>3, <4>2
    <3>5. b <= c
      <4>1. PICK e, f \in Nat : e = (L * Q96) * s /\ f = (U128 * MinSqrt) * s
        BY <1>6
      <4>2. b = 2 * e
        BY <1>2, <3>3, <4>1
      <4>3. ((2 * s) * MinSqrt) * U128 = 2 * f
        BY <1>2, <4>1
      <4>4. (Q96 * Q96) * U128 = c
        BY <1>2, <3>3
      <4> QED BY <1>6, <3>2, <4>1, <4>2, <4>3, <4>4
    <3>6. Q96 * (2 * (L * r)) < Q96 * (Q96 * U128)
      BY <3>3, <3>4, <3>5
    <3>7. 2 * (L * r) \in Nat /\ Q96 * U128 \in Nat
      BY <1>2, <3>1
    <3> QED BY <1>2, <3>6, <3>7, QuotientBelow
  <2>5. V3AmountOut(p, x, t) = (L * r) \div Q96
    <3>1. x # 0
      OBVIOUS
    <3> QED BY <1>1, <1>4, <1>7, <2>1, <2>3, <3>1 DEF V3AmountOut
  <2>6. L * r \in Nat
    BY <1>2, <2>3
  <2> QED BY <1>2, <2>2, <2>4, <2>5, <2>6, TwiceQuotientLess
<1>8. CASE t # p.token0
  <2>1. PICK k \in Nat : k = (y * Q96) \div L /\ L * k <= y * Q96
    <3>1. y * Q96 \in Nat
      BY <1>2, <1>3
    <3> QED BY <1>2, <3>1, Quotient
  <2>2. PICK next \in Nat : next = NextSqrt(p, x, t) /\ next - s = k
    BY <1>1, <1>2, <1>3, <1>8, <2>1 DEF NextSqrt
  <2>3. PICK n \in Nat : n = L * k * Q96
    BY <1>2, <2>1
  <2>4. n <= x * Q96 * Q96
    <3>1. L * k \in Nat /\ y * Q96 \in Nat /\ x * Q96 \in Nat
      BY <1>2, <1>3, <2>1
    <3>2. y * Q96 <= x * Q96
      BY <1>2, <1>3, FactorsInOrder
    <3>3. L * k <= x * Q96
      BY <2>1, <3>1, <3>2
    <3> QED BY <1>2, <2>3, <3>1, <3>3, FactorsInOrder
  <2>5. StepFits(p, x, t)
    <3>1. x * Q96 * Q96 \in Nat
      BY <1>2
    <3>2. n < U256
      BY <1>2, <2>3, <2>4, <3>1
    <3>3. p.liquidity * (NextSqrt(p, x, t) - p.sqrtPrice) * Q96 = n
      BY <1>1, <2>2, <2>3
    <3> QED BY <1>2, <1>4, <1>8, <3>2, <3>3 DEF StepFits
  <2>6. PICK d \in Nat \ {0} : d = s * next
    BY <1>2, <2>1, <2>2
  <2>7. 2 * n < d * U128
    \* x * Q96 * Q96 < L * s * Q96 <= U128 * MinSqrt * s, and twice that is at
    \* most U128 * s * next
    <3>1. x * Q96 * Q96 < L * s * Q96
      <4>1. x * Q96 < L * s
        <5>1. (x + 1) * Q96 = x * Q96 + Q96 /\ x * Q96 \in Nat /\ L * s \in Nat
          BY <1>2
        <5> QED BY <1>2, <5>1
      <4>2. x * Q96 \in Nat /\ L * s \in Nat
        BY <1>2
      <4> QED BY <1>2, <4>1, <4>2, SmallerFactor
    <3>2. 2 * MinSqrt <= next
      BY <1>2, <2>1, <2>2
    <3>3. (U128 * s) * (2 * MinSqrt) <= (U128 * s) * next
      BY <1>2, <3>2, FactorsInOrder
    <3>4. PICK a, b, c, e \in Nat :
             /\ a = x * Q96 * Q96 /\ b = L * s * Q96
             /\ c = (U128 * MinSqrt) * s /\ e = d * U128
      BY <1>2, <2>6
    <3>5. b = (L * Q96) * s
      BY <1>2, <3>4
    <3>6. 2 * c = (U128 * s) * (2 * MinSqrt) /\ e = (U128 * s) * next
      BY <1>2, <2>6, <3>4
    <3>7. n <= a /\ a < b /\ b <= c /\ 2 * c <= e
      BY <1>6, <2>4, <3>1, <3>3, <3>4, <3>5, <3>6
    <3> QED BY <2>3, <3>4, <3>7
  <2>8. V3AmountOut(p, x, t) = n \div d
    <3>1. x # 0
      OBVIOUS
    <3> QED BY <1>1, <1>4, <1>8, <2>2, <2>3, <2>6, <3>1 DEF V3AmountOut
  <2> QED BY <1>2, <2>3, <2>5, <2>6, <2>7, <2>8, TwiceQuotientLess
<1> QED BY <1>7, <1>8

\* Where a quote is sure to come back: a pool in range takes any amount in
\* range in one step, without a panic and within the words of the code.
THEOREM InRangeReturns ==
    ASSUME NEW p \in V2Pairs \cup V3Pools, NEW x \in Nat, NEW t, InRange(p, x)
    PROVE  Returns(p, x, t)
<1>1. CASE p \in V2Pairs
  BY <1>1 DEF Returns, V2Pairs
<1>2. CASE p \in V3Pools /\ x = 0
  BY <1>2 DEF Returns, V3Returns
<1>3. CASE p \in V3Pools /\ x # 0
  BY <1>3, V3StopsShort, V3StepFits DEF Returns, V3Returns
<1> QED BY <1>1, <1>2, <1>3

\* Less than an amount in range is in range.
LEMMA LessInRange ==
    ASSUME NEW p \in V2Pairs \cup V3Pools, NEW x \in Nat, NEW y \in 0 .. x,
           InRange(p, x)
    PROVE  InRange(p, y)
<1>1. CASE p.kind = "v2"
  BY <1>1 DEF InRange
<1>2. CASE p.kind # "v2"
  <2>1. PICK L, s : L = p.liquidity /\ s = p.sqrtPrice
    OBVIOUS
  <2>2. L \in Nat /\ s \in Nat /\ Q96 \in Nat /\ y \in Nat /\ y <= x
    BY <1>2, <2>1, AmmAssumption, SMT DEF AmmAssumption, V2Pairs, V3Pools
  <2>3. /\ (y + 1) * s <= (x + 1) * s /\ (y + 1) * s \in Nat /\ (x + 1) * s \in Nat
        /\ (y + 1) * Q96 <= (x + 1) * Q96
        /\ (y + 1) * Q96 \in Nat /\ (x + 1) * Q96 \in Nat
    BY <2>2, FactorsInOrder
  <2>4. y * Q96 * Q96 <= x * Q96 * Q96
        /\ y * Q96 * Q96 \in Nat /\ x * Q96 * Q96 \in Nat
    <3>1. y * Q96 <= x * Q96 /\ y * Q96 \in Nat /\ x * Q96 \in Nat
      BY <2>2, FactorsInOrder
    <3> QED BY <2>2, <3>1, FactorsInOrder
  <2>5. L * Q96 \in Nat /\ L * s \in Nat /\ U128 \in Nat /\ U256 \in Nat
    BY <2>2, AmmAssumption, SMT DEF AmmAssumption
  <2>6. /\ (y + 1) * s <= L * Q96 /\ (y + 1) * Q96 <= L * s
        /\ 2 * y < U128 /\ y * Q96 * Q96 < U256
    BY <1>2, <2>1, <2>2, <2>3, <2>4, <2>5 DEF InRange
  <2> QED BY <1>2, <2>1, <2>6 DEF InRange
<1> QED BY <1>1, <1>2

----------------------------------------------------------------------------
(***************************************************************************)
(* Amounts along a route.  A route has at most MaxHops hops, so that the   *)
(* recursive functions of the model are known by their first values.       *)
(***************************************************************************)

\* A map of copies.
Copies(R) == DOMAIN R \subseteq Addresses /\ \A a \in DOMAIN R : IsCopy(a, R[a])

\* A route has as many pools as its path has hops.
WellFormed(r) == /\ r \in Routes
                 /\ Len(r.pools) \in 1 .. MaxHops
                 /\ Len(r.path) = Len(r.pools) + 1

\* Each pool of the route is known and joins the tokens of its hop.
Through(R, r) ==
    \A i \in 1 .. Len(r.pools) :
       r.pools[i] \in DOMAIN R /\ Joins(R, r.pools[i], r.path[i], r.path[i + 1])

LEMMA AlongEquation ==
    ASSUME NEW R, NEW r, WellFormed(r), NEW x
    PROVE  LET f == AmountsAlong(R, r, x)
           IN  /\ f[0] = x
               /\ \A i \in 1 .. Len(r.pools) :
                     f[i] = AmountOut(R[r.pools[i]], f[i - 1], r.path[i])
<1> DEFINE n == Len(r.pools)
           Out(i, y) == AmountOut(R[r.pools[i]], y, r.path[i])
           Eq(f) == f = [i \in 0 .. n |-> IF i = 0 THEN x ELSE Out(i, f[i - 1])]
           one == Out(1, x)
           two == Out(2, one)
           w == [i \in 0 .. n |-> IF i = 0 THEN x ELSE IF i = 1 THEN one
                                  ELSE IF i = 2 THEN two ELSE Out(3, two)]
           f == AmountsAlong(R, r, x)
<1>1. n \in 1 .. 3
  BY DEF WellFormed, MaxHops
<1>2. f = CHOOSE g : Eq(g)
  BY DEF AmountsAlong
<1>3. Eq(w)
  <2> HIDE DEF n, Out
  <2>1. ASSUME NEW i \in 0 .. n
        PROVE  w[i] = IF i = 0 THEN x ELSE Out(i, w[i - 1])
    BY <1>1
  <2> QED BY <2>1
<1>4. Eq(f)
  <2> HIDE DEF Eq, w, f
  <2> QED BY <1>2, <1>3
<1> HIDE DEF f, n, Out
<1> QED BY <1>1, <1>4 DEF f, n, Out

LEMMA PaidEquation ==
    ASSUME NEW c, NEW path \in Seq(Tokens), Len(path) - 1 \in 1 .. MaxHops, NEW x
    PROVE  LET f == PaidAlong(c, path, x)
           IN  /\ f[0] = x
               /\ \A i \in 1 .. Len(path) - 1 :
                     f[i] = ChainOut(f[i - 1],
                                     ReserveIn(PairAt(c, path, i), path[i]),
                                     ReserveOut(PairAt(c, path, i), path[i]))
<1> DEFINE n == Len(path) - 1
           Out(i, y) == ChainOut(y, ReserveIn(PairAt(c, path, i), path[i]),
                                    ReserveOut(PairAt(c, path, i), path[i]))
           Eq(f) == f = [i \in 0 .. n |-> IF i = 0 THEN x ELSE Out(i, f[i - 1])]
           one == Out(1, x)
           two == Out(2, one)
           w == [i \in 0 .. n |-> IF i = 0 THEN x ELSE IF i = 1 THEN one
                                  ELSE IF i = 2 THEN two ELSE Out(3, two)]
           f == PaidAlong(c, path, x)
<1>1. n \in 1 .. 3
  BY DEF MaxHops
<1>2. f = CHOOSE g : Eq(g)
  BY DEF PaidAlong
<1>3. Eq(w)
  <2> HIDE DEF n, Out
  <2>1. ASSUME NEW i \in 0 .. n
        PROVE  w[i] = IF i = 0 THEN x ELSE Out(i, w[i - 1])
    BY <1>1
  <2> QED BY <2>1
<1>4. Eq(f)
  <2> HIDE DEF Eq, w, f
  <2> QED BY <1>2, <1>3
<1> HIDE DEF f, n, Out
<1> QED BY <1>1, <1>4 DEF f, n, Out

LEMMA AlongIsNat ==
    ASSUME NEW R, Copies(R), NEW r, WellFormed(r), Through(R, r), NEW x \in Nat
    PROVE  \A i \in 0 .. Len(r.pools) : AmountsAlong(R, r, x)[i] \in Nat
<1> DEFINE n == Len(r.pools)
           f == AmountsAlong(R, r, x)
<1>1. n \in 1 .. 3
  BY DEF WellFormed, MaxHops
<1>2. ASSUME NEW i \in 1 .. n, f[i - 1] \in Nat PROVE f[i] \in Nat
  <2>1. f[i] = AmountOut(R[r.pools[i]], f[i - 1], r.path[i])
    BY AlongEquation
  <2>2. R[r.pools[i]] \in V2Pairs \cup V3Pools
    BY DEF Copies, IsCopy, Through
  <2> HIDE DEF f
  <2> QED BY <1>2, <2>1, <2>2, OutIsNat
<1>3. f[0] \in Nat
  <2>1. f[0] = x
    BY AlongEquation
  <2> HIDE DEF f
  <2> QED BY <2>1
<1> HIDE DEF f, n
<1>4. f[1] \in Nat
  BY <1>1, <1>2, <1>3
<1>5. n >= 2 => f[2] \in Nat
  BY <1>1, <1>2, <1>4
<1>6. n >= 3 => f[3] \in Nat
  BY <1>1, <1>2, <1>5
<1>7. \A i \in 0 .. n : f[i] \in Nat
  BY <1>1, <1>3, <1>4, <1>5, <1>6
<1> QED BY <1>7 DEF f, n

LEMMA OutputIsNat ==
    ASSUME NEW R, Copies(R), NEW r, WellFormed(r), Through(R, r), NEW x \in Nat
    PROVE  Output(R, r, x) \in Nat
<1>1. Len(r.pools) \in 0 .. Len(r.pools)
  BY DEF WellFormed, MaxHops
<1> QED BY <1>1, AlongIsNat DEF Output

\* The pairs that the router trades a path through are pairs.
LEMMA TradedPairs ==
    ASSUME Copies(chain), DOMAIN chain = Addresses, NEW path, Tradable(chain, path),
           NEW i \in 1 .. Len(path) - 1
    PROVE  PairAt(chain, path, i) \in V2Pairs
<1>1. PICK a \in PairsOf(chain, path[i], path[i + 1]) :
         PairAt(chain, path, i) = chain[a]
  BY DEF Tradable, PairAt
<1>2. a \in Canonical /\ a \in Addresses /\ InitialChain[a].kind = "v2"
  BY PricingAssumption DEF PairsOf, PricingAssumption
<1>3. chain[a] \in V2Pairs \cup V3Pools /\ chain[a].kind = "v2"
  BY <1>2 DEF Copies, IsCopy
<1> QED BY <1>1, <1>3 DEF V3Pools

LEMMA PaidIsNat ==
    ASSUME Copies(chain), DOMAIN chain = Addresses,
           NEW path \in Seq(Tokens), Len(path) - 1 \in 1 .. MaxHops,
           Tradable(chain, path), NEW x \in Nat
    PROVE  \A i \in 0 .. Len(path) - 1 : PaidAlong(chain, path, x)[i] \in Nat
<1> DEFINE n == Len(path) - 1
           f == PaidAlong(chain, path, x)
<1>1. n \in 1 .. 3
  BY DEF MaxHops
<1>2. ASSUME NEW i \in 1 .. n, f[i - 1] \in Nat PROVE f[i] \in Nat
  <2> DEFINE p == PairAt(chain, path, i)
  <2>1. f[i] = ChainOut(f[i - 1], ReserveIn(p, path[i]), ReserveOut(p, path[i]))
    BY PaidEquation
  <2>2. p \in V2Pairs
    BY TradedPairs
  <2> HIDE DEF f, p
  <2>3. ReserveIn(p, path[i]) \in Nat /\ ReserveOut(p, path[i]) \in Nat
    BY <2>2 DEF ReserveIn, ReserveOut, V2Pairs
  <2> QED BY <1>2, <2>1, <2>3, ChainOutInRange
<1>3. f[0] \in Nat
  BY PaidEquation
<1> HIDE DEF f, n
<1>4. f[1] \in Nat
  BY <1>1, <1>2, <1>3
<1>5. n >= 2 => f[2] \in Nat
  BY <1>1, <1>2, <1>4
<1>6. n >= 3 => f[3] \in Nat
  BY <1>1, <1>2, <1>5
<1>7. \A i \in 0 .. n : f[i] \in Nat
  BY <1>1, <1>3, <1>4, <1>5, <1>6
<1> QED BY <1>7 DEF f, n

\* Two tokens have one pair.
LEMMA OnePair ==
    ASSUME Copies(chain), DOMAIN chain = Addresses, NEW path, NEW i,
           NEW a \in Canonical, Joins(chain, a, path[i], path[i + 1])
    PROVE  PairAt(chain, path, i) = chain[a]
<1>1. \A b \in Canonical : /\ b \in Addresses
                           /\ chain[b].token0 = InitialChain[b].token0
                           /\ chain[b].token1 = InitialChain[b].token1
  BY PricingAssumption DEF PricingAssumption, Copies, IsCopy
<1>2. ASSUME NEW b \in PairsOf(chain, path[i], path[i + 1]) PROVE b = a
  <2>1. b \in Canonical /\ Joins(chain, b, path[i], path[i + 1])
    BY DEF PairsOf
  <2>2. {InitialChain[a].token0, InitialChain[a].token1}
           = {InitialChain[b].token0, InitialChain[b].token1}
    BY <1>1, <2>1 DEF Joins
  <2> QED BY <2>1, <2>2, PricingAssumption DEF PricingAssumption
<1>3. a \in PairsOf(chain, path[i], path[i + 1])
  BY DEF PairsOf
<1> QED BY <1>2, <1>3 DEF PairAt

\* Hop by hop the chain pays what exact copies of its pairs answer.
LEMMA FreshRoutePays ==
    ASSUME FeeBps = 30, Copies(chain), DOMAIN chain = Addresses, Copies(router),
           NEW r, WellFormed(r), Through(router, r), Fresh(r), NEW x \in Nat
    PROVE  Paid(chain, r.path, x) = Output(router, r, x)
<1> DEFINE n == Len(r.pools)
           f == AmountsAlong(router, r, x)
           g == PaidAlong(chain, r.path, x)
<1>1. /\ n \in 1 .. 3 /\ Len(r.path) - 1 = n /\ Len(r.path) - 1 \in 1 .. MaxHops
      /\ r.path \in Seq(Tokens) /\ r.pools \in Seq(Addresses)
  BY DEF WellFormed, MaxHops, Routes
<1>2. DOMAIN r.pools = 1 .. n
  BY <1>1
<1>3. ASSUME NEW i \in 1 .. n, g[i - 1] = f[i - 1] PROVE g[i] = f[i]
  <2> DEFINE a == r.pools[i]
             t == r.path[i]
             p == chain[a]
  <2>1. a \in Canonical /\ router[a] = p /\ Joins(router, a, t, r.path[i + 1])
    BY <1>2 DEF Fresh, Through
  <2>2. PairAt(chain, r.path, i) = p
    <3>1. Joins(chain, a, r.path[i], r.path[i + 1])
      BY <2>1 DEF Joins
    <3> QED BY <2>1, <3>1, OnePair
  <2>3. p \in V2Pairs
    <3>1. a \in Addresses /\ InitialChain[a].kind = "v2"
      BY <2>1, PricingAssumption DEF PricingAssumption
    <3> QED BY <3>1 DEF Copies, IsCopy, V3Pools
  <2>4. f[i] = AmountOut(p, f[i - 1], t)
    <3>1. f[i] = AmountOut(router[a], f[i - 1], t)
      BY AlongEquation
    <3>2. router[a] = p
      BY <2>1
    <3> HIDE DEF f, a, t, p
    <3> QED BY <3>1, <3>2
  <2>5. g[i] = ChainOut(g[i - 1], ReserveIn(p, t), ReserveOut(p, t))
    <3> DEFINE q == PairAt(chain, r.path, i)
    <3>1. i \in 1 .. Len(r.path) - 1
      BY <1>1
    <3>2. g[i] = ChainOut(g[i - 1], ReserveIn(q, t), ReserveOut(q, t))
      BY <1>1, <3>1, PaidEquation
    <3> HIDE DEF g, q, t, p
    <3> QED BY <2>2, <3>2 DEF q
  <2>6. f[i - 1] \in Nat
    BY <1>1, AlongIsNat
  <2> HIDE DEF f, g, p, t
  <2>7. /\ ReserveIn(p, t) \in Nat /\ ReserveOut(p, t) \in Nat /\ p.kind = "v2"
    BY <2>3 DEF ReserveIn, ReserveOut, V2Pairs
  <2>8. f[i] = V2Out(f[i - 1], ReserveIn(p, t), ReserveOut(p, t))
    BY <2>4, <2>7 DEF AmountOut, V2AmountOut
  <2> QED BY <1>3, <2>5, <2>6, <2>7, <2>8, LocalFormulaIsThePairs
<1>4. f[0] = x
  BY AlongEquation
<1>5. g[0] = x
  BY <1>1, PaidEquation
<1>6. Paid(chain, r.path, x) = g[n] /\ Output(router, r, x) = f[n]
  BY <1>1 DEF Paid, Output
<1> HIDE DEF f, g, n
<1>7. g[1] = f[1]
  BY <1>1, <1>3, <1>4, <1>5
<1>8. n >= 2 => g[2] = f[2]
  BY <1>1, <1>3, <1>7
<1>9. n >= 3 => g[3] = f[3]
  BY <1>1, <1>3, <1>8
<1> QED BY <1>1, <1>6, <1>7, <1>8, <1>9

LEMMA Lengths ==
    ASSUME NEW r, WellFormed(r)
    PROVE  /\ Len(r.pools) \in 1 .. MaxHops /\ Len(r.path) \in 2 .. MaxHops + 1
           /\ Len(r.path) = Len(r.pools) + 1
<1> DEFINE n == Len(r.pools)
<1>1. n \in 1 .. 3 /\ Len(r.path) = n + 1
  BY DEF WellFormed, MaxHops
<1> HIDE DEF n
<1>2. n + 1 \in 2 .. 4
  BY <1>1
<1> QED BY <1>1, <1>2 DEF n, MaxHops

----------------------------------------------------------------------------
(* What the search finds.                                                  *)

Closed(r) == r.path[1] = r.path[Len(r.path)]

LEMMA FoundRoutes ==
    ASSUME NEW R, Copies(R), NEW tin, NEW tout, NEW most \in 1 .. MaxHops,
           NEW r \in FindAllRoutes(R, tin, tout, most)
    PROVE  /\ WellFormed(r) /\ Through(R, r) /\ ~Closed(r)
           /\ Len(r.pools) <= most /\ r.path[1] = tin
           /\ r.path[Len(r.path)] = tout
<1>0. PICK n \in 1 .. most :
        \E path \in SimplePaths(tin, tout, n) : r \in RoutesAlong(R, path)
  BY DEF FindAllRoutes
<1>1. PICK path \in SimplePaths(tin, tout, n) : r \in RoutesAlong(R, path)
  BY <1>0
<1>2. /\ path \in [1 .. n + 1 -> Tokens] /\ n \in 1 .. MaxHops
      /\ path[1] = tin /\ path[n + 1] = tout
      /\ path[1] = path[n + 1] => 1 = n + 1
  BY <1>1 DEF SimplePaths, MaxHops
<1>3. path \in Seq(Tokens) /\ Len(path) = n + 1
  BY <1>2 DEF MaxHops
<1>4. PICK hops \in [1 .. n -> DOMAIN R] :
         /\ r = [pools |-> hops, path |-> path]
         /\ \A i \in 1 .. n : Joins(R, hops[i], path[i], path[i + 1])
  <2>1. Len(path) - 1 = n
    BY <1>2, <1>3 DEF MaxHops
  <2> QED BY <1>1, <2>1 DEF RoutesAlong
<1>5. hops \in Seq(Addresses) /\ Len(hops) = n
  BY <1>2, <1>4 DEF Copies, MaxHops
<1>6. r.path = path /\ r.pools = hops
  BY <1>4
<1>7. WellFormed(r)
  <2>1. r \in Routes
    BY <1>3, <1>4, <1>5 DEF Routes
  <2> QED BY <1>2, <1>3, <1>5, <1>6, <2>1 DEF WellFormed
<1>8. Through(R, r)
  BY <1>4, <1>5, <1>6 DEF Through
<1> QED BY <1>2, <1>3, <1>5, <1>6, <1>7, <1>8 DEF Closed, MaxHops

LEMMA FoundLoops ==
    ASSUME NEW R, Copies(R), NEW t \in Tokens, NEW r \in Loops(R, t)
    PROVE  WellFormed(r) /\ Through(R, r) /\ Len(r.path) > 2
<1>1. PICK a \in {a \in DOMAIN R : t \in {R[a].token0, R[a].token1}} :
        \E s \in FindAllRoutes(R, OtherToken(R[a], t), t, MaxHops - 1) :
            r = [pools |-> <<a>> \o s.pools, path |-> <<t>> \o s.path]
  BY DEF Loops
<1>2. PICK s \in FindAllRoutes(R, OtherToken(R[a], t), t, MaxHops - 1) :
            r = [pools |-> <<a>> \o s.pools, path |-> <<t>> \o s.path]
  BY <1>1
<1>3. /\ WellFormed(s) /\ Through(R, s) /\ Len(s.pools) <= 2
      /\ s.path[1] = OtherToken(R[a], t)
  <2>1. MaxHops - 1 \in 1 .. MaxHops /\ MaxHops - 1 = 2
    BY DEF MaxHops
  <2> QED BY <1>2, <2>1, FoundRoutes
<1> DEFINE k == Len(s.pools)
<1>4. /\ s.pools \in Seq(Addresses) /\ s.path \in Seq(Tokens)
      /\ k \in 1 .. 2 /\ Len(s.path) = k + 1
  BY <1>3 DEF WellFormed, Routes, MaxHops
<1> HIDE DEF k
<1>5. /\ r.pools \in Seq(Addresses) /\ Len(r.pools) = k + 1
      /\ r.pools[1] = a /\ \A i \in 1 .. k : r.pools[i + 1] = s.pools[i]
  <2>1. <<a>> \in Seq(Addresses) /\ Len(<<a>>) = 1 /\ <<a>>[1] = a
    BY <1>1 DEF Copies
  <2>2. r.pools = <<a>> \o s.pools
    BY <1>2
  <2>3. /\ r.pools \in Seq(Addresses) /\ Len(r.pools) = 1 + k
        /\ \A i \in 1 .. 1 + k :
              r.pools[i] = IF i <= 1 THEN <<a>>[i] ELSE s.pools[i - 1]
    BY <1>4, <2>1, <2>2, ConcatProperties DEF k
  <2> QED BY <1>4, <2>1, <2>3
<1>6. /\ r.path \in Seq(Tokens) /\ Len(r.path) = k + 2
      /\ r.path[1] = t /\ \A i \in 1 .. k + 1 : r.path[i + 1] = s.path[i]
  <2>1. <<t>> \in Seq(Tokens) /\ Len(<<t>>) = 1 /\ <<t>>[1] = t
    OBVIOUS
  <2>2. r.path = <<t>> \o s.path
    BY <1>2
  <2>3. /\ r.path \in Seq(Tokens) /\ Len(r.path) = 1 + (k + 1)
        /\ \A i \in 1 .. 1 + (k + 1) :
              r.path[i] = IF i <= 1 THEN <<t>>[i] ELSE s.path[i - 1]
    BY <1>4, <2>1, <2>2, ConcatProperties
  <2> QED BY <1>4, <2>1, <2>3
<1>7. r \in Routes
  BY <1>2, <1>5, <1>6 DEF Routes
<1>8. Joins(R, a, t, s.path[1])
  BY <1>1, <1>3 DEF Joins, OtherToken
<1>9. ASSUME NEW i \in 1 .. k + 1
      PROVE  r.pools[i] \in DOMAIN R /\ Joins(R, r.pools[i], r.path[i], r.path[i + 1])
  <2>1. CASE i = 1
    BY <1>1, <1>4, <1>5, <1>6, <1>8, <2>1
  <2>2. CASE i # 1
    <3>1. i - 1 \in 1 .. k /\ (i - 1) + 1 = i
      BY <1>4, <2>2
    <3>2. /\ r.pools[i] = s.pools[i - 1] /\ r.path[i] = s.path[i - 1]
          /\ r.path[i + 1] = s.path[i]
      BY <1>4, <1>5, <1>6, <3>1, SMTT(30)
    <3> QED BY <1>3, <3>1, <3>2 DEF Through, k
  <2> QED BY <2>1, <2>2
<1> QED BY <1>4, <1>5, <1>6, <1>7, <1>9 DEF WellFormed, Through, MaxHops

----------------------------------------------------------------------------
(* The invariant of the engine's calls.                                    *)

\* Through the router of the chain a loop of two hops brings nothing.
Reported(r) == WellFormed(r) /\ (Closed(r) => Len(r.path) = MaxHops + 1)

Loading(k) == \E todo \in Seq(Addresses), l \in Nat \cup {NotRead} :
                 k = [op |-> "load", todo |-> todo, liquidity |-> l]
Quoting(k) == \E r \in Routes, x \in Amounts, e \in Nat :
                 /\ k = [op |-> "quote", route |-> r, amount |-> x, expected |-> e]
                 /\ WellFormed(r) /\ Through(router, r) /\ ~Closed(r)
Scanning(k) == \E loops \in SUBSET Routes, x \in Amounts :
                 /\ k = [op |-> "scan", amount |-> x, todo |-> loops]
                 /\ \A r \in loops : /\ WellFormed(r) /\ Through(router, r)
                                     /\ Len(r.path) > 2

\* A call under way goes through the router's copies, which only a load
\* replaces; and a load starts by forgetting the quotes.
CallInv ==
    /\ call = NoCall \/ call = Stuck \/ Loading(call) \/ Quoting(call)
         \/ Scanning(call)
    /\ call.op = "load" => quotes = {}
    /\ \A q \in quotes : Reported(q.route)

IInv == TypeOK /\ CallInv

CopiesInv == /\ Copies(chain) /\ DOMAIN chain = Addresses
             /\ Copies(pools) /\ Copies(router) /\ DOMAIN router \subseteq DOMAIN pools

LEMMA TypeIsCopies ==
    TypeOK <=> CopiesInv /\ quotes \subseteq Quotes /\ moves \in 0 .. MaxMoves
BY DEF TypeOK, CopiesInv, Copies

LEMMA CallKinds ==
    ASSUME CallInv
    PROVE  /\ call.op = "load" => Loading(call) /\ quotes = {}
           /\ call.op = "quote" => Quoting(call)
           /\ call.op = "scan" => Scanning(call)
<1>1. Loading(call) => call.op = "load"
  BY DEF Loading
<1>2. Quoting(call) => call.op = "quote"
  BY DEF Quoting
<1>3. Scanning(call) => call.op = "scan"
  BY DEF Scanning
<1>4. call = NoCall \/ call = Stuck => call.op \in {"none", "stuck"}
  BY DEF NoCall, Stuck
<1> QED BY <1>1, <1>2, <1>3, <1>4 DEF CallInv

LEMMA InitInv == Init => IInv
<1> SUFFICES ASSUME Init PROVE IInv
  OBVIOUS
<1>1. Copies(NoRouter) /\ DOMAIN NoRouter = {}
  BY DEF Copies, NoRouter
<1>2. Copies(InitialChain)
  BY PricingAssumption DEF PricingAssumption, Copies, IsCopy
<1>3. CopiesInv
  BY <1>1, <1>2 DEF Init, CopiesInv, Addresses
<1>4. TypeOK
  BY <1>3, TypeIsCopies, PricingAssumption DEF Init, PricingAssumption
<1>5. CallInv
  BY DEF Init, CallInv, NoCall
<1> QED BY <1>4, <1>5 DEF IInv

\* What the amounts of a route come to.
LEMMA ExpectedIsNat ==
    ASSUME Copies(router), NEW r, WellFormed(r), Through(router, r),
           NEW x \in Nat, NEW t, NEW g \in GasPools(router, t)
    PROVE  NetOutput(router, r, x, t, g) \in Nat
<1>1. Output(router, r, x) \in Nat
  BY OutputIsNat
<1>2. GasCostEth(r) \in Nat
  BY PricingAssumption DEF GasCostEth, WellFormed, MaxHops, PricingAssumption
<1>3. GasCost(router, r, t, g) \in Nat
  <2>1. CASE t = Weth \/ g = NoPool
    BY <1>2, <2>1 DEF GasCost
  <2>2. CASE t # Weth /\ g # NoPool
    <3>1. g \in DOMAIN router
      BY <2>2 DEF GasPools
    <3>2. router[g] \in V2Pairs \cup V3Pools
      BY <3>1 DEF Copies, IsCopy
    <3> QED BY <1>2, <2>2, <3>2, OutIsNat DEF GasCost
  <2> QED BY <2>1, <2>2
<1> DEFINE o == Output(router, r, x)
           c == GasCost(router, r, t, g)
<1>4. o \in Nat /\ c \in Nat
  BY <1>1, <1>3
<1> HIDE DEF o, c
<1>5. Minus(o, c) \in Nat
  BY <1>4 DEF Minus
<1> QED BY <1>5 DEF NetOutput, o, c

\* A route that the simulation accepts is paid a number.
LEMMA SimulatedIsNat ==
    ASSUME CopiesInv, NEW r, WellFormed(r), NEW x \in Amounts,
           Succeeds(chain, r.path, x)
    PROVE  Simulated(r, x) \in Nat /\ x \in Nat
<1>1. /\ r.path \in Seq(Tokens) /\ Len(r.path) - 1 \in 1 .. MaxHops
      /\ Len(r.path) - 1 \in 0 .. Len(r.path) - 1
  BY DEF WellFormed, Routes, MaxHops
<1>2. x \in Nat
  BY PricingAssumption DEF PricingAssumption
<1>3. PaidAlong(chain, r.path, x)[Len(r.path) - 1] \in Nat
  BY <1>1, <1>2, PaidIsNat DEF CopiesInv, Succeeds
<1> QED BY <1>2, <1>3 DEF Simulated, Paid

\* What a step of a quote or of a scan adds.
LEMMA QuoteIsTyped ==
    ASSUME CopiesInv, NEW r, WellFormed(r), NEW x \in Amounts, NEW e \in Nat,
           Succeeds(chain, r.path, x)
    PROVE  [route |-> r, amount |-> x, expected |-> e,
            simulated |-> Simulated(r, x), fresh |-> Fresh(r)] \in Quotes
<1>1. Fresh(r) \in BOOLEAN
  BY DEF Fresh
<1>2. Simulated(r, x) \in Nat /\ r \in Routes
  BY SimulatedIsNat DEF WellFormed
<1> QED BY <1>1, <1>2 DEF Quotes

LEMMA AcceptedIsReported ==
    ASSUME NEW r, NEW x, WellFormed(r), Len(r.path) > 2, Accepted(r, x)
    PROVE  Reported(r)
<1>1. Tradable(chain, r.path)
  BY DEF Accepted, Succeeds
<1>2. CASE Len(r.path) = 3 /\ r.path[1] = r.path[3]
  <2>1. {r.path[1], r.path[2]} = {r.path[2], r.path[3]}
    BY <1>2
  <2>2. 1 \in 1 .. Len(r.path) - 1 /\ 2 \in 1 .. Len(r.path) - 1
    BY <1>2
  <2>3. \A i, j \in 1 .. Len(r.path) - 1 :
            {r.path[i], r.path[i + 1]} = {r.path[j], r.path[j + 1]} => i = j
    BY <1>1 DEF Tradable
  <2>4. {r.path[1], r.path[1 + 1]} = {r.path[2], r.path[2 + 1]} => 1 = 2
    BY <2>2, <2>3
  <2> QED BY <2>1, <2>4
<1>3. CASE ~ (Len(r.path) = 3 /\ r.path[1] = r.path[3])
  <2>1. Len(r.path) \in 3 .. MaxHops + 1
    BY Lengths DEF MaxHops
  <2>2. Len(r.path) = 3 \/ Len(r.path) = MaxHops + 1
    BY <2>1 DEF MaxHops
  <2> QED BY <1>3, <2>2 DEF Reported, Closed
<1> QED BY <1>2, <1>3

\* A copy with another reserve, price or liquidity is a copy.
LEMMA CopyChanges ==
    ASSUME NEW a, NEW p, IsCopy(a, p), NEW m \in Nat, NEW n \in Nat,
           NEW s \in MinSqrt .. MaxSqrt
    PROVE  /\ p.kind = "v2" => IsCopy(a, [p EXCEPT !.reserve0 = m, !.reserve1 = n])
           /\ p.kind = "v3" => /\ IsCopy(a, [p EXCEPT !.liquidity = m])
                               /\ IsCopy(a, [p EXCEPT !.sqrtPrice = s, !.liquidity = m])
<1>1. CASE p \in V2Pairs
  <2> DEFINE q == [p EXCEPT !.reserve0 = m, !.reserve1 = n]
  <2>1. q \in V2Pairs /\ q.kind = p.kind /\ q.token0 = p.token0 /\ q.token1 = p.token1
    BY <1>1 DEF V2Pairs
  <2>2. p.kind = "v2"
    BY <1>1 DEF V2Pairs
  <2> QED BY <2>1, <2>2 DEF IsCopy
<1>2. CASE p \in V3Pools
  <2> DEFINE q == [p EXCEPT !.liquidity = m]
             u == [p EXCEPT !.sqrtPrice = s, !.liquidity = m]
  <2>1. q \in V3Pools /\ q.kind = p.kind /\ q.token0 = p.token0 /\ q.token1 = p.token1
    BY <1>2 DEF V3Pools
  <2>2. u \in V3Pools /\ u.kind = p.kind /\ u.token0 = p.token0 /\ u.token1 = p.token1
    BY <1>2 DEF V3Pools
  <2>3. p.kind = "v3"
    BY <1>2 DEF V3Pools
  <2> QED BY <2>1, <2>2, <2>3 DEF IsCopy
<1> QED BY <1>1, <1>2 DEF IsCopy

LEMMA ReadPoolKeeps ==
    ASSUME TypeOK, CallInv, ReadPool
    PROVE  TypeOK' /\ CallInv'
<1>1. PICK todo \in Seq(Addresses), l \in Nat \cup {NotRead} :
         call = [op |-> "load", todo |-> todo, liquidity |-> l]
  BY CallKinds DEF ReadPool, Loading
<1> DEFINE a == Head(todo)
<1>2. /\ todo # <<>> /\ quotes = {} /\ Keep(a)
      /\ chain[a].kind = "v3" => l # NotRead
  BY <1>1, CallKinds DEF ReadPool
<1>3. a \in Addresses /\ Tail(todo) \in Seq(Addresses)
  BY <1>2, HeadTailProperties
<1> HIDE DEF a
<1>4. CopiesInv /\ IsCopy(a, chain[a])
  BY <1>3, TypeIsCopies DEF CopiesInv, Copies
<1>5. IsCopy(a, Copy(a))
  <2>1. CASE chain[a].kind = "v2"
    BY <1>4, <2>1 DEF Copy
  <2>2. CASE chain[a].kind # "v2"
    <3>1. chain[a].kind = "v3"
      BY <1>4, <2>2 DEF IsCopy, V2Pairs, V3Pools
    <3>2. l \in Nat /\ call.liquidity = l
      BY <1>1, <1>2, <3>1
    <3>3. MinSqrt \in MinSqrt .. MaxSqrt
      BY AmmAssumption DEF AmmAssumption
    <3>4. IsCopy(a, [chain[a] EXCEPT !.liquidity = l])
      BY <1>4, <3>1, <3>2, <3>3, CopyChanges
    <3> QED BY <2>2, <3>2, <3>4 DEF Copy
  <2> QED BY <2>1, <2>2
<1>6. /\ pools' = [b \in DOMAIN pools \cup {a} |-> IF b = a THEN Copy(a) ELSE pools[b]]
      /\ UNCHANGED <<chain, router, quotes, moves>>
  BY <1>2 DEF Keep, Quiet
<1>7. DOMAIN pools' = DOMAIN pools \cup {a} /\ Copies(pools')
  <2>1. \A b \in DOMAIN pools \cup {a} :
           pools'[b] = IF b = a THEN Copy(a) ELSE pools[b]
    BY <1>6
  <2>2. DOMAIN pools' = DOMAIN pools \cup {a}
    BY <1>6
  <2> QED BY <1>3, <1>4, <1>5, <2>1, <2>2 DEF CopiesInv, Copies
<1>8. TypeOK'
  <2>1. Copies(pools)' /\ Copies(chain)' /\ Copies(router)'
    BY <1>4, <1>6, <1>7 DEF CopiesInv, Copies
  <2> QED BY <1>4, <1>6, <1>7, <2>1 DEF CopiesInv, Copies, TypeOK
<1>9. call' = [op |-> "load", todo |-> Tail(todo), liquidity |-> NotRead]
  BY <1>1, <1>2 DEF Keep
<1>10. Loading(call')
  BY <1>3, <1>9 DEF Loading
<1>11. quotes' = {}
  BY <1>2, <1>6
<1> QED BY <1>8, <1>10, <1>11 DEF CallInv, Loading

\* Calls keep the copies, and add quotes of their types.
LEMMA CallKeepsTypes ==
    ASSUME TypeOK, UNCHANGED <<chain, pools, router, moves>>,
           \A q \in quotes' : q \in quotes \/ q \in Quotes
    PROVE  TypeOK'
BY DEF TypeOK, IsCopy

LEMMA CallSteps ==
    ASSUME TypeOK, CallInv, Step \/ Ask, ~ReadPool, ~Loaded
    PROVE  TypeOK' /\ CallInv'
<1>0. CopiesInv /\ quotes \subseteq Quotes
  BY TypeIsCopies
<1>1. CASE Load \/ \E a \in Addresses : Refresh(a)
  <2>1. PICK todo \in Seq(Addresses) :
           call' = [op |-> "load", todo |-> todo, liquidity |-> NotRead]
    <3>1. CASE Load
      BY <3>1, PricingAssumption DEF Load, PricingAssumption
    <3>2. ASSUME NEW a \in Addresses, Refresh(a)
          PROVE  call' = [op |-> "load", todo |-> <<a>>, liquidity |-> NotRead]
                 /\ <<a>> \in Seq(Addresses)
      BY <3>2 DEF Refresh
    <3> QED BY <1>1, <3>1, <3>2
  <2>2. Loading(call')
    BY <2>1 DEF Loading
  <2>3. quotes' = {} /\ UNCHANGED <<chain, pools, router, moves>>
    BY <1>1 DEF Load, Refresh, Quiet
  <2> QED BY <2>2, <2>3, CallKeepsTypes DEF CallInv, Loading
<1>2. CASE ReadLiquidity
  <2>1. PICK todo \in Seq(Addresses), l \in Nat \cup {NotRead} :
           call = [op |-> "load", todo |-> todo, liquidity |-> l]
    BY <1>2, CallKinds DEF ReadLiquidity, Loading
  <2>2. todo # <<>> /\ quotes = {} /\ chain[Head(todo)].kind = "v3"
        /\ call' = [call EXCEPT !.liquidity = chain[Head(todo)].liquidity]
        /\ UNCHANGED <<chain, pools, router, moves, quotes>>
    BY <1>2, <2>1, CallKinds DEF ReadLiquidity, Quiet
  <2>3. Head(todo) \in Addresses
    BY <2>2, HeadTailProperties
  <2>4. chain[Head(todo)].liquidity \in Nat
    BY <1>0, <2>2, <2>3 DEF CopiesInv, Copies, IsCopy, V2Pairs, V3Pools
  <2>5. call' = [op |-> "load", todo |-> todo,
                 liquidity |-> chain[Head(todo)].liquidity]
    BY <2>1, <2>2
  <2>6. Loading(call')
    BY <2>4, <2>5 DEF Loading
  <2> QED BY <1>0, <2>2, <2>6, CallKeepsTypes DEF CallInv, Loading
<1>3. CASE LoadFails \/ QuoteFails \/ ScanDone
  <2>1. call' = NoCall /\ UNCHANGED <<chain, pools, router, moves, quotes>>
    BY <1>3 DEF LoadFails, QuoteFails, ScanDone, Quiet
  <2> QED BY <1>0, <2>1, CallKeepsTypes DEF CallInv, NoCall
<1>4. CASE QuoteSimulated
  <2>1. PICK r \in Routes, x \in Amounts, e \in Nat :
           /\ call = [op |-> "quote", route |-> r, amount |-> x, expected |-> e]
           /\ WellFormed(r) /\ ~Closed(r)
    BY <1>4, CallKinds DEF QuoteSimulated, Quoting
  <2> DEFINE q == [route |-> r, amount |-> x, expected |-> e,
                   simulated |-> Simulated(r, x), fresh |-> Fresh(r)]
  <2>2. /\ Succeeds(chain, r.path, x) /\ quotes' = {q} /\ call' = NoCall
        /\ UNCHANGED <<chain, pools, router, moves>>
    BY <1>4, <2>1 DEF QuoteSimulated, Quiet
  <2>3. q \in Quotes
    BY <1>0, <2>1, <2>2, QuoteIsTyped
  <2>4. Reported(q.route)
    BY <2>1 DEF Reported
  <2> HIDE DEF q
  <2> QED BY <2>2, <2>3, <2>4, CallKeepsTypes DEF CallInv, NoCall
<1>5. ASSUME NEW r \in IF call.op = "scan" THEN call.todo ELSE {}, LoopSimulated(r)
      PROVE  TypeOK' /\ CallInv'
  <2>1. PICK loops \in SUBSET Routes, x \in Amounts :
           /\ call = [op |-> "scan", amount |-> x, todo |-> loops]
           /\ \A s \in loops : /\ WellFormed(s) /\ Through(router, s)
                               /\ Len(s.path) > 2
    BY <1>5, CallKinds DEF LoopSimulated, Scanning
  <2>2. /\ r \in loops
        /\ call' = [op |-> "scan", amount |-> x, todo |-> loops \ {r}]
        /\ UNCHANGED <<chain, pools, router, moves>>
    BY <1>5, <2>1 DEF LoopSimulated, Quiet
  <2>3. Scanning(call)'
    <3>1. \A s \in loops \ {r} : /\ WellFormed(s) /\ Through(router', s)
                                 /\ Len(s.path) > 2
      BY <2>1, <2>2 DEF Through
    <3> QED BY <2>2, <3>1 DEF Scanning, Through
  <2>4. CASE UNCHANGED quotes
    BY <1>0, <2>2, <2>3, <2>4, CallKeepsTypes DEF CallInv
  <2>5. CASE Accepted(r, x)
    <3> DEFINE q == [route |-> r, amount |-> x, expected |-> Simulated(r, x),
                     simulated |-> Simulated(r, x), fresh |-> Fresh(r)]
    <3>1. q \in Quotes
      <4>1. Succeeds(chain, r.path, x) /\ WellFormed(r)
        BY <2>1, <2>2, <2>5 DEF Accepted
      <4>2. Simulated(r, x) \in Nat
        BY <1>0, <4>1, SimulatedIsNat
      <4> QED BY <1>0, <4>1, <4>2, QuoteIsTyped
    <3>2. Reported(q.route)
      BY <2>1, <2>2, <2>5, AcceptedIsReported
    <3>3. \A s \in quotes' : s \in quotes \/ s = q
      BY <1>5, <2>1 DEF LoopSimulated
    <3> HIDE DEF q
    <3> QED BY <1>0, <2>2, <2>3, <3>1, <3>2, <3>3, CallKeepsTypes DEF CallInv
  <2> QED BY <1>5, <2>1, <2>4, <2>5 DEF LoopSimulated
<1>6. ASSUME NEW t \in Tokens, NEW x \in Amounts, AskScan(t, x)
      PROVE  TypeOK' /\ CallInv'
  <2>1. quotes' = {} /\ UNCHANGED <<chain, pools, router, moves>>
    BY <1>6 DEF AskScan, Quiet
  <2>2. call' = Stuck \/ Scanning(call)'
    <3>1. \A r \in Loops(router, t) : /\ WellFormed(r) /\ Through(router', r)
                                      /\ Len(r.path) > 2
      BY <1>0, <2>1, FoundLoops DEF CopiesInv
    <3>2. Loops(router, t) \subseteq Routes
      BY <3>1 DEF WellFormed
    <3> QED BY <1>6, <3>1, <3>2 DEF AskScan, Scanning, Through
  <2> QED BY <2>1, <2>2, CallKeepsTypes DEF CallInv
<1>7. ASSUME NEW tin \in Tokens, NEW tout \in Tokens, NEW x \in Amounts, NEW g,
             AskQuote(tin, tout, x, g)
      PROVE  TypeOK' /\ CallInv'
  <2>1. quotes' = {} /\ UNCHANGED <<chain, pools, router, moves>>
        /\ g \in GasPools(router, tout)
    BY <1>7 DEF AskQuote, Quiet
  <2>2. call' = Stuck \/ Quoting(call)'
    <3>1. MaxHops \in 1 .. MaxHops /\ x \in Nat
      BY PricingAssumption DEF PricingAssumption, MaxHops
    <3>2. ASSUME NEW r \in FindAllRoutes(router, tin, tout, MaxHops)
          PROVE  /\ WellFormed(r) /\ Through(router', r) /\ ~Closed(r)
                 /\ NetOutput(router, r, x, tout, g) \in Nat
      <4>1. WellFormed(r) /\ Through(router, r) /\ ~Closed(r)
        BY <1>0, <3>1, FoundRoutes DEF CopiesInv
      <4> QED BY <1>0, <2>1, <3>1, <4>1, ExpectedIsNat DEF CopiesInv
    <3>3. CASE call' # Stuck
      <4>1. PICK r \in FindAllRoutes(router, tin, tout, MaxHops) :
               call' = [op |-> "quote", route |-> r, amount |-> x,
                        expected |-> NetOutput(router, r, x, tout, g)]
        BY <1>7, <3>3 DEF AskQuote
      <4>2. r \in Routes
        BY <3>2 DEF WellFormed
      <4> QED BY <3>2, <4>1, <4>2 DEF Quoting, Through
    <3> QED BY <3>3
  <2> QED BY <2>1, <2>2, CallKeepsTypes DEF CallInv
<1> QED BY <1>1, <1>2, <1>3, <1>4, <1>5, <1>6, <1>7 DEF Step, Ask

LEMMA LoadedKeeps ==
    ASSUME TypeOK, CallInv, Loaded
    PROVE  TypeOK' /\ CallInv'
<1>1. /\ quotes = {} /\ router' = pools /\ call' = NoCall
      /\ UNCHANGED <<chain, moves, pools, quotes>>
  BY CallKinds DEF Loaded, Quiet
<1>2. TypeOK'
  BY <1>1 DEF TypeOK, IsCopy
<1> QED BY <1>1, <1>2 DEF CallInv, NoCall

LEMMA OthersKeep ==
    ASSUME TypeOK, CallInv, Environment
    PROVE  TypeOK' /\ CallInv'
<1>0. CopiesInv /\ quotes \subseteq Quotes /\ moves \in 0 .. MaxMoves
  BY TypeIsCopies
<1>1. ASSUME NEW a \in Addresses, NEW p, IsCopy(a, p), Others,
             chain' = [chain EXCEPT ![a] = p]
      PROVE  TypeOK' /\ CallInv'
  <2>1. /\ UNCHANGED <<pools, router, call, quotes>> /\ moves' \in 0 .. MaxMoves
    BY <1>0, <1>1, PricingAssumption DEF Others, PricingAssumption
  <2>2. Copies(chain') /\ DOMAIN chain' = Addresses
    BY <1>0, <1>1 DEF CopiesInv, Copies
  <2>3. CopiesInv'
    <3>1. Copies(chain)' /\ Copies(pools)' /\ Copies(router)'
      BY <1>0, <2>1, <2>2 DEF CopiesInv, Copies
    <3> QED BY <1>0, <2>1, <2>2, <3>1 DEF CopiesInv
  <2>4. TypeOK'
    BY <1>0, <2>1, <2>3 DEF CopiesInv, Copies, TypeOK
  <2>5. CallInv'
    BY <2>1 DEF CallInv, Loading, Quoting, Scanning, Through
  <2> QED BY <2>4, <2>5
<1>2. ASSUME NEW a \in Addresses, NEW t \in Tokens, NEW x \in ChainAmounts,
             OthersSwap(a, t, x)
      PROVE  TypeOK' /\ CallInv'
  <2> DEFINE p == chain[a]
             out == ChainOut(x, ReserveIn(p, t), ReserveOut(p, t))
             paid0 == [p EXCEPT !.reserve0 = p.reserve0 + x, !.reserve1 = p.reserve1 - out]
             paid1 == [p EXCEPT !.reserve1 = p.reserve1 + x, !.reserve0 = p.reserve0 - out]
  <2>1. p.kind = "v2" /\ Others
    BY <1>2 DEF OthersSwap
  <2>2. IsCopy(a, p) /\ p \in V2Pairs
    BY <1>0, <2>1 DEF CopiesInv, Copies, IsCopy, V3Pools
  <2>3. p.reserve0 \in Nat /\ p.reserve1 \in Nat /\ x \in Nat
    BY <2>2, PricingAssumption DEF V2Pairs, PricingAssumption
  <2>4. out \in Nat /\ out <= ReserveOut(p, t)
    <3>1. ReserveIn(p, t) \in Nat /\ ReserveOut(p, t) \in Nat
      BY <2>3 DEF ReserveIn, ReserveOut
    <3> QED BY <2>3, <3>1, ChainOutInRange
  <2>5. MinSqrt \in MinSqrt .. MaxSqrt
    BY AmmAssumption DEF AmmAssumption
  <2>6. CASE t = p.token0
    <3>1. p.reserve0 + x \in Nat /\ p.reserve1 - out \in Nat
      <4>1. out <= p.reserve1
        BY <2>4, <2>6 DEF ReserveOut
      <4> HIDE DEF out, p
      <4> QED BY <2>3, <2>4, <4>1
    <3>2. IsCopy(a, paid0)
      <4> HIDE DEF out, p
      <4> QED BY <2>1, <2>2, <2>5, <3>1, CopyChanges
    <3>3. chain' = [chain EXCEPT ![a] = paid0]
      BY <1>2, <2>6 DEF OthersSwap
    <3> QED BY <1>1, <2>1, <3>2, <3>3
  <2>7. CASE t # p.token0
    <3>1. p.reserve1 + x \in Nat /\ p.reserve0 - out \in Nat
      <4>1. out <= p.reserve0
        BY <2>4, <2>7 DEF ReserveOut
      <4> HIDE DEF out, p
      <4> QED BY <2>3, <2>4, <4>1
    <3>2. IsCopy(a, paid1)
      <4> DEFINE m == p.reserve0 - out
                 n == p.reserve1 + x
      <4>1. IsCopy(a, [p EXCEPT !.reserve0 = m, !.reserve1 = n])
        BY <2>1, <2>2, <2>5, <3>1, CopyChanges
      <4> HIDE DEF m, n, p
      <4>2. [p EXCEPT !.reserve1 = n, !.reserve0 = m]
              = [p EXCEPT !.reserve0 = m, !.reserve1 = n]
        BY <2>2 DEF V2Pairs
      <4> QED BY <4>1, <4>2 DEF m, n
    <3>3. chain' = [chain EXCEPT ![a] = paid1]
      BY <1>2, <2>7 DEF OthersSwap
    <3> QED BY <1>1, <2>1, <3>2, <3>3
  <2> QED BY <2>6, <2>7
<1>3. ASSUME NEW a \in Addresses, NEW s \in V3Prices, NEW l \in V3Liquidities,
             OthersMoveV3(a, s, l)
      PROVE  TypeOK' /\ CallInv'
  <2> DEFINE p == chain[a]
             moved == [p EXCEPT !.sqrtPrice = s, !.liquidity = l]
  <2>1. p.kind = "v3" /\ Others /\ IsCopy(a, p)
    BY <1>0, <1>3 DEF OthersMoveV3, CopiesInv, Copies
  <2>2. IsCopy(a, moved)
    <3>1. s \in MinSqrt .. MaxSqrt /\ l \in Nat
      BY PricingAssumption DEF PricingAssumption
    <3> HIDE DEF p
    <3> QED BY <2>1, <3>1, CopyChanges
  <2>3. chain' = [chain EXCEPT ![a] = moved]
    BY <1>3 DEF OthersMoveV3
  <2> QED BY <1>1, <2>1, <2>2, <2>3
<1> QED BY <1>2, <1>3 DEF Environment

LEMMA StepInv == IInv /\ [Next]_vars => IInv'
<1> SUFFICES ASSUME TypeOK, CallInv, [Next]_vars PROVE TypeOK' /\ CallInv'
  BY DEF IInv
<1>1. CASE UNCHANGED vars
  <2>1. TypeOK'
    BY <1>1 DEF vars, TypeOK, IsCopy
  <2>2. CallInv'
    BY <1>1 DEF vars, CallInv, Loading, Quoting, Scanning, Through
  <2> QED BY <2>1, <2>2
<1> QED BY <1>1, ReadPoolKeeps, LoadedKeeps, CallSteps, OthersKeep DEF Next

----------------------------------------------------------------------------
(* What follows from it.                                                   *)

THEOREM Invariance == Spec => []IInv
BY InitInv, StepInv, PTL DEF Spec

\* Copies keep the tokens and the kind of their pools, with balances that are
\* never negative and a price of the chain's range, the router knows nothing
\* that was not loaded, and every quote is a number, whatever the routes.
THEOREM TypeCorrect == Spec => []TypeOK
<1>1. IInv => TypeOK
  BY DEF IInv
<1> QED BY <1>1, Invariance, PTL

\* Whatever pools, tokens and amounts there are, and however the chain moves:
\* a scan reports no gap between two pools of the same tokens, only triangles.
THEOREM TrianglesOnly == Spec => []ReportedLoopsAreTriangles
<1>1. IInv => ReportedLoopsAreTriangles
  <2>1. ASSUME NEW r, Reported(r), Closed(r) PROVE Len(r.pools) = 3
    <3> DEFINE n == Len(r.pools)
    <3>1. n \in 1 .. 3 /\ Len(r.path) = n + 1 /\ Len(r.path) = 4
      BY <2>1, Lengths DEF Reported, MaxHops
    <3> HIDE DEF n
    <3>2. n = 3
      BY <3>1
    <3> QED BY <3>2 DEF n
  <2> QED BY <2>1 DEF IInv, CallInv, Closed, ReportedLoopsAreTriangles
<1> QED BY <1>1, Invariance, PTL

\* A quote is compared with the copies it was made from: only a load replaces
\* those, and it forgets the quotes.
LEMMA StepKeepsExact ==
    ASSUME FeeBps = 30, IInv, FreshQuotesAreExact, [Next]_vars
    PROVE  FreshQuotesAreExact'
<1>0. TypeOK /\ CallInv /\ CopiesInv
  BY TypeIsCopies DEF IInv
<1>1. ASSUME router' = router,
             \A q \in quotes' : q \in quotes \/
                (q.fresh => q.simulated = Output(router, q.route, q.amount))
      PROVE  FreshQuotesAreExact'
  BY <1>1 DEF FreshQuotesAreExact
<1>2. ASSUME quotes' = {} PROVE FreshQuotesAreExact'
  BY <1>2 DEF FreshQuotesAreExact
<1>3. ASSUME NEW r, NEW x \in Amounts, NEW e, WellFormed(r), Through(router, r)
      PROVE  LET q == [route |-> r, amount |-> x, expected |-> e,
                       simulated |-> Simulated(r, x), fresh |-> Fresh(r)]
             IN  q.fresh => q.simulated = Output(router, q.route, q.amount)
  <2>1. x \in Nat
    BY PricingAssumption DEF PricingAssumption
  <2>2. Fresh(r) => Simulated(r, x) = Output(router, r, x)
    BY <1>0, <1>3, <2>1, FreshRoutePays DEF CopiesInv, Simulated
  <2> QED BY <2>2
<1>4. CASE QuoteSimulated
  <2>1. PICK r \in Routes, x \in Amounts, e \in Nat :
           /\ call = [op |-> "quote", route |-> r, amount |-> x, expected |-> e]
           /\ WellFormed(r) /\ Through(router, r)
    BY <1>0, <1>4, CallKinds DEF QuoteSimulated, Quoting
  <2> DEFINE q == [route |-> r, amount |-> x, expected |-> e,
                   simulated |-> Simulated(r, x), fresh |-> Fresh(r)]
  <2>2. quotes' = {q} /\ router' = router
    BY <1>4, <2>1 DEF QuoteSimulated
  <2>3. q.fresh => q.simulated = Output(router, q.route, q.amount)
    BY <1>3, <2>1
  <2> HIDE DEF q
  <2> QED BY <1>1, <2>2, <2>3
<1>5. ASSUME NEW r, LoopSimulated(r) PROVE FreshQuotesAreExact'
  <2>1. PICK x \in Amounts :
           call.amount = x /\ WellFormed(r) /\ Through(router, r)
    BY <1>0, <1>5, CallKinds DEF LoopSimulated, Scanning
  <2> DEFINE q == [route |-> r, amount |-> x, expected |-> Simulated(r, x),
                   simulated |-> Simulated(r, x), fresh |-> Fresh(r)]
  <2>2. router' = router /\ \A s \in quotes' : s \in quotes \/ s = q
    BY <1>5, <2>1 DEF LoopSimulated
  <2>3. q.fresh => q.simulated = Output(router, q.route, q.amount)
    BY <1>3, <2>1
  <2> HIDE DEF q
  <2> QED BY <1>1, <2>2, <2>3
<1>6. CASE Loaded
  <2>1. quotes' = {}
    BY <1>0, <1>6, CallKinds DEF Loaded
  <2> QED BY <1>2, <2>1
<1>7. CASE ReadLiquidity \/ ReadPool \/ LoadFails \/ QuoteFails \/ ScanDone
  BY <1>1, <1>7 DEF ReadLiquidity, ReadPool, Keep, LoadFails, QuoteFails, ScanDone
<1>8. CASE Ask
  BY <1>2, <1>8 DEF Ask, Load, Refresh, AskQuote, AskScan
<1>9. CASE Environment \/ UNCHANGED vars
  BY <1>1, <1>9 DEF Environment, OthersSwap, OthersMoveV3, Others, vars
<1> QED BY <1>4, <1>5, <1>6, <1>7, <1>8, <1>9 DEF Next, Step

\* With the fee of 30 basis points that from_chain gives its pairs, what the
\* engine computes from exact copies is what the chain pays, to the last unit,
\* for all pools, routes and amounts and whatever is loaded in between.
THEOREM ExactQuotes == FeeBps = 30 => (Spec => []FreshQuotesAreExact)
<1> SUFFICES ASSUME FeeBps = 30 PROVE Spec => []FreshQuotesAreExact
  OBVIOUS
<1>1. Init => FreshQuotesAreExact
  BY DEF Init, FreshQuotesAreExact
<1>2. IInv /\ FreshQuotesAreExact /\ [Next]_vars => FreshQuotesAreExact'
  BY StepKeepsExact
<1> QED BY <1>1, <1>2, Invariance, PTL DEF Spec

----------------------------------------------------------------------------
(* What can leave a call stuck.                                            *)

\* AmountBound is above every amount that comes up in a quote or a scan.
AmountsBounded ==
    \A tin, tout \in Tokens, x \in Amounts :
       \A r \in FindAllRoutes(router, tin, tout, MaxHops) \cup Loops(router, tin) :
          /\ GasCostEth(r) <= AmountBound
          /\ \A i \in 1 .. Len(r.pools) : AmountsAlong(router, r, x)[i - 1] <= AmountBound

\* A call that was not stuck is not stuck after a step from such copies.
OnlyOutOfRangeSticks ==
    /\ \A a \in DOMAIN router : InRange(router[a], AmountBound)
    /\ AmountsBounded
    /\ call # Stuck
    => call' # Stuck

LEMMA HopReturns ==
    ASSUME Copies(router), NEW a \in DOMAIN router, InRange(router[a], AmountBound),
           NEW x \in Nat, x <= AmountBound, NEW t
    PROVE  Returns(router[a], x, t)
<1>1. router[a] \in V2Pairs \cup V3Pools
  BY DEF Copies, IsCopy
<1>2. AmountBound \in Nat
  BY PricingAssumption DEF PricingAssumption
<1>3. x \in 0 .. AmountBound
  BY <1>2
<1>4. InRange(router[a], x)
  BY <1>1, <1>2, <1>3, LessInRange
<1> QED BY <1>1, <1>4, InRangeReturns

LEMMA BoundedRouteReturns ==
    ASSUME Copies(router), \A a \in DOMAIN router : InRange(router[a], AmountBound),
           NEW r, WellFormed(r), Through(router, r), NEW x \in Nat,
           \A i \in 1 .. Len(r.pools) : AmountsAlong(router, r, x)[i - 1] <= AmountBound
    PROVE  RouteReturns(router, r, x)
<1> DEFINE n == Len(r.pools)
<1>1. n \in 1 .. 3
  BY DEF WellFormed, MaxHops
<1>2. ASSUME NEW i \in 1 .. n
      PROVE  Returns(router[r.pools[i]], AmountsAlong(router, r, x)[i - 1], r.path[i])
  <2>1. i - 1 \in 0 .. n
    BY <1>1
  <2>2. AmountsAlong(router, r, x)[i - 1] \in Nat
    BY <2>1, AlongIsNat
  <2>3. r.pools[i] \in DOMAIN router
    BY DEF Through
  <2> HIDE DEF n
  <2> QED BY <2>2, <2>3, HopReturns DEF n
<1> QED BY <1>2 DEF RouteReturns

\* The other calls never wait for a pool's loop.
LEMMA OnlyQuestionsStick ==
    ASSUME CallInv, [Next]_vars, call # Stuck, call' = Stuck
    PROVE  \/ \E tin, tout \in Tokens, x \in Amounts, g \in Addresses \cup {NoPool} :
                 AskQuote(tin, tout, x, g)
           \/ \E t \in Tokens, x \in Amounts : AskScan(t, x)
<1>1. call'.op = "stuck" /\ call' # NoCall
  BY DEF Stuck, NoCall
<1>2. ~UNCHANGED vars /\ ~Environment
  <2>1. call' # call
    OBVIOUS
  <2> QED BY <2>1 DEF vars, Environment, OthersSwap, OthersMoveV3, Others
<1>3. ~Load /\ ~\E a \in Addresses : Refresh(a)
  BY <1>1 DEF Load, Refresh
<1>4. ~ReadLiquidity /\ ~ReadPool
  BY <1>1, CallKinds DEF ReadLiquidity, ReadPool, Keep, Loading
<1>5. ~LoadFails /\ ~Loaded /\ ~QuoteSimulated /\ ~QuoteFails /\ ~ScanDone
  BY <1>1 DEF LoadFails, Loaded, QuoteSimulated, QuoteFails, ScanDone
<1>6. ASSUME NEW r, LoopSimulated(r) PROVE FALSE
  BY <1>1, <1>6, CallKinds DEF LoopSimulated, Scanning
<1> QED BY <1>2, <1>3, <1>4, <1>5, <1>6 DEF Next, Step, Ask

LEMMA StepNeverSticksInRange == IInv /\ [Next]_vars => OnlyOutOfRangeSticks
<1> SUFFICES ASSUME IInv, [Next]_vars, call # Stuck, call' = Stuck, AmountsBounded,
                    \A a \in DOMAIN router : InRange(router[a], AmountBound)
             PROVE  FALSE
  BY DEF OnlyOutOfRangeSticks
<1>1. CallInv /\ Copies(router)
  BY TypeIsCopies DEF IInv, CopiesInv
<1>2. \A x \in Amounts : x \in Nat
  BY PricingAssumption DEF PricingAssumption
<1>3. ASSUME NEW tin \in Tokens, NEW tout \in Tokens, NEW x \in Amounts, NEW g,
             AskQuote(tin, tout, x, g)
      PROVE  FALSE
  <2> DEFINE routes == FindAllRoutes(router, tin, tout, MaxHops)
  <2>1. ASSUME NEW r \in routes
        PROVE  /\ RouteReturns(router, r, x)
               /\ g # NoPool => Returns(router[g], GasCostEth(r), Weth)
    <3>1. WellFormed(r) /\ Through(router, r)
      <4>1. MaxHops \in 1 .. MaxHops
        BY DEF MaxHops
      <4> QED BY <1>1, <4>1, FoundRoutes
    <3>2. /\ GasCostEth(r) <= AmountBound
          /\ \A i \in 1 .. Len(r.pools) :
                AmountsAlong(router, r, x)[i - 1] <= AmountBound
      BY DEF AmountsBounded
    <3>3. RouteReturns(router, r, x)
      BY <1>1, <1>2, <3>1, <3>2, BoundedRouteReturns
    <3>4. ASSUME g # NoPool PROVE Returns(router[g], GasCostEth(r), Weth)
      <4>1. g \in DOMAIN router
        BY <1>3, <3>4 DEF AskQuote, GasPools
      <4>2. GasCostEth(r) \in Nat
        <5> DEFINE k == Len(r.pools)
        <5>0. k \in 1 .. 3
          BY <3>1 DEF WellFormed, MaxHops
        <5> HIDE DEF k
        <5>1. PICK n \in Nat : n = k
          BY <5>0
        <5>2. GasUnit \in Nat
          BY PricingAssumption DEF PricingAssumption
        <5> QED BY <5>1, <5>2 DEF GasCostEth, k
      <4> QED BY <1>1, <3>2, <4>1, <4>2, HopReturns
    <3> QED BY <3>3, <3>4
  <2>2. AllReturn(router, routes, x, tout, g)
    BY <2>1 DEF AllReturn
  <2>3. PICK r : call' = [op |-> "quote", route |-> r, amount |-> x,
                          expected |-> NetOutput(router, r, x, tout, g)]
    BY <1>3, <2>2 DEF AskQuote
  <2> QED BY <2>3 DEF Stuck
<1>4. ASSUME NEW t \in Tokens, NEW x \in Amounts, AskScan(t, x)
      PROVE  FALSE
  <2>1. ASSUME NEW r \in Loops(router, t) PROVE RouteReturns(router, r, x)
    <3>1. WellFormed(r) /\ Through(router, r)
      BY <1>1, FoundLoops
    <3>2. \A i \in 1 .. Len(r.pools) : AmountsAlong(router, r, x)[i - 1] <= AmountBound
      BY DEF AmountsBounded
    <3> QED BY <1>1, <1>2, <3>1, <3>2, BoundedRouteReturns
  <2>2. call' = [op |-> "scan", amount |-> x,
                 todo |-> {r \in Loops(router, t) : Output(router, r, x) > x}]
    BY <1>4, <2>1 DEF AskScan
  <2> QED BY <2>2 DEF Stuck
<1> QED BY <1>1, <1>3, <1>4, OnlyQuestionsStick

\* The step that a call comes back in can be lost in one way only: a copy that
\* is out of range, or an amount that outgrew the bound on the way.  This is
\* what CallsReturn rests on, besides the fairness of the node's answers.
THEOREM NeverStuckInRange == Spec => [][OnlyOutOfRangeSticks]_vars
BY Invariance, StepNeverSticksInRange, PTL DEF Spec
=============================================================================
