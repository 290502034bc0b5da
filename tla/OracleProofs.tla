---------------------------- MODULE OracleProofs ----------------------------
(***************************************************************************)
(* What the three oracles keep true, for any prices, windows, bounds,      *)
(* rates and lengths of ranges, and whatever the feed answers.             *)
(*                                                                         *)
(* The prices that are set by hand implement BoundedPrice, the one that is *)
(* compared with the feed follows it, and can always be set again.  The    *)
(* price that accrues by the day never falls, and is compound interest but *)
(* for a stated error.  Those two are about _rpow, whose loop is a         *)
(* recursive function: its equation is solved here once, and what it       *)
(* computes is then shown by infinite descent.                             *)
(***************************************************************************)
EXTENDS MCOracles, WellFoundedInduction, TLAPS

-----------------------------------------------------------------------------
(* Quotients. *)

(* Rounding down loses less than the divisor. *)
LEMMA DivisionBounds ==
  ASSUME NEW k \in Nat, NEW m \in Nat \ {0}
  PROVE  k \div m \in Nat /\ (k \div m) * m <= k /\ k < (k \div m + 1) * m
OBVIOUS

(* The quotient is the only number with those bounds. *)
LEMMA QuotientIs ==
  ASSUME NEW k \in Nat, NEW m \in Nat \ {0}, NEW q \in Nat, q * m <= k, k < q * m + m
  PROVE  k \div m = q
<1> DEFINE d == k \div m
<1>1. d \in Nat /\ d * m <= k /\ k < d * m + m
  <2>1. (d + 1) * m = d * m + m
    BY DivisionBounds
  <2> QED  BY <2>1, DivisionBounds
<1> HIDE DEF d
<1>2. ASSUME NEW x \in Nat, NEW y \in Nat, x < y PROVE x * m + m <= y * m
  <2>1. (x + 1) * m <= y * m
    BY <1>2
  <2>2. (x + 1) * m = x * m + m
    OBVIOUS
  <2> QED  BY <2>1, <2>2
<1>3. d * m \in Nat /\ q * m \in Nat
  BY <1>1
<1>4. ~ (d < q) /\ ~ (q < d)
  BY <1>1, <1>2, <1>3
<1> QED  BY <1>1, <1>4 DEF d

(* Solidity's signed division is off by less than the divisor, on the side *)
(* of zero.                                                                *)
LEMMA TruncDivBounds ==
  ASSUME NEW a \in Int, NEW b \in Nat \ {0}
  PROVE  TruncDiv(a, b) \in Int /\ Abs(a - TruncDiv(a, b) * b) < b
<1> DEFINE k == Abs(a)
           q == k \div b
<1>1. k \in Nat /\ (a = k \/ a = -k) /\ (a >= 0 <=> a = k)
  BY DEF Abs
<1>2. q \in Nat /\ q * b <= k /\ k < (q + 1) * b
  <2> HIDE DEF k
  <2> QED  BY <1>1, DivisionBounds
<1>3. TruncDiv(a, b) = IF a >= 0 THEN q ELSE -q
  <2>1. b >= 0 /\ Abs(b) = b
    BY DEF Abs
  <2> QED  BY <2>1 DEF TruncDiv
<1> HIDE DEF k, q
<1>4. k - q * b >= 0 /\ k - q * b < b
  <2>1. (q + 1) * b = q * b + b /\ q * b \in Nat
    BY <1>2
  <2> QED  BY <1>1, <1>2, <2>1
<1>5. CASE a >= 0
  BY <1>1, <1>2, <1>3, <1>4, <1>5 DEF Abs
<1>6. CASE a < 0
  <2>1. (-q) * b = -(q * b) /\ q * b \in Nat
    BY <1>2
  <2> QED  BY <1>1, <1>2, <1>3, <1>4, <1>6, <2>1 DEF Abs
<1> QED  BY <1>5, <1>6

(* A quotient within n means a dividend below n + 1 divisors, and beyond n *)
(* one of at least that many.                                              *)
LEMMA TruncDivWithin ==
  ASSUME NEW a \in Int, NEW b \in Nat \ {0}, NEW n \in Nat
  PROVE  Abs(TruncDiv(a, b)) <= n <=> Abs(a) < (n + 1) * b
<1> DEFINE k == Abs(a)
           q == k \div b
<1>1. k \in Nat
  BY DEF Abs
<1>2. q \in Nat /\ q * b <= k /\ k < (q + 1) * b
  <2> HIDE DEF k
  <2> QED  BY <1>1, DivisionBounds
<1>3. Abs(TruncDiv(a, b)) = q
  <2>1. b >= 0 /\ Abs(b) = b
    BY DEF Abs
  <2>2. TruncDiv(a, b) = q \/ TruncDiv(a, b) = -q
    BY <2>1 DEF TruncDiv
  <2> HIDE DEF q
  <2> QED  BY <1>2, <2>2 DEF Abs
<1> HIDE DEF k, q
<1>4. CASE q <= n
  <2>1. (q + 1) * b <= (n + 1) * b /\ (q + 1) * b \in Nat /\ (n + 1) * b \in Nat
    BY <1>2, <1>4
  <2> QED  BY <1>1, <1>2, <1>3, <1>4, <2>1 DEF k
<1>5. CASE q >= n + 1
  <2>1. q * b >= (n + 1) * b /\ q * b \in Nat /\ (n + 1) * b \in Nat
    BY <1>2, <1>5
  <2> QED  BY <1>1, <1>2, <1>3, <1>5, <2>1 DEF k
<1> QED  BY <1>2, <1>4, <1>5

(* Rounding up exceeds by less than the divisor. *)
LEMMA MulDivUpBounds ==
  ASSUME NEW x \in Nat, NEW y \in Nat, NEW m \in Nat \ {0}
  PROVE  /\ MulDivUp(x, y, m) \in Nat
         /\ x * y <= MulDivUp(x, y, m) * m
         /\ MulDivUp(x, y, m) * m < x * y + m
<1> DEFINE k == x * y
           q == k \div m
           r == k % m
<1>1. k \in Nat
  OBVIOUS
<1>2. q \in Nat /\ r \in Nat /\ r < m /\ k = q * m + r
  <2> HIDE DEF k
  <2>1. q \in Nat /\ r \in 0 .. m - 1
    BY <1>1
  <2>2. k = m * q + r
    BY <1>1
  <2>3. m * q = q * m
    BY <2>1
  <2> QED  BY <2>1, <2>2, <2>3
<1>3. MulDivUp(x, y, m) = IF r > 0 THEN q + 1 ELSE q
  <2> HIDE DEF k
  <2> QED  BY <1>1, <1>2 DEF MulDivUp, k
<1> HIDE DEF q, r, k
<1>4. (q + 1) * m = q * m + m /\ q * m \in Nat
  BY <1>2
<1> QED  BY <1>1, <1>2, <1>3, <1>4 DEF k

-----------------------------------------------------------------------------
(* The oracle with a bounded rate of change. *)

RateInv == ratePrice \in Nat \ {0} /\ rateTimestamp \in Nat /\ now \in Nat

(* A price that setPrice accepts is within the bound, rounding included.   *)
LEMMA RateStepIsAReplacement ==
  ASSUME RateInv, NEW newPrice \in NewRatePrices, SetRatePrice(newPrice)
  PROVE  RateBound!Replace /\ RateInv'
<1>1. /\ newPrice \in Nat \ {0} /\ ratePrice \in Nat \ {0}
      /\ RATE_DENOMINATOR \in Nat \ {0} /\ RATE_DIFF_BPS \in Nat /\ MIN_RATE_WINDOW \in Nat
  BY RateAssumption DEF RateInv, SetRatePrice
<1> DEFINE d == IF newPrice > ratePrice THEN newPrice - ratePrice ELSE ratePrice - newPrice
           q == MulDivUp(d, RATE_DENOMINATOR, ratePrice)
<1>2. d \in Nat
  BY <1>1
<1>3. q \in Nat /\ d * RATE_DENOMINATOR <= q * ratePrice
  <2> HIDE DEF d
  <2> QED  BY <1>1, <1>2, MulDivUpBounds
<1>4. q <= RATE_DIFF_BPS
  BY DEF SetRatePrice, RateChangeBps
<1>5. RateBound!Distance(ratePrice, newPrice) = d
  BY <1>1 DEF RateBound!Distance
<1> HIDE DEF d, q
<1>6. d * RATE_DENOMINATOR <= RATE_DIFF_BPS * ratePrice
  <2>1. q * ratePrice <= RATE_DIFF_BPS * ratePrice
    BY <1>1, <1>3, <1>4
  <2>2. d * RATE_DENOMINATOR \in Nat /\ q * ratePrice \in Nat /\ RATE_DIFF_BPS * ratePrice \in Nat
    BY <1>1, <1>2, <1>3
  <2> QED  BY <1>3, <2>1, <2>2
<1>7. rateTimestamp' >= rateTimestamp + MIN_RATE_WINDOW
  BY <1>1 DEF SetRatePrice, RateInv
<1> QED  BY <1>1, <1>5, <1>6, <1>7 DEF SetRatePrice, RateInv, RateBound!Replace

(* RWAOracleRateCheck.setPrice: never more than RATE_DIFF_BPS of the price *)
(* before, and never twice in a window.                                    *)
THEOREM RateBounded == RateSpec => RateImplementsBoundedPrice
<1>1. ClockInit /\ RateInit => RateInv /\ RateBound!Init
  BY TimeAssumption, RateAssumption DEF ClockInit, RateInit, RateInv, RateBound!Init
<1>2. RateInv /\ [RateNext]_<<rateVars, now>>
        => RateInv' /\ [RateBound!Replace]_<<ratePrice, rateTimestamp>>
  <2> SUFFICES ASSUME RateInv, [RateNext]_<<rateVars, now>>
               PROVE  RateInv' /\ [RateBound!Replace]_<<ratePrice, rateTimestamp>>
    OBVIOUS
  <2>1. CASE RateTick \/ UNCHANGED <<rateVars, now>>
    BY <2>1 DEF RateTick, ClockTick, rateVars, RateInv
  <2> QED  BY <2>1, RateStepIsAReplacement DEF RateNext
<1> QED  BY <1>1, <1>2, PTL DEF RateSpec, RateImplementsBoundedPrice, RateBound!Spec

-----------------------------------------------------------------------------
(* The oracle that is compared with a feed. *)

(* A round that was priced with was complete: its answer is not negative.  *)
ComparisonInv == /\ rwaPrice \in Int /\ priceTimestamp \in Nat /\ now \in Nat
                 /\ lastSetRound \in Round /\ lastSetRound.answer >= 0
                 /\ feed \in Round

LEMMA ComparisonConstants ==
  /\ BPS_DENOMINATOR \in Nat \ {0} /\ MAX_ABSOLUTE_DIFF_BPS \in Nat
  /\ MAX_ABSOLUTE_DIFF_BPS < BPS_DENOMINATOR
  /\ MAX_CHANGE_DIFF_BPS \in Nat /\ MIN_PRICE_UPDATE_WINDOW \in Nat
BY ComparisonAssumption

LEMMA ComparisonInitInv == ClockInit /\ ComparisonInit => ComparisonInv
BY TimeAssumption, ComparisonAssumption
DEF ClockInit, ComparisonInit, Uncorrupted, ComparisonInv, Round

LEMMA ComparisonStepInv ==
  ComparisonInv /\ [ComparisonNext]_<<comparisonVars, now>> => ComparisonInv'
<1> SUFFICES ASSUME ComparisonInv, [ComparisonNext]_<<comparisonVars, now>> PROVE ComparisonInv'
  OBVIOUS
<1>1. ASSUME NEW newPrice \in NewPrices, SetPrice(newPrice) PROVE ComparisonInv'
  BY <1>1, ComparisonAssumption DEF SetPrice, CanSetPrice, Uncorrupted, ComparisonInv
<1>2. ASSUME PublishRounds PROVE ComparisonInv'
  <2>1. ASSUME NEW answer \in Answers, NEW updatedAt \in Nat, NEW behind \in {0, 1},
               PublishRound(NewRound(answer, updatedAt, behind))
        PROVE  ComparisonInv'
    <3>1. NewRound(answer, updatedAt, behind) \in Round
      BY ComparisonAssumption DEF ComparisonInv, NewRound, Round
    <3> QED  BY <2>1, <3>1 DEF PublishRound, priceVars, ComparisonInv
  <2>2. now \in Nat /\ now + 1 \in Nat /\ 0 \in Nat
    BY DEF ComparisonInv
  <2> QED  BY <1>2, <2>1, <2>2 DEF PublishRounds
<1>3. CASE ComparisonTick \/ UNCHANGED <<comparisonVars, now>>
  BY <1>3 DEF ComparisonTick, ClockTick, comparisonVars, ComparisonInv
<1> QED  BY <1>1, <1>2, <1>3 DEF ComparisonNext

(* A price that is not positive, which the constructor lets through, can   *)
(* never be replaced: the change to a positive one exceeds the bound.      *)
LEMMA OnlyPositivePricesChange ==
  ASSUME ComparisonInv, NEW newPrice \in Int, newPrice > 0, ChangeAllowed(newPrice)
  PROVE  rwaPrice \in Nat \ {0}
<1> USE ComparisonConstants
<1>1. rwaPrice \in Int /\ rwaPrice # 0
      /\ Abs(PriceChangeBps(rwaPrice, newPrice)) <= MAX_ABSOLUTE_DIFF_BPS
  BY DEF ComparisonInv, ChangeAllowed
<1>2. ASSUME rwaPrice < 0 PROVE FALSE
  <2> DEFINE m == -rwaPrice
             a == (newPrice + m) * BPS_DENOMINATOR
             q == a \div m
  <2>1. m \in Nat \ {0} /\ newPrice + m \in Nat /\ newPrice + m >= m
    BY <1>1, <1>2
  <2>2. a \in Nat /\ BPS_DENOMINATOR * m <= a
    <3> HIDE DEF m
    <3>1. m * BPS_DENOMINATOR <= (newPrice + m) * BPS_DENOMINATOR
      BY <2>1
    <3>2. m * BPS_DENOMINATOR = BPS_DENOMINATOR * m /\ (newPrice + m) * BPS_DENOMINATOR \in Nat
      BY <2>1
    <3> QED  BY <3>1, <3>2
  <2>3. q \in Nat /\ a < (q + 1) * m
    <3> HIDE DEF a, m
    <3> QED  BY <2>1, <2>2, DivisionBounds
  <2>4. Abs(PriceChangeBps(rwaPrice, newPrice)) = q
    <3>1. Abs(rwaPrice) = m /\ ~ (rwaPrice >= 0)
      BY <1>1, <1>2 DEF Abs
    <3>2. a = (newPrice - rwaPrice) * BPS_DENOMINATOR
      BY <1>1
    <3> HIDE DEF a, m
    <3>3. a >= 0 /\ Abs(a) = a
      BY <2>2 DEF Abs
    <3>4. PriceChangeBps(rwaPrice, newPrice) = -q
      BY <3>1, <3>2, <3>3 DEF PriceChangeBps, TruncDiv
    <3> HIDE DEF q
    <3> QED  BY <2>3, <3>4 DEF Abs
  <2> HIDE DEF m, a, q
  <2>5. q + 1 <= BPS_DENOMINATOR
    BY <1>1, <2>3, <2>4
  <2>6. (q + 1) * m <= BPS_DENOMINATOR * m
    BY <2>1, <2>3, <2>5
  <2>7. (q + 1) * m \in Nat /\ BPS_DENOMINATOR * m \in Nat
    BY <2>1, <2>3
  <2> QED  BY <2>2, <2>3, <2>6, <2>7
<1> QED  BY <1>1, <1>2

LEMMA SetPriceIsAReplacement ==
  ASSUME ComparisonInv, NEW newPrice \in NewPrices, SetPrice(newPrice)
  PROVE  ComparisonBound!Replace
<1> USE ComparisonConstants
<1>1. newPrice \in Int /\ newPrice > 0 /\ ChangeAllowed(newPrice)
  BY ComparisonAssumption DEF SetPrice, CanSetPrice
<1>2. rwaPrice \in Nat \ {0}
  BY <1>1, OnlyPositivePricesChange
<1> DEFINE a == (newPrice - rwaPrice) * BPS_DENOMINATOR
           d == Abs(newPrice - rwaPrice)
<1>3. a \in Int /\ d \in Nat /\ Abs(a) = d * BPS_DENOMINATOR
  <2> DEFINE e == newPrice - rwaPrice
  <2>1. e \in Int
    BY <1>1, <1>2
  <2> HIDE DEF e
  <2>2. e * BPS_DENOMINATOR \in Int /\ (-e) * BPS_DENOMINATOR = -(e * BPS_DENOMINATOR)
    BY <2>1
  <2>3. e >= 0 => e * BPS_DENOMINATOR >= 0
    BY <2>1
  <2>4. e < 0 => e * BPS_DENOMINATOR < 0
    BY <2>1
  <2>5. Abs(e) \in Nat /\ Abs(e * BPS_DENOMINATOR) = Abs(e) * BPS_DENOMINATOR
    BY <2>1, <2>2, <2>3, <2>4 DEF Abs
  <2> QED  BY <2>2, <2>5 DEF e
<1>4. Abs(TruncDiv(a, rwaPrice)) <= MAX_ABSOLUTE_DIFF_BPS
  BY <1>1 DEF ChangeAllowed, PriceChangeBps
<1>5. ComparisonBound!Distance(rwaPrice, newPrice) = d
  BY <1>1, <1>2 DEF ComparisonBound!Distance, Abs
<1> HIDE DEF a, d
<1>6. d * BPS_DENOMINATOR < (MAX_ABSOLUTE_DIFF_BPS + 1) * rwaPrice
  BY <1>2, <1>3, <1>4, TruncDivWithin
<1>7. d * BPS_DENOMINATOR \in Nat /\ (MAX_ABSOLUTE_DIFF_BPS + 1) * rwaPrice \in Nat
  BY <1>2, <1>3
<1>8. priceTimestamp' >= priceTimestamp + MIN_PRICE_UPDATE_WINDOW
  BY DEF SetPrice, CanSetPrice, WindowOver
<1> QED  BY <1>1, <1>5, <1>6, <1>7, <1>8 DEF SetPrice, ComparisonBound!Replace

(* RWAOracleExternalComparisonCheck.setPrice, whatever the feed does: not  *)
(* more than MAX_ABSOLUTE_DIFF_BPS, and what truncation adds, in a window. *)
THEOREM ComparisonBounded == ComparisonSpec => ComparisonImplementsBoundedPrice
<1>1. ClockInit /\ ComparisonInit => ComparisonBound!Init
  BY DEF ClockInit, ComparisonInit, ComparisonBound!Init
<1>2. ComparisonInv /\ [ComparisonNext]_<<comparisonVars, now>>
        => [ComparisonBound!Replace]_<<rwaPrice, priceTimestamp>>
  BY SetPriceIsAReplacement
  DEF ComparisonNext, PublishRounds, PublishRound, priceVars, ComparisonTick, comparisonVars
<1> QED  BY <1>1, <1>2, ComparisonInitInv, ComparisonStepInv, PTL
         DEF ComparisonSpec, ComparisonImplementsBoundedPrice, ComparisonBound!Spec

(* Two relative changes x/P and y/C whose truncated quotients q and r are  *)
(* within K of each other, multiplied out.                                 *)
LEMMA CrossMultiplied ==
  ASSUME NEW P \in Nat \ {0}, NEW C \in Nat \ {0}, NEW x \in Int, NEW y \in Int,
         NEW q \in Int, NEW r \in Int, NEW K \in Nat,
         Abs(x - q * P) < P, Abs(y - r * C) < C, Abs(q - r) <= K
  PROVE  Abs(x * C - y * P) < (K + 2) * (P * C)
<1> DEFINE e == x - q * P
           f == y - r * C
           d == q - r
           PC == P * C
<1>1. PC \in Nat
  OBVIOUS
<1>2. x * C - y * P = d * PC + e * C - f * P
  <2>1. x = q * P + e /\ y = r * C + f /\ e \in Int /\ f \in Int
    OBVIOUS
  <2> HIDE DEF e, f
  <2>2. x * C = q * PC + e * C /\ y * P = r * PC + f * P
    BY <2>1
  <2>3. d * PC = q * PC - r * PC
    OBVIOUS
  <2> QED  BY <2>1, <2>2, <2>3
<1>3. e * C <= PC - C /\ e * C >= C - PC
  <2>1. e \in Int /\ e <= P - 1 /\ e >= 1 - P
    BY DEF Abs
  <2> HIDE DEF e
  <2>2. e * C <= (P - 1) * C /\ e * C >= (1 - P) * C
    BY <2>1
  <2> QED  BY <2>2
<1>4. f * P <= PC - P /\ f * P >= P - PC
  <2>1. f \in Int /\ f <= C - 1 /\ f >= 1 - C
    BY DEF Abs
  <2> HIDE DEF f
  <2>2. f * P <= (C - 1) * P /\ f * P >= (1 - C) * P
    BY <2>1
  <2> QED  BY <2>2
<1>5. d * PC <= K * PC /\ d * PC >= -(K * PC)
  <2>1. d \in Int /\ d <= K /\ d >= -K
    BY DEF Abs
  <2> HIDE DEF d, PC
  <2> QED  BY <1>1, <2>1
<1>6. (K + 2) * PC = K * PC + 2 * PC
  BY <1>1
<1>7. /\ d * PC \in Int /\ e * C \in Int /\ f * P \in Int /\ K * PC \in Int
      /\ x * C - y * P \in Int /\ (K + 2) * PC \in Int
  BY <1>1
<1> HIDE DEF d, e, f, PC
<1>8. x * C - y * P < K * PC + 2 * PC /\ x * C - y * P > -(K * PC + 2 * PC)
  BY <1>1, <1>2, <1>3, <1>4, <1>5, <1>7
<1>9. Abs(x * C - y * P) < (K + 2) * PC
  BY <1>1, <1>6, <1>7, <1>8 DEF Abs
<1> QED  BY <1>9 DEF PC

(* The size of a product with a positive factor. *)
LEMMA AbsProduct ==
  ASSUME NEW x \in Int, NEW m \in Nat
  PROVE  Abs(x) \in Nat /\ Abs(x) * m = Abs(x * m) /\ x * m \in Int
<1>1. x * m \in Int /\ (-x) * m = -(x * m)
  OBVIOUS
<1>2. x >= 0 => x * m >= 0
  OBVIOUS
<1>3. x < 0 => x * m <= 0
  OBVIOUS
<1> QED  BY <1>1, <1>2, <1>3 DEF Abs

LEMMA SetPriceFollows ==
  ASSUME ComparisonInv, NEW newPrice \in NewPrices, SetPrice(newPrice)
  PROVE  FeedFollowed
<1> DEFINE B  == BPS_DENOMINATOR
           A  == MAX_ABSOLUTE_DIFF_BPS
           M  == MAX_CHANGE_DIFF_BPS
           P  == rwaPrice
           C  == lastSetRound.answer
           dP == newPrice - P
           dC == feed.answer - C
           x  == dP * B
           y  == dC * B
           q  == TruncDiv(x, P)
           r  == TruncDiv(y, C)
<1>1. newPrice \in Int /\ newPrice > 0 /\ ChangeAllowed(newPrice) /\ feed.answer \in Int
  BY ComparisonAssumption DEF SetPrice, CanSetPrice, ComparisonInv, Round
<1>2. P \in Nat \ {0} /\ C \in Nat \ {0}
  BY <1>1, OnlyPositivePricesChange DEF ComparisonInv, Round, ChangeAllowed
<1>3. rwaPrice' - P = dP /\ lastSetRound'.answer - C = dC
  BY DEF SetPrice
<1>4. B \in Nat \ {0} /\ A \in Nat /\ M \in Nat
  BY ComparisonConstants
<1>5. Abs(r) <= A + M => Abs(q - r) <= M
  BY <1>1 DEF ChangeAllowed, Sane, Deviation, PriceChangeBps
<1>6. dP \in Int /\ dC \in Int
  BY <1>1, <1>2
<1> HIDE DEF B, A, M, P, C, dP, dC
<1>7. x \in Int /\ y \in Int /\ Abs(y) = Abs(dC) * B
  BY <1>4, <1>6, AbsProduct
<1> HIDE DEF x, y
<1>8. /\ q \in Int /\ Abs(x - q * P) < P
      /\ r \in Int /\ Abs(y - r * C) < C
  BY <1>2, <1>7, TruncDivBounds
<1>9. Abs(r) <= A + M <=> Abs(y) < (A + M + 1) * C
  <2>1. A + M \in Nat
    BY <1>4
  <2> QED  BY <1>2, <1>7, <2>1, TruncDivWithin
<1> HIDE DEF q, r
<1>10. CASE Abs(q - r) <= M
  <2>1. Abs(x * C - y * P) < (M + 2) * (P * C)
    BY <1>2, <1>4, <1>7, <1>8, <1>10, CrossMultiplied
  <2>2. dP * C \in Int /\ dC * P \in Int /\ dP * C - dC * P \in Int
    BY <1>2, <1>6
  <2>3. x * C - y * P = (dP * C - dC * P) * B
    <3>1. x * C = (dP * C) * B /\ y * P = (dC * P) * B
      BY <1>2, <1>4, <1>6 DEF x, y
    <3> QED  BY <1>4, <2>2, <3>1
  <2>4. Abs(x * C - y * P) = Abs(dP * C - dC * P) * B
    BY <1>4, <2>2, <2>3, AbsProduct
  <2>5. (M + 2) * (P * C) = (M + 2) * P * C
    BY <1>2, <1>4
  <2> QED  BY <1>3, <2>1, <2>4, <2>5 DEF P, C, B, M, FeedFollowed
<1>11. CASE ~ (Abs(r) <= A + M)
  <2>1. Abs(y) \in Nat /\ (A + M + 1) * C \in Nat
    BY <1>2, <1>4, <1>7 DEF Abs
  <2>2. Abs(y) >= (A + M + 1) * C
    BY <1>9, <1>11, <2>1
  <2> QED  BY <1>3, <1>7, <2>2 DEF C, B, A, M, FeedFollowed
<1> QED  BY <1>5, <1>10, <1>11

(* The price follows the feed, but for truncation, unless the feed itself  *)
(* moved too far.                                                          *)
THEOREM ComparisonFollowsTheFeed == ComparisonSpec => FollowsTheFeed
<1>1. ComparisonInv /\ [ComparisonNext]_<<comparisonVars, now>>
        => [priceTimestamp' # priceTimestamp => FeedFollowed]_comparisonVars
  <2> SUFFICES ASSUME ComparisonInv, ComparisonNext, priceTimestamp' # priceTimestamp
               PROVE  FeedFollowed
    BY DEF comparisonVars
  <2>1. PICK newPrice \in NewPrices : SetPrice(newPrice)
    BY DEF ComparisonNext, PublishRounds, PublishRound, priceVars, ComparisonTick, comparisonVars
  <2> QED  BY <2>1, SetPriceFollows
<1> QED  BY <1>1, ComparisonInitInv, ComparisonStepInv, PTL DEF ComparisonSpec, FollowsTheFeed

(* Whatever change r within the absolute bound is wanted, some price has   *)
(* it, if the price before is large enough for every basis point.          *)
LEMMA EveryBasisPointIsReached ==
  ASSUME NEW P \in Nat, P >= BPS_DENOMINATOR, NEW r \in Int, Abs(r) < BPS_DENOMINATOR
  PROVE  \E n \in 1 .. (2 * P) : PriceChangeBps(P, n) = r
<1> DEFINE B == BPS_DENOMINATOR
           k == Abs(r)
           d == MulDivUp(k, P, B)
<1>1. B \in Nat \ {0} /\ P \in Nat \ {0}
  BY ComparisonConstants
<1>2. k \in Nat /\ k < B /\ (r >= 0 => r = k) /\ (r < 0 => r = -k /\ k > 0)
  BY DEF Abs
<1> HIDE DEF k
<1>3. d \in Nat /\ k * P <= d * B /\ d * B < k * P + B
  <2> HIDE DEF B
  <2> QED  BY <1>1, <1>2, MulDivUpBounds
<1> HIDE DEF B, d
<1>4. d * B \in Nat /\ k * P \in Nat /\ (d * B) \div P = k
  <2>1. d * B \in Nat /\ k * P \in Nat
    BY <1>1, <1>2, <1>3
  <2>2. d * B < k * P + P
    BY <1>1, <1>3, <2>1 DEF B
  <2> QED  BY <1>1, <1>2, <1>3, <2>1, <2>2, QuotientIs
<1>5. d < P
  <2> SUFFICES ASSUME d >= P PROVE FALSE
    BY <1>1, <1>3
  <2>1. P * B <= d * B
    BY <1>1, <1>3
  <2>2. k * P <= (B - 1) * P
    BY <1>1, <1>2
  <2>3. (B - 1) * P = P * B - P /\ P * B \in Nat
    BY <1>1
  <2>4. P >= B
    BY DEF B
  <2> DEFINE u == d * B
             v == k * P
             w == P * B
  <2>5. /\ u \in Nat /\ v \in Nat /\ w \in Nat
        /\ w <= u /\ u < v + B /\ v <= w - P
    BY <1>3, <1>4, <2>1, <2>2, <2>3
  <2> HIDE DEF u, v, w
  <2> QED  BY <1>1, <2>4, <2>5
<1>6. \A x \in {d * B, -(d * B)} : Abs(x) = d * B
  BY <1>4 DEF Abs
<1>7. Abs(P) = P /\ P >= 0
  BY DEF Abs
<1>8. CASE r >= 0
  <2>1. P + d \in 1 .. (2 * P) /\ (P + d) - P = d
    BY <1>1, <1>3, <1>5
  <2>2. TruncDiv(d * B, P) = k
    BY <1>4, <1>6, <1>7 DEF TruncDiv
  <2>3. PriceChangeBps(P, P + d) = r
    BY <1>2, <1>8, <2>1, <2>2 DEF PriceChangeBps, B
  <2> QED  BY <2>1, <2>3
<1>9. CASE r < 0
  <2>1. P - d \in 1 .. (2 * P) /\ (P - d) - P = -d
    BY <1>1, <1>3, <1>5
  <2>2. (-d) * B = -(d * B)
    BY <1>1, <1>3
  <2>3. k * P > 0
    BY <1>1, <1>2, <1>9
  <2>4. TruncDiv(-(d * B), P) = -k
    <3>1. ~ (-(d * B) >= 0)
      BY <1>3, <1>4, <2>3
    <3> QED  BY <1>4, <1>6, <1>7, <3>1 DEF TruncDiv
  <2>5. PriceChangeBps(P, P - d) = r
    BY <1>2, <1>9, <2>1, <2>2, <2>4 DEF PriceChangeBps, B
  <2> QED  BY <2>1, <2>5
<1> QED  BY <1>8, <1>9

(* A change near the feed's is within the absolute bound; if the feed's is *)
(* beyond both bounds together, no change at all will do.                  *)
LEMMA SomeChangeIsAllowed ==
  ASSUME NEW cl \in Int
  PROVE  \E r \in Int : /\ Abs(r) <= MAX_ABSOLUTE_DIFF_BPS
                        /\ Sane(cl) => Deviation(r, cl) <= MAX_CHANGE_DIFF_BPS
<1> DEFINE A == MAX_ABSOLUTE_DIFF_BPS
           M == MAX_CHANGE_DIFF_BPS
<1>1. A \in Nat /\ M \in Nat
  BY ComparisonConstants
<1> HIDE DEF A, M
<1> SUFFICES \E r \in Int : Abs(r) <= A /\ (Abs(cl) <= A + M => Abs(r - cl) <= M)
  BY DEF Sane, Deviation, A, M
<1>2. CASE cl > A
  <2>1. A \in Int /\ Abs(A) <= A /\ (Abs(cl) <= A + M => Abs(A - cl) <= M)
    BY <1>1, <1>2 DEF Abs
  <2> QED  BY <2>1
<1>3. CASE cl < -A
  <2>1. -A \in Int /\ Abs(-A) <= A /\ (Abs(cl) <= A + M => Abs((-A) - cl) <= M)
    BY <1>1, <1>3 DEF Abs
  <2> QED  BY <2>1
<1>4. CASE -A <= cl /\ cl <= A
  <2>1. Abs(cl) <= A /\ Abs(cl - cl) <= M
    BY <1>1, <1>4 DEF Abs
  <2> QED  BY <2>1
<1> QED  BY <1>1, <1>2, <1>3, <1>4

(* A fresh round can be priced, whatever the feed did before and however   *)
(* often the price was set: no sequence of settings paints the setter into *)
(* a corner, except by the round that answered zero.                       *)
THEOREM ComparisonNeverLocks == ComparisonSpec => []FreshRoundCanBePriced
<1>1. ComparisonInv => FreshRoundCanBePriced
  <2> SUFFICES ASSUME ComparisonInv, Priceable, lastSetRound.answer > 0
               PROVE  \E newPrice \in 1 .. (2 * rwaPrice) : CanSetPrice(newPrice)
    BY DEF FreshRoundCanBePriced
  <2> DEFINE cl == PriceChangeBps(lastSetRound.answer, feed.answer)
  <2>1. rwaPrice \in Nat \ {0} /\ rwaPrice >= BPS_DENOMINATOR
    BY ComparisonConstants DEF ComparisonInv, Priceable
  <2>2. cl \in Int
    <3> DEFINE C == lastSetRound.answer
               y == (feed.answer - C) * BPS_DENOMINATOR
    <3>1. C \in Nat \ {0} /\ y \in Int
      BY ComparisonConstants DEF ComparisonInv, Round
    <3> HIDE DEF C, y
    <3>2. TruncDiv(y, C) \in Int
      BY <3>1, TruncDivBounds
    <3> QED  BY <3>2 DEF PriceChangeBps, C, y
  <2> HIDE DEF cl
  <2>3. PICK r \in Int : /\ Abs(r) <= MAX_ABSOLUTE_DIFF_BPS
                         /\ Sane(cl) => Deviation(r, cl) <= MAX_CHANGE_DIFF_BPS
    BY <2>2, SomeChangeIsAllowed
  <2>4. Abs(r) < BPS_DENOMINATOR
    BY <2>3, ComparisonConstants DEF Abs
  <2>5. PICK newPrice \in 1 .. (2 * rwaPrice) : PriceChangeBps(rwaPrice, newPrice) = r
    BY <2>1, <2>4, EveryBasisPointIsReached
  <2>6. ChangeAllowed(newPrice)
    BY <2>1, <2>3, <2>5 DEF ChangeAllowed, cl, ComparisonInv
  <2>7. newPrice > 0
    BY <2>1, <2>5
  <2> QED  BY <2>6, <2>7 DEF Priceable, CanSetPrice
<1> QED  BY <1>1, ComparisonInitInv, ComparisonStepInv, PTL DEF ComparisonSpec

-----------------------------------------------------------------------------
(* Induction, for sets of numbers. *)

(* A set of natural numbers to which every number belongs when all smaller *)
(* ones do is all of them.                                                 *)
LEMMA StrongInduction ==
  ASSUME NEW T, \A n \in Nat : (\A m \in Nat : m < n => m \in T) => n \in T
  PROVE  \A n \in Nat : n \in T
<1> DEFINE R    == OpToRel(<, Nat)
           Rest == {n \in Nat : n \notin T}
<1>1. IsWellFoundedOn(R, Nat)
  BY NatLessThanWellFounded
<1>2. \A n, m \in Nat : m < n => <<m, n>> \in R
  BY DEF OpToRel
<1> HIDE DEF R
<1>3. Rest # {} => \E n \in Rest : \A m \in Rest : <<m, n>> \notin R
  BY <1>1, WFMin
<1>4. Rest = {}
  BY <1>2, <1>3
<1> QED  BY <1>4

(* The equation of a recursive function that makes one call. *)
Computes(f, D, rank, out, step, next) ==
  /\ f \in [D -> Nat]
  /\ f = [s \in D |-> IF rank[s] = 0 THEN out[s] ELSE next[<<s, f[step[s]]>>]]

(* A loop that counts down computes something: the equation has a solution *)
(* when each call has a lower rank.                                        *)
LEMMA LoopTerminates ==
  ASSUME NEW D, NEW out \in [D -> Nat], NEW step \in [D -> D], NEW rank \in [D -> Nat],
         NEW next \in [D \X Nat -> Nat], \A s \in D : rank[s] # 0 => rank[step[s]] < rank[s]
  PROVE  \E f : Computes(f, D, rank, out, step, next)
<1> DEFINE Solves(f, k) ==
             \A s \in D : rank[s] <= k => f[s] = IF rank[s] = 0 THEN out[s] ELSE next[<<s, f[step[s]]>>]
           Solvable == {k \in Nat : \E f \in [D -> Nat] : Solves(f, k)}
<1>1. \A k \in Nat : k \in Solvable
  <2>1. ASSUME NEW k \in Nat, \A m \in Nat : m < k => m \in Solvable
        PROVE  k \in Solvable
    <3>1. CASE k = 0
      <4>1. Solves(out, 0)
        OBVIOUS
      <4> HIDE DEF Solves
      <4> QED  BY <3>1, <4>1
    <3>2. CASE k # 0
      <4>1. PICK f \in [D -> Nat] : Solves(f, k - 1)
        <5>1. k - 1 \in Nat /\ k - 1 < k
          BY <3>2
        <5> HIDE DEF Solves
        <5> QED  BY <2>1, <5>1
      <4> DEFINE g == [s \in D |-> IF rank[s] < k THEN f[s] ELSE next[<<s, f[step[s]]>>]]
      <4>2. g \in [D -> Nat]
        OBVIOUS
      <4>3. ASSUME NEW s \in D, rank[s] <= k
            PROVE  g[s] = IF rank[s] = 0 THEN out[s] ELSE next[<<s, g[step[s]]>>]
        <5>1. rank[s] \in Nat /\ step[s] \in D /\ rank[step[s]] \in Nat
          OBVIOUS
        <5>2. rank[s] # 0 => g[step[s]] = f[step[s]]
          BY <4>3, <5>1
        <5>3. CASE rank[s] < k
          <6>1. rank[s] <= k - 1 /\ g[s] = f[s]
            BY <5>1, <5>3
          <6> QED  BY <4>1, <5>2, <6>1
        <5>4. CASE rank[s] = k
          BY <3>2, <5>1, <5>2, <5>4
        <5> QED  BY <4>3, <5>1, <5>3, <5>4
      <4>4. Solves(g, k)
        <5> HIDE DEF g
        <5> QED  BY <4>3
      <4> HIDE DEF Solves, g
      <4> QED  BY <4>2, <4>4
    <3> QED  BY <3>1, <3>2
  <2> HIDE DEF Solvable
  <2> QED  BY <2>1, StrongInduction
<1>2. ASSUME NEW f, NEW g, NEW i \in Nat, NEW j \in Nat, Solves(f, i), Solves(g, j)
      PROVE  \A s \in D : rank[s] <= i /\ rank[s] <= j => f[s] = g[s]
  <2> DEFINE Agree == {k \in Nat : \A s \in D : rank[s] = k /\ k <= i /\ k <= j => f[s] = g[s]}
  <2>1. ASSUME NEW k \in Nat, \A m \in Nat : m < k => m \in Agree
        PROVE  k \in Agree
    <3> SUFFICES ASSUME NEW s \in D, rank[s] = k, k <= i, k <= j PROVE f[s] = g[s]
      OBVIOUS
    <3>1. /\ f[s] = IF rank[s] = 0 THEN out[s] ELSE next[<<s, f[step[s]]>>]
          /\ g[s] = IF rank[s] = 0 THEN out[s] ELSE next[<<s, g[step[s]]>>]
      BY <1>2
    <3>2. k # 0 => f[step[s]] = g[step[s]]
      BY <2>1
    <3> QED  BY <3>1, <3>2
  <2>2. \A k \in Nat : k \in Agree
    <3> HIDE DEF Agree
    <3> QED  BY <2>1, StrongInduction
  <2> QED  BY <2>2
<1> DEFINE F == [k \in Nat |-> CHOOSE f \in [D -> Nat] : Solves(f, k)]
           h == [s \in D |-> F[rank[s]][s]]
<1>3. \A k \in Nat : F[k] \in [D -> Nat] /\ Solves(F[k], k)
  <2> HIDE DEF Solves
  <2> QED  BY <1>1
<1>4. ASSUME NEW s \in D
      PROVE  h[s] \in Nat /\ h[s] = IF rank[s] = 0 THEN out[s] ELSE next[<<s, h[step[s]]>>]
  <2>1. rank[s] \in Nat /\ step[s] \in D /\ rank[step[s]] \in Nat
    OBVIOUS
  <2> HIDE DEF F
  <2>2. h[s] = F[rank[s]][s] /\ h[s] \in Nat /\ h[step[s]] = F[rank[step[s]]][step[s]]
    BY <1>3, <2>1
  <2>3. F[rank[s]][s] = IF rank[s] = 0 THEN out[s] ELSE next[<<s, F[rank[s]][step[s]]>>]
    BY <1>3, <2>1
  <2>4. CASE rank[s] # 0
    <3>1. rank[step[s]] <= rank[s] /\ rank[step[s]] <= rank[step[s]]
      BY <2>1, <2>4
    <3>2. Solves(F[rank[s]], rank[s]) /\ Solves(F[rank[step[s]]], rank[step[s]])
      BY <1>3, <2>1
    <3> HIDE DEF Solves, h
    <3>3. F[rank[s]][step[s]] = F[rank[step[s]]][step[s]]
      BY <1>2, <2>1, <3>1, <3>2
    <3> QED  BY <2>2, <2>3, <2>4, <3>3
  <2> QED  BY <2>2, <2>3, <2>4
<1>5. h \in [D -> Nat]
  <2> HIDE DEF F, Solves
  <2> QED  BY <1>3
<1> HIDE DEF h, F, Solves
<1>6. h = [s \in D |-> IF rank[s] = 0 THEN out[s] ELSE next[<<s, h[step[s]]>>]]
  BY <1>4, <1>5
<1> QED  BY <1>5, <1>6 DEF Computes

-----------------------------------------------------------------------------
(* What _rpow computes. *)

PowState == Nat \X Nat \X Nat

LEMMA RoundedProductType ==
  ASSUME NEW x \in Nat, NEW y \in Nat
  PROVE  RoundedProduct(x, y) \in Nat
<1> DEFINE k == x * y
           half == ONE \div 2
<1>1. k \in Nat /\ half \in Nat /\ ONE \in Nat \ {0}
  BY DynamicAssumption
<1> HIDE DEF k, half
<1>2. (k + half) \div ONE \in Nat
  BY <1>1
<1> QED  BY <1>2 DEF RoundedProduct, k, half

(* A product with one is exact, and a larger factor gives no smaller one.  *)
LEMMA RoundedProductByOne ==
  ASSUME NEW y \in Nat
  PROVE  RoundedProduct(ONE, y) = y
<1> DEFINE half == ONE \div 2
           k == ONE * y
<1>1. ONE \in Nat \ {0} /\ half \in Nat /\ half < ONE
  BY DynamicAssumption
<1>2. k \in Nat /\ k = y * ONE
  BY <1>1
<1> HIDE DEF half, k
<1>3. (k + half) \div ONE = y
  <2>1. y * ONE <= k + half /\ k + half < y * ONE + ONE /\ k + half \in Nat
    BY <1>1, <1>2
  <2> QED  BY <1>1, <2>1, QuotientIs
<1> QED  BY <1>3 DEF RoundedProduct, half, k

LEMMA DivisionGrows ==
  ASSUME NEW k \in Nat, NEW l \in Nat, k <= l, NEW m \in Nat \ {0}
  PROVE  k \div m <= l \div m
<1> DEFINE p == k \div m
           q == l \div m
<1>1. p \in Nat /\ q \in Nat /\ p * m <= k /\ l < (q + 1) * m
  BY DivisionBounds
<1> HIDE DEF p, q
<1>2. ASSUME p >= q + 1 PROVE FALSE
  <2>1. (q + 1) * m <= p * m /\ (q + 1) * m \in Nat /\ p * m \in Nat
    BY <1>1, <1>2
  <2> QED  BY <1>1, <2>1
<1> QED  BY <1>1, <1>2 DEF p, q

LEMMA RoundedProductGrows ==
  ASSUME NEW x \in Nat, NEW y \in Nat, NEW x2 \in Nat, NEW y2 \in Nat, x <= x2, y <= y2
  PROVE  RoundedProduct(x, y) <= RoundedProduct(x2, y2)
<1> DEFINE half == ONE \div 2
           k == x * y
           l == x2 * y2
<1>1. ONE \in Nat \ {0} /\ half \in Nat
  BY DynamicAssumption
<1>2. k \in Nat /\ l \in Nat /\ k <= l
  <2>1. x * y <= x2 * y /\ x2 * y <= x2 * y2
    BY DEF k
  <2>2. x * y \in Nat /\ x2 * y \in Nat /\ x2 * y2 \in Nat
    OBVIOUS
  <2> QED  BY <2>1, <2>2
<1> HIDE DEF half, k, l
<1>3. (k + half) \div ONE <= (l + half) \div ONE
  BY <1>1, <1>2, DivisionGrows
<1> QED  BY <1>3 DEF RoundedProduct, half, k, l

(* Squaring what is at least one gives no less. *)
LEMMA SquareGrows ==
  ASSUME NEW x \in Nat, x >= ONE
  PROVE  RoundedProduct(x, x) >= x
<1>1. ONE \in Nat
  BY DynamicAssumption
<1>2. RoundedProduct(ONE, x) <= RoundedProduct(x, x)
  BY <1>1, RoundedProductGrows
<1> QED  BY <1>2, RoundedProductByOne

LEMMA Halves ==
  ASSUME NEW n \in Nat
  PROVE  /\ n \div 2 \in Nat /\ (n # 0 => n \div 2 < n)
         /\ n % 2 \in {0, 1} /\ n = 2 * (n \div 2) + (n % 2)
OBVIOUS

LEMMA SquaredType ==
  ASSUME NEW s \in PowState
  PROVE  Squared(s) \in PowState /\ Squared(s)[2] = s[2] \div 2
<1> DEFINE xx == RoundedProduct(s[1], s[1])
           zz == IF s[2] % 2 = 1 THEN RoundedProduct(s[3], xx) ELSE s[3]
           half == s[2] \div 2
<1>1. s[1] \in Nat /\ s[2] \in Nat /\ s[3] \in Nat
  BY DEF PowState
<1>2. xx \in Nat /\ half \in Nat
  <2> DEFINE n == s[2]
  <2>1. n \div 2 \in Nat
    <3> HIDE DEF n
    <3> QED  BY <1>1, Halves DEF n
  <2> QED  BY <1>1, <2>1, RoundedProductType
<1>3. zz \in Nat
  <2> HIDE DEF xx
  <2> QED  BY <1>1, <1>2, RoundedProductType
<1>4. Squared(s) = <<xx, half, zz>>
  BY DEF Squared
<1> HIDE DEF xx, zz, half
<1>5. Squared(s) \in PowState /\ Squared(s)[2] = half
  BY <1>2, <1>3, <1>4 DEF PowState
<1> QED  BY <1>5 DEF half

(* The exponent halves, so the loop ends. *)
LEMMA PowLoopUnrolls ==
  ASSUME NEW s \in PowState
  PROVE  PowLoop[s] = IF s[2] = 0 THEN s[3] ELSE PowLoop[Squared(s)]
<1> DEFINE Equation(g) == g = [t \in PowState |-> IF t[2] = 0 THEN t[3] ELSE g[Squared(t)]]
           out  == [t \in PowState |-> t[3]]
           step == [t \in PowState |-> Squared(t)]
           rank == [t \in PowState |-> t[2]]
           next == [p \in PowState \X Nat |-> p[2]]
<1>1. /\ next \in [PowState \X Nat -> Nat] /\ out \in [PowState -> Nat]
      /\ step \in [PowState -> PowState] /\ rank \in [PowState -> Nat]
  BY SquaredType DEF PowState
<1>2. ASSUME NEW t \in PowState, rank[t] # 0
      PROVE  rank[step[t]] < rank[t]
  <2>1. rank[step[t]] = t[2] \div 2 /\ rank[t] = t[2]
    BY SquaredType
  <2>2. t[2] \in Nat /\ t[2] # 0
    BY <1>2 DEF PowState
  <2> QED  BY <2>1, <2>2
<1>3. \E g : Equation(g)
  <2>1. PICK g : Computes(g, PowState, rank, out, step, next)
    <3>1. \A t \in PowState : rank[t] # 0 => rank[step[t]] < rank[t]
      BY <1>2
    <3> HIDE DEF out, step, rank, next
    <3> QED  BY <1>1, <3>1, LoopTerminates
  <2>2. \A t \in PowState : next[<<t, g[step[t]]>>] = g[Squared(t)]
    <3>1. \A t \in PowState : step[t] = Squared(t) /\ step[t] \in PowState
      BY <1>1
    <3>2. g \in [PowState -> Nat]
      BY <2>1 DEF Computes
    <3> HIDE DEF step
    <3> QED  BY <3>1, <3>2
  <2>3. Equation(g)
    <3>1. \A t \in PowState : rank[t] = t[2] /\ out[t] = t[3]
      OBVIOUS
    <3> HIDE DEF out, step, rank, next
    <3>2. g = [t \in PowState |-> IF rank[t] = 0 THEN out[t] ELSE next[<<t, g[step[t]]>>]]
      BY <2>1 DEF Computes
    <3>3. \A t \in PowState : (IF rank[t] = 0 THEN out[t] ELSE next[<<t, g[step[t]]>>])
                              = (IF t[2] = 0 THEN t[3] ELSE g[Squared(t)])
      BY <2>2, <3>1
    <3> QED  BY <3>2, <3>3
  <2> QED  BY <2>3
<1>4. PowLoop = CHOOSE g : Equation(g)
  BY DEF PowLoop, PowState
<1>5. Equation(PowLoop)
  <2> HIDE DEF Equation
  <2> QED  BY <1>3, <1>4
<1> QED  BY <1>5

(* The loop, a pass at a time. *)
LEMMA PowLoopEnds ==
  ASSUME NEW x \in Nat, NEW z \in Nat
  PROVE  PowLoop[<<x, 0, z>>] = z
<1> DEFINE s == <<x, 0, z>>
<1>1. s \in PowState /\ s[2] = 0 /\ s[3] = z
  BY DEF PowState
<1> HIDE DEF s
<1>2. PowLoop[s] = z
  BY <1>1, PowLoopUnrolls
<1> QED  BY <1>2 DEF s

LEMMA PowLoopEven ==
  ASSUME NEW x \in Nat, NEW n \in Nat, n # 0, NEW z \in Nat, NEW h \in Nat, h = n \div 2,
         n % 2 = 0
  PROVE  PowLoop[<<x, n, z>>] = PowLoop[<<RoundedProduct(x, x), h, z>>]
<1> DEFINE s == <<x, n, z>>
<1>1. s \in PowState /\ s[1] = x /\ s[2] = n /\ s[3] = z
  BY DEF PowState
<1> HIDE DEF s
<1>2. PowLoop[s] = PowLoop[Squared(s)]
  BY <1>1, PowLoopUnrolls
<1> QED  BY <1>1, <1>2 DEF s, Squared

LEMMA PowLoopOdd ==
  ASSUME NEW x \in Nat, NEW n \in Nat, n # 0, NEW z \in Nat, NEW h \in Nat, h = n \div 2,
         n % 2 = 1
  PROVE  PowLoop[<<x, n, z>>] =
           PowLoop[<<RoundedProduct(x, x), h, RoundedProduct(z, RoundedProduct(x, x))>>]
<1> DEFINE s == <<x, n, z>>
<1>1. s \in PowState /\ s[1] = x /\ s[2] = n /\ s[3] = z
  BY DEF PowState
<1> HIDE DEF s
<1>2. PowLoop[s] = PowLoop[Squared(s)]
  BY <1>1, PowLoopUnrolls
<1> QED  BY <1>1, <1>2 DEF s, Squared

(* More to start with gives no less in the end. *)
LEMMA PowLoopGrows ==
  ASSUME NEW x \in Nat, NEW n \in Nat, NEW z \in Nat, NEW z2 \in Nat, z <= z2
  PROVE  PowLoop[<<x, n, z>>] \in Nat /\ PowLoop[<<x, n, z>>] <= PowLoop[<<x, n, z2>>]
<1> DEFINE Grows(m) == \A y, w, w2 \in Nat : w <= w2 =>
                         /\ PowLoop[<<y, m, w>>] \in Nat
                         /\ PowLoop[<<y, m, w>>] <= PowLoop[<<y, m, w2>>]
           T == {m \in Nat : Grows(m)}
<1>1. ASSUME NEW k \in Nat, \A m \in Nat : m < k => m \in T
      PROVE  k \in T
  <2> HIDE DEF T, Grows
  <2>0. SUFFICES ASSUME NEW y \in Nat, NEW w \in Nat, NEW w2 \in Nat, w <= w2
                 PROVE  /\ PowLoop[<<y, k, w>>] \in Nat
                        /\ PowLoop[<<y, k, w>>] <= PowLoop[<<y, k, w2>>]
    BY DEF T, Grows
  <2> DEFINE yy == RoundedProduct(y, y)
             h  == k \div 2
  <2>1. CASE k = 0
    BY <2>0, <2>1, PowLoopEnds
  <2>2. CASE k # 0
    <3>1. Grows(h)
      <4>1. h \in Nat /\ h < k
        BY <2>2, Halves
      <4> HIDE DEF h
      <4> QED  BY <1>1, <4>1 DEF T
    <3>2. yy \in Nat /\ RoundedProduct(w, yy) \in Nat /\ RoundedProduct(w2, yy) \in Nat
      BY RoundedProductType
    <3>3. RoundedProduct(w, yy) <= RoundedProduct(w2, yy)
      <4> HIDE DEF yy
      <4> QED  BY <2>0, <3>2, RoundedProductGrows
    <3>0. k # 0 /\ h \in Nat /\ h = k \div 2
      BY <2>2, Halves
    <3> HIDE DEF h
    <3>4. CASE k % 2 = 0
      <4>1. /\ PowLoop[<<y, k, w>>] = PowLoop[<<yy, h, w>>]
            /\ PowLoop[<<y, k, w2>>] = PowLoop[<<yy, h, w2>>]
        BY <3>0, <3>4, PowLoopEven, PowLoopOdd
      <4> HIDE DEF yy
      <4> QED  BY <2>0, <3>1, <3>2, <4>1 DEF Grows
    <3>5. CASE k % 2 = 1
      <4>1. /\ PowLoop[<<y, k, w>>] = PowLoop[<<yy, h, RoundedProduct(w, yy)>>]
            /\ PowLoop[<<y, k, w2>>] = PowLoop[<<yy, h, RoundedProduct(w2, yy)>>]
        BY <3>0, <3>5, PowLoopEven, PowLoopOdd
      <4> HIDE DEF yy
      <4> QED  BY <3>1, <3>2, <3>3, <4>1 DEF Grows
    <3> QED  BY <3>4, <3>5, Halves
  <2> QED  BY <2>1, <2>2
<1>2. \A m \in Nat : m \in T
  <2> HIDE DEF T
  <2> QED  BY <1>1, StrongInduction
<1>3. Grows(n)
  BY <1>2
<1> QED  BY <1>3

(* The next exponent gives no less, whatever z has accumulated below the   *)
(* bit that is set next: this is what the trailing ones of n add up to.    *)
LEMMA NextExponentGrows ==
  ASSUME NEW x \in Nat, NEW n \in Nat, NEW z \in Nat, x >= ONE, z <= RoundedProduct(x, x)
  PROVE  PowLoop[<<x, n, z>>] <= PowLoop[<<x, n + 1, ONE>>]
<1>0. ONE \in Nat \ {0}
  BY DynamicAssumption
<1> DEFINE Grows(m) == \A y, w \in Nat : y >= ONE /\ w <= RoundedProduct(y, y) =>
                         PowLoop[<<y, m, w>>] <= PowLoop[<<y, m + 1, ONE>>]
           T == {m \in Nat : Grows(m)}
<1>1. ASSUME NEW k \in Nat, \A m \in Nat : m < k => m \in T
      PROVE  k \in T
  <2> HIDE DEF T, Grows
  <2>0. SUFFICES ASSUME NEW y \in Nat, NEW w \in Nat, y >= ONE, w <= RoundedProduct(y, y)
                 PROVE  PowLoop[<<y, k, w>>] <= PowLoop[<<y, k + 1, ONE>>]
    BY DEF T, Grows
  <2> DEFINE yy == RoundedProduct(y, y)
             h  == k \div 2
  <2>1. yy \in Nat /\ yy >= y /\ w <= yy /\ RoundedProduct(w, yy) \in Nat
    BY <2>0, RoundedProductType, SquareGrows
  <2>2. h \in Nat /\ (k # 0 => h < k)
    BY Halves
  <2>3. CASE k % 2 = 0
    <3>1. (k + 1) % 2 = 1 /\ (k + 1) \div 2 = h
      BY <2>3
    <3>2. RoundedProduct(ONE, yy) = yy
      BY <2>1, RoundedProductByOne
    <3>3. PowLoop[<<y, k + 1, ONE>>] = PowLoop[<<yy, h, yy>>]
      <4>1. k + 1 \in Nat /\ k + 1 # 0
        OBVIOUS
      <4> HIDE DEF h
      <4> QED  BY <1>0, <2>2, <3>1, <3>2, <4>1, PowLoopEven, PowLoopOdd
    <3>4. PowLoop[<<y, k, w>>] = PowLoop[<<yy, h, w>>]
      <4>1. CASE k = 0
        <5>1. h = 0
          BY <4>1
        <5> HIDE DEF h, yy
        <5> QED  BY <2>0, <2>1, <4>1, <5>1, PowLoopEnds
      <4>2. CASE k # 0
        <5>1. h = k \div 2
          OBVIOUS
        <5> HIDE DEF h
        <5> QED  BY <2>2, <2>3, <4>2, <5>1, PowLoopEven, PowLoopOdd
      <4> QED  BY <4>1, <4>2
    <3> HIDE DEF yy, h
    <3> QED  BY <2>1, <2>2, <3>3, <3>4, PowLoopGrows
  <2>4. CASE k % 2 = 1
    <3>1. (k + 1) % 2 = 0 /\ (k + 1) \div 2 = h + 1 /\ k # 0
      BY <2>4
    <3>2. PowLoop[<<y, k + 1, ONE>>] = PowLoop[<<yy, h + 1, ONE>>]
      <4>1. k + 1 \in Nat /\ k + 1 # 0 /\ h + 1 \in Nat
        BY <2>2
      <4> HIDE DEF h
      <4> QED  BY <1>0, <3>1, <4>1, PowLoopEven, PowLoopOdd
    <3>3. PowLoop[<<y, k, w>>] = PowLoop[<<yy, h, RoundedProduct(w, yy)>>]
      <4>1. h = k \div 2
        OBVIOUS
      <4> HIDE DEF h
      <4> QED  BY <2>2, <2>4, <3>1, <4>1, PowLoopEven, PowLoopOdd
    <3>4. RoundedProduct(w, yy) <= RoundedProduct(yy, yy)
      <4> HIDE DEF yy
      <4> QED  BY <2>1, RoundedProductGrows
    <3>5. Grows(h)
      <4> HIDE DEF h
      <4> QED  BY <1>1, <2>2, <3>1 DEF T
    <3>6. yy >= ONE
      <4> HIDE DEF yy
      <4> QED  BY <1>0, <2>0, <2>1
    <3> HIDE DEF yy, h
    <3> QED  BY <2>1, <3>2, <3>3, <3>4, <3>5, <3>6 DEF Grows
  <2> QED  BY <2>3, <2>4, Halves
<1>2. \A m \in Nat : m \in T
  <2> HIDE DEF T
  <2> QED  BY <1>1, StrongInduction
<1>3. Grows(n)
  BY <1>2
<1> QED  BY <1>3

(* A rate of at least one compounds: no day makes the power smaller, for   *)
(* all the rounding in between.                                            *)
LEMMA RPowGrows ==
  ASSUME NEW x \in Nat, x >= ONE, NEW n \in Nat
  PROVE  RPow(x, n) \in Nat /\ RPow(x, n) <= RPow(x, n + 1)
<1> DEFINE h == n \div 2
<1>0. ONE \in Nat \ {0} /\ h \in Nat
  BY DynamicAssumption, Halves
<1>1. CASE n % 2 = 0
  <2>1. (n + 1) % 2 = 1 /\ (n + 1) \div 2 = h
    BY <1>1
  <2>2. RPow(x, n) = PowLoop[<<x, h, ONE>>] /\ RPow(x, n + 1) = PowLoop[<<x, h, x>>]
    BY <1>1, <2>1 DEF RPow
  <2> HIDE DEF h
  <2> QED  BY <1>0, <2>2, PowLoopGrows
<1>2. CASE n % 2 = 1
  <2>1. (n + 1) % 2 = 0 /\ (n + 1) \div 2 = h + 1
    BY <1>2
  <2>2. RPow(x, n) = PowLoop[<<x, h, x>>] /\ RPow(x, n + 1) = PowLoop[<<x, h + 1, ONE>>]
    BY <1>2, <2>1 DEF RPow
  <2>3. x <= RoundedProduct(x, x)
    BY SquareGrows
  <2> HIDE DEF h
  <2> QED  BY <1>0, <2>2, <2>3, PowLoopGrows, NextExponentGrows
<1> QED  BY <1>1, <1>2, Halves

-----------------------------------------------------------------------------
(* The price a range gives. *)

LEMMA DynamicConstants == /\ ONE \in Nat \ {0} /\ UNIT \in Nat \ {0} /\ DAY \in Nat \ {0}
                          /\ Rates \subseteq Nat \ {0} /\ StartPrices \subseteq Nat
                          /\ Overrides \subseteq Nat \X Nat \X Nat
BY DynamicAssumption

LEMMA RPowType ==
  ASSUME NEW x \in Nat, NEW n \in Nat
  PROVE  RPow(x, n) \in Nat
<1> DEFINE h == n \div 2
           z == IF n % 2 = 0 THEN ONE ELSE x
<1>1. h \in Nat /\ z \in Nat
  BY DynamicConstants, Halves
<1>2. RPow(x, n) = PowLoop[<<x, h, z>>]
  BY DEF RPow
<1> HIDE DEF h, z
<1> QED  BY <1>1, <1>2, PowLoopGrows

LEMMA RPowGrowsFurther ==
  ASSUME NEW x \in Nat, x >= ONE, NEW n \in Nat, NEW m \in Nat, n <= m
  PROVE  RPow(x, n) <= RPow(x, m)
<1> DEFINE T == {k \in Nat : RPow(x, n) <= RPow(x, n + k)}
<1>1. ASSUME NEW k \in Nat, \A l \in Nat : l < k => l \in T
      PROVE  k \in T
  <2>1. CASE k = 0
    BY <2>1, RPowType
  <2>2. CASE k # 0
    <3>1. k - 1 \in Nat /\ n + (k - 1) \in Nat /\ (n + (k - 1)) + 1 = n + k
      BY <2>2
    <3>2. RPow(x, n) <= RPow(x, n + (k - 1))
      BY <1>1, <3>1
    <3>3. RPow(x, n + (k - 1)) <= RPow(x, n + k)
      <4> DEFINE j == n + (k - 1)
      <4>1. j \in Nat /\ j + 1 = n + k
        BY <3>1
      <4> HIDE DEF j
      <4>2. RPow(x, j) <= RPow(x, j + 1)
        BY <4>1, RPowGrows
      <4> QED  BY <4>1, <4>2 DEF j
    <3>4. RPow(x, n) \in Nat /\ RPow(x, n + (k - 1)) \in Nat /\ RPow(x, n + k) \in Nat
      <4> DEFINE j == n + (k - 1)
                 l == n + k
      <4>1. j \in Nat /\ l \in Nat
        BY <3>1
      <4> HIDE DEF j, l
      <4>2. RPow(x, n) \in Nat /\ RPow(x, j) \in Nat /\ RPow(x, l) \in Nat
        BY <4>1, RPowType
      <4> QED  BY <4>2 DEF j, l
    <3> QED  BY <3>2, <3>3, <3>4
  <2> QED  BY <2>1, <2>2
<1>2. \A k \in Nat : k \in T
  <2> HIDE DEF T
  <2> QED  BY <1>1, StrongInduction
<1>3. m - n \in Nat /\ n + (m - n) = m
  OBVIOUS
<1> QED  BY <1>2, <1>3

LEMMA RPowOfOneDay ==
  ASSUME NEW x \in Nat
  PROVE  RPow(x, 1) = x
<1>1. 1 \div 2 = 0 /\ 1 % 2 = 1
  OBVIOUS
<1> QED  BY <1>1, PowLoopEnds DEF RPow

(* Rounding to units keeps the order, and does not go below a whole number *)
(* of units that was reached.                                              *)
LEMMA RoundUpTo8Is ==
  ASSUME NEW v \in Nat
  PROVE  \E k \in Nat : /\ RoundUpTo8(v) = k * UNIT /\ RoundUpTo8(v) \in Nat
                        /\ k = v \div UNIT \/ k = v \div UNIT + 1
<1> DEFINE q == v \div UNIT
           r == v % UNIT
<1>1. UNIT \in Nat \ {0} /\ q \in Nat /\ r \in Nat /\ v = UNIT * q + r
  BY DynamicConstants
<1> HIDE DEF q, r
<1>2. UNIT * q = q * UNIT /\ (q + 1) * UNIT = q * UNIT + UNIT /\ q * UNIT \in Nat
  BY <1>1
<1>3. CASE r >= UNIT \div 2
  <2>1. RoundUpTo8(v) = (q + 1) * UNIT
    BY <1>1, <1>2, <1>3 DEF RoundUpTo8, r
  <2> QED  BY <1>1, <1>2, <2>1 DEF q
<1>4. CASE ~ (r >= UNIT \div 2)
  <2>1. RoundUpTo8(v) = q * UNIT
    BY <1>1, <1>2, <1>4 DEF RoundUpTo8, r
  <2> QED  BY <1>1, <1>2, <2>1 DEF q
<1> QED  BY <1>3, <1>4

LEMMA RoundUpTo8Reaches ==
  ASSUME NEW v \in Nat, NEW k \in Nat, k * UNIT <= v
  PROVE  k * UNIT <= RoundUpTo8(v)
<1>1. PICK m \in Nat : /\ RoundUpTo8(v) = m * UNIT
                       /\ m = v \div UNIT \/ m = v \div UNIT + 1
  BY RoundUpTo8Is
<1>2. UNIT \in Nat \ {0}
  BY DynamicConstants
<1> DEFINE q == v \div UNIT
<1>3. q \in Nat /\ v < (q + 1) * UNIT
  BY <1>2, DivisionBounds
<1>4. m >= q
  BY <1>1, <1>3
<1> HIDE DEF q
<1>5. k <= q
  <2> SUFFICES ASSUME q + 1 <= k PROVE FALSE
    BY <1>3
  <2>1. (q + 1) * UNIT <= k * UNIT /\ (q + 1) * UNIT \in Nat /\ k * UNIT \in Nat
    BY <1>2, <1>3
  <2> QED  BY <1>3, <2>1
<1>6. k <= m
  BY <1>3, <1>4, <1>5
<1>7. k * UNIT <= m * UNIT
  BY <1>2, <1>6
<1> QED  BY <1>1, <1>7

LEMMA RoundUpTo8Grows ==
  ASSUME NEW v \in Nat, NEW w \in Nat, v <= w
  PROVE  RoundUpTo8(v) <= RoundUpTo8(w)
<1> DEFINE q == v \div UNIT
           p == w \div UNIT
           r == v % UNIT
           s == w % UNIT
           half == UNIT \div 2
<1>1. /\ UNIT \in Nat \ {0} /\ half \in Nat
      /\ q \in Nat /\ r \in 0 .. UNIT - 1 /\ v = UNIT * q + r
      /\ p \in Nat /\ s \in 0 .. UNIT - 1 /\ w = UNIT * p + s
  BY DynamicConstants
<1>2. q <= p
  BY <1>1, DivisionGrows
<1>3. /\ RoundUpTo8(v) = (IF r >= half THEN v + UNIT ELSE v) - r
      /\ RoundUpTo8(w) = (IF s >= half THEN w + UNIT ELSE w) - s
  BY DEF RoundUpTo8
<1> HIDE DEF q, p, r, s, half
<1>4. CASE q = p
  BY <1>1, <1>3, <1>4
<1>5. CASE q + 1 <= p
  <2>1. UNIT * (q + 1) <= UNIT * p /\ UNIT * (q + 1) = UNIT * q + UNIT
        /\ UNIT * q \in Nat /\ UNIT * p \in Nat
    BY <1>1, <1>5
  <2> QED  BY <1>1, <1>3, <2>1
<1> QED  BY <1>1, <1>2, <1>4, <1>5

(* The days of a range are counted from one. *)
LEMMA DayNumber ==
  ASSUME NEW start \in Nat, NEW t \in Nat, start <= t
  PROVE  (t - start) \div DAY + 1 \in Nat
<1> DEFINE d == t - start
<1>1. d \in Nat /\ DAY \in Nat \ {0}
  BY DynamicConstants
<1> HIDE DEF d
<1>2. d \div DAY \in Nat
  BY <1>1
<1> QED  BY <1>2 DEF d

LEMMA DerivePriceType ==
  ASSUME NEW range \in Range, NEW t \in Nat, range.start <= t
  PROVE  \E k \in Nat : DerivePrice(range, t) = k * UNIT /\ DerivePrice(range, t) \in Nat
<1> DEFINE n == (t - range.start) \div DAY + 1
           x == range.dailyInterestRate
           p == range.prevRangeClosePrice
           v == (RPow(x, n) * p) \div ONE
<1>1. range.start \in Nat /\ x \in Nat /\ p \in Nat /\ ONE \in Nat \ {0}
  BY DynamicConstants DEF Range
<1>2. n \in Nat
  <2> DEFINE start == range.start
  <2> HIDE DEF start
  <2> QED  BY <1>1, DayNumber DEF start
<1> HIDE DEF n, x, p
<1>3. RPow(x, n) * p \in Nat
  <2>1. RPow(x, n) \in Nat
    BY <1>1, <1>2, RPowType
  <2> QED  BY <1>1, <2>1
<1> DEFINE k == RPow(x, n) * p
<1>4. v \in Nat
  <2>1. k \in Nat
    BY <1>3
  <2> HIDE DEF k
  <2>2. k \div ONE \in Nat
    BY <1>1, <2>1
  <2> QED  BY <2>2 DEF k
<1>5. DerivePrice(range, t) = RoundUpTo8(v)
  BY DEF DerivePrice, n, x, p
<1> HIDE DEF v
<1> QED  BY <1>4, <1>5, RoundUpTo8Is

(* Within a range whose rate is at least one the price does not fall.      *)
LEMMA DerivePriceGrows ==
  ASSUME NEW range \in Range, range.dailyInterestRate >= ONE,
         NEW t \in Nat, NEW u \in Nat, range.start <= t, t <= u
  PROVE  DerivePrice(range, t) <= DerivePrice(range, u)
<1> DEFINE start == range.start
           d == t - start
           e == u - start
           n == d \div DAY + 1
           m == e \div DAY + 1
           x == range.dailyInterestRate
           p == range.prevRangeClosePrice
           v == (RPow(x, n) * p) \div ONE
           w == (RPow(x, m) * p) \div ONE
<1>1. /\ start \in Nat /\ x \in Nat /\ x >= ONE /\ p \in Nat /\ start <= t
      /\ ONE \in Nat \ {0} /\ DAY \in Nat \ {0}
  BY DynamicConstants DEF Range
<1> HIDE DEF start, x, p
<1>2. n \in Nat /\ m \in Nat /\ n <= m
  <2>1. d \in Nat /\ e \in Nat /\ d <= e
    BY <1>1
  <2> HIDE DEF d, e
  <2>2. d \div DAY <= e \div DAY /\ d \div DAY \in Nat /\ e \div DAY \in Nat
    BY <1>1, <2>1, DivisionGrows
  <2> QED  BY <2>2
<1>3. DerivePrice(range, t) = RoundUpTo8(v) /\ DerivePrice(range, u) = RoundUpTo8(w)
  BY DEF DerivePrice, start, x, p
<1> HIDE DEF n, m
<1>4. RPow(x, n) \in Nat /\ RPow(x, m) \in Nat /\ RPow(x, n) <= RPow(x, m)
  BY <1>1, <1>2, RPowType, RPowGrowsFurther
<1> DEFINE k == RPow(x, n) * p
           l == RPow(x, m) * p
<1>5. k \in Nat /\ l \in Nat /\ k <= l
  <2> DEFINE a == RPow(x, n)
             b == RPow(x, m)
  <2>1. a \in Nat /\ b \in Nat /\ a <= b
    BY <1>4
  <2> HIDE DEF a, b
  <2>2. a * p <= b * p /\ a * p \in Nat /\ b * p \in Nat
    BY <1>1, <2>1
  <2> QED  BY <2>2 DEF a, b
<1>6. v \in Nat /\ w \in Nat /\ v <= w
  <2> HIDE DEF k, l
  <2>1. k \div ONE \in Nat /\ l \div ONE \in Nat /\ k \div ONE <= l \div ONE
    BY <1>1, <1>5, DivisionGrows
  <2> QED  BY <2>1 DEF k, l
<1> HIDE DEF v, w
<1> QED  BY <1>3, <1>6, RoundUpTo8Grows

(* The price a range starts with: the first day already carries interest,  *)
(* so it is no lower than the closing price the range was given.           *)
LEMMA DerivePriceStarts ==
  ASSUME NEW range \in Range, range.dailyInterestRate >= ONE,
         NEW k \in Nat, range.prevRangeClosePrice = k * UNIT
  PROVE  range.prevRangeClosePrice <= DerivePrice(range, range.start)
<1> DEFINE x == range.dailyInterestRate
           p == range.prevRangeClosePrice
           y == x * p
           v == y \div ONE
<1>1. range.start \in Nat /\ x \in Nat /\ x >= ONE /\ p \in Nat
      /\ ONE \in Nat \ {0} /\ DAY \in Nat \ {0}
  BY DynamicConstants DEF Range
<1>2. (range.start - range.start) \div DAY + 1 = 1
  <2>1. range.start - range.start = 0 /\ 0 \div DAY = 0
    BY <1>1
  <2> QED  BY <2>1
<1>3. DerivePrice(range, range.start) = RoundUpTo8(v)
  BY <1>1, <1>2, RPowOfOneDay DEF DerivePrice
<1> HIDE DEF x, p
<1>4. y \in Nat /\ p * ONE <= y
  <2>1. ONE * p <= x * p /\ ONE * p = p * ONE
    BY <1>1
  <2> QED  BY <1>1, <2>1
<1> HIDE DEF y
<1>5. v \in Nat /\ p <= v
  <2> DEFINE c == p * ONE
  <2>1. c \in Nat /\ c <= y
    BY <1>1, <1>4
  <2>2. c \div ONE = p
    BY <1>1
  <2> HIDE DEF c
  <2>3. c \div ONE <= y \div ONE /\ y \div ONE \in Nat
    BY <1>1, <1>4, <2>1, DivisionGrows
  <2> QED  BY <2>2, <2>3
<1> HIDE DEF v
<1>6. k * UNIT <= RoundUpTo8(v)
  BY <1>5, RoundUpTo8Reaches DEF p
<1> QED  BY <1>3, <1>6 DEF p

(* The price that is in force at t in the range that started last. *)
InForce(range, t) == DerivePrice(range, IF range.end <= t THEN range.end - 1 ELSE t)

(* From one range to the one that continues it the price does not fall.    *)
LEMMA NextRangeStartsNoLower ==
  ASSUME NEW range \in Range, range.start < range.end, range.dailyInterestRate >= ONE,
         NEW next \in Range, next.start < next.end, next.dailyInterestRate >= ONE,
         next.prevRangeClosePrice = ClosePrice(range),
         NEW t \in Nat, range.start <= t, NEW u \in Nat, next.start <= u
  PROVE  InForce(range, t) <= InForce(next, u)
<1> DEFINE early == IF range.end <= t THEN range.end - 1 ELSE t
           last  == range.end - 1
           late  == IF next.end <= u THEN next.end - 1 ELSE u
<1>1. /\ range.start \in Nat /\ range.end \in Nat /\ next.start \in Nat /\ next.end \in Nat
      /\ next.prevRangeClosePrice \in Nat
  BY DEF Range
<1>2. /\ early \in Nat /\ range.start <= early /\ early <= last /\ last \in Nat
      /\ range.start <= last /\ late \in Nat /\ next.start <= late
  BY <1>1
<1> HIDE DEF early, last, late
<1>3. DerivePrice(range, early) <= DerivePrice(range, last)
  BY <1>2, DerivePriceGrows
<1>4. DerivePrice(range, last) = next.prevRangeClosePrice
  BY DEF ClosePrice, last
<1>5. next.prevRangeClosePrice <= DerivePrice(next, next.start)
  <2>1. PICK k \in Nat : DerivePrice(range, last) = k * UNIT
    BY <1>2, DerivePriceType
  <2> QED  BY <1>4, <2>1, DerivePriceStarts
<1>6. DerivePrice(next, next.start) <= DerivePrice(next, late)
  BY <1>1, <1>2, DerivePriceGrows
<1>7. /\ DerivePrice(range, early) \in Nat /\ DerivePrice(next, next.start) \in Nat
      /\ DerivePrice(next, late) \in Nat
  BY <1>1, <1>2, DerivePriceType
<1>8. DerivePrice(range, early) <= DerivePrice(next, late)
  BY <1>1, <1>3, <1>4, <1>5, <1>6, <1>7
<1> QED  BY <1>8 DEF InForce, early, late

(* Within one range it does not either. *)
LEMMA InForceGrows ==
  ASSUME NEW range \in Range, range.start < range.end, range.dailyInterestRate >= ONE,
         NEW t \in Nat, range.start <= t, NEW u \in Nat, t <= u
  PROVE  InForce(range, t) <= InForce(range, u)
<1> DEFINE early == IF range.end <= t THEN range.end - 1 ELSE t
           late  == IF range.end <= u THEN range.end - 1 ELSE u
<1>1. range.start \in Nat /\ range.end \in Nat
  BY DEF Range
<1>2. early \in Nat /\ range.start <= early /\ early <= late /\ late \in Nat
  BY <1>1
<1> HIDE DEF early, late
<1>3. DerivePrice(range, early) <= DerivePrice(range, late)
  BY <1>2, DerivePriceGrows
<1> QED  BY <1>3 DEF InForce, early, late

LEMMA InForceType ==
  ASSUME NEW range \in Range, range.start < range.end, NEW t \in Nat, range.start <= t
  PROVE  InForce(range, t) \in Nat
<1> DEFINE early == IF range.end <= t THEN range.end - 1 ELSE t
<1>1. range.start \in Nat /\ range.end \in Nat
  BY DEF Range
<1>2. early \in Nat /\ range.start <= early
  BY <1>1
<1> HIDE DEF early
<1>3. DerivePrice(range, early) \in Nat
  BY <1>2, DerivePriceType
<1> QED  BY <1>3 DEF InForce, early


-----------------------------------------------------------------------------
(* The ranges stay in order.                                               *)
DynamicInv == RangesInOrder /\ now \in Nat

LEMMA TrueStartType ==
  ASSUME NEW price \in Nat, NEW rate \in Nat \ {0}
  PROVE  TrueStart(price, rate) \in Nat
<1> DEFINE u == price * ONE
<1>1. u \in Nat
  BY DynamicConstants
<1> HIDE DEF u
<1>2. u \div rate \in Nat
  BY <1>1
<1> QED  BY <1>2 DEF u, TrueStart

LEMMA DynamicInitInv == ClockInit /\ DynamicInit => DynamicInv
<1>1. SUFFICES ASSUME now \in Nat, oraclePaused = FALSE,
                      NEW start \in 0 .. now, NEW end \in 1 .. MaxEnd, NEW rate \in Rates,
                      NEW price \in StartPrices, start < end,
                      ranges = <<MakeRange(start, end, rate, TrueStart(price, rate))>>
               PROVE  DynamicInv
  BY TimeAssumption DEF ClockInit, DynamicInit
<1> DEFINE first == MakeRange(start, end, rate, TrueStart(price, rate))
<1>2. /\ start \in Nat /\ end \in Nat /\ rate \in Nat \ {0} /\ price \in Nat
  BY <1>1, DynamicAssumption
<1>3. first \in Range
  <2>1. TrueStart(price, rate) \in Nat
    BY <1>2, TrueStartType
  <2> QED  BY <1>2, <2>1 DEF MakeRange, Range
<1>4. first.start = start /\ first.end = end
  BY DEF MakeRange
<1> HIDE DEF first
<1>5. ranges = <<first>>
  BY <1>1 DEF first
<1>6. ranges \in Seq(Range) /\ Len(ranges) = 1 /\ DOMAIN ranges = {1} /\ ranges[1] = first
  BY <1>3, <1>5
<1>7. \A i, j \in DOMAIN ranges : ~ (i < j) /\ ranges[i].start < ranges[i].end
  BY <1>1, <1>2, <1>4, <1>6
<1>8. ranges # <<>> /\ oraclePaused \in BOOLEAN
  BY <1>1, <1>6
<1> QED  BY <1>1, <1>6, <1>7, <1>8 DEF DynamicInv, RangesInOrder

(* The range that setRange appends. *)
LEMMA NextRangeType ==
  ASSUME DynamicInv, NEW end \in Nat, NEW rate \in Nat
  PROVE  /\ NextRange(end, rate) \in Range
         /\ NextRange(end, rate).start = Last(ranges).end
         /\ NextRange(end, rate).end = end
         /\ NextRange(end, rate).dailyInterestRate = rate
         /\ NextRange(end, rate).prevRangeClosePrice = ClosePrice(Last(ranges))
<1> DEFINE last == Last(ranges)
<1>1. ranges \in Seq(Range) /\ Len(ranges) \in DOMAIN ranges
  BY DEF DynamicInv, RangesInOrder
<1>2. last \in Range /\ last.start < last.end
  BY <1>1 DEF DynamicInv, RangesInOrder, Last
<1> HIDE DEF last
<1>3. last.start \in Nat /\ last.end \in Nat
  BY <1>2 DEF Range
<1>4. ClosePrice(last) \in Nat
  <2> DEFINE t == last.end - 1
  <2>1. t \in Nat /\ last.start <= t
    BY <1>2, <1>3
  <2> HIDE DEF t
  <2>2. DerivePrice(last, t) \in Nat
    BY <1>2, <2>1, DerivePriceType
  <2> QED  BY <2>2 DEF t, ClosePrice
<1> QED  BY <1>3, <1>4 DEF NextRange, MakeRange, Range, last

LEMMA SetRangeInv ==
  ASSUME DynamicInv, NEW end \in 1 .. MaxEnd, NEW rate \in Rates, SetRange(end, rate)
  PROVE  DynamicInv'
<1> DEFINE next == NextRange(end, rate)
<1>1. end \in Nat /\ rate \in Nat
  BY DynamicAssumption
<1>2. next \in Range /\ next.start = Last(ranges).end /\ next.end = end
  BY <1>1, NextRangeType
<1>3. /\ ranges' = Append(ranges, next) /\ Last(ranges).end < end
      /\ oraclePaused' = oraclePaused /\ now' = now
  BY DEF SetRange
<1> HIDE DEF next
<1>4. /\ ranges \in Seq(Range) /\ ranges # <<>>
      /\ \A i \in DOMAIN ranges : ranges[i] \in Range
  BY DEF DynamicInv, RangesInOrder
<1>5. /\ ranges' \in Seq(Range) /\ ranges' # <<>> /\ Len(ranges') = Len(ranges) + 1
      /\ \A i \in DOMAIN ranges : ranges'[i] = ranges[i]
      /\ ranges'[Len(ranges) + 1] = next
  BY <1>2, <1>3, <1>4
<1>6. \A i \in DOMAIN ranges' : i \in DOMAIN ranges \/ i = Len(ranges) + 1
  BY <1>4, <1>5
<1>7. ASSUME NEW i \in DOMAIN ranges'
      PROVE  ranges'[i].start < ranges'[i].end
  BY <1>2, <1>3, <1>5, <1>6 DEF DynamicInv, RangesInOrder
<1>8. ASSUME NEW i \in DOMAIN ranges', NEW j \in DOMAIN ranges', i < j
      PROVE  ranges'[i].end <= ranges'[j].start
  <2>1. i \in DOMAIN ranges
    BY <1>4, <1>5, <1>8
  <2>2. CASE j \in DOMAIN ranges
    BY <1>5, <1>8, <2>1, <2>2 DEF DynamicInv, RangesInOrder
  <2>3. CASE j = Len(ranges) + 1
    <3>1. CASE i = Len(ranges)
      <4>1. ranges'[i].end = next.start /\ ranges'[j] = next
        BY <1>2, <1>5, <2>1, <2>3, <3>1 DEF Last
      <4>2. next.start \in Nat
        BY <1>2 DEF Range
      <4> QED  BY <4>1, <4>2
    <3>2. CASE i # Len(ranges)
      <4> DEFINE k == Len(ranges)
      <4>1. k \in DOMAIN ranges /\ i < k
        BY <1>4, <2>1, <3>2
      <4>2. ranges[i].end <= ranges[k].start /\ ranges[k].start < ranges[k].end
        BY <2>1, <4>1 DEF DynamicInv, RangesInOrder
      <4>3. ranges[i].end \in Nat /\ ranges[k].start \in Nat /\ ranges[k].end \in Nat
        BY <1>4, <2>1, <4>1 DEF Range
      <4> QED  BY <1>2, <1>5, <2>1, <2>3, <4>2, <4>3 DEF Last
    <3> QED  BY <3>1, <3>2
  <2> QED  BY <1>6, <2>2, <2>3
<1> QED  BY <1>3, <1>5, <1>7, <1>8 DEF DynamicInv, RangesInOrder

LEMMA OverrideRangeInv ==
  ASSUME DynamicInv, NEW k \in DOMAIN ranges, NEW o \in Overrides, NEW rate \in Rates,
         OverrideRange(k, o[1], o[2], rate, o[3])
  PROVE  DynamicInv'
<1> DEFINE price == IF k = 1 THEN TrueStart(o[3], rate) ELSE o[3]
           new == MakeRange(o[1], o[2], rate, price)
<1>1. o[1] \in Nat /\ o[2] \in Nat /\ o[3] \in Nat /\ rate \in Nat \ {0}
  BY DynamicAssumption
<1>2. new \in Range /\ new.start = o[1] /\ new.end = o[2]
  <2>1. price \in Nat
    BY <1>1, TrueStartType
  <2> HIDE DEF price
  <2> QED  BY <1>1, <2>1 DEF MakeRange, Range
<1>3. /\ o[1] < o[2]
      /\ k > 1 => o[1] >= ranges[k - 1].end
      /\ k < Len(ranges) => o[2] <= ranges[k + 1].start
      /\ ranges' = [ranges EXCEPT ![k] = new]
      /\ oraclePaused' = oraclePaused /\ now' = now
  BY DEF OverrideRange, Fits
<1> HIDE DEF new
<1>4. /\ ranges \in Seq(Range) /\ ranges # <<>>
      /\ \A i \in DOMAIN ranges : ranges[i] \in Range
  BY DEF DynamicInv, RangesInOrder
<1>5. /\ ranges' \in Seq(Range) /\ ranges' # <<>> /\ DOMAIN ranges' = DOMAIN ranges
      /\ \A i \in DOMAIN ranges : i # k => ranges'[i] = ranges[i]
      /\ ranges'[k] = new
  BY <1>2, <1>3, <1>4
<1>6. \A i \in DOMAIN ranges : /\ ranges[i].start \in Nat /\ ranges[i].end \in Nat
                               /\ ranges[i].start < ranges[i].end
  BY <1>4 DEF Range, DynamicInv, RangesInOrder
<1>7. \A i \in DOMAIN ranges : ranges'[i].start < ranges'[i].end
  BY <1>2, <1>3, <1>5, <1>6
<1>8. ASSUME NEW i \in DOMAIN ranges, NEW j \in DOMAIN ranges, i < j
      PROVE  ranges'[i].end <= ranges'[j].start
  <2>1. i \in Nat /\ j \in Nat /\ k \in Nat /\ i >= 1 /\ j <= Len(ranges) /\ Len(ranges) \in Nat
    BY <1>4
  <2>2. CASE i = k
    <3>1. k + 1 \in DOMAIN ranges /\ k < Len(ranges)
      BY <1>4, <1>8, <2>1, <2>2
    <3>2. ranges[k + 1].start <= ranges[j].start
      <4>1. CASE j = k + 1
        BY <1>6, <3>1, <4>1
      <4>2. CASE j # k + 1
        <5>1. k + 1 < j
          BY <1>8, <2>1, <2>2, <4>2
        <5>2. ranges[k + 1].end <= ranges[j].start
          BY <3>1, <5>1 DEF DynamicInv, RangesInOrder
        <5> QED  BY <1>6, <3>1, <5>2
      <4> QED  BY <4>1, <4>2
    <3>3. j # k
      BY <1>8, <2>1, <2>2
    <3> QED  BY <1>1, <1>2, <1>3, <1>5, <1>6, <2>2, <3>1, <3>2, <3>3
  <2>3. CASE j = k
    <3>1. k - 1 \in DOMAIN ranges /\ k > 1
      BY <1>4, <1>8, <2>1, <2>3
    <3>2. ranges[i].end <= ranges[k - 1].end
      <4>1. CASE i = k - 1
        BY <1>6, <3>1, <4>1
      <4>2. CASE i # k - 1
        <5>1. i < k - 1
          BY <1>8, <2>1, <2>3, <4>2
        <5>2. ranges[i].end <= ranges[k - 1].start
          BY <3>1, <5>1 DEF DynamicInv, RangesInOrder
        <5> QED  BY <1>6, <3>1, <5>2
      <4> QED  BY <4>1, <4>2
    <3>3. i # k
      BY <1>8, <2>1, <2>3
    <3> QED  BY <1>1, <1>2, <1>3, <1>5, <1>6, <2>3, <3>1, <3>2, <3>3
  <2>4. CASE i # k /\ j # k
    BY <1>5, <1>8, <2>4 DEF DynamicInv, RangesInOrder
  <2> QED  BY <2>2, <2>3, <2>4
<1> QED  BY <1>3, <1>5, <1>7, <1>8 DEF DynamicInv, RangesInOrder

LEMMA DynamicStepInv == DynamicInv /\ [DynamicNext]_<<dynamicVars, now>> => DynamicInv'
<1> SUFFICES ASSUME DynamicInv, [DynamicNext]_<<dynamicVars, now>> PROVE DynamicInv'
  OBVIOUS
<1>1. ASSUME NEW end \in 1 .. MaxEnd, NEW rate \in Rates, SetRange(end, rate)
      PROVE  DynamicInv'
  BY <1>1, SetRangeInv
<1>2. ASSUME NEW k \in DOMAIN ranges, NEW o \in Overrides, NEW rate \in Rates,
             OverrideRange(k, o[1], o[2], rate, o[3])
      PROVE  DynamicInv'
  BY <1>2, OverrideRangeInv
<1>3. CASE PauseOracle \/ UnpauseOracle
  BY <1>3 DEF PauseOracle, UnpauseOracle, DynamicInv, RangesInOrder
<1>4. CASE DynamicTick
  BY <1>4 DEF DynamicTick, ClockTick, dynamicVars, DynamicInv, RangesInOrder
<1>5. CASE UNCHANGED <<dynamicVars, now>>
  BY <1>5 DEF dynamicVars, DynamicInv, RangesInOrder
<1> QED  BY <1>1, <1>2, <1>3, <1>4, <1>5 DEF DynamicNext

(* The ranges of the dynamic oracle are proper, and one ends before the    *)
(* next begins, whatever setRange and overrideRange do (RWADynamicOracle:  *)
(* the search of getPrice needs nothing else of them).                     *)
THEOREM DynamicRangesInOrder == DynamicSpec => []RangesInOrder
<1>1. DynamicInv => RangesInOrder
  BY DEF DynamicInv
<1> QED  BY <1>1, DynamicInitInv, DynamicStepInv, PTL DEF DynamicSpec

-----------------------------------------------------------------------------
(* The range that decides a price is the last one that has started.        *)
LEMMA Largest ==
  ASSUME NEW n \in Nat, NEW S, S \subseteq 1 .. n, S # {}
  PROVE  \E i \in S : \A j \in S : j <= i
<1> DEFINE Goal == \E i \in S : \A j \in S : j <= i
           T == {k \in Nat : \A i \in S : n - i = k => Goal}
<1> HIDE DEF Goal
<1>1. ASSUME NEW k \in Nat, \A m \in Nat : m < k => m \in T
      PROVE  k \in T
  <2>1. SUFFICES ASSUME NEW i \in S, n - i = k PROVE Goal
    OBVIOUS
  <2>2. CASE \E j \in S : j > i
    <3>1. PICK j \in S : j > i
      BY <2>2
    <3>2. n - j \in Nat /\ n - j < k
      BY <2>1, <3>1
    <3>3. n - j \in T
      BY <1>1, <3>2
    <3> QED  BY <3>3
  <2>3. CASE \A j \in S : ~ (j > i)
    <3>1. \A j \in S : j <= i
      BY <2>3
    <3> QED  BY <3>1 DEF Goal
  <2> QED  BY <2>2, <2>3
<1>2. \A k \in Nat : k \in T
  <2> HIDE DEF T
  <2> QED  BY <1>1, StrongInduction
<1>3. PICK i \in S : TRUE
  OBVIOUS
<1>4. n - i \in Nat
  OBVIOUS
<1>5. n - i \in T
  BY <1>2, <1>4
<1>6. Goal
  BY <1>5
<1> QED  BY <1>6 DEF Goal

LEMMA LatestExists ==
  ASSUME NEW rs \in Seq(Range), NEW t, Started(rs, t) # {}
  PROVE  \E i \in Started(rs, t) : \A j \in Started(rs, t) : j <= i
<1> DEFINE S == Started(rs, t)
<1>1. S \subseteq 1 .. Len(rs) /\ Len(rs) \in Nat
  BY DEF Started
<1> HIDE DEF S
<1>2. S # {} => \E i \in S : \A j \in S : j <= i
  BY <1>1, Largest
<1> QED  BY <1>2 DEF S

LEMMA PriceAtLatest ==
  ASSUME NEW rs \in Seq(Range), NEW t, NEW i \in Started(rs, t),
         \A j \in Started(rs, t) : j <= i
  PROVE  PriceAt(rs, t) = InForce(rs[i], t)
<1> DEFINE Latest(k) == k \in Started(rs, t) /\ \A j \in Started(rs, t) : j <= k
           l == CHOOSE k \in Started(rs, t) : \A j \in Started(rs, t) : j <= k
<1>1. l \in Started(rs, t) /\ \A j \in Started(rs, t) : j <= l
  OBVIOUS
<1>2. l <= i /\ i <= l /\ l \in Nat /\ i \in Nat
  BY <1>1 DEF Started
<1>3. l = i
  BY <1>2
<1>4. PriceAt(rs, t) = InForce(rs[l], t)
  BY DEF PriceAt, InForce
<1> QED  BY <1>3, <1>4

LEMMA PriceAtNone ==
  ASSUME NEW rs, NEW t, Started(rs, t) = {}
  PROVE  PriceAt(rs, t) = 0
BY DEF PriceAt

(* Ranges that have not started yet do not count. *)
LEMMA PriceAtSame ==
  ASSUME NEW rs \in Seq(Range), NEW longer \in Seq(Range), NEW t,
         Started(longer, t) = Started(rs, t),
         \A i \in DOMAIN rs : longer[i] = rs[i]
  PROVE  PriceAt(longer, t) = PriceAt(rs, t)
<1>1. CASE Started(rs, t) = {}
  BY <1>1, PriceAtNone
<1>2. CASE Started(rs, t) # {}
  <2>1. PICK i \in Started(rs, t) : \A j \in Started(rs, t) : j <= i
    BY <1>2, LatestExists
  <2>2. PriceAt(rs, t) = InForce(rs[i], t) /\ PriceAt(longer, t) = InForce(longer[i], t)
    BY <2>1, PriceAtLatest
  <2>3. i \in DOMAIN rs
    BY DEF Started
  <2> QED  BY <2>2, <2>3
<1> QED  BY <1>1, <1>2

LEMMA PriceAtType ==
  ASSUME NEW rs \in Seq(Range), \A i \in DOMAIN rs : rs[i].start < rs[i].end, NEW t \in Nat
  PROVE  PriceAt(rs, t) \in Nat
<1>1. CASE Started(rs, t) = {}
  BY <1>1, PriceAtNone
<1>2. CASE Started(rs, t) # {}
  <2>1. PICK i \in Started(rs, t) : \A j \in Started(rs, t) : j <= i
    BY <1>2, LatestExists
  <2>2. i \in DOMAIN rs /\ rs[i].start <= t /\ rs[i] \in Range
    BY DEF Started
  <2>3. InForce(rs[i], t) \in Nat
    BY <2>2, InForceType
  <2>4. PriceAt(rs, t) = InForce(rs[i], t)
    BY <2>1, PriceAtLatest
  <2> QED  BY <2>3, <2>4
<1> QED  BY <1>1, <1>2

-----------------------------------------------------------------------------
(* A step that overrides nothing: time passes, or a range is appended.     *)
Appends(end, rate) == /\ rate >= ONE
                      /\ ranges' = Append(ranges, NextRange(end, rate))
                      /\ now' = now

LEMMA SameIfExtended ==
  ASSUME NEW rs \in Seq(Range), NEW rs2 \in Seq(Range), Extends(rs, rs2), Len(rs2) = Len(rs)
  PROVE  rs2 = rs
BY DEF Extends

LEMMA StepThatExtends ==
  ASSUME DynamicInv, [DynamicNext]_<<dynamicVars, now>>, Extends(ranges, ranges')
  PROVE  \/ ranges' = ranges /\ (now' = now \/ now' = now + 1)
         \/ \E end \in Nat, rate \in Nat : Appends(end, rate)
<1> DEFINE Goal == \/ ranges' = ranges /\ (now' = now \/ now' = now + 1)
                   \/ \E end \in Nat, rate \in Nat : Appends(end, rate)
<1>1. ASSUME NEW end \in 1 .. MaxEnd, NEW rate \in Rates, SetRange(end, rate)
      PROVE  Goal
  <2>1. end \in Nat /\ rate \in Nat
    BY DynamicAssumption
  <2>2. Appends(end, rate)
    BY <1>1 DEF SetRange, Appends
  <2> QED  BY <2>1, <2>2
<1>2. ASSUME NEW k \in DOMAIN ranges, NEW o \in Overrides, NEW rate \in Rates,
             OverrideRange(k, o[1], o[2], rate, o[3])
      PROVE  Goal
  <2>1. DynamicInv'
    BY <1>2, OverrideRangeInv
  <2>2. ranges \in Seq(Range) /\ ranges' \in Seq(Range) /\ Len(ranges') = Len(ranges)
    BY <1>2, <2>1 DEF DynamicInv, RangesInOrder, OverrideRange
  <2>3. ranges' = ranges
    BY <2>2, SameIfExtended
  <2>4. now' = now
    BY <1>2 DEF OverrideRange
  <2> QED  BY <2>3, <2>4
<1>3. PauseOracle \/ UnpauseOracle => Goal
  BY DEF PauseOracle, UnpauseOracle
<1>4. DynamicTick => Goal
  BY DEF DynamicTick, ClockTick, dynamicVars
<1>5. UNCHANGED <<dynamicVars, now>> => Goal
  BY DEF dynamicVars
<1> QED
  <2> HIDE DEF Goal
  <2>1. DynamicNext => Goal
    BY <1>1, <1>2, <1>3, <1>4 DEF DynamicNext
  <2>2. Goal
    BY <2>1, <1>5
  <2> QED  BY <2>2 DEF Goal

LEMMA AppendedRange ==
  ASSUME DynamicInv, NEW end \in Nat, NEW rate \in Nat, Appends(end, rate)
  PROVE  /\ ranges' \in Seq(Range)
         /\ Len(ranges') = Len(ranges) + 1
         /\ \A i \in DOMAIN ranges : ranges'[i] = ranges[i]
         /\ ranges'[Len(ranges) + 1] = NextRange(end, rate)
<1> DEFINE next == NextRange(end, rate)
<1>1. next \in Range
  BY NextRangeType
<1>2. ranges' = Append(ranges, next) /\ ranges \in Seq(Range)
  BY DEF Appends, DynamicInv, RangesInOrder
<1> HIDE DEF next
<1>3. /\ ranges' \in Seq(Range) /\ Len(ranges') = Len(ranges) + 1
      /\ \A i \in DOMAIN ranges : ranges'[i] = ranges[i]
      /\ ranges'[Len(ranges) + 1] = next
  BY <1>1, <1>2
<1> QED  BY <1>3 DEF next

(* An appended range that has not started changes no price. *)
LEMMA NotStartedYet ==
  ASSUME DynamicInv, NEW end \in Nat, NEW rate \in Nat, Appends(end, rate),
         NEW t \in Nat, t < Last(ranges).end
  PROVE  PriceAt(ranges', t) = PriceAt(ranges, t)
<1>1. /\ ranges \in Seq(Range) /\ ranges' \in Seq(Range)
      /\ Len(ranges') = Len(ranges) + 1
      /\ \A i \in DOMAIN ranges : ranges'[i] = ranges[i]
      /\ ranges'[Len(ranges) + 1] = NextRange(end, rate)
  BY AppendedRange DEF DynamicInv, RangesInOrder
<1>2. NextRange(end, rate).start = Last(ranges).end
  BY NextRangeType
<1>3. Last(ranges).end \in Nat
  <2>1. Last(ranges) \in Range
    BY DEF Last, DynamicInv, RangesInOrder
  <2> QED  BY <2>1 DEF Range
<1> DEFINE next == NextRange(end, rate)
           last == Last(ranges)
<1> HIDE DEF next, last
<1>4. ~ (next.start <= t)
  BY <1>2, <1>3 DEF next, last
<1>5. \A i : i \in Started(ranges', t) <=> i \in Started(ranges, t)
  <2> SUFFICES ASSUME NEW i PROVE i \in Started(ranges', t) <=> i \in Started(ranges, t)
    OBVIOUS
  <2>1. i \in DOMAIN ranges' <=> i \in DOMAIN ranges \/ i = Len(ranges) + 1
    BY <1>1
  <2>2. CASE i = Len(ranges) + 1
    <3>1. i \notin DOMAIN ranges /\ ranges'[i] = next
      BY <1>1, <2>2 DEF next
    <3> QED  BY <1>4, <3>1 DEF Started
  <2>3. CASE i # Len(ranges) + 1
    BY <1>1, <2>1, <2>3 DEF Started
  <2> QED  BY <2>2, <2>3
<1>6. Started(ranges', t) = Started(ranges, t)
  BY <1>5
<1> QED  BY <1>1, <1>6, PriceAtSame

(* Setting a range before the last one has ended leaves every price up to  *)
(* now alone (RWADynamicOracle.setRange starts a range where the last one  *)
(* ends).                                                                  *)
THEOREM DynamicPastIsFinal == DynamicSpec => PastIsFinal
<1> DEFINE Step == Extends(ranges, ranges') /\ Last(ranges).end > now
                     => \A t \in 0..now : PriceAt(ranges', t) = PriceAt(ranges, t)
<1>1. ASSUME DynamicInv, [DynamicNext]_<<dynamicVars, now>> PROVE [Step]_<<dynamicVars, now>>
  <2>1. SUFFICES ASSUME Extends(ranges, ranges'), Last(ranges).end > now, NEW t \in 0..now
                 PROVE  PriceAt(ranges', t) = PriceAt(ranges, t)
    OBVIOUS
  <2>2. now \in Nat
    BY <1>1 DEF DynamicInv
  <2>3. CASE ranges' = ranges
    BY <2>3
  <2>4. ASSUME NEW end \in Nat, NEW rate \in Nat, Appends(end, rate)
        PROVE  PriceAt(ranges', t) = PriceAt(ranges, t)
    <3>1. Last(ranges).end \in Nat
      <4>1. Last(ranges) \in Range
        BY <1>1 DEF Last, DynamicInv, RangesInOrder
      <4> QED  BY <4>1 DEF Range
    <3>2. t < Last(ranges).end /\ t \in Nat
      BY <2>1, <2>2, <3>1
    <3> QED  BY <1>1, <2>4, <3>2, NotStartedYet
  <2> QED  BY <1>1, <2>1, <2>3, <2>4, StepThatExtends
<1>2. DynamicSpec => [][Step]_<<dynamicVars, now>>
  BY <1>1, DynamicInitInv, DynamicStepInv, PTL DEF DynamicSpec
<1> QED  BY <1>2 DEF PastIsFinal

(* A price is at least the price of the same ranges a moment before.       *)
LEMMA PriceGrowsWithTime ==
  ASSUME DynamicInv, Continuous(ranges), NEW later \in {now, now + 1}
  PROVE  PriceAt(ranges, now) <= PriceAt(ranges, later)
<1>1. /\ ranges \in Seq(Range) /\ now \in Nat /\ later \in Nat /\ now <= later
      /\ later <= now + 1
  BY DEF DynamicInv, RangesInOrder
<1>2. \A i \in DOMAIN ranges : /\ ranges[i] \in Range /\ ranges[i].start < ranges[i].end
                               /\ ranges[i].dailyInterestRate >= ONE
                               /\ ranges[i].start \in Nat /\ ranges[i].end \in Nat
  <2>1. \A i \in DOMAIN ranges : ranges[i] \in Range
    BY <1>1
  <2>2. \A i \in DOMAIN ranges : ranges[i].start \in Nat /\ ranges[i].end \in Nat
    BY <2>1 DEF Range
  <2> QED  BY <2>1, <2>2 DEF DynamicInv, RangesInOrder, Continuous
<1>3. CASE Started(ranges, now) = {}
  <2>1. PriceAt(ranges, now) = 0
    BY <1>3, PriceAtNone
  <2>2. PriceAt(ranges, later) \in Nat
    BY <1>1, <1>2, PriceAtType
  <2> QED  BY <2>1, <2>2
<1>4. CASE Started(ranges, now) # {}
  <2>1. PICK i \in Started(ranges, now) : \A k \in Started(ranges, now) : k <= i
    BY <1>1, <1>4, LatestExists
  <2>2. i \in DOMAIN ranges /\ ranges[i].start <= now /\ i \in Started(ranges, later)
    BY <1>1, <1>2 DEF Started
  <2>3. PICK j \in Started(ranges, later) : \A k \in Started(ranges, later) : k <= j
    BY <1>1, <2>2, LatestExists
  <2>4. j \in DOMAIN ranges /\ ranges[j].start <= later
    BY DEF Started
  <2>5. i <= j /\ i \in Nat /\ j \in Nat
    BY <1>1, <2>2, <2>3, <2>4
  <2>6. /\ PriceAt(ranges, now) = InForce(ranges[i], now)
        /\ PriceAt(ranges, later) = InForce(ranges[j], later)
    BY <1>1, <2>1, <2>3, PriceAtLatest
  <2>7. CASE j = i
    <3>1. InForce(ranges[i], now) <= InForce(ranges[i], later)
      BY <1>1, <1>2, <2>2, InForceGrows
    <3> QED  BY <2>6, <2>7, <3>1
  <2>8. CASE j # i
    <3>1. i + 1 \in DOMAIN ranges /\ i + 1 <= j
      BY <1>1, <2>4, <2>5, <2>8
    <3>2. j = i + 1
      <4>1. SUFFICES ASSUME i + 1 < j PROVE FALSE
        BY <2>5, <3>1
      <4>2. ranges[i + 1].end <= ranges[j].start
        BY <2>4, <3>1, <4>1 DEF DynamicInv, RangesInOrder
      <4> DEFINE k == i + 1
      <4> HIDE DEF k
      <4>3. k \in DOMAIN ranges /\ ranges[k].end <= ranges[j].start
        BY <3>1, <4>2 DEF k
      <4>4. ranges[k].start <= now
        BY <1>1, <1>2, <2>4, <4>3
      <4>5. k \in Started(ranges, now)
        BY <4>3, <4>4 DEF Started
      <4>6. i + 1 <= i
        BY <2>1, <4>5 DEF k
      <4> QED  BY <2>5, <4>6
    <3>3. ranges[j].prevRangeClosePrice = ClosePrice(ranges[i])
      <4>1. j \in 2..Len(ranges) /\ j - 1 = i
        BY <1>1, <2>4, <2>2, <2>5, <3>2
      <4> QED  BY <4>1 DEF Continuous
    <3>4. InForce(ranges[i], now) <= InForce(ranges[j], later)
      BY <1>1, <1>2, <2>2, <2>4, <3>3, NextRangeStartsNoLower
    <3> QED  BY <2>6, <3>4
  <2> QED  BY <2>7, <2>8
<1> QED  BY <1>3, <1>4

(* Nor does a range that is appended lower the price. *)
LEMMA PriceGrowsWithRange ==
  ASSUME DynamicInv, Continuous(ranges), NEW end \in Nat, NEW rate \in Nat,
         Appends(end, rate), Last(ranges).end < end
  PROVE  PriceAt(ranges, now) <= PriceAt(ranges', now)
<1> DEFINE n    == Len(ranges)
           last == ranges[n]
           next == NextRange(end, rate)
<1>1. /\ ranges \in Seq(Range) /\ ranges' \in Seq(Range) /\ now \in Nat
      /\ n \in DOMAIN ranges /\ n \in Nat /\ DOMAIN ranges' = 1 .. n + 1
      /\ \A i \in DOMAIN ranges : ranges'[i] = ranges[i]
      /\ ranges'[n + 1] = next
  BY AppendedRange DEF DynamicInv, RangesInOrder
<1>2. /\ last \in Range /\ last.start < last.end /\ last.dailyInterestRate >= ONE
      /\ last.start \in Nat /\ last.end \in Nat
  <2>1. last \in Range /\ last.start < last.end /\ last.dailyInterestRate >= ONE
    BY <1>1 DEF DynamicInv, RangesInOrder, Continuous
  <2> HIDE DEF last
  <2> QED  BY <2>1 DEF Range
<1>3. /\ next \in Range /\ next.start = last.end /\ next.end = end
      /\ next.dailyInterestRate = rate /\ next.prevRangeClosePrice = ClosePrice(last)
  BY NextRangeType DEF Last
<1>4. rate >= ONE /\ last.end < end
  BY DEF Appends, Last
<1>5. CASE now < last.end
  <2>1. PriceAt(ranges', now) = PriceAt(ranges, now)
    BY <1>1, <1>5, NotStartedYet DEF Last
  <2>2. PriceAt(ranges, now) \in Nat
    BY <1>1, PriceAtType DEF DynamicInv, RangesInOrder
  <2> QED  BY <2>1, <2>2
<1>6. CASE ~ (now < last.end)
  <2> HIDE DEF n, next
  <2>1. last.start <= now /\ next.start <= now
    BY <1>1, <1>2, <1>3, <1>6
  <2>2. n \in Started(ranges, now) /\ \A j \in Started(ranges, now) : j <= n
    BY <1>1, <2>1 DEF Started, n
  <2>3. n + 1 \in Started(ranges', now) /\ \A j \in Started(ranges', now) : j <= n + 1
    <3>1. n + 1 \in 1 .. n + 1
      BY <1>1
    <3>2. \A j \in Started(ranges', now) : j \in 1 .. n + 1
      BY <1>1 DEF Started
    <3>3. \A j \in 1 .. n + 1 : j <= n + 1
      BY <1>1
    <3> QED  BY <1>1, <2>1, <3>1, <3>2, <3>3 DEF Started
  <2>4. PriceAt(ranges, now) = InForce(last, now)
    BY <1>1, <2>2, PriceAtLatest
  <2>5. PriceAt(ranges', now) = InForce(next, now)
    <3> DEFINE k == n + 1
    <3>1. k \in Started(ranges', now) /\ \A j \in Started(ranges', now) : j <= k
      BY <2>3
    <3> HIDE DEF k
    <3>2. PriceAt(ranges', now) = InForce(ranges'[k], now)
      BY <1>1, <3>1, PriceAtLatest
    <3> QED  BY <1>1, <3>2 DEF k
  <2>6. InForce(last, now) <= InForce(next, now)
    <3> HIDE DEF last
    <3>1. next.start < next.end /\ next.dailyInterestRate >= ONE
      BY <1>2, <1>3, <1>4
    <3> QED  BY <1>1, <1>2, <1>3, <2>1, <3>1, NextRangeStartsNoLower
  <2> QED  BY <2>4, <2>5, <2>6
<1> QED  BY <1>5, <1>6

(* As long as every range continues the one before it at a rate of at      *)
(* least ONE, and nothing is overridden, the price never falls: not within *)
(* a range, not from a range to the next, not when one is appended, in     *)
(* spite of the rounding in _rpow, in derivePrice and in roundUpTo8.       *)
THEOREM DynamicPriceNeverFalls == DynamicSpec => PriceNeverFalls
<1> DEFINE Step == Continuous(ranges) /\ Extends(ranges, ranges') => GetPrice' >= GetPrice
<1>1. ASSUME DynamicInv, [DynamicNext]_<<dynamicVars, now>> PROVE [Step]_<<dynamicVars, now>>
  <2>1. SUFFICES ASSUME Continuous(ranges), Extends(ranges, ranges')
                 PROVE  GetPrice' >= GetPrice
    OBVIOUS
  <2> DEFINE p == PriceAt(ranges, now)
             q == PriceAt(ranges', now')
  <2>2. GetPrice = p /\ GetPrice' = q
    BY DEF GetPrice, PriceAt, Started
  <2>3. now \in Nat /\ p \in Nat
    BY <1>1, PriceAtType DEF DynamicInv, RangesInOrder
  <2>4. DynamicInv'
    BY <1>1, DynamicStepInv
  <2>5. now' \in Nat /\ q \in Nat
    <3>1. /\ ranges' \in Seq(Range) /\ now' \in Nat
          /\ \A i \in DOMAIN ranges' : ranges'[i].start < ranges'[i].end
      BY <2>4 DEF DynamicInv, RangesInOrder
    <3> QED  BY <3>1, PriceAtType
  <2>6. p <= q
    <3>1. CASE ranges' = ranges /\ (now' = now \/ now' = now + 1)
      <4>1. now' \in {now, now + 1}
        BY <3>1
      <4>2. p <= PriceAt(ranges, now')
        BY <1>1, <2>1, <4>1, PriceGrowsWithTime
      <4> QED  BY <3>1, <4>2
    <3>2. ASSUME NEW end \in Nat, NEW rate \in Nat, Appends(end, rate)
          PROVE  p <= q
      <4>1. Last(ranges).end < end
        <5>1. /\ ranges' \in Seq(Range) /\ ranges \in Seq(Range) /\ ranges # <<>>
              /\ Len(ranges') = Len(ranges) + 1
              /\ ranges'[Len(ranges) + 1] = NextRange(end, rate)
          BY <1>1, <3>2, AppendedRange DEF DynamicInv, RangesInOrder
        <5>2. /\ NextRange(end, rate).start = Last(ranges).end
              /\ NextRange(end, rate).end = end
          BY <1>1, NextRangeType
        <5>3. \A i \in DOMAIN ranges' : ranges'[i].start < ranges'[i].end
          BY <2>4 DEF DynamicInv, RangesInOrder
        <5>4. Len(ranges) + 1 \in DOMAIN ranges'
          BY <5>1
        <5> QED  BY <5>1, <5>2, <5>3, <5>4
      <4>2. p <= PriceAt(ranges', now)
        BY <1>1, <2>1, <3>2, <4>1, PriceGrowsWithRange
      <4> QED  BY <3>2, <4>2 DEF Appends
    <3> HIDE DEF p, q
    <3> QED  BY <1>1, <2>1, <3>1, <3>2, StepThatExtends
  <2> HIDE DEF p, q
  <2> QED  BY <2>2, <2>3, <2>5, <2>6
<1>2. DynamicSpec => [][Step]_<<dynamicVars, now>>
  BY <1>1, DynamicInitInv, DynamicStepInv, PTL DEF DynamicSpec
<1> QED  BY <1>2 DEF PriceNeverFalls

-----------------------------------------------------------------------------
(* What the bound on each replacement comes to over time. *)

(* What Power(base) is. *)
IsPower(p, base) == /\ p \in [Nat -> Nat]
                    /\ p[0] = 1
                    /\ \A k \in Nat : p[k + 1] = base * p[k]

LEMMA PowerIs ==
  ASSUME NEW base \in Nat
  PROVE  /\ IsPower(RateBound!Power(base), base) /\ IsPower(ComparisonBound!Power(base), base)
         /\ IsPower(Power(base), base)
<1> DEFINE Equation(p) == p = [k \in Nat |-> IF k = 0 THEN 1 ELSE base * p[k - 1]]
           rank == [k \in Nat |-> k]
           out  == [k \in Nat |-> 1]
           step == [k \in Nat |-> IF k = 0 THEN 0 ELSE k - 1]
           next == [s \in Nat \X Nat |-> base * s[2]]
<1>1. /\ rank \in [Nat -> Nat] /\ out \in [Nat -> Nat] /\ step \in [Nat -> Nat]
      /\ next \in [Nat \X Nat -> Nat]
  <2>1. \A s \in Nat \X Nat : base * s[2] \in Nat
    OBVIOUS
  <2> QED  BY <2>1
<1>2. \A k \in Nat : rank[k] # 0 => rank[step[k]] < rank[k]
  OBVIOUS
<1>3. PICK p : Computes(p, Nat, rank, out, step, next)
  <2> HIDE DEF rank, out, step, next
  <2> QED  BY <1>1, <1>2, LoopTerminates
<1>4. Equation(p)
  <2>1. \A k \in Nat : k # 0 => next[<<k, p[step[k]]>>] = base * p[k - 1]
    <3>1. p \in [Nat -> Nat]
      BY <1>3 DEF Computes
    <3> QED  BY <3>1
  <2>2. \A k \in Nat : rank[k] = k /\ out[k] = 1
    OBVIOUS
  <2> HIDE DEF rank, out, step, next
  <2> QED  BY <1>3, <2>1, <2>2 DEF Computes
<1> DEFINE power == CHOOSE q : Equation(q)
<1>5. Equation(power)
  <2> HIDE DEF Equation
  <2> QED  BY <1>4
<1>6. RateBound!Power(base) = power /\ ComparisonBound!Power(base) = power /\ Power(base) = power
  BY DEF RateBound!Power, ComparisonBound!Power, Power
<1> HIDE DEF power
<1>7. \A k \in Nat : power[k] = IF k = 0 THEN 1 ELSE base * power[k - 1]
  BY <1>5
<1>8. \A k \in Nat : power[k] \in Nat
  <2> DEFINE Typed == {k \in Nat : power[k] \in Nat}
  <2>1. ASSUME NEW k \in Nat, \A m \in Nat : m < k => m \in Typed
        PROVE  k \in Typed
    <3>1. k # 0 => power[k - 1] \in Nat
      BY <2>1
    <3> QED  BY <1>7, <3>1
  <2>2. \A k \in Nat : k \in Typed
    <3> HIDE DEF Typed
    <3> QED  BY <2>1, StrongInduction
  <2> QED  BY <2>2
<1>9. power \in [Nat -> Nat]
  <2>1. power = [k \in Nat |-> power[k]]
    BY <1>5
  <2> QED  BY <1>8, <2>1
<1>10. ASSUME NEW k \in Nat PROVE power[k + 1] = base * power[k]
  <2>1. k + 1 \in Nat /\ k + 1 # 0 /\ (k + 1) - 1 = k
    OBVIOUS
  <2> QED  BY <1>7, <2>1
<1>11. IsPower(power, base)
  BY <1>7, <1>9, <1>10 DEF IsPower
<1> QED  BY <1>6, <1>11

LEMMA ProductSwap ==
  ASSUME NEW a \in Int, NEW b \in Int, NEW c \in Int
  PROVE  a * (b * c) = b * (a * c) /\ a * (b * c) \in Int
OBVIOUS

LEMMA ProductKeepsOrder ==
  ASSUME NEW a \in Nat, NEW x \in Nat, NEW y \in Nat, x <= y
  PROVE  a * x <= a * y
OBVIOUS

(* An inequality between multiples of two powers stays when both grow, the *)
(* right by no less than the left.                                         *)
LEMMA PowersKeepOrder ==
  ASSUME NEW A \in Nat, NEW B \in Nat, A <= B, NEW pa, NEW pb, IsPower(pa, A), IsPower(pb, B),
         NEW x \in Nat, NEW y \in Nat, NEW k \in Nat, x * pa[k] <= y * pb[k]
  PROVE  \A m \in Nat : m >= k => x * pa[m] <= y * pb[m]
<1> DEFINE Kept == {m \in Nat : m >= k => x * pa[m] <= y * pb[m]}
<1>1. ASSUME NEW m \in Nat, \A n \in Nat : n < m => n \in Kept
      PROVE  m \in Kept
  <2>1. ASSUME m > k PROVE x * pa[m] <= y * pb[m]
    <3>1. m - 1 \in Nat /\ m - 1 < m /\ m - 1 >= k /\ m = (m - 1) + 1
      BY <2>1
    <3> DEFINE u == pa[m - 1]
               v == pb[m - 1]
    <3>2. u \in Nat /\ v \in Nat /\ pa[m] = A * u /\ pb[m] = B * v
      BY <3>1 DEF IsPower
    <3>3. x * u <= y * v
      BY <1>1, <3>1
    <3> HIDE DEF u, v
    <3>4. x * u \in Nat /\ y * v \in Nat /\ A * (y * v) \in Nat /\ B * (y * v) \in Nat
      BY <3>2
    <3>5. A * (x * u) <= A * (y * v)
      BY <3>3, <3>4, ProductKeepsOrder
    <3>6. A * (y * v) <= B * (y * v)
      BY <3>4
    <3>7. x * (A * u) = A * (x * u) /\ y * (B * v) = B * (y * v) /\ A * (x * u) \in Int
      BY <3>2, ProductSwap
    <3> QED  BY <3>2, <3>4, <3>5, <3>6, <3>7
  <2> QED  BY <2>1
<1>2. \A m \in Nat : m \in Kept
  <2> HIDE DEF Kept
  <2> QED  BY <1>1, StrongInduction
<1> QED  BY <1>2

(* One replacement more, with the power of one window more. *)
LEMMA ReplacementMultiplies ==
  ASSUME NEW A \in Nat, NEW B \in Nat, NEW pa, NEW pb, IsPower(pa, A), IsPower(pb, B),
         NEW x \in Nat, NEW y \in Nat, NEW k \in Nat, x * pa[k] <= y * pb[k],
         NEW w \in Nat, NEW z \in Nat, A * w <= B * x, A * y <= B * z
  PROVE  w * pa[k + 1] <= y * pb[k + 1] /\ x * pa[k + 1] <= z * pb[k + 1]
<1> DEFINE u == pa[k]
           v == pb[k]
<1>1. u \in Nat /\ v \in Nat /\ pa[k + 1] = A * u /\ pb[k + 1] = B * v
  BY DEF IsPower
<1>2. x * u <= y * v
  OBVIOUS
<1> HIDE DEF u, v
<1>3. /\ x * u \in Nat /\ y * v \in Nat /\ A * w \in Nat /\ B * x \in Nat
      /\ A * y \in Nat /\ B * z \in Nat
  BY <1>1
<1>4. w * (A * u) <= y * (B * v)
  <2>1. u * (A * w) <= u * (B * x)
    BY <1>1, <1>3, ProductKeepsOrder
  <2>2. B * (x * u) <= B * (y * v)
    BY <1>2, <1>3, ProductKeepsOrder
  <2>3. w * (A * u) = u * (A * w) /\ u * (B * x) = B * (x * u) /\ y * (B * v) = B * (y * v)
    <3>1. w * (A * u) = A * (w * u) /\ u * (A * w) = A * (u * w) /\ w * u = u * w
      BY <1>1, ProductSwap
    <3>2. u * (B * x) = B * (u * x) /\ u * x = x * u /\ y * (B * v) = B * (y * v)
      BY <1>1, ProductSwap
    <3> QED  BY <3>1, <3>2
  <2>4. u * (A * w) \in Int /\ u * (B * x) \in Int /\ B * (y * v) \in Int
    BY <1>1, <1>3
  <2> QED  BY <2>1, <2>2, <2>3, <2>4
<1>5. x * (A * u) <= z * (B * v)
  <2>1. A * (x * u) <= A * (y * v)
    BY <1>2, <1>3, ProductKeepsOrder
  <2>2. v * (A * y) <= v * (B * z)
    BY <1>1, <1>3, ProductKeepsOrder
  <2>3. x * (A * u) = A * (x * u) /\ v * (A * y) = A * (y * v) /\ z * (B * v) = v * (B * z)
    <3>1. x * (A * u) = A * (x * u) /\ v * (A * y) = A * (v * y) /\ v * y = y * v
      BY <1>1, ProductSwap
    <3>2. z * (B * v) = B * (z * v) /\ v * (B * z) = B * (v * z) /\ v * z = z * v
      BY <1>1, ProductSwap
    <3> QED  BY <3>1, <3>2
  <2>4. A * (x * u) \in Int /\ A * (y * v) \in Int /\ v * (B * z) \in Int
    BY <1>1, <1>3
  <2> QED  BY <2>1, <2>2, <2>3, <2>4
<1> QED  BY <1>1, <1>4, <1>5

(* A replacement within the bound, multiplied out. *)
LEMMA DistanceBounds ==
  ASSUME NEW p \in Nat, NEW q \in Nat, NEW Den \in Nat, NEW Num \in Nat, Num <= Den,
         NEW d \in Nat, d = IF p < q THEN q - p ELSE p - q, d * Den <= Num * p
  PROVE  Den * q <= (Den + Num) * p /\ (Den - Num) * p <= Den * q
<1>1. (Den + Num) * p = Den * p + Num * p /\ (Den - Num) * p = Den * p - Num * p
  OBVIOUS
<1>2. /\ Den * p \in Int /\ Num * p \in Nat /\ d * Den \in Nat /\ Den * q \in Int
      /\ Den * d = d * Den
  OBVIOUS
<1>3. CASE p < q
  <2>1. q = p + d
    BY <1>3
  <2>2. Den * (p + d) = Den * p + Den * d
    OBVIOUS
  <2>3. Den * q = Den * p + d * Den
    BY <1>2, <2>1, <2>2
  <2> QED  BY <1>1, <1>2, <2>3
<1>4. CASE ~(p < q)
  <2>1. p = q + d
    BY <1>4
  <2>2. Den * (q + d) = Den * q + Den * d
    OBVIOUS
  <2>3. Den * p = Den * q + d * Den
    BY <1>2, <2>1, <2>2
  <2> QED  BY <1>1, <1>2, <2>3
<1> QED  BY <1>3, <1>4

(* A price p of time s, replaced from I at time D on; pd, pu and pl are    *)
(* the powers of the denominator and of the two bounds.                    *)
Compounds(I, p, D, s, W, pd, pu, pl) ==
  \/ p = I /\ s = D
  \/ /\ I \in Nat /\ s >= D
     /\ p * pd[(s - D) \div W] <= I * pu[(s - D) \div W]
     /\ I * pl[(s - D) \div W] <= p * pd[(s - D) \div W]

(* At least a window later, at least one window more has gone by. *)
LEMMA WindowsGoneBy ==
  ASSUME NEW W \in Nat \ {0}, NEW x \in Nat, NEW y \in Nat, y >= x + W
  PROVE  x \div W \in Nat /\ y \div W \in Nat /\ y \div W >= x \div W + 1
<1> DEFINE k == x \div W
           m == y \div W
<1>1. k \in Nat /\ k * W <= x /\ m \in Nat /\ y < (m + 1) * W
  BY DivisionBounds
<1> HIDE DEF k, m
<1>2. (k + 1) * W = k * W + W /\ k * W \in Nat /\ (m + 1) * W \in Nat /\ (k + 1) * W \in Nat
  BY <1>1
<1>3. (k + 1) * W < (m + 1) * W
  BY <1>1, <1>2
<1>4. m + 1 <= k + 1 => (m + 1) * W <= (k + 1) * W
  BY <1>1
<1>5. m + 1 > k + 1
  BY <1>1, <1>2, <1>3, <1>4
<1>6. k \in Nat /\ m \in Nat /\ m >= k + 1
  BY <1>1, <1>5
<1> QED  BY <1>6 DEF k, m

LEMMA CompoundStep ==
  ASSUME NEW W \in Nat \ {0}, NEW Den \in Nat, NEW Num \in Nat, Num <= Den,
         NEW pd, NEW pu, NEW pl,
         IsPower(pd, Den), IsPower(pu, Den + Num), IsPower(pl, Den - Num),
         NEW I, NEW D \in Nat, NEW p \in Nat, NEW q \in Nat, NEW s \in Nat, NEW s2 \in Nat,
         Compounds(I, p, D, s, W, pd, pu, pl), s2 >= s + W,
         Den * q <= (Den + Num) * p, (Den - Num) * p <= Den * q
  PROVE  Compounds(I, q, D, s2, W, pd, pu, pl)
<1> DEFINE k == (s - D) \div W
           m == (s2 - D) \div W
<1>1. I \in Nat /\ s >= D
  BY DEF Compounds
<1>2. s - D \in Nat /\ s2 - D \in Nat /\ s2 - D >= (s - D) + W
  BY <1>1
<1>3. k \in Nat /\ m \in Nat /\ m >= k + 1
  BY <1>2, WindowsGoneBy
<1>4. p * pd[k] <= I * pu[k] /\ I * pl[k] <= p * pd[k]
  <2>1. CASE p = I /\ s = D
    <3>1. k = 0
      BY <2>1
    <3>2. pd[0] = 1 /\ pu[0] = 1 /\ pl[0] = 1
      BY DEF IsPower
    <3> QED  BY <2>1, <3>1, <3>2
  <2>2. CASE ~(p = I /\ s = D)
    BY <2>2 DEF Compounds
  <2> QED  BY <2>1, <2>2
<1> HIDE DEF k, m
<1>5. Den + Num \in Nat /\ Den - Num \in Nat /\ Den <= Den + Num /\ Den - Num <= Den
  OBVIOUS
<1>6. q * pd[k + 1] <= I * pu[k + 1]
  <2> DEFINE up == Den + Num
  <2>1. up \in Nat /\ Den * q <= up * p /\ IsPower(pu, up) /\ Den * I <= up * I
    BY <1>1, <1>5
  <2> HIDE DEF up
  <2> QED  BY <1>1, <1>3, <1>4, <2>1, ReplacementMultiplies
<1>7. I * pl[k + 1] <= q * pd[k + 1]
  <2> DEFINE down == Den - Num
  <2>1. down \in Nat /\ down * p <= Den * q /\ IsPower(pl, down) /\ down * I <= Den * I
    BY <1>1, <1>5
  <2> HIDE DEF down
  <2> QED  BY <1>1, <1>3, <1>4, <2>1, ReplacementMultiplies
<1>8. k + 1 \in Nat
  BY <1>3
<1>9. q * pd[m] <= I * pu[m]
  <2> DEFINE up == Den + Num
  <2>1. up \in Nat /\ Den <= up /\ IsPower(pu, up)
    BY <1>5
  <2> HIDE DEF up
  <2> QED  BY <1>1, <1>3, <1>6, <1>8, <2>1, PowersKeepOrder
<1>10. I * pl[m] <= q * pd[m]
  <2> DEFINE down == Den - Num
  <2>1. down \in Nat /\ down <= Den /\ IsPower(pl, down)
    BY <1>5
  <2> HIDE DEF down
  <2> QED  BY <1>1, <1>3, <1>7, <1>8, <2>1, PowersKeepOrder
<1>11. s2 >= D
  BY <1>1
<1> QED  BY <1>1, <1>9, <1>10, <1>11 DEF Compounds, m

RateCompounds ==
  Compounds(InitialRatePrice, ratePrice, DeployTime, rateTimestamp, MIN_RATE_WINDOW,
            RateBound!Power(RATE_DENOMINATOR),
            RateBound!Power(RATE_DENOMINATOR + RATE_DIFF_BPS),
            RateBound!Power(RATE_DENOMINATOR - RATE_DIFF_BPS))

LEMMA RateCompoundStep ==
  ASSUME RateInv, RateCompounds, NEW newPrice \in NewRatePrices, SetRatePrice(newPrice)
  PROVE  RateCompounds'
<1>1. RateBound!Replace /\ RateInv /\ RateInv'
  BY RateStepIsAReplacement
<1>2. /\ RATE_DENOMINATOR \in Nat /\ RATE_DIFF_BPS \in Nat /\ RATE_DIFF_BPS <= RATE_DENOMINATOR
      /\ MIN_RATE_WINDOW \in Nat \ {0} /\ DeployTime \in Nat
      /\ RATE_DENOMINATOR + RATE_DIFF_BPS \in Nat /\ RATE_DENOMINATOR - RATE_DIFF_BPS \in Nat
  BY RateAssumption, TimeAssumption
<1>3. /\ ratePrice \in Nat /\ ratePrice' \in Nat /\ rateTimestamp \in Nat /\ rateTimestamp' \in Nat
  BY <1>1 DEF RateInv
<1> DEFINE d  == RateBound!Distance(ratePrice, ratePrice')
           pd == RateBound!Power(RATE_DENOMINATOR)
           pu == RateBound!Power(RATE_DENOMINATOR + RATE_DIFF_BPS)
           pl == RateBound!Power(RATE_DENOMINATOR - RATE_DIFF_BPS)
<1>4. d * RATE_DENOMINATOR <= RATE_DIFF_BPS * ratePrice
      /\ rateTimestamp' >= rateTimestamp + MIN_RATE_WINDOW
  BY <1>1 DEF RateBound!Replace
<1>5. d \in Nat /\ d = IF ratePrice < ratePrice' THEN ratePrice' - ratePrice ELSE ratePrice - ratePrice'
  <2>1. d = IF ratePrice < ratePrice' THEN ratePrice' - ratePrice ELSE ratePrice - ratePrice'
    BY DEF RateBound!Distance
  <2>2. \A x, y \in Nat : (IF x < y THEN y - x ELSE x - y) \in Nat
    OBVIOUS
  <2> HIDE DEF d
  <2> QED  BY <1>3, <2>1, <2>2
<1>6. /\ IsPower(pd, RATE_DENOMINATOR) /\ IsPower(pu, RATE_DENOMINATOR + RATE_DIFF_BPS)
      /\ IsPower(pl, RATE_DENOMINATOR - RATE_DIFF_BPS)
  BY <1>2, PowerIs
<1>7. Compounds(InitialRatePrice, ratePrice, DeployTime, rateTimestamp, MIN_RATE_WINDOW, pd, pu, pl)
  BY DEF RateCompounds
<1> HIDE DEF d, pd, pu, pl
<1>8. /\ RATE_DENOMINATOR * ratePrice' <= (RATE_DENOMINATOR + RATE_DIFF_BPS) * ratePrice
      /\ (RATE_DENOMINATOR - RATE_DIFF_BPS) * ratePrice <= RATE_DENOMINATOR * ratePrice'
  BY <1>2, <1>3, <1>4, <1>5, DistanceBounds
<1>9. Compounds(InitialRatePrice, ratePrice', DeployTime, rateTimestamp', MIN_RATE_WINDOW, pd, pu, pl)
  BY <1>2, <1>3, <1>4, <1>6, <1>7, <1>8, CompoundStep
<1> QED  BY <1>9 DEF RateCompounds, pd, pu, pl

ComparisonCompounds ==
  Compounds(InitialPrice, rwaPrice, DeployTime, priceTimestamp, MIN_PRICE_UPDATE_WINDOW,
            ComparisonBound!Power(BPS_DENOMINATOR),
            ComparisonBound!Power(BPS_DENOMINATOR + (MAX_ABSOLUTE_DIFF_BPS + 1)),
            ComparisonBound!Power(BPS_DENOMINATOR - (MAX_ABSOLUTE_DIFF_BPS + 1)))

LEMMA ComparisonCompoundStep ==
  ASSUME ComparisonInv, ComparisonCompounds, NEW newPrice \in NewPrices, SetPrice(newPrice)
  PROVE  ComparisonCompounds'
<1> DEFINE num == MAX_ABSOLUTE_DIFF_BPS + 1
           up  == BPS_DENOMINATOR + num
           low == BPS_DENOMINATOR - num
<1>1. ComparisonBound!Replace
  BY SetPriceIsAReplacement
<1>2. /\ BPS_DENOMINATOR \in Nat /\ num \in Nat /\ num <= BPS_DENOMINATOR
      /\ up \in Nat /\ low \in Nat
      /\ MIN_PRICE_UPDATE_WINDOW \in Nat \ {0} /\ DeployTime \in Nat
  BY ComparisonAssumption, TimeAssumption
<1>3. newPrice \in Nat /\ rwaPrice \in Nat /\ rwaPrice' = newPrice
      /\ priceTimestamp \in Nat /\ priceTimestamp' \in Nat
  <2>1. newPrice \in Int /\ newPrice > 0 /\ ChangeAllowed(newPrice)
    BY ComparisonAssumption DEF SetPrice, CanSetPrice
  <2>2. rwaPrice \in Nat
    BY <2>1, OnlyPositivePricesChange
  <2>3. priceTimestamp \in Nat /\ priceTimestamp' = now /\ now \in Nat /\ rwaPrice' = newPrice
    BY DEF ComparisonInv, SetPrice
  <2> QED  BY <2>1, <2>2, <2>3
<1> DEFINE d  == ComparisonBound!Distance(rwaPrice, rwaPrice')
           pd == ComparisonBound!Power(BPS_DENOMINATOR)
           pu == ComparisonBound!Power(up)
           pl == ComparisonBound!Power(low)
<1>4. d * BPS_DENOMINATOR <= num * rwaPrice
      /\ priceTimestamp' >= priceTimestamp + MIN_PRICE_UPDATE_WINDOW
  BY <1>1 DEF ComparisonBound!Replace
<1>5. d \in Nat /\ d = IF rwaPrice < rwaPrice' THEN rwaPrice' - rwaPrice ELSE rwaPrice - rwaPrice'
  BY <1>3 DEF ComparisonBound!Distance
<1>6. Compounds(InitialPrice, rwaPrice, DeployTime, priceTimestamp, MIN_PRICE_UPDATE_WINDOW, pd, pu, pl)
  BY DEF ComparisonCompounds
<1>7. IsPower(pd, BPS_DENOMINATOR) /\ IsPower(pu, up) /\ IsPower(pl, low)
  <2> HIDE DEF up, low
  <2> QED  BY <1>2, PowerIs
<1>8. up = BPS_DENOMINATOR + num /\ low = BPS_DENOMINATOR - num
  OBVIOUS
<1> HIDE DEF d, pd, pu, pl, num, up, low
<1>9. /\ BPS_DENOMINATOR * rwaPrice' <= (BPS_DENOMINATOR + num) * rwaPrice
      /\ (BPS_DENOMINATOR - num) * rwaPrice <= BPS_DENOMINATOR * rwaPrice'
  BY <1>2, <1>3, <1>4, <1>5, DistanceBounds
<1>10. Compounds(InitialPrice, rwaPrice', DeployTime, priceTimestamp', MIN_PRICE_UPDATE_WINDOW,
                 pd, pu, pl)
  BY <1>2, <1>3, <1>4, <1>6, <1>7, <1>8, <1>9, CompoundStep
<1> QED  BY <1>10 DEF ComparisonCompounds, pd, pu, pl, num, up, low

(* Whichever oracle is deployed, the others stand still beside the clock.  *)
LEMMA OracleStepsApart ==
  [OracleNext]_oracleVars
    => [ComparisonNext]_<<comparisonVars, now>> /\ [RateNext]_<<rateVars, now>>
<1> SUFFICES ASSUME [OracleNext]_oracleVars
             PROVE  [ComparisonNext]_<<comparisonVars, now>> /\ [RateNext]_<<rateVars, now>>
  OBVIOUS
<1>1. ComparisonNext => UNCHANGED now \/ ClockTick
  BY DEF ComparisonNext, SetPrice, PublishRounds, PublishRound, ComparisonTick
<1>2. RateNext => UNCHANGED now \/ ClockTick
  BY DEF RateNext, SetRatePrice, RateTick
<1>3. DynamicNext => UNCHANGED now \/ ClockTick
  BY DEF DynamicNext, SetRange, OverrideRange, PauseOracle, UnpauseOracle, DynamicTick
<1>4. ClockTick /\ UNCHANGED rateVars => RateNext
  BY DEF RateNext, RateTick
<1>5. ClockTick /\ UNCHANGED comparisonVars => ComparisonNext
  BY DEF ComparisonNext, ComparisonTick
<1>6. OracleNext => \/ ComparisonNext /\ UNCHANGED rateVars
                    \/ RateNext /\ UNCHANGED comparisonVars
                    \/ DynamicNext /\ UNCHANGED comparisonVars /\ UNCHANGED rateVars
  BY DEF OracleNext
<1>7. UNCHANGED oracleVars => UNCHANGED comparisonVars /\ UNCHANGED rateVars /\ UNCHANGED now
  BY DEF oracleVars
<1> QED  BY <1>1, <1>2, <1>3, <1>4, <1>5, <1>6, <1>7

CompoundInv == ComparisonInv /\ RateInv /\ ComparisonCompounds /\ RateCompounds

LEMMA CompoundInitInv == OracleInit => CompoundInv
BY ComparisonInitInv, TimeAssumption, RateAssumption
DEF OracleInit, ComparisonInit, RateInit, ClockInit, CompoundInv, RateInv,
    ComparisonCompounds, RateCompounds, Compounds

LEMMA CompoundStepInv == CompoundInv /\ [OracleNext]_oracleVars => CompoundInv'
<1> SUFFICES ASSUME CompoundInv, [OracleNext]_oracleVars PROVE CompoundInv'
  OBVIOUS
<1>1. [ComparisonNext]_<<comparisonVars, now>> /\ [RateNext]_<<rateVars, now>>
  BY OracleStepsApart
<1>2. ComparisonInv'
  BY <1>1, ComparisonStepInv DEF CompoundInv
<1>3. RateInv' /\ RateCompounds'
  <2>1. ASSUME NEW newPrice \in NewRatePrices, SetRatePrice(newPrice)
        PROVE  RateInv' /\ RateCompounds'
    BY <2>1, RateStepIsAReplacement, RateCompoundStep DEF CompoundInv
  <2>2. CASE RateTick \/ UNCHANGED <<rateVars, now>>
    BY <2>2 DEF RateTick, ClockTick, rateVars, RateInv, RateCompounds, CompoundInv
  <2> QED  BY <1>1, <2>1, <2>2 DEF RateNext
<1>4. ComparisonCompounds'
  <2>1. ASSUME NEW newPrice \in NewPrices, SetPrice(newPrice) PROVE ComparisonCompounds'
    BY <2>1, ComparisonCompoundStep DEF CompoundInv
  <2>2. CASE PublishRounds \/ ComparisonTick \/ UNCHANGED <<comparisonVars, now>>
    BY <2>2 DEF PublishRounds, PublishRound, priceVars, ComparisonTick, comparisonVars,
                ComparisonCompounds, CompoundInv
  <2> QED  BY <1>1, <2>1, <2>2 DEF ComparisonNext
<1> QED  BY <1>2, <1>3, <1>4 DEF CompoundInv

(* No window has gone by at deployment, and the powers are ones. *)
LEMMA CompoundsWithin ==
  ASSUME NEW W \in Nat \ {0}, NEW D \in Nat, NEW I \in Int, NEW p, NEW s,
         NEW pd, NEW pu, NEW pl, pd[0] = 1, pu[0] = 1, pl[0] = 1,
         Compounds(I, p, D, s, W, pd, pu, pl)
  PROVE  /\ p * pd[(s - D) \div W] <= I * pu[(s - D) \div W]
         /\ p * pd[(s - D) \div W] >= I * pl[(s - D) \div W]
<1>1. CASE p = I /\ s = D
  <2>1. (s - D) \div W = 0
    BY <1>1
  <2>2. p * 1 <= I * 1 /\ p * 1 >= I * 1
    BY <1>1
  <2> QED  BY <2>1, <2>2
<1>2. CASE ~(p = I /\ s = D)
  BY <1>2 DEF Compounds
<1> QED  BY <1>1, <1>2

LEMMA CompoundInvWithin == CompoundInv => PricesCompoundByWindow
<1> SUFFICES ASSUME CompoundInv PROVE PricesCompoundByWindow
  OBVIOUS
<1>1. RateBound!WithinCompoundBound
  <2> DEFINE pd == RateBound!Power(RATE_DENOMINATOR)
             pu == RateBound!Power(RATE_DENOMINATOR + RATE_DIFF_BPS)
             pl == RateBound!Power(RATE_DENOMINATOR - RATE_DIFF_BPS)
             k  == (rateTimestamp - DeployTime) \div MIN_RATE_WINDOW
  <2>1. /\ RATE_DENOMINATOR \in Nat /\ RATE_DENOMINATOR + RATE_DIFF_BPS \in Nat
        /\ RATE_DENOMINATOR - RATE_DIFF_BPS \in Nat
        /\ MIN_RATE_WINDOW \in Nat \ {0} /\ DeployTime \in Nat /\ InitialRatePrice \in Int
    BY RateAssumption, TimeAssumption
  <2>2. pd[0] = 1 /\ pu[0] = 1 /\ pl[0] = 1
    BY <2>1, PowerIs DEF IsPower
  <2>3. Compounds(InitialRatePrice, ratePrice, DeployTime, rateTimestamp, MIN_RATE_WINDOW, pd, pu, pl)
    BY DEF CompoundInv, RateCompounds
  <2> HIDE DEF pd, pu, pl
  <2>4. ratePrice * pd[k] <= InitialRatePrice * pu[k] /\ ratePrice * pd[k] >= InitialRatePrice * pl[k]
    BY <2>1, <2>2, <2>3, CompoundsWithin
  <2> QED  BY <2>4 DEF RateBound!WithinCompoundBound, pd, pu, pl
<1>2. ComparisonBound!WithinCompoundBound
  <2> DEFINE num == MAX_ABSOLUTE_DIFF_BPS + 1
             pd == ComparisonBound!Power(BPS_DENOMINATOR)
             pu == ComparisonBound!Power(BPS_DENOMINATOR + num)
             pl == ComparisonBound!Power(BPS_DENOMINATOR - num)
             k  == (priceTimestamp - DeployTime) \div MIN_PRICE_UPDATE_WINDOW
  <2>1. /\ BPS_DENOMINATOR \in Nat /\ BPS_DENOMINATOR + num \in Nat
        /\ BPS_DENOMINATOR - num \in Nat
        /\ MIN_PRICE_UPDATE_WINDOW \in Nat \ {0} /\ DeployTime \in Nat /\ InitialPrice \in Int
    BY ComparisonAssumption, TimeAssumption
  <2>2. pd[0] = 1 /\ pu[0] = 1 /\ pl[0] = 1
    BY <2>1, PowerIs DEF IsPower
  <2>3. Compounds(InitialPrice, rwaPrice, DeployTime, priceTimestamp, MIN_PRICE_UPDATE_WINDOW, pd, pu, pl)
    BY DEF CompoundInv, ComparisonCompounds
  <2> HIDE DEF pd, pu, pl
  <2>4. rwaPrice * pd[k] <= InitialPrice * pu[k] /\ rwaPrice * pd[k] >= InitialPrice * pl[k]
    BY <2>1, <2>2, <2>3, CompoundsWithin
  <2> QED  BY <2>4 DEF ComparisonBound!WithinCompoundBound, pd, pu, pl
<1> QED  BY <1>1, <1>2 DEF PricesCompoundByWindow

(* Whatever its setter does, over any length of time a price that is set   *)
(* by hand lies within one bound, compounded, for each full window since   *)
(* its oracle was deployed.                                                *)
THEOREM OraclePricesCompound == OracleSpec => []PricesCompoundByWindow
BY CompoundInitInv, CompoundStepInv, CompoundInvWithin, PTL DEF OracleSpec

-----------------------------------------------------------------------------
(* Compound interest.                                                      *)

LEMMA PowersAdd ==
  ASSUME NEW base \in Nat, NEW p, IsPower(p, base), NEW a \in Nat, NEW b \in Nat
  PROVE  p[a + b] = p[a] * p[b]
<1> DEFINE Adds == {m \in Nat : p[a + m] = p[a] * p[m]}
<1>1. ASSUME NEW m \in Nat, \A k \in Nat : k < m => k \in Adds
      PROVE  m \in Adds
  <2>1. CASE m = 0
    <3>1. p[a] \in Nat /\ p[0] = 1 /\ a + 0 = a
      BY DEF IsPower
    <3> QED  BY <2>1, <3>1
  <2>2. CASE m # 0
    <3> DEFINE k == m - 1
               c == a + k
    <3>1. k \in Nat /\ k < m /\ m = k + 1 /\ c \in Nat /\ a + m = c + 1
      BY <2>2
    <3>2. p[c] = p[a] * p[k]
      BY <1>1, <3>1
    <3> HIDE DEF k, c
    <3>3. p[m] = base * p[k] /\ p[a + m] = base * p[c] /\ p[k] \in Nat /\ p[a] \in Nat
      BY <3>1 DEF IsPower
    <3>4. base * (p[a] * p[k]) = p[a] * (base * p[k])
      BY <3>3, ProductSwap
    <3> QED  BY <3>2, <3>3, <3>4
  <2> QED  BY <2>1, <2>2
<1>2. \A m \in Nat : m \in Adds
  <2> HIDE DEF Adds
  <2> QED  BY <1>1, StrongInduction
<1> QED  BY <1>2

(* A larger base has larger powers, and a positive one positive powers.    *)
LEMMA PowersOrder ==
  ASSUME NEW A \in Nat, NEW B \in Nat, A <= B, NEW pa, NEW pb, IsPower(pa, A), IsPower(pb, B),
         NEW k \in Nat
  PROVE  pa[k] \in Nat /\ pb[k] \in Nat /\ pa[k] <= pb[k]
<1>1. pa[0] = 1 /\ pb[0] = 1 /\ pa[k] \in Nat /\ pb[k] \in Nat
  BY DEF IsPower
<1>2. 1 * pa[k] <= 1 * pb[k]
  <2>1. 1 * pa[0] <= 1 * pb[0]
    BY <1>1
  <2> QED  BY <2>1, PowersKeepOrder
<1> QED  BY <1>1, <1>2

LEMMA PowersPositive ==
  ASSUME NEW base \in Nat \ {0}, NEW p, IsPower(p, base), NEW k \in Nat
  PROVE  p[k] \in Nat \ {0}
<1> DEFINE Positive == {m \in Nat : p[m] \in Nat \ {0}}
<1>1. ASSUME NEW m \in Nat, \A l \in Nat : l < m => l \in Positive
      PROVE  m \in Positive
  <2>1. CASE m = 0
    BY <2>1 DEF IsPower
  <2>2. CASE m # 0
    <3> DEFINE l == m - 1
    <3>1. l \in Nat /\ l < m /\ m = l + 1
      BY <2>2
    <3>2. p[l] \in Nat \ {0}
      BY <1>1, <3>1
    <3> HIDE DEF l
    <3>3. p[m] = base * p[l]
      BY <3>1 DEF IsPower
    <3>4. base * p[l] \in Nat \ {0}
      BY <3>2
    <3> QED  BY <3>3, <3>4
  <2> QED  BY <2>1, <2>2
<1>2. \A m \in Nat : m \in Positive
  <2> HIDE DEF Positive
  <2> QED  BY <1>1, StrongInduction
<1> QED  BY <1>2

(* Distances. *)
LEMMA DistanceType ==
  ASSUME NEW x \in Nat, NEW y \in Nat
  PROVE  Distance(x, y) \in Nat
BY DEF Distance

LEMMA DistanceIs ==
  ASSUME NEW x \in Nat, NEW y \in Nat, NEW e \in Nat
  PROVE  Distance(x, y) <= e <=> x <= y + e /\ y <= x + e
BY DEF Distance

LEMMA DistanceScales ==
  ASSUME NEW x \in Nat, NEW y \in Nat, NEW k \in Nat
  PROVE  Distance(x, y) * k = Distance(x * k, y * k)
<1>1. CASE x < y
  <2>1. x * k <= y * k /\ (y - x) * k = y * k - x * k /\ x * k \in Nat /\ y * k \in Nat
    BY <1>1
  <2> QED  BY <1>1, <2>1 DEF Distance
<1>2. CASE ~ (x < y)
  <2>1. y * k <= x * k /\ (x - y) * k = x * k - y * k /\ x * k \in Nat /\ y * k \in Nat
    BY <1>2
  <2> QED  BY <1>2, <2>1 DEF Distance
<1> QED  BY <1>1, <1>2

(* What the errors of two factors make of their product.                   *)
LEMMA ProductsNear ==
  ASSUME NEW p \in Nat, NEW q \in Nat, NEW s \in Nat, NEW t \in Nat, NEW e \in Nat, NEW f \in Nat,
         Distance(s, p) <= e, Distance(t, q) <= f
  PROVE  Distance(s * t, p * q) <= p * f + e * q + e * f
<1>1. s <= p + e /\ p <= s + e /\ t <= q + f /\ q <= t + f
  BY DistanceIs
<1>2. /\ s * t \in Nat /\ p * q \in Nat /\ p * f \in Nat /\ e * q \in Nat /\ e * f \in Nat
      /\ p * t \in Nat /\ s * q \in Nat /\ e * t \in Nat
  OBVIOUS
<1>3. s * t <= p * q + p * f + e * q + e * f
  <2>1. s * t <= (p + e) * t
    BY <1>1
  <2>2. (p + e) * t <= (p + e) * (q + f)
    BY <1>1, ProductKeepsOrder
  <2>3. (p + e) * (q + f) = p * q + p * f + e * q + e * f
    OBVIOUS
  <2>4. (p + e) * t \in Nat
    OBVIOUS
  <2> QED  BY <1>2, <2>1, <2>2, <2>3, <2>4
<1>4. p * q <= s * t + p * f + e * q
  <2>1. CASE t <= q
    <3>1. p * q <= p * (t + f)
      BY <1>1, ProductKeepsOrder
    <3>2. p * (t + f) = p * t + p * f
      OBVIOUS
    <3>3. p * t <= (s + e) * t /\ (s + e) * t = s * t + e * t
      BY <1>1
    <3>4. e * t <= e * q
      BY <2>1, ProductKeepsOrder
    <3> QED  BY <1>2, <3>1, <3>2, <3>3, <3>4
  <2>2. CASE ~ (t <= q)
    <3>1. p * q <= (s + e) * q /\ (s + e) * q = s * q + e * q
      BY <1>1
    <3>2. s * q <= s * t
      BY <2>2, ProductKeepsOrder
    <3> QED  BY <1>2, <3>1, <3>2
  <2> QED  BY <2>1, <2>2
<1> DEFINE i == s * t
           j == p * q
           g == p * f + e * q + e * f
<1>5. i \in Nat /\ j \in Nat /\ g \in Nat /\ i <= j + g /\ j <= i + g
  BY <1>2, <1>3, <1>4
<1> HIDE DEF i, j, g
<1>6. Distance(i, j) <= g
  BY <1>5, DistanceIs
<1> QED  BY <1>6 DEF i, j, g

LEMMA DistanceTriangle ==
  ASSUME NEW x \in Nat, NEW y \in Nat, NEW z \in Nat
  PROVE  Distance(x, z) <= Distance(x, y) + Distance(y, z)
BY DEF Distance

(* The same with errors in proportion: u is off from x by one part less    *)
(* than na in da of ma.                                                    *)
LEMMA ErrorsMultiply ==
  ASSUME NEW da \in Nat, NEW db \in Nat, NEW na \in Nat, NEW nb \in Nat,
         NEW ma \in Nat, NEW mb \in Nat, NEW x \in Nat, NEW y \in Nat,
         NEW u \in Nat, NEW v \in Nat, da <= na, db <= nb, x <= ma, y <= mb,
         Distance(u, x) * da <= (na - da) * ma, Distance(v, y) * db <= (nb - db) * mb
  PROVE  Distance(u * v, x * y) * (da * db) <= (na * nb - da * db) * (ma * mb)
<1> DEFINE i == na - da
           j == nb - db
           s == u * da
           p == x * da
           e == i * ma
           t == v * db
           q == y * db
           f == j * mb
           k == da * db
           l == ma * mb
<1>1. i \in Nat /\ j \in Nat /\ na = da + i /\ nb = db + j
  OBVIOUS
<1>2. Distance(s, p) <= e /\ Distance(t, q) <= f
  BY DistanceScales
<1> HIDE DEF i, j
<1>3. s \in Nat /\ p \in Nat /\ e \in Nat /\ t \in Nat /\ q \in Nat /\ f \in Nat /\ k \in Nat /\ l \in Nat
  BY <1>1
<1>4. Distance(s * t, p * q) <= p * f + e * q + e * f
  <2> HIDE DEF s, p, e, t, q, f
  <2> QED  BY <1>2, <1>3, ProductsNear
<1>5. Distance(s * t, p * q) = Distance(u * v, x * y) * k
  <2>1. s * t = (u * v) * k /\ p * q = (x * y) * k
    OBVIOUS
  <2>2. u * v \in Nat /\ x * y \in Nat
    OBVIOUS
  <2> DEFINE a == u * v
             b == x * y
  <2> HIDE DEF s, p, t, q, k, a, b
  <2>3. Distance(a, b) * k = Distance(a * k, b * k)
    BY <1>3, <2>2, DistanceScales DEF a, b
  <2> QED  BY <2>1, <2>3 DEF a, b
<1>6. p * f <= (ma * da) * f /\ e * q <= e * (mb * db)
  <2>1. p <= ma * da /\ q <= mb * db /\ ma * da \in Nat /\ mb * db \in Nat
    OBVIOUS
  <2> DEFINE g == ma * da
             h == mb * db
  <2> HIDE DEF p, e, q, f, g, h
  <2>2. p * f <= g * f /\ e * q <= e * h
    BY <1>3, <2>1, ProductKeepsOrder DEF g, h
  <2> QED  BY <2>2 DEF g, h
<1>7. (ma * da) * f + e * (mb * db) + e * f = (da * j + i * db + i * j) * l
  BY <1>1
<1>8. da * j + i * db + i * j = na * nb - k
  BY <1>1
<1>9. /\ p * f \in Nat /\ e * q \in Nat /\ e * f \in Nat /\ (ma * da) * f \in Nat
      /\ e * (mb * db) \in Nat /\ Distance(s * t, p * q) \in Nat
  <2>1. ma * da \in Nat /\ mb * db \in Nat
    OBVIOUS
  <2>2. Distance(s * t, p * q) \in Nat
    <3> DEFINE a == s * t
               b == p * q
    <3> HIDE DEF s, p, t, q
    <3>1. a \in Nat /\ b \in Nat
      BY <1>3
    <3> HIDE DEF a, b
    <3>2. Distance(a, b) \in Nat
      BY <3>1, DistanceType
    <3> QED  BY <3>2 DEF a, b
  <2> HIDE DEF s, p, e, t, q, f
  <2> QED  BY <1>3, <2>1, <2>2
<1>10. Distance(u * v, x * y) * k <= (na * nb - k) * l
  <2> DEFINE a1 == p * f
             a2 == e * q
             a3 == e * f
             b1 == (ma * da) * f
             b2 == e * (mb * db)
             c  == Distance(s * t, p * q)
  <2> HIDE DEF a1, a2, a3, b1, b2, c
  <2>1. c <= b1 + b2 + a3
    BY <1>4, <1>6, <1>9 DEF a1, a2, a3, b1, b2, c
  <2>2. b1 + b2 + a3 = (na * nb - k) * l
    BY <1>7, <1>8 DEF a3, b1, b2
  <2>3. c = Distance(u * v, x * y) * k
    BY <1>5 DEF c
  <2> QED  BY <2>1, <2>2, <2>3
<1> QED  BY <1>10 DEF k, l

(* One rounding more. *)
LEMMA RoundingAddsOne ==
  ASSUME NEW B \in Nat \ {0}, NEW w \in Nat, NEW h \in Nat, 2 * Distance(w * B, h) <= B,
         NEW c \in Nat, NEW d \in Nat, NEW n \in Nat, NEW m \in Nat, NEW x \in Nat,
         d <= n, B * (B * c) <= m, Distance(h * c, x) * d <= (n - d) * m
  PROVE  Distance(w * (B * c), x) * ((2 * B) * d) <= ((2 * B + 1) * n - (2 * B) * d) * m
<1> DEFINE W  == w * (B * c)
           V  == h * c
           D  == 2 * B
           d1 == Distance(w * B, h)
           d2 == Distance(W, V)
           d3 == Distance(V, x)
           d4 == Distance(W, x)
<1>1. W \in Nat /\ V \in Nat /\ D \in Nat /\ w * B \in Nat
  <2>1. B * c \in Nat
    OBVIOUS
  <2> QED  BY <2>1
<1>2. d1 \in Nat /\ d2 \in Nat /\ d3 \in Nat /\ d4 \in Nat /\ d4 <= d2 + d3
  <2> DEFINE wB == w * B
  <2>1. wB \in Nat
    BY <1>1
  <2> HIDE DEF W, V, wB
  <2>2. /\ Distance(wB, h) \in Nat /\ Distance(W, V) \in Nat /\ Distance(V, x) \in Nat
        /\ Distance(W, x) \in Nat /\ Distance(W, x) <= Distance(W, V) + Distance(V, x)
    BY <1>1, <2>1, DistanceType, DistanceTriangle
  <2> QED  BY <2>2 DEF wB
<1>3. d2 = d1 * c
  <2> DEFINE wB == w * B
  <2>1. wB \in Nat /\ W = wB * c
    OBVIOUS
  <2> HIDE DEF W, wB
  <2>2. Distance(wB, h) * c = Distance(wB * c, h * c)
    BY <2>1, DistanceScales
  <2> QED  BY <2>1, <2>2 DEF wB
<1>4. d3 * d <= (n - d) * m
  OBVIOUS
<1>5. 2 * d1 <= B
  OBVIOUS
<1> HIDE DEF W, V, d1, d2, d3, d4
<1>6. d2 * D <= m
  <2>1. d2 * D = (2 * d1) * (B * c) /\ B * c \in Nat
    BY <1>2, <1>3
  <2>2. (2 * d1) * (B * c) <= B * (B * c)
    <3> DEFINE g == B * c
    <3>1. g \in Nat /\ 2 * d1 \in Nat
      BY <1>2
    <3> HIDE DEF g
    <3>2. (2 * d1) * g <= B * g
      BY <1>5, <3>1
    <3> QED  BY <3>2 DEF g
  <2>3. B * (B * c) \in Nat /\ (2 * d1) * (B * c) \in Nat
    BY <1>2, <2>1
  <2> QED  BY <2>1, <2>2, <2>3
<1>7. d4 * (D * d) <= (d2 * D) * d + (d3 * d) * D
  <2>1. d4 * (D * d) <= (d2 + d3) * (D * d)
    <3>1. D * d \in Nat
      BY <1>1
    <3> DEFINE g == D * d
    <3> HIDE DEF g, D
    <3> QED  BY <1>2, <3>1 DEF g
  <2>2. (d2 + d3) * (D * d) = (d2 * D) * d + (d3 * d) * D
    BY <1>1, <1>2
  <2> QED  BY <2>1, <2>2
<1>8. (d2 * D) * d <= m * n
  <2>1. d2 * D \in Nat
    BY <1>1, <1>2
  <2> DEFINE g == d2 * D
  <2> HIDE DEF g
  <2>2. g * d <= m * d /\ m * d <= m * n /\ g * d \in Nat /\ m * d \in Nat /\ m * n \in Nat
    BY <1>6, <2>1 DEF g
  <2> QED  BY <2>2 DEF g
<1>9. (d3 * d) * D <= ((n - d) * m) * D
  <2> DEFINE g == d3 * d
             k == (n - d) * m
  <2>1. g \in Nat /\ k \in Nat /\ g <= k
    BY <1>2, <1>4
  <2> HIDE DEF g, k, D
  <2> QED  BY <1>1, <2>1 DEF g, k
<1>10. m * n + ((n - d) * m) * D = ((D + 1) * n - D * d) * m
  BY <1>1
<1>11. d4 * (D * d) <= ((D + 1) * n - D * d) * m
  <2>1. /\ d4 * (D * d) \in Nat /\ (d2 * D) * d \in Nat /\ (d3 * d) * D \in Nat
        /\ m * n \in Nat /\ ((n - d) * m) * D \in Nat
    <3>1. n - d \in Nat
      OBVIOUS
    <3> QED  BY <1>1, <1>2, <3>1
  <2> QED  BY <1>7, <1>8, <1>9, <1>10, <2>1
<1> QED  BY <1>11 DEF d4, D, W

(* The rounded product is the product, but for half of ONE. *)
LEMMA RoundedProductIs ==
  ASSUME NEW x \in Nat, NEW y \in Nat
  PROVE  2 * Distance(RoundedProduct(x, y) * ONE, x * y) <= ONE
<1> DEFINE k == x * y
           half == ONE \div 2
           w == (k + half) \div ONE
           v == w * ONE
<1>1. ONE \in Nat \ {0} /\ half \in Nat /\ 2 * half <= ONE /\ ONE <= 2 * half + 1 /\ k \in Nat
  BY DynamicConstants
<1> HIDE DEF half, k
<1>2. w \in Nat /\ v <= k + half /\ k + half < v + ONE /\ v \in Nat
  <2> DEFINE i == k + half
             j == i \div ONE
  <2>1. i \in Nat
    BY <1>1
  <2> HIDE DEF i
  <2>2. j \in Nat /\ j * ONE <= i /\ i < (j + 1) * ONE
    BY <1>1, <2>1, DivisionBounds
  <2> HIDE DEF j
  <2>3. (j + 1) * ONE = j * ONE + ONE /\ j * ONE \in Nat
    BY <1>1, <2>2
  <2>4. j \in Nat /\ j * ONE <= i /\ i < j * ONE + ONE /\ j * ONE \in Nat
    BY <2>2, <2>3
  <2> QED  BY <2>4 DEF i, j
<1>3. RoundedProduct(x, y) = w
  BY DEF RoundedProduct, k, half
<1> HIDE DEF v
<1>4. 2 * Distance(v, k) <= ONE
  BY <1>1, <1>2 DEF Distance
<1> QED  BY <1>3, <1>4 DEF v, k

(* The factor that an error grows with. *)
AtLeastOne(x) == IF x > ONE THEN x ELSE ONE

(* u is x to the power a, but for the rounding of a - 1 products. *)
Near(u, x, a) ==
  /\ u \in Nat
  /\ Distance(u * Power(ONE)[a - 1], Power(x)[a]) * Power(2 * ONE)[a - 1] <=
       (Power(2 * ONE + 1)[a - 1] - Power(2 * ONE)[a - 1]) * Power(AtLeastOne(x))[a]

LEMMA FirstPowerNear ==
  ASSUME NEW x \in Nat
  PROVE  Near(x, x, 1)
<1> DEFINE m == Power(AtLeastOne(x))[1]
<1>1. ONE \in Nat \ {0} /\ AtLeastOne(x) \in Nat /\ 2 * ONE \in Nat /\ 2 * ONE + 1 \in Nat
  BY DynamicConstants DEF AtLeastOne
<1>2. /\ Power(ONE)[0] = 1 /\ Power(2 * ONE)[0] = 1 /\ Power(2 * ONE + 1)[0] = 1
      /\ Power(x)[1] = x /\ m \in Nat
  <2>1. /\ IsPower(Power(ONE), ONE) /\ IsPower(Power(2 * ONE), 2 * ONE)
        /\ IsPower(Power(2 * ONE + 1), 2 * ONE + 1) /\ IsPower(Power(x), x)
        /\ IsPower(Power(AtLeastOne(x)), AtLeastOne(x))
    BY <1>1, PowerIs
  <2>2. Power(x)[0 + 1] = x * Power(x)[0] /\ Power(x)[0] = 1
    BY <2>1 DEF IsPower
  <2> QED  BY <2>1, <2>2 DEF IsPower
<1> HIDE DEF m
<1>3. Distance(x * 1, x) = 0
  BY DEF Distance
<1>4. 0 * 1 <= (1 - 1) * m
  BY <1>2
<1>5. 1 - 1 = 0
  OBVIOUS
<1> QED  BY <1>2, <1>3, <1>4, <1>5 DEF Near, m

LEMMA NearMultiplies ==
  ASSUME NEW x \in Nat, NEW a \in Nat \ {0}, NEW b \in Nat \ {0}, NEW u, NEW v,
         Near(u, x, a), Near(v, x, b)
  PROVE  Near(RoundedProduct(u, v), x, a + b)
<1> DEFINE M  == AtLeastOne(x)
           D  == 2 * ONE
           N  == 2 * ONE + 1
           a1 == a - 1
           b1 == b - 1
           c1 == (a + b) - 1
           ba == Power(ONE)[a1]
           bb == Power(ONE)[b1]
           da == Power(D)[a1]
           db == Power(D)[b1]
           na == Power(N)[a1]
           nb == Power(N)[b1]
           xa == Power(x)[a]
           xb == Power(x)[b]
           ma == Power(M)[a]
           mb == Power(M)[b]
           w  == RoundedProduct(u, v)
<1>1. /\ ONE \in Nat \ {0} /\ M \in Nat /\ D \in Nat /\ N \in Nat /\ D <= N /\ ONE <= M /\ x <= M
  BY DynamicConstants DEF AtLeastOne
<1>2. /\ a1 \in Nat /\ b1 \in Nat /\ a = a1 + 1 /\ b = b1 + 1 /\ a1 + b1 \in Nat
      /\ c1 = (a1 + b1) + 1 /\ a + b \in Nat /\ c1 \in Nat
  OBVIOUS
<1>3. /\ u \in Nat /\ v \in Nat
      /\ Distance(u * ba, xa) * da <= (na - da) * ma
      /\ Distance(v * bb, xb) * db <= (nb - db) * mb
  BY DEF Near
<1>4. w \in Nat /\ 2 * Distance(w * ONE, u * v) <= ONE
  BY <1>3, RoundedProductType, RoundedProductIs
<1> HIDE DEF M, D, N, a1, b1, c1
<1>5. /\ IsPower(Power(ONE), ONE) /\ IsPower(Power(D), D) /\ IsPower(Power(N), N)
      /\ IsPower(Power(x), x) /\ IsPower(Power(M), M)
  BY <1>1, PowerIs
<1>6. /\ ba \in Nat /\ bb \in Nat /\ da \in Nat /\ db \in Nat /\ na \in Nat /\ nb \in Nat
      /\ xa \in Nat /\ xb \in Nat /\ ma \in Nat /\ mb \in Nat
      /\ da <= na /\ db <= nb /\ xa <= ma /\ xb <= mb
  <2>1. \A k \in Nat : Power(D)[k] \in Nat /\ Power(N)[k] \in Nat /\ Power(D)[k] <= Power(N)[k]
    BY <1>1, <1>5, PowersOrder
  <2>2. \A k \in Nat : Power(x)[k] \in Nat /\ Power(M)[k] \in Nat /\ Power(x)[k] <= Power(M)[k]
    BY <1>1, <1>5, PowersOrder
  <2>3. ba \in Nat /\ bb \in Nat
    BY <1>2, <1>5 DEF IsPower
  <2> QED  BY <1>2, <2>1, <2>2, <2>3
<1>7. /\ Power(ONE)[c1] = ONE * (ba * bb) /\ Power(D)[c1] = D * (da * db)
      /\ Power(N)[c1] = N * (na * nb) /\ Power(x)[a + b] = xa * xb /\ Power(M)[a + b] = ma * mb
  <2>1. \A p, base : base \in Nat /\ IsPower(p, base) => p[c1] = base * (p[a1] * p[b1])
    <3> SUFFICES ASSUME NEW p, NEW base \in Nat, IsPower(p, base)
                 PROVE  p[c1] = base * (p[a1] * p[b1])
      OBVIOUS
    <3>1. p[c1] = base * p[a1 + b1]
      BY <1>2 DEF IsPower
    <3>2. p[a1 + b1] = p[a1] * p[b1]
      BY <1>2, PowersAdd
    <3> QED  BY <3>1, <3>2
  <2>2. Power(x)[a + b] = xa * xb /\ Power(M)[a + b] = ma * mb
    BY <1>1, <1>5, PowersAdd
  <2> QED  BY <1>1, <1>5, <2>1, <2>2
<1>8. ONE * ba <= ma /\ ONE * bb <= mb
  <2>1. \A k \in Nat : Power(ONE)[k] <= Power(M)[k]
    BY <1>1, <1>5, PowersOrder
  <2>2. Power(ONE)[a] = ONE * ba /\ Power(ONE)[b] = ONE * bb
    BY <1>2, <1>5 DEF IsPower
  <2> QED  BY <2>1, <2>2
<1>9. N = 2 * ONE + 1 /\ D = 2 * ONE
  BY DEF N, D
<1>10. Near(w, x, a + b) <=> Distance(w * (ONE * (ba * bb)), xa * xb) * (D * (da * db)) <=
                               (N * (na * nb) - D * (da * db)) * (ma * mb)
  <2>1. (a + b) - 1 = c1
    BY DEF c1
  <2> HIDE DEF ba, bb, da, db, na, nb, xa, xb, ma, mb, w
  <2> QED  BY <1>4, <1>7, <1>9, <2>1 DEF Near, M
<1> HIDE DEF ba, bb, da, db, na, nb, xa, xb, ma, mb, w
<1> DEFINE c == ba * bb
           d == da * db
           n == na * nb
           m == ma * mb
           y == xa * xb
           h == u * v
<1>11. /\ c \in Nat /\ d \in Nat /\ n \in Nat /\ m \in Nat /\ y \in Nat /\ h \in Nat
  BY <1>3, <1>6
<1>12. d <= n
  <2>1. da * db <= da * nb /\ da * nb <= na * nb /\ da * nb \in Nat
    BY <1>6
  <2> QED  BY <1>11, <2>1
<1>13. ONE * (ONE * c) <= m
  <2> DEFINE i == ONE * ba
             j == ONE * bb
  <2>1. i \in Nat /\ j \in Nat /\ i * j = ONE * (ONE * c)
    BY <1>1, <1>6
  <2>2. i <= ma /\ j <= mb
    BY <1>8
  <2> HIDE DEF i, j
  <2>3. i * j <= i * mb /\ i * mb <= ma * mb /\ i * j \in Nat /\ i * mb \in Nat
    BY <1>6, <2>1, <2>2
  <2> QED  BY <1>11, <2>1, <2>3
<1>14. Distance(h * c, y) * d <= (n - d) * m
  <2> DEFINE i == u * ba
             j == v * bb
  <2>1. i \in Nat /\ j \in Nat /\ i * j = h * c
    BY <1>3, <1>6
  <2>2. Distance(i, xa) * da <= (na - da) * ma /\ Distance(j, xb) * db <= (nb - db) * mb
    BY <1>3
  <2> HIDE DEF i, j, h, c
  <2>3. Distance(i * j, xa * xb) * (da * db) <= (na * nb - da * db) * (ma * mb)
    BY <1>6, <2>1, <2>2, ErrorsMultiply
  <2> QED  BY <2>1, <2>3
<1>15. 2 * Distance(w * ONE, h) <= ONE
  BY <1>4
<1> HIDE DEF c, d, n, m, y, h
<1>16. Distance(w * (ONE * c), y) * (D * d) <= (N * n - D * d) * m
  <2>1. Distance(w * (ONE * c), y) * ((2 * ONE) * d) <= ((2 * ONE + 1) * n - (2 * ONE) * d) * m
    BY <1>1, <1>4, <1>11, <1>12, <1>13, <1>14, <1>15, RoundingAddsOne
  <2> QED  BY <1>9, <2>1
<1> QED  BY <1>10, <1>16 DEF w, c, d, n, m, y

(* What the loop of _rpow has when it ends, from any state that comes up:  *)
(* y is x to the power a, z to the power b, and k passes' worth is left.   *)
LEMMA PowLoopNear ==
  ASSUME NEW x \in Nat, NEW k \in Nat
  PROVE  \A a \in Nat \ {0}, b \in Nat, y, z \in Nat :
           /\ Near(y, x, a)
           /\ b = 0 => z = ONE
           /\ b # 0 => Near(z, x, b)
           /\ 2 * (a * k) + b # 0
           => Near(PowLoop[<<y, k, z>>], x, 2 * (a * k) + b)
<1> DEFINE Ends(m) ==
             \A a \in Nat \ {0}, b \in Nat, y, z \in Nat :
               /\ Near(y, x, a)
               /\ b = 0 => z = ONE
               /\ b # 0 => Near(z, x, b)
               /\ 2 * (a * m) + b # 0
               => Near(PowLoop[<<y, m, z>>], x, 2 * (a * m) + b)
           T == {m \in Nat : Ends(m)}
<1>1. ASSUME NEW m \in Nat, \A l \in Nat : l < m => l \in T
      PROVE  m \in T
  <2> HIDE DEF T, Ends
  <2>0. SUFFICES ASSUME NEW a \in Nat \ {0}, NEW b \in Nat, NEW y \in Nat, NEW z \in Nat,
                        Near(y, x, a), b = 0 => z = ONE, b # 0 => Near(z, x, b),
                        2 * (a * m) + b # 0
                 PROVE  Near(PowLoop[<<y, m, z>>], x, 2 * (a * m) + b)
    BY DEF T, Ends
  <2> DEFINE yy == RoundedProduct(y, y)
             h  == m \div 2
             aa == a + a
  <2>1. CASE m = 0
    <3>1. 2 * (a * m) + b = b /\ b # 0
      BY <2>0, <2>1
    <3>2. PowLoop[<<y, m, z>>] = z
      BY <2>1, PowLoopEnds
    <3> QED  BY <2>0, <3>1, <3>2
  <2>2. CASE m # 0
    <3>1. h \in Nat /\ h < m /\ h = m \div 2 /\ m = 2 * h + (m % 2)
      BY <2>2, Halves
    <3> HIDE DEF h
    <3>2. Ends(h)
      BY <1>1, <3>1 DEF T
    <3>3. yy \in Nat /\ Near(yy, x, aa) /\ aa \in Nat \ {0}
      <4>1. Near(yy, x, aa)
        BY <2>0, NearMultiplies
      <4> QED  BY <4>1, RoundedProductType
    <3> HIDE DEF yy, aa
    <3>4. CASE m % 2 = 0
      <4>1. PowLoop[<<y, m, z>>] = PowLoop[<<yy, h, z>>]
        BY <2>2, <3>1, <3>4, PowLoopEven DEF yy
      <4>2. 2 * (aa * h) + b = 2 * (a * m) + b
        BY <3>1, <3>4 DEF aa
      <4>3. Near(PowLoop[<<yy, h, z>>], x, 2 * (aa * h) + b)
        BY <2>0, <3>2, <3>3, <4>2 DEF Ends
      <4> QED  BY <4>1, <4>2, <4>3
    <3>5. CASE m % 2 = 1
      <4> DEFINE zz == RoundedProduct(z, yy)
                 bb == b + aa
      <4>1. PowLoop[<<y, m, z>>] = PowLoop[<<yy, h, zz>>]
        BY <2>2, <3>1, <3>5, PowLoopOdd DEF yy
      <4>2. 2 * (aa * h) + bb = 2 * (a * m) + b
        BY <3>1, <3>5 DEF aa
      <4>3. zz \in Nat /\ bb \in Nat /\ bb # 0
        <5>1. zz \in Nat
          BY <3>3, RoundedProductType
        <5>2. bb \in Nat /\ bb # 0
          BY <3>3
        <5> QED  BY <5>1, <5>2
      <4>4. Near(zz, x, bb)
        <5>1. CASE b = 0
          <6>1. zz = yy /\ bb = aa
            BY <2>0, <3>3, <5>1, RoundedProductByOne
          <6> QED  BY <3>3, <6>1
        <5>2. CASE b # 0
          BY <2>0, <3>3, <5>2, NearMultiplies
        <5> QED  BY <5>1, <5>2
      <4> HIDE DEF zz, bb
      <4>5. Near(PowLoop[<<yy, h, zz>>], x, 2 * (aa * h) + bb)
        BY <2>0, <3>2, <3>3, <4>2, <4>3, <4>4 DEF Ends
      <4> QED  BY <4>1, <4>2, <4>5
    <3> QED  BY <3>4, <3>5, Halves
  <2> QED  BY <2>1, <2>2
<1>2. \A m \in Nat : m \in T
  <2> HIDE DEF T
  <2> QED  BY <1>1, StrongInduction
<1>3. Ends(k)
  BY <1>2
<1> QED  BY <1>3

(* _rpow raises to the power. *)
LEMMA RPowNear ==
  ASSUME NEW x \in Nat, NEW n \in Nat \ {0}
  PROVE  Near(RPow(x, n), x, n)
<1> DEFINE h == n \div 2
           b == n % 2
           z == IF n % 2 = 0 THEN ONE ELSE x
<1>1. h \in Nat /\ b \in {0, 1} /\ n = 2 * (1 * h) + b
  BY Halves
<1>2. z \in Nat /\ (b = 0 => z = ONE) /\ (b # 0 => Near(z, x, b))
  BY <1>1, DynamicConstants, FirstPowerNear
<1>3. RPow(x, n) = PowLoop[<<x, h, z>>]
  BY DEF RPow
<1> HIDE DEF h, b, z
<1>4. Near(PowLoop[<<x, h, z>>], x, 2 * (1 * h) + b)
  <2>1. 1 \in Nat \ {0} /\ b \in Nat /\ Near(x, x, 1) /\ 2 * (1 * h) + b # 0
    BY <1>1, FirstPowerNear
  <2> QED  BY <1>1, <1>2, <2>1, PowLoopNear
<1> QED  BY <1>1, <1>3, <1>4

LEMMA HalfUnitType == HalfUnit \in Nat /\ UNIT \div 2 \in Nat /\ UNIT \div 2 <= HalfUnit
                      /\ UNIT = HalfUnit + UNIT \div 2
BY DynamicConstants DEF HalfUnit

(* Truncated and rounded to units, a price is off by half a unit. *)
LEMMA RoundUpTo8Near ==
  ASSUME NEW v \in Nat
  PROVE  RoundUpTo8(v \div ONE) \in Nat /\ Distance(RoundUpTo8(v \div ONE) * ONE, v) <= HalfUnit * ONE
<1> DEFINE f == v \div ONE
           r == f % UNIT
           g == RoundUpTo8(f)
           half == UNIT \div 2
<1>1. ONE \in Nat \ {0} /\ UNIT \in Nat \ {0}
  BY DynamicConstants
<1>2. f \in Nat /\ f * ONE <= v /\ v < f * ONE + ONE /\ f * ONE \in Nat
  <2>1. f \in Nat /\ f * ONE <= v /\ v < (f + 1) * ONE
    BY <1>1, DivisionBounds
  <2> HIDE DEF f
  <2>2. (f + 1) * ONE = f * ONE + ONE /\ f * ONE \in Nat
    BY <1>1, <2>1
  <2> QED  BY <2>1, <2>2
<1> HIDE DEF f
<1>3. r \in Nat /\ r < UNIT /\ r <= f
  BY <1>1, <1>2
<1>4. g = (IF r >= half THEN f + UNIT ELSE f) - r
  BY DEF RoundUpTo8
<1>5. half \in Nat /\ half <= HalfUnit /\ UNIT = HalfUnit + half /\ HalfUnit \in Nat
  BY HalfUnitType
<1> HIDE DEF r, g, half
<1>6. CASE r >= half
  <2> DEFINE e == UNIT - r
  <2>1. e \in Nat /\ g = f + e /\ e <= HalfUnit
    BY <1>2, <1>3, <1>4, <1>5, <1>6
  <2> HIDE DEF e
  <2>2. g * ONE = f * ONE + e * ONE /\ e * ONE <= HalfUnit * ONE /\ e * ONE \in Nat
        /\ HalfUnit * ONE \in Nat /\ ONE <= HalfUnit * ONE
    <3>1. HalfUnit >= 1
      BY <1>1, <1>5
    <3> QED  BY <1>1, <1>2, <1>5, <2>1, <3>1
  <2>3. Distance(g * ONE, v) <= HalfUnit * ONE
    BY <1>1, <1>2, <2>2 DEF Distance
  <2> QED  BY <1>2, <2>1, <2>3 DEF g, f
<1>7. CASE ~ (r >= half)
  <2>1. g \in Nat /\ f = g + r /\ r + 1 <= HalfUnit
    BY <1>2, <1>3, <1>4, <1>5, <1>7
  <2>2. f * ONE = g * ONE + r * ONE /\ r * ONE + ONE <= HalfUnit * ONE /\ g * ONE \in Nat
        /\ r * ONE \in Nat /\ HalfUnit * ONE \in Nat
    <3>1. (r + 1) * ONE = r * ONE + ONE
      BY <1>1, <1>3
    <3>2. (r + 1) * ONE <= HalfUnit * ONE
      BY <1>1, <1>3, <1>5, <2>1
    <3> QED  BY <1>1, <1>3, <1>5, <2>1, <3>1, <3>2
  <2>3. Distance(g * ONE, v) <= HalfUnit * ONE
    BY <1>1, <1>2, <2>2 DEF Distance
  <2> QED  BY <2>1, <2>3 DEF g, f
<1> QED  BY <1>6, <1>7

(* The error of a power, as a whole number. *)
LEMMA NearWithin ==
  ASSUME NEW x \in Nat, NEW n \in Nat \ {0}, NEW u, Near(u, x, n)
  PROVE  /\ PowerError(x, n) \in Nat
         /\ Distance(u * Power(ONE)[n - 1], Power(x)[n]) <= PowerError(x, n)
<1> DEFINE M == AtLeastOne(x)
           k == n - 1
           d == Power(2 * ONE)[k]
           e == Power(2 * ONE + 1)[k]
           m == Power(M)[n]
           i == Distance(u * Power(ONE)[k], Power(x)[n])
           j == (e - d) * m
<1>1. /\ ONE \in Nat \ {0} /\ M \in Nat /\ 2 * ONE \in Nat \ {0} /\ 2 * ONE + 1 \in Nat
      /\ 2 * ONE <= 2 * ONE + 1 /\ k \in Nat
  BY DynamicConstants DEF AtLeastOne
<1>2. /\ IsPower(Power(ONE), ONE) /\ IsPower(Power(2 * ONE), 2 * ONE)
      /\ IsPower(Power(2 * ONE + 1), 2 * ONE + 1) /\ IsPower(Power(x), x) /\ IsPower(Power(M), M)
  <2> HIDE DEF M
  <2> QED  BY <1>1, PowerIs
<1>3. PowerError(x, n) = j \div d
  BY DEF PowerError, AtLeastOne
<1>4. i * d <= j /\ u \in Nat
  BY DEF Near
<1> HIDE DEF M, k
<1>5. d \in Nat \ {0} /\ e \in Nat /\ d <= e /\ m \in Nat
  <2>1. d \in Nat \ {0}
    BY <1>1, <1>2, PowersPositive
  <2>2. e \in Nat /\ d <= e
    BY <1>1, <1>2, PowersOrder
  <2>3. m \in Nat
    BY <1>2 DEF IsPower
  <2> QED  BY <2>1, <2>2, <2>3
<1>6. i \in Nat
  <2> DEFINE a == u * Power(ONE)[k]
             b == Power(x)[n]
  <2>1. Power(ONE)[k] \in Nat /\ b \in Nat
    BY <1>1, <1>2 DEF IsPower
  <2>2. a \in Nat
    BY <1>4, <2>1
  <2> HIDE DEF a, b
  <2>3. Distance(a, b) \in Nat
    BY <2>1, <2>2, DistanceType
  <2> QED  BY <2>3 DEF a, b
<1> HIDE DEF d, e, m, i
<1>7. j \in Nat
  <2>1. e - d \in Nat
    BY <1>5
  <2> QED  BY <1>5, <2>1
<1> HIDE DEF j
<1> DEFINE q == j \div d
<1>8. q \in Nat /\ j < (q + 1) * d
  BY <1>5, <1>7, DivisionBounds
<1> HIDE DEF q
<1>9. i <= q
  <2>1. ASSUME i >= q + 1 PROVE FALSE
    <3>1. (q + 1) * d <= i * d /\ (q + 1) * d \in Nat /\ i * d \in Nat
      BY <1>5, <1>6, <1>8, <2>1
    <3> QED  BY <1>4, <1>7, <1>8, <3>1
  <2> QED  BY <1>6, <1>8, <2>1
<1> QED  BY <1>3, <1>8, <1>9 DEF q, i, k

(* A price within its range, from both errors. *)
LEMMA PriceNear ==
  ASSUME NEW range \in Range, NEW t \in Nat, range.start <= t, NEW n, n = (t - range.start) \div DAY + 1
  PROVE  Distance(DerivePrice(range, t) * Power(ONE)[n],
                  range.prevRangeClosePrice * Power(range.dailyInterestRate)[n]) <=
           HalfUnit * Power(ONE)[n]
             + range.prevRangeClosePrice * PowerError(range.dailyInterestRate, n)
<1> DEFINE start == range.start
           x == range.dailyInterestRate
           p == range.prevRangeClosePrice
           r == RPow(x, n)
           g == DerivePrice(range, t)
           k == n - 1
           b == Power(ONE)[k]
           y == Power(x)[n]
           e == PowerError(x, n)
<1>1. start \in Nat /\ x \in Nat /\ p \in Nat /\ ONE \in Nat \ {0}
  BY DynamicConstants DEF Range
<1>2. n \in Nat \ {0} /\ k \in Nat /\ n = k + 1
  <2> HIDE DEF start, k
  <2>1. (t - start) \div DAY \in Nat
    <3> DEFINE i == t - start
    <3>1. i \in Nat /\ DAY \in Nat \ {0}
      BY <1>1, DynamicConstants DEF start
    <3> HIDE DEF i
    <3>2. i \div DAY \in Nat
      BY <3>1
    <3> QED  BY <3>2 DEF i
  <2>2. n = (t - start) \div DAY + 1
    BY DEF start
  <2>3. n \in Nat \ {0}
    BY <2>1, <2>2
  <2> QED  BY <2>3 DEF k
<1>3. g = RoundUpTo8((r * p) \div ONE)
  BY DEF DerivePrice
<1> HIDE DEF start, x, p
<1>4. r \in Nat /\ e \in Nat /\ Distance(r * b, y) <= e
  <2>1. Near(r, x, n)
    BY <1>1, <1>2, RPowNear
  <2> HIDE DEF r
  <2>2. e \in Nat /\ Distance(r * b, y) <= e
    BY <1>1, <1>2, <2>1, NearWithin
  <2> QED  BY <2>1, <2>2 DEF Near
<1>5. /\ b \in Nat /\ y \in Nat /\ Power(ONE)[n] = ONE * b
  <2>1. IsPower(Power(ONE), ONE) /\ IsPower(Power(x), x)
    BY <1>1, PowerIs
  <2> HIDE DEF k
  <2> QED  BY <1>2, <2>1 DEF IsPower
<1> HIDE DEF r, g, k, b, y, e
<1> DEFINE v == r * p
<1>6. v \in Nat
  BY <1>1, <1>4
<1> HIDE DEF v
<1>7. g \in Nat /\ Distance(g * ONE, v) <= HalfUnit * ONE
  BY <1>3, <1>6, RoundUpTo8Near DEF v
<1>8. Distance((g * ONE) * b, v * b) <= (HalfUnit * ONE) * b
  <2> DEFINE i == g * ONE
             j == HalfUnit * ONE
  <2>1. i \in Nat /\ j \in Nat
    BY <1>1, <1>7, HalfUnitType
  <2>2. Distance(i, v) <= j
    BY <1>7
  <2> HIDE DEF i, j
  <2>3. Distance(i * b, v * b) = Distance(i, v) * b /\ Distance(i, v) \in Nat
    <3>1. Distance(i, v) \in Nat
      BY <1>6, <2>1, DistanceType
    <3>2. Distance(i, v) * b = Distance(i * b, v * b)
      BY <1>5, <1>6, <2>1, DistanceScales
    <3> QED  BY <3>1, <3>2
  <2>4. Distance(i, v) * b <= j * b
    BY <1>5, <2>1, <2>2, <2>3
  <2>5. Distance(i * b, v * b) <= j * b
    BY <2>3, <2>4
  <2> QED  BY <2>5 DEF i, j
<1>9. Distance(v * b, p * y) <= p * e
  <2> DEFINE i == r * b
  <2>1. i \in Nat /\ v * b = i * p /\ p * y = y * p
    BY <1>1, <1>4, <1>5 DEF v
  <2>2. Distance(i, y) <= e
    BY <1>4
  <2> HIDE DEF i
  <2>3. Distance(i * p, y * p) = Distance(i, y) * p /\ Distance(i, y) \in Nat
    <3>1. Distance(i, y) \in Nat
      BY <1>5, <2>1, DistanceType
    <3>2. Distance(i, y) * p = Distance(i * p, y * p)
      BY <1>1, <1>5, <2>1, DistanceScales
    <3> QED  BY <3>1, <3>2
  <2>4. Distance(i, y) * p <= e * p /\ e * p = p * e
    BY <1>1, <1>4, <2>2, <2>3
  <2> QED  BY <2>1, <2>3, <2>4
<1>10. Distance(g * (ONE * b), p * y) <= HalfUnit * (ONE * b) + p * e
  <2> DEFINE i == g * (ONE * b)
             j == v * b
             l == p * y
             h == HalfUnit * (ONE * b)
             q == p * e
  <2>1. i \in Nat /\ j \in Nat /\ l \in Nat /\ h \in Nat /\ q \in Nat
    <3>1. ONE * b \in Nat
      BY <1>1, <1>5
    <3> QED  BY <1>1, <1>4, <1>5, <1>6, <1>7, <3>1, HalfUnitType
  <2>2. i = (g * ONE) * b /\ h = (HalfUnit * ONE) * b
    BY <1>1, <1>5, <1>7, HalfUnitType
  <2>3. Distance(i, j) <= h /\ Distance(j, l) <= q
    BY <1>8, <1>9, <2>2
  <2> HIDE DEF i, j, l, h, q
  <2>4. /\ Distance(i, l) <= Distance(i, j) + Distance(j, l)
        /\ Distance(i, l) \in Nat /\ Distance(i, j) \in Nat /\ Distance(j, l) \in Nat
    BY <2>1, DistanceTriangle, DistanceType
  <2>5. Distance(i, l) <= h + q
    BY <2>1, <2>3, <2>4
  <2> QED  BY <2>5 DEF i, l, h, q
<1> QED  BY <1>5, <1>10 DEF g, y, e, p, x

(* The price that accrues is compound interest, for any rates and any      *)
(* length of day or range, overridden ranges and rates below one included: *)
(* the errors of all the roundings stay within PowerError and half a unit. *)
THEOREM DynamicPriceIsCompoundInterest == DynamicSpec => []PriceIsCompoundInterest
<1>1. DynamicInv => PriceIsCompoundInterest
  <2> SUFFICES ASSUME DynamicInv, NEW i \in DOMAIN ranges,
                      NEW t \in ranges[i].start .. (ranges[i].end - 1)
               PROVE  Distance(DerivePrice(ranges[i], t)
                                 * Power(ONE)[(t - ranges[i].start) \div DAY + 1],
                               ranges[i].prevRangeClosePrice
                                 * Power(ranges[i].dailyInterestRate)[(t - ranges[i].start) \div DAY + 1])
                        <= HalfUnit * Power(ONE)[(t - ranges[i].start) \div DAY + 1]
                             + ranges[i].prevRangeClosePrice
                                 * PowerError(ranges[i].dailyInterestRate,
                                              (t - ranges[i].start) \div DAY + 1)
    BY DEF PriceIsCompoundInterest
  <2> DEFINE range == ranges[i]
             n == (t - range.start) \div DAY + 1
  <2>1. range \in Range
    BY DEF DynamicInv, RangesInOrder
  <2>2. t \in Nat /\ range.start <= t
    <3>1. range.start \in Nat /\ range.end \in Nat
      BY <2>1 DEF Range
    <3> QED  BY <3>1
  <2> HIDE DEF range
  <2>3. n = (t - range.start) \div DAY + 1
    OBVIOUS
  <2> HIDE DEF n
  <2>4. Distance(DerivePrice(range, t) * Power(ONE)[n],
                 range.prevRangeClosePrice * Power(range.dailyInterestRate)[n]) <=
          HalfUnit * Power(ONE)[n] + range.prevRangeClosePrice * PowerError(range.dailyInterestRate, n)
    BY <2>1, <2>2, <2>3, PriceNear
  <2> QED  BY <2>3, <2>4 DEF range
<1> QED  BY <1>1, DynamicInitInv, DynamicStepInv, PTL DEF DynamicSpec

=============================================================================
