------------------------- MODULE RWADynamicOracle -------------------------
(***************************************************************************)
(* contracts/rwaOracles/RWADynamicOracle.sol: a price that accrues by the  *)
(* day.  Each range of days has its own daily rate and starts from the     *)
(* price the range before it closed with.  Rates are fixed-point with ONE  *)
(* for 1, prices are rounded to multiples of UNIT, DAY is in timestamps;   *)
(* all three are constants of any scale.  Overflow, which reverts, is not  *)
(* modelled: the integers are unbounded.  Roles are taken as given.        *)
(***************************************************************************)
EXTENDS BlockTime, PriceMath, Sequences, FiniteSets

CONSTANTS ONE, UNIT, DAY,
          Rates,        \* bound: the daily rates used
          StartPrices,  \* bound: the prices the first range is given
          Overrides,    \* bound: <<start, end, close price>> of overrides
          MaxRanges,    \* bound: the number of ranges
          MaxEnd        \* bound: the last end of a range

ASSUME DynamicAssumption == /\ ONE \in Nat \ {0}
                            /\ UNIT \in Nat \ {0}
                            /\ DAY \in Nat \ {0}
                            /\ Rates \subseteq Nat \ {0}
                            /\ StartPrices \subseteq Nat
                            /\ Overrides \subseteq Nat \X Nat \X Nat
                            /\ MaxRanges \in Nat
                            /\ MaxEnd \in Nat

VARIABLES ranges, oraclePaused

dynamicVars == <<ranges, oraclePaused>>

Range == [start : Nat, end : Nat, dailyInterestRate : Nat, prevRangeClosePrice : Nat]

-----------------------------------------------------------------------------
(* Fixed-point product, rounded to the nearest. *)
RoundedProduct(x, y) == (x * y + ONE \div 2) \div ONE

(* _rpow by repeated squaring, on the state <<x, n, z>>: a pass squares x, *)
(* multiplies it to z when n is odd, and halves n.                         *)
Squared(s) ==
  LET xx == RoundedProduct(s[1], s[1])
  IN  <<xx, s[2] \div 2, IF s[2] % 2 = 1 THEN RoundedProduct(s[3], xx) ELSE s[3]>>

PowLoop[s \in Nat \X Nat \X Nat] == IF s[2] = 0 THEN s[3] ELSE PowLoop[Squared(s)]

(* A mutant of the next definition: an odd exponent loses its first factor. *)
RPowFromOne(x, n) == PowLoop[<<x, n \div 2, ONE>>]

(* A rate of zero is never raised here: the rates are positive. *)
RPow(x, n) == PowLoop[<<x, n \div 2, IF n % 2 = 0 THEN ONE ELSE x>>]

RoundUpTo8(value) ==
  (IF value % UNIT >= UNIT \div 2 THEN value + UNIT ELSE value) - (value % UNIT)

(* derivePrice: the first day already carries interest. *)
DerivePrice(range, t) ==
  RoundUpTo8((RPow(range.dailyInterestRate, (t - range.start) \div DAY + 1)
                * range.prevRangeClosePrice) \div ONE)

(* A mutant of the next definition: the price the last range started from. *)
OpeningPrice(range) == range.prevRangeClosePrice

ClosePrice(range) == DerivePrice(range, range.end - 1)

(* getPriceHistorical: the last range that has started decides; after its  *)
(* end its closing price stands.  Zero when none has started.              *)
Started(rs, t) == {i \in DOMAIN rs : rs[i].start <= t}

PriceAt(rs, t) ==
  IF Started(rs, t) = {} THEN 0
  ELSE LET range == rs[CHOOSE i \in Started(rs, t) : \A j \in Started(rs, t) : j <= i]
       IN  DerivePrice(range, IF range.end <= t THEN range.end - 1 ELSE t)

(* getPrice; it reverts while the oracle is paused, getPriceHistorical     *)
(* does not.                                                               *)
GetPrice == PriceAt(ranges, now)

(* The first day's interest is taken out of the first range's price. *)
TrueStart(startPrice, dailyIR) == (startPrice * ONE) \div dailyIR

MakeRange(start, end, dailyIR, closePrice) ==
  [start |-> start, end |-> end, dailyInterestRate |-> dailyIR,
   prevRangeClosePrice |-> closePrice]

Last(rs) == rs[Len(rs)]

-----------------------------------------------------------------------------
(* A mutant of the next definition: a range begins a day before the last   *)
(* one ends.                                                               *)
NextRangeOneEarly(endTime, dailyIR) ==
  MakeRange(Last(ranges).end - 1, endTime, dailyIR, ClosePrice(Last(ranges)))

(* Mutant: the price the last range started from is carried over. *)
NextRangeFromOpening(endTime, dailyIR) ==
  MakeRange(Last(ranges).end, endTime, dailyIR, OpeningPrice(Last(ranges)))

NextRange(endTime, dailyIR) ==
  MakeRange(Last(ranges).end, endTime, dailyIR, ClosePrice(Last(ranges)))

(* A range may be set after the last one has expired: it then starts in    *)
(* the past.                                                               *)
SetRange(endTime, dailyIR) ==
  /\ Len(ranges) < MaxRanges
  /\ dailyIR >= ONE
  /\ Last(ranges).end < endTime
  /\ (endTime - Last(ranges).end) % DAY = 0
  /\ ranges' = Append(ranges, NextRange(endTime, dailyIR))
  /\ UNCHANGED <<oraclePaused, now>>

(* A mutant of the next definition: a range in the middle is checked only  *)
(* against the one before it.                                              *)
FitsAfterPrevious(i, newStart, newEnd) ==
  IF i = 1 THEN Len(ranges) > 1 => newEnd <= ranges[2].start
           ELSE newStart >= ranges[i - 1].end

(* The three cases of overrideRange: the first range, the last, between.  *)
Fits(i, newStart, newEnd) ==
  /\ i > 1 => newStart >= ranges[i - 1].end
  /\ i < Len(ranges) => newEnd <= ranges[i + 1].start

(* The rate is not checked against ONE. *)
OverrideRange(i, newStart, newEnd, newDailyIR, newClosePrice) ==
  /\ newStart < newEnd
  /\ Fits(i, newStart, newEnd)
  /\ ranges' = [ranges EXCEPT ![i] =
                  MakeRange(newStart, newEnd, newDailyIR,
                            IF i = 1 THEN TrueStart(newClosePrice, newDailyIR)
                                     ELSE newClosePrice)]
  /\ UNCHANGED <<oraclePaused, now>>

PauseOracle == ~oraclePaused /\ oraclePaused' = TRUE /\ UNCHANGED <<ranges, now>>

UnpauseOracle == oraclePaused /\ oraclePaused' = FALSE /\ UNCHANGED <<ranges, now>>

(* The constructor: the range may have started long ago, and its length    *)
(* need not be whole days.                                                 *)
DynamicInit ==
  /\ \E start \in 0..now, end \in 1..MaxEnd, dailyIR \in Rates, startPrice \in StartPrices :
       /\ start < end
       /\ ranges = <<MakeRange(start, end, dailyIR, TrueStart(startPrice, dailyIR))>>
  /\ oraclePaused = FALSE

DynamicTick == ClockTick /\ UNCHANGED dynamicVars

DynamicNext ==
  \/ \E endTime \in 1..MaxEnd, dailyIR \in Rates : SetRange(endTime, dailyIR)
  \/ \E i \in DOMAIN ranges, o \in Overrides, dailyIR \in Rates :
       OverrideRange(i, o[1], o[2], dailyIR, o[3])
  \/ PauseOracle
  \/ UnpauseOracle
  \/ DynamicTick

DynamicSpec == ClockInit /\ DynamicInit /\ [][DynamicNext]_<<dynamicVars, now>>

-----------------------------------------------------------------------------
(* Every range is a proper interval and begins after the one before it has *)
(* ended, through settings and overrides of any of them in any order: the  *)
(* backward search of getPrice relies on it.                               *)
RangesInOrder == /\ ranges \in Seq(Range)
                 /\ ranges # <<>>
                 /\ oraclePaused \in BOOLEAN
                 /\ \A i \in DOMAIN ranges : ranges[i].start < ranges[i].end
                 /\ \A i, j \in DOMAIN ranges : i < j => ranges[i].end <= ranges[j].start

(* A step that is no override leaves the ranges that are there alone. *)
Extends(rs, longer) == /\ Len(longer) >= Len(rs)
                       /\ SubSeq(longer, 1, Len(rs)) = rs

(* As setRange builds them: each range continues the one before it, and no *)
(* rate shrinks the price.                                                 *)
Continuous(rs) ==
  /\ \A i \in DOMAIN rs : rs[i].dailyInterestRate >= ONE
  /\ \A i \in 2..Len(rs) : /\ rs[i].start = rs[i - 1].end
                           /\ rs[i].prevRangeClosePrice = ClosePrice(rs[i - 1])

(* The price getPrice answers never falls from one moment to the next, nor *)
(* when a range is set, as long as nothing was overridden: in spite of the *)
(* rounding of the power, of the product and of the price.                 *)
PriceNeverFalls ==
  [][Continuous(ranges) /\ Extends(ranges, ranges')
       => GetPrice' >= GetPrice]_<<dynamicVars, now>>

(* Setting a range before the last one has ended changes no price of the   *)
(* past or the present.                                                    *)
PastIsFinal ==
  [][Extends(ranges, ranges') /\ Last(ranges).end > now
       => \A t \in 0..now : PriceAt(ranges', t) = PriceAt(ranges, t)]_<<dynamicVars, now>>

(* What rounding can make of a power, as a multiple of ONE to the n: each  *)
(* of the n - 1 products is off by half a unit at most, and the factors    *)
(* after it, none below ONE, multiply that.                                *)
PowerError(rate, n) ==
  LET D == Power(2 * ONE)[n - 1]
      N == Power(2 * ONE + 1)[n - 1]
      M == Power(IF rate > ONE THEN rate ELSE ONE)[n]
  IN  ((N - D) * M) \div D

(* The most that RoundUpTo8 moves a price. *)
HalfUnit == UNIT - UNIT \div 2

(* Against the definition: on day n of a range the price is the starting   *)
(* price times the rate to the power n, but for half a unit and for what   *)
(* rounding makes of the power: compound interest by the day, the day that *)
(* has begun included, whatever order the loop of _rpow multiplies in.     *)
PriceIsCompoundInterest ==
  \A i \in DOMAIN ranges : \A t \in ranges[i].start..(ranges[i].end - 1) :
    LET range == ranges[i]
        n     == (t - range.start) \div DAY + 1
        exact == range.prevRangeClosePrice * Power(range.dailyInterestRate)[n]
        given == DerivePrice(range, t) * Power(ONE)[n]
    IN  Distance(given, exact) <=
          HalfUnit * Power(ONE)[n]
            + range.prevRangeClosePrice * PowerError(range.dailyInterestRate, n)
=============================================================================
