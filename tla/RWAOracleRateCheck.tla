------------------------ MODULE RWAOracleRateCheck ------------------------
(***************************************************************************)
(* contracts/rwaOracles/RWAOracleRateCheck.sol: a price set by hand, moved *)
(* by at most MAX_CHANGE_DIFF_BPS (here RATE_DIFF_BPS) per window.  Its    *)
(* rwaPrice and priceTimestamp are ratePrice and rateTimestamp here.       *)
(***************************************************************************)
EXTENDS BlockTime

CONSTANTS MIN_RATE_WINDOW, RATE_DENOMINATOR, RATE_DIFF_BPS,
          InitialRatePrice,  \* the price the contract is deployed with
          NewRatePrices      \* bound: the prices a setter tries

(* The constructor refuses an initial price that is not positive. *)
ASSUME RateAssumption == /\ MIN_RATE_WINDOW \in Nat \ {0}
                         /\ RATE_DENOMINATOR \in Nat \ {0}
                         /\ RATE_DIFF_BPS \in Nat
                         /\ RATE_DIFF_BPS <= RATE_DENOMINATOR   \* 100 and 10_000
                         /\ InitialRatePrice \in Nat \ {0}
                         /\ NewRatePrices \subseteq Int

VARIABLES ratePrice, rateTimestamp

rateVars == <<ratePrice, rateTimestamp>>

(* A mutant of the next definition: the quotient is rounded down. *)
MulDivDown(x, y, denominator) == (x * y) \div denominator

MulDivUp(x, y, denominator) ==
  ((x * y) \div denominator) + (IF (x * y) % denominator > 0 THEN 1 ELSE 0)

RateChangeBps(previous, new) ==
  MulDivUp(IF new > previous THEN new - previous ELSE previous - new,
           RATE_DENOMINATOR, previous)

SetRatePrice(newPrice) == /\ newPrice > 0
                          /\ now - rateTimestamp >= MIN_RATE_WINDOW
                          /\ RateChangeBps(ratePrice, newPrice) <= RATE_DIFF_BPS
                          /\ ratePrice' = newPrice
                          /\ rateTimestamp' = now
                          /\ UNCHANGED now

RateInit == ratePrice = InitialRatePrice /\ rateTimestamp = now

RateTick == ClockTick /\ UNCHANGED rateVars

RateNext == (\E newPrice \in NewRatePrices : SetRatePrice(newPrice)) \/ RateTick

RateSpec == ClockInit /\ RateInit /\ [][RateNext]_<<rateVars, now>>

(* Every setPrice moves the price by at most its bound, rounding included, *)
(* and at most once per window.                                            *)
RateBound == INSTANCE BoundedPrice
  WITH Window <- MIN_RATE_WINDOW, Num <- RATE_DIFF_BPS,
       Den <- RATE_DENOMINATOR, InitialPrice <- InitialRatePrice,
       DeployedAt <- DeployTime, price <- ratePrice, stamp <- rateTimestamp

RateImplementsBoundedPrice == RateBound!Spec
=============================================================================
