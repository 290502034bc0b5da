------------------------------- MODULE Pricer -------------------------------
(***************************************************************************)
(* contracts/Pricer.sol and PricerWithOracle.sol: prices under ids that    *)
(* are never reused, added in any order of their timestamps.  A record     *)
(* that was never written, or was deleted, is a zero price at time zero.   *)
(* The oracle is read where it is needed and changes by itself.            *)
(***************************************************************************)
EXTENDS BlockTime, SignedMath

CONSTANTS PRICE_BPS_DENOMINATOR, OPS_MAX_CHANGE_DIFF_BPS,
          PriceValues,     \* bound: the prices added and updated
          OraclePrices,    \* bound: the prices the oracle answers
          OracleAges,      \* bound: how old the oracle's price is at the deployment
          PriceAges,       \* bound: how far from now the timestamps given lie
          TimestampDiffs,  \* bound: the values of maxTimestampDiff
          MaxPriceId,      \* bound: the number of prices
          CorrectedIds     \* bound: the ids whose price is updated or deleted

ASSUME PricerAssumption == /\ PRICE_BPS_DENOMINATOR \in Nat \ {0}
                           /\ OPS_MAX_CHANGE_DIFF_BPS \in Nat
                           /\ PriceValues \cup OraclePrices \subseteq Nat \ {0}
                           /\ OracleAges \subseteq Nat
                           /\ PriceAges \subseteq Int
                           /\ TimestampDiffs \subseteq Nat
                           /\ MaxPriceId \in Nat \ {0}
                           /\ CorrectedIds \subseteq Nat

(* 30 days, or what the admin sets it to, against the time since 1970.     *)
(* Nothing holds the admin to it: were maxTimestampDiff equal to the time, *)
(* the zero timestamp of an id never given out would pass isValid.         *)
ASSUME DiffAssumption == \A diff \in TimestampDiffs : diff < DeployTime

VARIABLES prices,            \* [price id -> PriceInfo]
          currentPriceId,    \* the last id given out
          latestPriceId,
          maxTimestampDiff,
          oracleData         \* what rwaOracle.getPriceData answers

pricerVars == <<prices, currentPriceId, latestPriceId, maxTimestampDiff, oracleData>>

PriceInfo == [price : Nat, timestamp : Nat]

NoPrice == [price |-> 0, timestamp |-> 0]

PriceId == 1..MaxPriceId

InfoOf(priceId) == IF priceId \in PriceId THEN prices[priceId] ELSE NoPrice

GetPrice(priceId) == InfoOf(priceId).price

(* The deployment takes the oracle's price as the first one, with the      *)
(* oracle's timestamp, however old.                                        *)
PricerInit ==
  /\ \E price \in OraclePrices, age \in OracleAges :
       /\ DeployTime - age >= 0
       /\ oracleData = [price |-> price, timestamp |-> DeployTime - age]
  /\ prices = [id \in PriceId |-> IF id = 1 THEN oracleData ELSE NoPrice]
  /\ currentPriceId = 1
  /\ latestPriceId = 1
  /\ maxTimestampDiff \in TimestampDiffs

-----------------------------------------------------------------------------
(* A mutant of the next definition: the last price added is the latest.    *)
LatestAlways(timestamp) == currentPriceId + 1

(* The id of the latest price once one of this timestamp is added. *)
LatestAfter(timestamp) ==
  IF timestamp > InfoOf(latestPriceId).timestamp THEN currentPriceId + 1 ELSE latestPriceId

(* addPrice; the timestamp is not checked. *)
AddPrice(price, timestamp) ==
  /\ price # 0
  /\ currentPriceId < MaxPriceId
  /\ currentPriceId' = currentPriceId + 1
  /\ prices' = [prices EXCEPT ![currentPriceId + 1] =
                  [price |-> price, timestamp |-> timestamp]]
  /\ latestPriceId' = LatestAfter(timestamp)
  /\ UNCHANGED <<maxTimestampDiff, oracleData, now>>

(* The oldest timestamp taken; computing it reverts while it is negative.  *)
Cutoff == now - maxTimestampDiff

OpsChangeBps(previous, new) ==
  Abs(TruncDiv((new - previous) * PRICE_BPS_DENOMINATOR, previous))

AddPriceOps(price, timestamp) ==
  /\ OpsChangeBps(price, oracleData.price) <= OPS_MAX_CHANGE_DIFF_BPS
  /\ timestamp <= now
  /\ Cutoff >= 0
  /\ timestamp >= Cutoff
  /\ oracleData.timestamp >= Cutoff
  /\ AddPrice(price, timestamp)

(* The timestamp stays, and so does latestPriceId. *)
UpdatePrice(priceId, price) ==
  /\ price # 0
  /\ GetPrice(priceId) # 0
  /\ prices' = [prices EXCEPT ![priceId].price = price]
  /\ UNCHANGED <<currentPriceId, latestPriceId, maxTimestampDiff, oracleData, now>>

(* latestPriceId may go on naming the deleted price. *)
DeletePrice(priceId) ==
  /\ GetPrice(priceId) # 0
  /\ prices' = [prices EXCEPT ![priceId] = NoPrice]
  /\ UNCHANGED <<currentPriceId, latestPriceId, maxTimestampDiff, oracleData, now>>

SetMaxTimestampDiff(diff) ==
  /\ maxTimestampDiff' = diff
  /\ UNCHANGED <<prices, currentPriceId, latestPriceId, oracleData, now>>

(* A mutant of the next definition: a timestamp at any distance will do.   *)
IsValidAnyAge(priceId) == Cutoff >= 0

(* isValid: nothing else tells an id that was never given out. *)
IsValid(priceId) == Cutoff >= 0 /\ InfoOf(priceId).timestamp >= Cutoff

(* The oracle publishes a price of its own accord. *)
OraclePublishes(price) ==
  /\ oracleData' = [price |-> price, timestamp |-> now]
  /\ UNCHANGED <<prices, currentPriceId, latestPriceId, maxTimestampDiff, now>>

PricerTick == ClockTick /\ UNCHANGED pricerVars

PricerNext ==
  \/ \E price \in PriceValues, age \in PriceAges :
       /\ now - age >= 0
       /\ AddPrice(price, now - age) \/ AddPriceOps(price, now - age)
  \/ \E priceId \in CorrectedIds, price \in PriceValues : UpdatePrice(priceId, price)
  \/ \E priceId \in CorrectedIds : DeletePrice(priceId)
  \/ \E diff \in TimestampDiffs : SetMaxTimestampDiff(diff)
  \/ \E price \in OraclePrices : OraclePublishes(price)
  \/ PricerTick

-----------------------------------------------------------------------------
PricerTypeOK == /\ prices \in [PriceId -> PriceInfo]
                /\ currentPriceId \in PriceId
                /\ latestPriceId \in 1..currentPriceId
                /\ maxTimestampDiff \in Nat
                /\ oracleData \in PriceInfo

(* "Pointer to priceId associated with the latest price" (Pricer.sol:39):  *)
(* however out of order prices are added, no price has a later timestamp   *)
(* than the one pointed to, and of equals the first stands.  A deletion    *)
(* leaves the pointer behind; so long as nothing is deleted it is right.   *)
LatestIsNewest ==
  (\A id \in 1..currentPriceId : prices[id].price # 0)
    => \A id \in 1..currentPriceId :
         /\ prices[id].timestamp <= prices[latestPriceId].timestamp
         /\ id < latestPriceId => prices[id].timestamp < prices[latestPriceId].timestamp
=============================================================================
