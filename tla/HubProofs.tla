------------------------------ MODULE HubProofs ------------------------------
(***************************************************************************)
(* What the hub of OUSG keeps true together with its pricer and its token, *)
(* for any users, amounts, fees, prices and price ids: its types, where    *)
(* price ids come from, which price is the latest, and what becomes of the *)
(* requests of users.                                                      *)
(***************************************************************************)
EXTENDS OUSGManager, OUSGProofs

-----------------------------------------------------------------------------
(* The pricer.  An id that was not given out has no record, and the clock  *)
(* has run far enough that no record is no valid price.                    *)
UnusedIds == \A id \in PriceId : id > currentPriceId => prices[id] = NoPrice

Clock == now \in Nat /\ now >= DeployTime /\ maxTimestampDiff \in TimestampDiffs

PricerInv == PricerTypeOK /\ UnusedIds /\ Clock /\ LatestIsNewest

LEMMA PricerConstants == /\ PriceValues \subseteq Nat \ {0} /\ OraclePrices \subseteq Nat \ {0}
                         /\ OracleAges \subseteq Nat /\ PriceAges \subseteq Int
                         /\ TimestampDiffs \subseteq Nat
                         /\ MaxPriceId \in Nat \ {0} /\ DeployTime \in Nat \ {0}
BY PricerAssumption, TimeAssumption

LEMMA PricerInitInv == ClockInit /\ PricerInit => PricerInv
<1> SUFFICES ASSUME ClockInit, PricerInit PROVE PricerInv
  OBVIOUS
<1> USE PricerConstants
<1>1. /\ oracleData \in PriceInfo /\ oracleData.price # 0
  BY DEF PricerInit, PriceInfo
<1>2. /\ prices = [id \in PriceId |-> IF id = 1 THEN oracleData ELSE NoPrice]
      /\ currentPriceId = 1 /\ latestPriceId = 1 /\ maxTimestampDiff \in TimestampDiffs
      /\ now = DeployTime
  BY DEF PricerInit, ClockInit
<1>3. NoPrice \in PriceInfo
  BY DEF NoPrice, PriceInfo
<1>4. prices \in [PriceId -> PriceInfo] /\ 1 \in PriceId
  BY <1>1, <1>2, <1>3 DEF PriceId
<1>5. PricerTypeOK
  BY <1>1, <1>2, <1>4 DEF PricerTypeOK
<1>6. UnusedIds /\ Clock
  BY <1>2 DEF UnusedIds, Clock
<1>7. LatestIsNewest
  <2>1. \A id \in 1 .. currentPriceId : id = 1
    BY <1>2
  <2>2. prices[1].timestamp \in Nat
    BY <1>4 DEF PriceInfo
  <2> QED  BY <1>2, <2>1, <2>2 DEF LatestIsNewest
<1> QED  BY <1>5, <1>6, <1>7 DEF PricerInv

LEMMA AddPriceInv ==
  ASSUME PricerInv, NEW price \in Nat, NEW timestamp \in Nat, AddPrice(price, timestamp)
  PROVE  PricerInv'
<1> USE PricerConstants
<1> DEFINE n    == currentPriceId + 1
           info == [price |-> price, timestamp |-> timestamp]
<1>1. /\ prices \in [PriceId -> PriceInfo] /\ currentPriceId \in PriceId
      /\ latestPriceId \in 1 .. currentPriceId /\ maxTimestampDiff \in Nat
      /\ oracleData \in PriceInfo
  BY DEF PricerInv, PricerTypeOK
<1>2. /\ currentPriceId < MaxPriceId /\ currentPriceId' = n
      /\ prices' = [prices EXCEPT ![n] = info]
      /\ latestPriceId' = LatestAfter(timestamp)
      /\ maxTimestampDiff' = maxTimestampDiff /\ oracleData' = oracleData /\ now' = now
  BY DEF AddPrice
<1>3. /\ n \in PriceId /\ n \notin 1 .. currentPriceId /\ info \in PriceInfo
      /\ \A id \in 1 .. currentPriceId : id \in PriceId /\ id \in 1 .. n /\ id < n
      /\ \A id \in 1 .. n : id \in 1 .. currentPriceId \/ id = n
  BY <1>1, <1>2 DEF PriceId, PriceInfo
<1>4. /\ prices' \in [PriceId -> PriceInfo]
      /\ prices'[n] = info
      /\ \A id \in PriceId : id # n => prices'[id] = prices[id]
  BY <1>1, <1>2, <1>3
<1> DEFINE newest == prices[latestPriceId].timestamp
<1>5. latestPriceId' = IF timestamp > newest THEN n ELSE latestPriceId
  <2>1. latestPriceId \in PriceId
    BY <1>1, <1>3
  <2> QED  BY <1>2, <2>1 DEF LatestAfter, InfoOf
<1>6. PricerTypeOK'
  BY <1>1, <1>2, <1>3, <1>4, <1>5 DEF PricerTypeOK
<1>7. UnusedIds' /\ Clock'
  <2>1. \A id \in PriceId : id > n => id # n /\ id > currentPriceId
    BY <1>1 DEF PriceId
  <2> QED  BY <1>2, <1>4, <2>1 DEF PricerInv, UnusedIds, Clock
<1>8. LatestIsNewest'
  <2> HIDE DEF n
  <2> SUFFICES ASSUME \A id \in 1 .. n : prices'[id].price # 0, NEW id \in 1 .. n
               PROVE  /\ prices'[id].timestamp <= prices'[latestPriceId'].timestamp
                      /\ id < latestPriceId'
                           => prices'[id].timestamp < prices'[latestPriceId'].timestamp
    BY <1>2 DEF LatestIsNewest
  <2>1. \A i \in 1 .. currentPriceId : prices'[i] = prices[i]
    BY <1>3, <1>4
  <2>2. \A i \in 1 .. currentPriceId :
          /\ prices[i].timestamp <= newest
          /\ i < latestPriceId => prices[i].timestamp < newest
    <3>1. \A i \in 1 .. currentPriceId : prices[i].price # 0
      BY <1>3, <2>1
    <3> QED  BY <3>1 DEF PricerInv, LatestIsNewest
  <2>3. /\ prices'[n].timestamp = timestamp
        /\ \A i \in 1 .. currentPriceId : prices[i].timestamp \in Nat
    <3>1. \A i \in 1 .. currentPriceId : prices[i] \in PriceInfo
      BY <1>1, <1>3
    <3> QED  BY <1>4, <3>1 DEF PriceInfo
  <2>4. newest \in Nat /\ prices'[latestPriceId].timestamp = newest
    BY <1>1, <2>1, <2>3
  <2> HIDE DEF newest
  <2>5. CASE timestamp > newest
    <3>1. latestPriceId' = n
      BY <1>5, <2>5
    <3>2. CASE id = n
      BY <2>3, <3>1, <3>2
    <3>3. CASE id \in 1 .. currentPriceId
      BY <2>1, <2>2, <2>3, <2>4, <2>5, <3>1, <3>3
    <3> QED  BY <1>3, <3>2, <3>3
  <2>6. CASE ~ (timestamp > newest)
    <3>1. latestPriceId' = latestPriceId
      BY <1>5, <2>6
    <3>2. CASE id = n
      <4>1. ~ (id < latestPriceId)
        BY <1>1, <1>3, <3>2
      <4> QED  BY <2>3, <2>4, <2>6, <3>1, <3>2, <4>1
    <3>3. CASE id \in 1 .. currentPriceId
      BY <2>1, <2>2, <2>4, <3>1, <3>3
    <3> QED  BY <1>3, <3>2, <3>3
  <2> QED  BY <2>5, <2>6
<1> QED  BY <1>6, <1>7, <1>8 DEF PricerInv

(* A price that is corrected keeps its timestamp; one that is deleted      *)
(* stays without a price.                                                  *)
LEMMA RecordedPrice ==
  ASSUME PricerInv, NEW id, GetPrice(id) # 0
  PROVE  id \in 1 .. currentPriceId /\ id \in PriceId
<1>1. id \in PriceId /\ prices[id].price # 0
  BY DEF GetPrice, InfoOf, NoPrice
<1>2. ~ (id > currentPriceId)
  BY <1>1 DEF PricerInv, UnusedIds, NoPrice
<1> QED  BY <1>1, <1>2, PricerConstants DEF PriceId, PricerInv, PricerTypeOK

LEMMA UpdatePriceInv ==
  ASSUME PricerInv, NEW id, NEW price \in Nat, UpdatePrice(id, price)
  PROVE  PricerInv'
<1> USE PricerConstants
<1>1. id \in 1 .. currentPriceId /\ id \in PriceId
  BY RecordedPrice DEF UpdatePrice
<1>2. /\ prices \in [PriceId -> PriceInfo] /\ currentPriceId \in PriceId
      /\ latestPriceId \in 1 .. currentPriceId
      /\ \A i \in 1 .. currentPriceId : i \in PriceId
  BY DEF PricerInv, PricerTypeOK, PriceId
<1>3. /\ prices' = [prices EXCEPT ![id].price = price]
      /\ UNCHANGED <<currentPriceId, latestPriceId, maxTimestampDiff, oracleData, now>>
  BY DEF UpdatePrice
<1>4. prices' \in [PriceId -> PriceInfo]
  <2>1. prices[id] \in PriceInfo
    BY <1>1, <1>2
  <2>2. [prices[id] EXCEPT !.price = price] \in PriceInfo
    BY <2>1 DEF PriceInfo
  <2> QED  BY <1>1, <1>2, <1>3, <2>2
<1>5. /\ \A i \in PriceId : i # id => prices'[i] = prices[i]
      /\ \A i \in PriceId : prices'[i].timestamp = prices[i].timestamp
  <2>1. \A i \in PriceId : prices[i] \in PriceInfo
    BY <1>2
  <2> QED  BY <1>1, <1>2, <1>3, <2>1 DEF PriceInfo
<1>6. \A i \in PriceId : prices'[i].price # 0 => prices[i].price # 0
  BY <1>1, <1>5 DEF UpdatePrice, GetPrice, InfoOf
<1>7. PricerTypeOK'
  BY <1>3, <1>4 DEF PricerInv, PricerTypeOK
<1>8. UnusedIds' /\ Clock'
  BY <1>1, <1>2, <1>3, <1>5 DEF PricerInv, UnusedIds, Clock, PriceId
<1>9. LatestIsNewest'
  BY <1>2, <1>3, <1>5, <1>6 DEF PricerInv, LatestIsNewest
<1> QED  BY <1>7, <1>8, <1>9 DEF PricerInv

LEMMA DeletePriceInv ==
  ASSUME PricerInv, NEW id, DeletePrice(id)
  PROVE  PricerInv'
<1> USE PricerConstants
<1>1. id \in 1 .. currentPriceId /\ id \in PriceId
  BY RecordedPrice DEF DeletePrice
<1>2. /\ prices \in [PriceId -> PriceInfo] /\ NoPrice \in PriceInfo
  BY DEF PricerInv, PricerTypeOK, PriceInfo, NoPrice
<1>3. /\ prices' = [prices EXCEPT ![id] = NoPrice]
      /\ UNCHANGED <<currentPriceId, latestPriceId, maxTimestampDiff, oracleData, now>>
  BY DEF DeletePrice
<1>4. prices' \in [PriceId -> PriceInfo] /\ prices'[id] = NoPrice
  BY <1>1, <1>2, <1>3
<1>5. \A i \in PriceId : i # id => prices'[i] = prices[i]
  BY <1>2, <1>3
<1>6. PricerTypeOK'
  BY <1>3, <1>4 DEF PricerInv, PricerTypeOK
<1>7. UnusedIds' /\ Clock'
  BY <1>3, <1>4, <1>5 DEF PricerInv, UnusedIds, Clock
<1>8. LatestIsNewest'
  BY <1>1, <1>3, <1>4 DEF LatestIsNewest, NoPrice
<1> QED  BY <1>6, <1>7, <1>8 DEF PricerInv

LEMMA PricerStepInv ==
  ASSUME PricerInv, PricerNext
  PROVE  PricerInv' /\ currentPriceId' >= currentPriceId
<1> USE PricerConstants
<1> DEFINE Goal == PricerInv' /\ currentPriceId' >= currentPriceId
<1>0. now \in Nat /\ currentPriceId \in Nat
  BY DEF PricerInv, Clock, PricerTypeOK, PriceId
<1>1. ASSUME NEW price \in PriceValues, NEW age \in PriceAges, now - age >= 0,
             AddPrice(price, now - age)
      PROVE  Goal
  <2>1. price \in Nat /\ now - age \in Nat
    BY <1>0, <1>1
  <2>2. PricerInv'
    BY <1>1, <2>1, AddPriceInv
  <2> QED  BY <1>0, <1>1, <2>2 DEF AddPrice
<1>2. ASSUME NEW price \in PriceValues, NEW age \in PriceAges, now - age >= 0,
             AddPriceOps(price, now - age)
      PROVE  Goal
  BY <1>1, <1>2 DEF AddPriceOps
<1>3. ASSUME NEW id \in CorrectedIds, NEW price \in PriceValues, UpdatePrice(id, price)
      PROVE  Goal
  <2>1. PricerInv'
    BY <1>3, UpdatePriceInv
  <2> QED  BY <1>0, <1>3, <2>1 DEF UpdatePrice
<1>4. ASSUME NEW id \in CorrectedIds, DeletePrice(id)
      PROVE  Goal
  <2>1. PricerInv'
    BY <1>4, DeletePriceInv
  <2> QED  BY <1>0, <1>4, <2>1 DEF DeletePrice
<1>5. ASSUME NEW diff \in TimestampDiffs, SetMaxTimestampDiff(diff)
      PROVE  Goal
  BY <1>0, <1>5 DEF SetMaxTimestampDiff, PricerInv, PricerTypeOK, UnusedIds, Clock,
                    LatestIsNewest
<1>6. ASSUME NEW price \in OraclePrices, OraclePublishes(price)
      PROVE  Goal
  <2>1. [price |-> price, timestamp |-> now] \in PriceInfo
    BY <1>0 DEF PriceInfo
  <2> QED  BY <1>0, <1>6, <2>1 DEF OraclePublishes, PricerInv, PricerTypeOK, UnusedIds, Clock,
                    LatestIsNewest
<1>7. PricerTick => Goal
  BY <1>0 DEF PricerTick, ClockTick, pricerVars, PricerInv, PricerTypeOK, UnusedIds, Clock,
              LatestIsNewest
<1> HIDE DEF Goal
<1>8. Goal
  BY <1>1, <1>2, <1>3, <1>4, <1>5, <1>6, <1>7 DEF PricerNext
<1> QED  BY <1>8 DEF Goal

-----------------------------------------------------------------------------
(* The hub.  Requests are typed, their price ids given out, and the ids    *)
(* that the next one on their counter comes to are free.                   *)
RequestType == [user : Address, amount : Nat, priceId : Nat]

FeatureSet == {"subscription", "redemption", "offChainRedemption"}

ConfigType == [mintFee : 0 .. BPS_DENOMINATOR, redemptionFee : 0 .. BPS_DENOMINATOR,
               minDeposit : Nat, minRedemption : Nat, minOffChain : Nat,
               paused : SUBSET FeatureSet,
               feeRecipient : Address, assetSender : Address,
               registry : Registry, group : Group]

RequestsOK(requests, next, given) ==
  /\ requests \in [RequestId -> RequestType]
  /\ \A id \in RequestId : requests[id].priceId <= given
  /\ \A id \in 1 .. MaxRequests : id >= next => requests[id].user = Zero
  /\ \A id \in RequestId : requests[id].user = Zero => requests[id].amount = 0

CountersOK == counters \in [{"subscription", "redemption"} -> 1 .. MaxRequests + 1]

BooksInv == /\ RequestsOK(depositors, counters.subscription, currentPriceId)
            /\ RequestsOK(redeemers, counters.redemption, currentPriceId)
            /\ CountersOK

MoneyInv == usdc \in [Address -> Nat] /\ hubConfig \in ConfigType

HubInv == PricerInv /\ OUSGInv /\ BooksInv /\ MoneyInv

LEMMA HubConstants == /\ hub \in Address /\ assetRecipient \in Address /\ hub # Zero
                      /\ FeeRecipients \subseteq Address /\ AssetSenders \subseteq Address
                      /\ BPS_DENOMINATOR \in Nat \ {0} /\ TOKEN \in Nat \ {0}
                      /\ decimalsMultiplier \in Nat \ {0}
                      /\ MaxRequests \in Nat
                      /\ CollateralAmounts \subseteq Nat /\ RedeemAmounts \subseteq Nat
                      /\ HubFees \subseteq Nat /\ HubMinimums \subseteq Nat
                      /\ Pausables \subseteq FeatureSet
                      /\ Funds \in [Address -> Nat]
                      /\ Users \subseteq Address \ {Zero} /\ Zero \in Address
BY HubAssumption, OUSGAssumption, AddressAssumption DEF FeatureSet, Features

LEMMA HashesAreNoCounters ==
  ASSUME NEW txHash \in TxHashes
  PROVE  txHash \in RequestId /\ txHash \notin 1 .. MaxRequests
BY HubAssumption DEF RequestId

(* A share of at most the whole, rounded down. *)
LEMMA FeeAtMost ==
  ASSUME NEW amount \in Nat, NEW fee \in 0 .. BPS_DENOMINATOR
  PROVE  (amount * fee) \div BPS_DENOMINATOR \in 0 .. amount
<1> DEFINE b == BPS_DENOMINATOR
           k == amount * fee
           q == k \div b
<1>1. b \in Nat \ {0} /\ fee \in Nat /\ fee <= b
  BY HubConstants
<1> HIDE DEF b
<1>2. k \in Nat /\ k <= amount * b
  BY <1>1
<1> HIDE DEF k
<1>3. q \in Nat /\ q * b <= k
  BY <1>1, <1>2, RoundsDown
<1> HIDE DEF q
<1>4. q <= amount
  <2> SUFFICES ASSUME q >= amount + 1 PROVE FALSE
    BY <1>3
  <2>1. q * b >= (amount + 1) * b /\ (amount + 1) * b = amount * b + b
    BY <1>1, <1>3
  <2>2. amount * b \in Nat /\ q * b \in Nat
    BY <1>1, <1>3
  <2> QED  BY <1>1, <1>2, <1>3, <2>1, <2>2
<1> QED  BY <1>3, <1>4 DEF q, k, b

LEMMA FeesType ==
  ASSUME MoneyInv, NEW amount \in Nat
  PROVE  HubMintFees(amount) \in 0 .. amount /\ HubRedemptionFees(amount) \in 0 .. amount
<1>1. hubConfig.mintFee \in 0 .. BPS_DENOMINATOR /\ hubConfig.redemptionFee \in 0 .. BPS_DENOMINATOR
  BY DEF MoneyInv, ConfigType
<1> QED  BY <1>1, FeeAtMost DEF HubMintFees, HubRedemptionFees

LEMMA MintAmountType ==
  ASSUME NEW amount \in Nat, NEW price \in Nat \ {0}
  PROVE  MintAmountForPrice(amount, price) \in Nat
<1> DEFINE k == amount * decimalsMultiplier * TOKEN
<1>1. k \in Nat
  BY HubConstants
<1> HIDE DEF k
<1>2. k \div price \in Nat
  BY <1>1
<1> QED  BY <1>2 DEF k, MintAmountForPrice

LEMMA RedemptionAmountType ==
  ASSUME NEW amount \in Nat, NEW price \in Nat
  PROVE  RedemptionAmountForRwa(amount, price) \in Nat
<1> DEFINE k == amount * price
           t == TOKEN
           d == decimalsMultiplier
           l == k \div t
<1>1. k \in Nat /\ t \in Nat \ {0} /\ d \in Nat \ {0}
  BY HubConstants
<1> HIDE DEF k, t, d
<1>2. l \in Nat
  BY <1>1
<1> HIDE DEF l
<1>3. l \div d \in Nat
  BY <1>1, <1>2
<1> QED  BY <1>3 DEF k, t, d, l, RedemptionAmountForRwa

LEMMA GetPriceType ==
  ASSUME PricerInv, NEW id
  PROVE  GetPrice(id) \in Nat
<1>1. InfoOf(id) \in PriceInfo
  BY DEF InfoOf, NoPrice, PriceInfo, PricerInv, PricerTypeOK
<1> QED  BY <1>1 DEF GetPrice, PriceInfo

(* The money of a request is there twice over: for its fees, then for the  *)
(* rest.                                                                   *)
LEMMA PaidTwice ==
  ASSUME NEW bal \in [Address -> Nat], NEW from \in Address, NEW to \in Address,
         NEW to2 \in Address, NEW amt \in Nat, NEW amt2 \in Nat, amt + amt2 <= bal[from]
  PROVE  /\ Paid(Paid(bal, from, to, amt), from, to2, amt2) \in [Address -> Nat]
         /\ \A a \in Address \ {to, to2} :
              Paid(Paid(bal, from, to, amt), from, to2, amt2)[a] <= bal[a]
<1> DEFINE mid == Paid(bal, from, to, amt)
           end == Paid(mid, from, to2, amt2)
<1>1. amt \in 0 .. bal[from]
  OBVIOUS
<1>2. /\ mid \in [Address -> Nat] /\ mid[from] >= bal[from] - amt
      /\ \A a \in Address \ {to} : mid[a] <= bal[a]
  BY <1>1, TotalPaid, PaidMoves
<1> HIDE DEF mid
<1>3. amt2 \in 0 .. mid[from]
  BY <1>2
<1>4. end \in [Address -> Nat] /\ \A a \in Address \ {to2} : end[a] <= mid[a]
  BY <1>2, <1>3, TotalPaid, PaidMoves
<1> HIDE DEF end
<1>5. ASSUME NEW a \in Address \ {to, to2} PROVE end[a] <= bal[a]
  <2>1. end[a] \in Nat /\ mid[a] \in Nat /\ bal[a] \in Nat
    BY <1>2, <1>4
  <2> QED  BY <1>2, <1>4, <2>1
<1> QED  BY <1>4, <1>5 DEF mid, end

LEMMA HubInitInv == HubSystemInit => HubInv
<1> SUFFICES ASSUME KYCInit, OUSGInit, ClockInit, PricerInit, HubInit PROVE HubInv
  BY DEF HubSystemInit
<1> USE HubConstants
<1>1. PricerInv
  BY PricerInitInv
<1>2. OUSGInv
  BY OUSGInitInv DEF OUSGWithKYCInit
<1>3. /\ NoRequest \in RequestType /\ NoRequest.priceId = 0 /\ NoRequest.user = Zero
      /\ NoRequest.amount = 0
  BY DEF NoRequest, RequestType
<1>4. currentPriceId \in Nat
  BY DEF PricerInit
<1>5. /\ depositors = [id \in RequestId |-> NoRequest] /\ redeemers = [id \in RequestId |-> NoRequest]
      /\ counters = [subscription |-> 1, redemption |-> 1]
      /\ \A id \in 1 .. MaxRequests : id \in RequestId
  BY DEF HubInit, RequestId
<1>6. /\ RequestsOK(depositors, counters.subscription, currentPriceId)
      /\ RequestsOK(redeemers, counters.redemption, currentPriceId)
  BY <1>3, <1>4, <1>5 DEF RequestsOK
<1>7. CountersOK
  BY <1>5 DEF CountersOK
<1>8. MoneyInv
  <2>1. usdc \in [Address -> Nat]
    BY DEF HubInit
  <2>2. 0 \in 0 .. BPS_DENOMINATOR
    OBVIOUS
  <2>3. hubConfig \in ConfigType
    BY <2>2 DEF HubInit, ConfigType
  <2> QED  BY <2>1, <2>3 DEF MoneyInv
<1> QED  BY <1>1, <1>2, <1>6, <1>7, <1>8 DEF HubInv, BooksInv

-----------------------------------------------------------------------------
(* What one write does to the requests. *)
LEMMA RequestPut ==
  ASSUME NEW requests, NEW next \in Nat, NEW given \in Nat, RequestsOK(requests, next, given),
         NEW id \in RequestId, NEW new \in RequestType, new.priceId <= given,
         new.user = Zero => new.amount = 0,
         NEW next2 \in Nat, next <= next2,
         id \in 1 .. MaxRequests /\ id >= next2 => new.user = Zero
  PROVE  RequestsOK([requests EXCEPT ![id] = new], next2, given)
<1> DEFINE after == [requests EXCEPT ![id] = new]
<1>1. after \in [RequestId -> RequestType] /\ after[id] = new
      /\ \A i \in RequestId : i # id => after[i] = requests[i]
  BY DEF RequestsOK
<1>2. \A i \in 1 .. MaxRequests : i \in RequestId
  BY DEF RequestId
<1> HIDE DEF after
<1>3. \A i \in RequestId : after[i].priceId <= given
  BY <1>1 DEF RequestsOK
<1>4. \A i \in 1 .. MaxRequests : i >= next2 => after[i].user = Zero
  <2> SUFFICES ASSUME NEW i \in 1 .. MaxRequests, i >= next2 PROVE after[i].user = Zero
    OBVIOUS
  <2>1. i >= next
    OBVIOUS
  <2> QED  BY <1>1, <1>2, <2>1 DEF RequestsOK
<1>5. \A i \in RequestId : after[i].user = Zero => after[i].amount = 0
  BY <1>1 DEF RequestsOK
<1> QED  BY <1>1, <1>3, <1>4, <1>5 DEF RequestsOK, after

LEMMA NewRequest ==
  ASSUME NEW user \in Address, NEW amount \in Nat
  PROVE  Request(user, amount) \in RequestType /\ Request(user, amount).priceId = 0
         /\ Request(user, amount).user = user /\ Request(user, amount).amount = amount
BY DEF Request, RequestType

LEMMA SettledOK ==
  ASSUME NEW requests, NEW next \in Nat, NEW given \in Nat, RequestsOK(requests, next, given),
         NEW id \in RequestId
  PROVE  RequestsOK(Settled(requests, id), next, given)
<1>1. /\ NoRequest \in RequestType /\ NoRequest.priceId = 0 /\ NoRequest.user = Zero
      /\ NoRequest.amount = 0
  BY HubConstants DEF NoRequest, RequestType
<1>2. RequestsOK([requests EXCEPT ![id] = NoRequest], next, given)
  BY <1>1, RequestPut
<1> QED  BY <1>2 DEF Settled

LEMMA WithPriceIdOK ==
  ASSUME NEW requests, NEW next \in Nat, NEW given \in Nat, RequestsOK(requests, next, given),
         NEW id \in RequestId, NEW priceId \in 0 .. given
  PROVE  RequestsOK(WithPriceId(requests, id, priceId), next, given)
<1> DEFINE new == [requests[id] EXCEPT !.priceId = priceId]
<1>1. requests[id] \in RequestType
  BY DEF RequestsOK
<1>2. /\ new \in RequestType /\ new.priceId = priceId /\ new.user = requests[id].user
      /\ new.amount = requests[id].amount
  BY <1>1 DEF RequestType
<1>3. /\ id \in 1 .. MaxRequests /\ id >= next => new.user = Zero
      /\ new.user = Zero => new.amount = 0
  BY <1>2 DEF RequestsOK
<1> HIDE DEF new
<1>4. RequestsOK([requests EXCEPT ![id] = new], next, given)
  BY <1>2, <1>3, RequestPut
<1> QED  BY <1>4 DEF WithPriceId, new

(* A counter that is advanced is still one below the bound. *)
LEMMA CountersType ==
  ASSUME BooksInv
  PROVE  /\ counters.subscription \in 1 .. MaxRequests + 1
         /\ counters.redemption \in 1 .. MaxRequests + 1
         /\ counters.subscription \in Nat /\ counters.redemption \in Nat
BY HubConstants DEF BooksInv, CountersOK

LEMMA CountedOK ==
  ASSUME BooksInv, NEW c \in {"subscription", "redemption"}, counters[c] <= MaxRequests,
         counters' = Counted(c)
  PROVE  /\ CountersOK'
         /\ counters'[c] = counters[c] + 1
         /\ \A d \in {"subscription", "redemption"} : d # c => counters'[d] = counters[d]
BY HubConstants DEF BooksInv, CountersOK, Counted

(* A price id that isValid lets pass was given out. *)
LEMMA ValidIsGiven ==
  ASSUME PricerInv, NEW priceId \in Nat, IsValid(priceId)
  PROVE  priceId \in 0 .. currentPriceId
<1>1. now \in Nat /\ DeployTime \in Nat /\ maxTimestampDiff \in Nat
      /\ now >= DeployTime /\ maxTimestampDiff < DeployTime
  BY PricerConstants, DiffAssumption DEF PricerInv, Clock
<1>2. InfoOf(priceId).timestamp >= now - maxTimestampDiff
  BY DEF IsValid, Cutoff
<1>3. InfoOf(priceId).timestamp # 0
  BY <1>1, <1>2
<1>4. priceId \in PriceId /\ prices[priceId] # NoPrice
  BY <1>3 DEF InfoOf, NoPrice
<1>5. ~ (priceId > currentPriceId)
  BY <1>4 DEF PricerInv, UnusedIds
<1>6. currentPriceId \in Nat
  BY DEF PricerInv, PricerTypeOK, PriceId
<1> QED  BY <1>5, <1>6

-----------------------------------------------------------------------------
(* The hub's own calls.  Each leaves the pricer and the registries alone.  *)
TokenInv == OUSGBooks /\ OUSGAllowanceOK /\ OUSGConfigOK

Elsewhere == UNCHANGED <<kycVars, pricerVars, now>>

LEMMA HubParts ==
  ASSUME HubInv
  PROVE  /\ PricerInv /\ OUSGInv /\ TokenInv /\ BooksInv /\ MoneyInv
         /\ RequestsOK(depositors, counters.subscription, currentPriceId)
         /\ RequestsOK(redeemers, counters.redemption, currentPriceId)
         /\ CountersOK /\ currentPriceId \in Nat
         /\ usdc \in [Address -> Nat] /\ hubConfig \in ConfigType
BY DEF HubInv, OUSGInv, TokenInv, BooksInv, MoneyInv, PricerInv, PricerTypeOK, PriceId

LEMMA ElsewhereInv ==
  ASSUME HubInv, Elsewhere
  PROVE  PricerInv' /\ KYCTypeOK' /\ currentPriceId' = currentPriceId
<1>1. PricerInv /\ KYCTypeOK
  BY DEF HubInv, OUSGInv
<1>2. UNCHANGED pricerVars /\ now' = now /\ UNCHANGED kycVars
  BY DEF Elsewhere
<1>3. PricerInv' /\ currentPriceId' = currentPriceId
  BY <1>1, <1>2 DEF pricerVars, PricerInv, PricerTypeOK, UnusedIds, Clock, LatestIsNewest
<1>4. KYCTypeOK'
  BY <1>1, <1>2 DEF kycVars, KYCTypeOK
<1> QED  BY <1>3, <1>4

LEMMA TokenUnchanged ==
  ASSUME TokenInv, UNCHANGED ousgVars
  PROVE  TokenInv'
BY DEF ousgVars, ousgLedger, ousgConfig, TokenInv, OUSGBooks, OUSGSupplyIsSum, OUSGAllowanceOK,
       OUSGConfigOK

LEMMA TokenBurnt ==
  ASSUME TokenInv, NEW user \in Address, NEW amount \in Nat, BurnFrom(user, amount)
  PROVE  TokenInv'
<1>1. /\ SpendOUSGAllowance(user, hub, amount) /\ RetireOUSG(hub, user, amount)
      /\ UNCHANGED ousgConfig
  BY DEF BurnFrom, OUSGBurnFrom
<1>2. OUSGBooks'
  BY <1>1, RetireOUSGBooks DEF TokenInv
<1>3. OUSGAllowanceOK'
  BY <1>1, SpendOUSGAllowanceType, HubConstants DEF TokenInv
<1> QED  BY <1>1, <1>2, <1>3 DEF TokenInv, OUSGConfigOK, ousgConfig

LEMMA BooksUnchanged ==
  ASSUME HubInv, Elsewhere, UNCHANGED hubBooks
  PROVE  BooksInv'
<1>1. currentPriceId' = currentPriceId
  BY ElsewhereInv
<1> QED  BY <1>1, HubParts DEF hubBooks, BooksInv, CountersOK

LEMMA MoneyUnchanged ==
  ASSUME MoneyInv, UNCHANGED <<usdc, hubConfig>>
  PROVE  MoneyInv'
BY DEF MoneyInv

LEMMA RequestSubscriptionInv ==
  ASSUME HubInv, Elsewhere, NEW user \in Users, NEW amount \in CollateralAmounts,
         RequestSubscription(user, amount)
  PROVE  BooksInv' /\ MoneyInv' /\ TokenInv'
<1> DEFINE fees == HubMintFees(amount)
           id   == counters.subscription
           new  == Request(user, amount - fees)
<1>1. /\ id <= MaxRequests /\ amount <= usdc[user]
      /\ depositors' = [depositors EXCEPT ![id] = new]
      /\ counters' = Counted("subscription")
      /\ usdc' = Paid(Paid(usdc, user, hubConfig.feeRecipient, fees),
                      user, assetRecipient, amount - fees)
      /\ redeemers' = redeemers /\ hubConfig' = hubConfig /\ UNCHANGED ousgVars
  BY DEF RequestSubscription
<1>2. user \in Address /\ amount \in Nat
  BY HubConstants
<1>3. fees \in 0 .. amount
  BY <1>2, FeesType, HubParts
<1> HIDE DEF fees
<1>4. fees \in Nat /\ amount - fees \in Nat /\ fees + (amount - fees) = amount
  BY <1>2, <1>3
<1>5. MoneyInv'
  <2>1. hubConfig.feeRecipient \in Address
    BY HubParts DEF ConfigType
  <2>2. usdc' \in [Address -> Nat]
    <3> DEFINE rest == amount - fees
    <3>1. rest \in Nat /\ fees + rest <= usdc[user]
      BY <1>1, <1>4
    <3> HIDE DEF rest
    <3>2. usdc' = Paid(Paid(usdc, user, hubConfig.feeRecipient, fees), user, assetRecipient, rest)
      BY <1>1 DEF rest
    <3> QED  BY <1>2, <1>4, <2>1, <3>1, <3>2, PaidTwice, HubParts, HubConstants
  <2> QED  BY <1>1, <2>2, HubParts DEF MoneyInv
<1>6. TokenInv'
  BY <1>1, TokenUnchanged, HubParts
<1>7. BooksInv'
  <2>1. new \in RequestType /\ new.priceId = 0 /\ new.user # Zero
    BY <1>2, <1>4, NewRequest, HubConstants
  <2> HIDE DEF new
  <2>2. id \in Nat /\ id \in RequestId /\ id + 1 \in Nat /\ id <= id + 1
        /\ ~ (id >= id + 1)
    BY <1>1, CountersType, HubParts DEF RequestId
  <2>3. RequestsOK([depositors EXCEPT ![id] = new], id + 1, currentPriceId)
    <3> DEFINE next2 == id + 1
    <3>1. next2 \in Nat /\ id <= next2 /\ ~ (id >= next2)
      BY <2>2
    <3> HIDE DEF next2
    <3>2. RequestsOK([depositors EXCEPT ![id] = new], next2, currentPriceId)
      BY <2>1, <2>2, <3>1, RequestPut, HubParts
    <3> QED  BY <3>2 DEF next2
  <2>4. /\ CountersOK' /\ counters'["subscription"] = counters["subscription"] + 1
        /\ counters'["redemption"] = counters["redemption"]
    BY <1>1, CountedOK, HubParts
  <2> QED  BY <1>1, <2>3, <2>4, ElsewhereInv, HubParts DEF BooksInv
<1> QED  BY <1>5, <1>6, <1>7

LEMMA RequestRedemptionInv ==
  ASSUME HubInv, Elsewhere, NEW user \in Users, NEW amount \in RedeemAmounts,
         RequestRedemption(user, amount)
  PROVE  BooksInv' /\ MoneyInv' /\ TokenInv'
<1> DEFINE id  == counters.redemption
           new == Request(user, amount)
<1>1. /\ id <= MaxRequests
      /\ redeemers' = [redeemers EXCEPT ![id] = new]
      /\ counters' = Counted("redemption")
      /\ BurnFrom(user, amount)
      /\ depositors' = depositors /\ hubConfig' = hubConfig /\ usdc' = usdc
  BY DEF RequestRedemption
<1>2. user \in Address /\ amount \in Nat
  BY HubConstants
<1>3. TokenInv'
  BY <1>1, <1>2, TokenBurnt, HubParts
<1>4. BooksInv'
  <2>1. new \in RequestType /\ new.priceId = 0 /\ new.user # Zero
    BY <1>2, NewRequest, HubConstants
  <2> HIDE DEF new
  <2>2. id \in Nat /\ id \in RequestId
    BY <1>1, CountersType, HubParts DEF RequestId
  <2> DEFINE next2 == id + 1
  <2>3. next2 \in Nat /\ id <= next2 /\ ~ (id >= next2)
    BY <2>2
  <2>4. /\ CountersOK' /\ counters'["redemption"] = next2
        /\ counters'["subscription"] = counters["subscription"]
    BY <1>1, CountedOK, HubParts
  <2>5. RequestsOK(redeemers, id, currentPriceId) /\ currentPriceId \in Nat
        /\ new.priceId <= currentPriceId
    BY <2>1, HubParts
  <2> HIDE DEF next2
  <2>6. RequestsOK([redeemers EXCEPT ![id] = new], next2, currentPriceId)
    <3> HIDE DEF id
    <3> QED  BY <2>1, <2>2, <2>3, <2>5, RequestPut
  <2> QED  BY <1>1, <2>4, <2>6, ElsewhereInv, HubParts DEF BooksInv
<1> QED  BY <1>1, <1>3, <1>4, MoneyUnchanged, HubParts

LEMMA OffchainInv ==
  ASSUME HubInv, Elsewhere, NEW user \in Users, NEW amount \in RedeemAmounts,
         RequestRedemptionServicedOffchain(user, amount)
  PROVE  BooksInv' /\ MoneyInv' /\ TokenInv'
<1> DEFINE id == counters.redemption
<1>1. /\ id <= MaxRequests
      /\ counters' = Counted("redemption")
      /\ BurnFrom(user, amount)
      /\ depositors' = depositors /\ redeemers' = redeemers
      /\ hubConfig' = hubConfig /\ usdc' = usdc
  BY DEF RequestRedemptionServicedOffchain
<1>2. TokenInv'
  BY <1>1, TokenBurnt, HubParts, HubConstants
<1>3. BooksInv'
  <2>1. /\ CountersOK' /\ counters'["redemption"] = id + 1
        /\ counters'["subscription"] = counters["subscription"]
    BY <1>1, CountedOK, HubParts
  <2>2. id \in Nat
    BY CountersType, HubParts
  <2>3. RequestsOK(redeemers, id + 1, currentPriceId)
    BY <2>2, HubParts DEF RequestsOK
  <2> QED  BY <1>1, <2>1, <2>3, ElsewhereInv, HubParts DEF BooksInv
<1> QED  BY <1>1, <1>2, <1>3, MoneyUnchanged, HubParts

LEMMA ProofInv ==
  ASSUME HubInv, Elsewhere, NEW txHash \in TxHashes, NEW user \in Users,
         NEW amount \in CollateralAmounts, AddProof(txHash, user, amount)
  PROVE  BooksInv' /\ MoneyInv' /\ TokenInv'
<1> DEFINE new == Request(user, amount)
<1>1. /\ depositors' = [depositors EXCEPT ![txHash] = new]
      /\ redeemers' = redeemers /\ counters' = counters
      /\ hubConfig' = hubConfig /\ usdc' = usdc /\ UNCHANGED ousgVars
  BY DEF AddProof
<1>2. new \in RequestType /\ new.priceId = 0 /\ new.user # Zero
  BY NewRequest, HubConstants
<1> HIDE DEF new
<1>3. RequestsOK([depositors EXCEPT ![txHash] = new], counters.subscription, currentPriceId)
  BY <1>2, HashesAreNoCounters, RequestPut, HubParts, CountersType
<1>4. BooksInv'
  BY <1>1, <1>3, ElsewhereInv, HubParts DEF BooksInv, CountersOK
<1> QED  BY <1>1, <1>4, TokenUnchanged, MoneyUnchanged, HubParts

LEMMA RedemptionProofInv ==
  ASSUME HubInv, Elsewhere, NEW txHash \in TxHashes, NEW prover \in Users, NEW user \in Users,
         NEW amount \in RedeemAmounts, AddRedemptionProof(prover, txHash, user, amount)
  PROVE  BooksInv' /\ MoneyInv' /\ TokenInv'
<1> DEFINE new == Request(user, amount)
<1>1. /\ redeemers' = [redeemers EXCEPT ![txHash] = new]
      /\ depositors' = depositors /\ counters' = counters
      /\ hubConfig' = hubConfig /\ usdc' = usdc /\ BurnFrom(prover, amount)
  BY DEF AddRedemptionProof
<1>2. new \in RequestType /\ new.priceId = 0 /\ new.user # Zero
  BY NewRequest, HubConstants
<1> HIDE DEF new
<1>3. RequestsOK([redeemers EXCEPT ![txHash] = new], counters.redemption, currentPriceId)
  BY <1>2, HashesAreNoCounters, RequestPut, HubParts, CountersType
<1>4. BooksInv'
  BY <1>1, <1>3, ElsewhereInv, HubParts DEF BooksInv, CountersOK
<1>5. TokenInv'
  BY <1>1, TokenBurnt, HubParts, HubConstants
<1> QED  BY <1>1, <1>4, <1>5, MoneyUnchanged, HubParts

LEMMA SetPriceIdInv ==
  ASSUME HubInv, Elsewhere, NEW id \in RequestId, NEW priceId \in 0 .. MaxPriceId,
         SetPriceIdForDeposits(id, priceId) \/ SetPriceIdForRedemptions(id, priceId)
  PROVE  BooksInv' /\ MoneyInv' /\ TokenInv'
<1>1. /\ IsValid(priceId) /\ UNCHANGED <<counters, hubConfig, usdc, ousgVars>>
      /\ \/ depositors' = WithPriceId(depositors, id, priceId) /\ redeemers' = redeemers
         \/ redeemers' = WithPriceId(redeemers, id, priceId) /\ depositors' = depositors
  BY DEF SetPriceIdForDeposits, SetPriceIdForRedemptions
<1>2. priceId \in 0 .. currentPriceId
  BY <1>1, ValidIsGiven, HubParts
<1>3. /\ RequestsOK(WithPriceId(depositors, id, priceId), counters.subscription, currentPriceId)
      /\ RequestsOK(WithPriceId(redeemers, id, priceId), counters.redemption, currentPriceId)
  BY <1>2, WithPriceIdOK, HubParts, CountersType
<1>4. BooksInv'
  BY <1>1, <1>3, ElsewhereInv, HubParts DEF BooksInv, CountersOK
<1> QED  BY <1>1, <1>4, TokenUnchanged, MoneyUnchanged, HubParts

(* The admin overwrites entries that exist, below the counters. *)
LEMMA OverwritesInv ==
  ASSUME HubInv, Elsewhere, Overwrites
  PROVE  BooksInv' /\ MoneyInv' /\ TokenInv'
<1>1. PICK user \in Users, priceId \in 0 .. currentPriceId :
        \/ \E id \in RequestId, amount \in CollateralAmounts :
             depositors[id].user # Zero /\ OverwriteDepositor(id, user, amount, priceId)
        \/ \E id \in RequestId, amount \in RedeemAmounts :
             redeemers[id].user # Zero /\ OverwriteRedeemer(id, user, amount, priceId)
  BY DEF Overwrites
<1>2. ASSUME NEW requests, NEW next \in Nat, RequestsOK(requests, next, currentPriceId),
             NEW id \in RequestId, NEW amount \in Nat, requests[id].user # Zero
      PROVE  RequestsOK([requests EXCEPT ![id] =
                           [user |-> user, amount |-> amount, priceId |-> priceId]],
                        next, currentPriceId)
  <2> DEFINE new == [user |-> user, amount |-> amount, priceId |-> priceId]
  <2>1. new \in RequestType /\ new.priceId <= currentPriceId /\ new.user # Zero
    BY HubConstants, HubParts DEF RequestType
  <2>2. ~ (id \in 1 .. MaxRequests /\ id >= next)
    BY <1>2 DEF RequestsOK
  <2> HIDE DEF new
  <2>3. RequestsOK([requests EXCEPT ![id] = new], next, currentPriceId)
    BY <1>2, <2>1, <2>2, RequestPut, HubParts
  <2> QED  BY <2>3 DEF new
<1>3. ASSUME NEW id \in RequestId, NEW amount \in CollateralAmounts,
             depositors[id].user # Zero, OverwriteDepositor(id, user, amount, priceId)
      PROVE  BooksInv' /\ MoneyInv' /\ TokenInv'
  <2>1. /\ depositors' = [depositors EXCEPT ![id] =
                            [user |-> user, amount |-> amount, priceId |-> priceId]]
        /\ redeemers' = redeemers /\ counters' = counters
        /\ hubConfig' = hubConfig /\ usdc' = usdc /\ UNCHANGED ousgVars
    BY <1>3 DEF OverwriteDepositor
  <2>2. RequestsOK(depositors', counters.subscription, currentPriceId)
    BY <1>2, <1>3, <2>1, HubParts, CountersType, HubConstants
  <2>3. BooksInv'
    BY <2>1, <2>2, ElsewhereInv, HubParts DEF BooksInv, CountersOK
  <2> QED  BY <2>1, <2>3, TokenUnchanged, MoneyUnchanged, HubParts
<1>4. ASSUME NEW id \in RequestId, NEW amount \in RedeemAmounts,
             redeemers[id].user # Zero, OverwriteRedeemer(id, user, amount, priceId)
      PROVE  BooksInv' /\ MoneyInv' /\ TokenInv'
  <2>1. /\ redeemers' = [redeemers EXCEPT ![id] =
                           [user |-> user, amount |-> amount, priceId |-> priceId]]
        /\ depositors' = depositors /\ counters' = counters
        /\ hubConfig' = hubConfig /\ usdc' = usdc /\ UNCHANGED ousgVars
    BY <1>4 DEF OverwriteRedeemer
  <2>2. RequestsOK(redeemers', counters.redemption, currentPriceId)
    BY <1>2, <1>4, <2>1, HubParts, CountersType, HubConstants
  <2>3. BooksInv'
    BY <2>1, <2>2, ElsewhereInv, HubParts DEF BooksInv, CountersOK
  <2> QED  BY <2>1, <2>3, TokenUnchanged, MoneyUnchanged, HubParts
<1> QED  BY <1>1, <1>3, <1>4

LEMMA RequestFields ==
  ASSUME NEW requests \in [RequestId -> RequestType], NEW id \in RequestId
  PROVE  /\ requests[id].user \in Address /\ requests[id].amount \in Nat
         /\ requests[id].priceId \in Nat
BY DEF RequestType

LEMMA ClaimMintInv ==
  ASSUME HubInv, Elsewhere, NEW id \in RequestId, ClaimMint(id)
  PROVE  BooksInv' /\ MoneyInv' /\ TokenInv'
<1> DEFINE user  == depositors[id].user
           price == GetPrice(depositors[id].priceId)
           amt   == MintAmountForPrice(depositors[id].amount, price)
<1>1. /\ price # 0 /\ IssueOUSG(hub, user, amt)
      /\ depositors' = Settled(depositors, id)
      /\ redeemers' = redeemers /\ counters' = counters
      /\ hubConfig' = hubConfig /\ usdc' = usdc
      /\ ousgAllowance' = ousgAllowance /\ UNCHANGED ousgConfig
  BY DEF ClaimMint
<1>2. user \in Address /\ depositors[id].amount \in Nat
  BY RequestFields, HubParts DEF RequestsOK
<1>3. price \in Nat
  BY GetPriceType, HubParts
<1>4. amt \in Nat
  <2> HIDE DEF price
  <2> QED  BY <1>1, <1>2, <1>3, MintAmountType
<1> HIDE DEF user, amt
<1>5. OUSGBooks'
  BY <1>1, <1>2, <1>4, IssueOUSGBooks, HubParts DEF TokenInv
<1>6. TokenInv'
  BY <1>1, <1>5, HubParts DEF TokenInv, OUSGAllowanceOK, OUSGConfigOK, ousgConfig
<1>7. RequestsOK(Settled(depositors, id), counters.subscription, currentPriceId)
  BY SettledOK, HubParts, CountersType
<1>8. BooksInv'
  BY <1>1, <1>7, ElsewhereInv, HubParts DEF BooksInv, CountersOK
<1> QED  BY <1>1, <1>6, <1>8, MoneyUnchanged, HubParts

LEMMA ClaimRedemptionInv ==
  ASSUME HubInv, Elsewhere, NEW id \in RequestId, ClaimRedemption(id)
  PROVE  /\ BooksInv' /\ MoneyInv' /\ TokenInv'
         /\ \A a \in Address \ {redeemers[id].user, hubConfig.feeRecipient} : usdc'[a] <= usdc[a]
<1> DEFINE user   == redeemers[id].user
           price  == GetPrice(redeemers[id].priceId)
           due    == RedemptionAmountForRwa(redeemers[id].amount, price)
           fee    == HubRedemptionFees(due)
           sender == hubConfig.assetSender
           to     == hubConfig.feeRecipient
<1>1. /\ due <= usdc[sender]
      /\ redeemers' = Settled(redeemers, id)
      /\ usdc' = Paid(Paid(usdc, sender, user, due - fee), sender, to, fee)
      /\ depositors' = depositors /\ counters' = counters
      /\ hubConfig' = hubConfig /\ UNCHANGED ousgVars
  BY DEF ClaimRedemption
<1>2. user \in Address /\ redeemers[id].amount \in Nat
  BY RequestFields, HubParts DEF RequestsOK
<1>3. price \in Nat
  BY GetPriceType, HubParts
<1>4. due \in Nat
  <2> HIDE DEF price
  <2> QED  BY <1>2, <1>3, RedemptionAmountType
<1> HIDE DEF due
<1>5. fee \in 0 .. due
  BY <1>4, FeesType, HubParts
<1> HIDE DEF fee
<1>6. sender \in Address /\ to \in Address
  BY HubParts DEF ConfigType
<1> DEFINE rest == due - fee
<1>7. rest \in Nat /\ fee \in Nat /\ rest + fee <= usdc[sender]
  BY <1>1, <1>4, <1>5
<1>8. usdc' = Paid(Paid(usdc, sender, user, rest), sender, to, fee)
  BY <1>1
<1>9. /\ usdc' \in [Address -> Nat]
      /\ \A a \in Address \ {user, to} : usdc'[a] <= usdc[a]
  <2> HIDE DEF rest, sender, to, user
  <2>1. usdc \in [Address -> Nat]
    BY HubParts
  <2> QED  BY <1>2, <1>6, <1>7, <1>8, <2>1, PaidTwice
<1>10. TokenInv' /\ MoneyInv'
  <2>1. TokenInv'
    BY <1>1, TokenUnchanged, HubParts
  <2> QED  BY <1>1, <1>9, <2>1, HubParts DEF MoneyInv
<1>11. RequestsOK(Settled(redeemers, id), counters.redemption, currentPriceId)
  BY SettledOK, HubParts, CountersType
<1>12. BooksInv'
  BY <1>1, <1>11, ElsewhereInv, HubParts DEF BooksInv, CountersOK
<1> QED  BY <1>9, <1>10, <1>12

LEMMA SettingsInv ==
  ASSUME HubInv, Elsewhere, Settings
  PROVE  /\ BooksInv' /\ MoneyInv' /\ TokenInv'
         /\ depositors' = depositors /\ redeemers' = redeemers
         /\ UNCHANGED <<usdc, ousgBalance, ousgSupply>>
<1> USE HubConstants
<1>1. \E new \in ConfigType : Configure(new)
  <2>1. hubConfig \in ConfigType
    BY HubParts
  <2>2. SetMinimums => \E new \in ConfigType : Configure(new)
    <3> SUFFICES ASSUME NEW amount \in HubMinimums,
                        \/ Configure([hubConfig EXCEPT !.minDeposit = amount])
                        \/ Configure([hubConfig EXCEPT !.minRedemption = amount])
                        \/ Configure([hubConfig EXCEPT !.minOffChain = amount])
                 PROVE  \E new \in ConfigType : Configure(new)
      BY DEF SetMinimums
    <3>1. /\ [hubConfig EXCEPT !.minDeposit = amount] \in ConfigType
          /\ [hubConfig EXCEPT !.minRedemption = amount] \in ConfigType
          /\ [hubConfig EXCEPT !.minOffChain = amount] \in ConfigType
      BY <2>1 DEF ConfigType
    <3> QED  BY <3>1
  <2>3. SetFees => \E new \in ConfigType : Configure(new)
    <3> SUFFICES ASSUME NEW fee \in HubFees, fee <= BPS_DENOMINATOR,
                        \/ Configure([hubConfig EXCEPT !.mintFee = fee])
                        \/ Configure([hubConfig EXCEPT !.redemptionFee = fee])
                 PROVE  \E new \in ConfigType : Configure(new)
      BY DEF SetFees
    <3>1. fee \in 0 .. BPS_DENOMINATOR
      OBVIOUS
    <3>2. /\ [hubConfig EXCEPT !.mintFee = fee] \in ConfigType
          /\ [hubConfig EXCEPT !.redemptionFee = fee] \in ConfigType
      BY <2>1, <3>1 DEF ConfigType
    <3> QED  BY <3>2
  <2>4. SetAccounts => \E new \in ConfigType : Configure(new)
    <3> SUFFICES ASSUME NEW a \in Address,
                        \/ Configure([hubConfig EXCEPT !.feeRecipient = a])
                        \/ Configure([hubConfig EXCEPT !.assetSender = a])
                 PROVE  \E new \in ConfigType : Configure(new)
      BY DEF SetAccounts
    <3>1. /\ [hubConfig EXCEPT !.feeRecipient = a] \in ConfigType
          /\ [hubConfig EXCEPT !.assetSender = a] \in ConfigType
      BY <2>1 DEF ConfigType
    <3> QED  BY <3>1
  <2>5. SetKYC => \E new \in ConfigType : Configure(new)
    <3>1. /\ \A r \in Registry : [hubConfig EXCEPT !.registry = r] \in ConfigType
          /\ \A g \in Group : [hubConfig EXCEPT !.group = g] \in ConfigType
      BY <2>1 DEF ConfigType
    <3> QED  BY <3>1 DEF SetKYC
  <2>6. PauseHub => \E new \in ConfigType : Configure(new)
    <3> SUFFICES ASSUME NEW feature \in Pausables,
                        \/ Configure([hubConfig EXCEPT !.paused = @ \cup {feature}])
                        \/ Configure([hubConfig EXCEPT !.paused = @ \ {feature}])
                 PROVE  \E new \in ConfigType : Configure(new)
      BY DEF PauseHub
    <3>1. hubConfig.paused \in SUBSET FeatureSet
      BY <2>1 DEF ConfigType
    <3>2. /\ hubConfig.paused \cup {feature} \in SUBSET FeatureSet
          /\ hubConfig.paused \ {feature} \in SUBSET FeatureSet
      BY <3>1
    <3>3. \A p \in SUBSET FeatureSet : [hubConfig EXCEPT !.paused = p] \in ConfigType
      BY <2>1 DEF ConfigType
    <3>4. /\ [hubConfig EXCEPT !.paused = @ \cup {feature}] \in ConfigType
          /\ [hubConfig EXCEPT !.paused = @ \ {feature}] \in ConfigType
      BY <3>2, <3>3
    <3> QED  BY <3>4
  <2> QED  BY <2>2, <2>3, <2>4, <2>5, <2>6 DEF Settings
<1>2. PICK new \in ConfigType : Configure(new)
  BY <1>1
<1>3. /\ hubConfig' = new /\ UNCHANGED hubBooks /\ usdc' = usdc /\ UNCHANGED ousgVars
  BY <1>2 DEF Configure
<1>4. BooksInv'
  BY <1>3, BooksUnchanged
<1>5. TokenInv'
  BY <1>3, TokenUnchanged, HubParts
<1>6. MoneyInv'
  BY <1>2, <1>3, HubParts DEF MoneyInv
<1> QED  BY <1>3, <1>4, <1>5, <1>6 DEF hubBooks, ousgVars, ousgLedger

LEMMA HubOwnStepInv ==
  ASSUME HubInv, Elsewhere, HubStep
  PROVE  BooksInv' /\ MoneyInv' /\ TokenInv'
<1> DEFINE Goal == BooksInv' /\ MoneyInv' /\ TokenInv'
<1>1. Requests => Goal
  <2> SUFFICES ASSUME Requests PROVE Goal
    OBVIOUS
  <2>1. ASSUME NEW user \in Users, NEW amount \in CollateralAmounts,
               RequestSubscription(user, amount)
        PROVE  Goal
    BY <2>1, RequestSubscriptionInv
  <2>2. ASSUME NEW user \in Users, NEW amount \in RedeemAmounts, RequestRedemption(user, amount)
        PROVE  Goal
    BY <2>2, RequestRedemptionInv
  <2>3. ASSUME NEW user \in Users, NEW amount \in RedeemAmounts,
               RequestRedemptionServicedOffchain(user, amount)
        PROVE  Goal
    BY <2>3, OffchainInv
  <2>4. DepositProofs => Goal
    BY ProofInv DEF DepositProofs
  <2>5. RedemptionProofs => Goal
    BY RedemptionProofInv DEF RedemptionProofs
  <2> HIDE DEF Goal
  <2> QED  BY <2>1, <2>2, <2>3, <2>4, <2>5 DEF Requests
<1>2. ASSUME NEW id \in RequestId, ClaimMint(id) \/ ClaimRedemption(id) PROVE Goal
  BY <1>2, ClaimMintInv, ClaimRedemptionInv
<1>3. ASSUME NEW id \in RequestId, NEW priceId \in 0 .. MaxPriceId,
             SetPriceIdForDeposits(id, priceId) \/ SetPriceIdForRedemptions(id, priceId)
      PROVE  Goal
  BY <1>3, SetPriceIdInv
<1>4. Overwrites => Goal
  BY OverwritesInv
<1>5. Settings => Goal
  BY SettingsInv
<1> HIDE DEF Goal
<1>6. Goal
  BY <1>1, <1>2, <1>3, <1>4, <1>5 DEF HubStep
<1> QED  BY <1>6 DEF Goal

LEMMA HubStepInv == HubInv /\ [HubNext]_hubSystemVars => HubInv'
<1> SUFFICES ASSUME HubInv, [HubNext]_hubSystemVars PROVE HubInv'
  OBVIOUS
<1>1. CASE HubStep /\ Elsewhere
  BY <1>1, HubOwnStepInv, ElsewhereInv DEF HubInv, OUSGInv, TokenInv
<1>2. CASE UNCHANGED hubVars /\ Elsewhere /\ TokenInv'
  <2>1. BooksInv' /\ MoneyInv'
    BY <1>2, BooksUnchanged, MoneyUnchanged, HubParts DEF hubVars, hubBooks
  <2> QED  BY <1>2, <2>1, ElsewhereInv DEF HubInv, OUSGInv, TokenInv
<1>3. ASSUME NEW user \in Users, NEW amount \in OUSGApprovals, OUSGApprove(user, hub, amount)
      PROVE  TokenInv'
  <2>1. OUSGAllowanceOK'
    BY <1>3, SetOUSGAllowanceType, OUSGAmountsNat, HubConstants, HubParts
       DEF OUSGApprove, TokenInv
  <2> QED  BY <1>3, <2>1, HubParts DEF OUSGApprove, TokenInv, OUSGBooks, OUSGSupplyIsSum,
              OUSGConfigOK, ousgConfig
<1>4. CASE KYCNext /\ UNCHANGED <<hubVars, ousgVars, pricerVars, now>>
  <2>1. KYCTypeOK'
    BY <1>4, KYCKeepsTypes, HubParts DEF OUSGInv
  <2>2. TokenInv'
    BY <1>4, TokenUnchanged, HubParts
  <2>3. PricerInv' /\ currentPriceId' = currentPriceId
    BY <1>4, HubParts DEF pricerVars, PricerInv, PricerTypeOK, UnusedIds, Clock, LatestIsNewest
  <2>4. BooksInv' /\ MoneyInv'
    BY <1>4, <2>3, HubParts DEF hubVars, BooksInv, CountersOK, MoneyInv
  <2> QED  BY <2>1, <2>2, <2>3, <2>4 DEF HubInv, OUSGInv, TokenInv
<1>5. CASE PricerNext /\ UNCHANGED <<hubVars, ousgVars, kycVars>>
  <2>1. PricerInv' /\ currentPriceId' >= currentPriceId
    BY <1>5, PricerStepInv, HubParts
  <2>2. TokenInv' /\ KYCTypeOK'
    BY <1>5, TokenUnchanged, HubParts DEF kycVars, KYCTypeOK, OUSGInv
  <2>3. currentPriceId' \in Nat
    BY <2>1 DEF PricerInv, PricerTypeOK, PriceId
  <2>4. ASSUME NEW requests, NEW next \in Nat, RequestsOK(requests, next, currentPriceId)
        PROVE  RequestsOK(requests, next, currentPriceId')
    <3>1. \A id \in RequestId : requests[id].priceId \in Nat
      BY <2>4 DEF RequestsOK, RequestType
    <3> QED  BY <2>1, <2>3, <2>4, <3>1, HubParts DEF RequestsOK
  <2>5. BooksInv' /\ MoneyInv'
    <3>1. /\ RequestsOK(depositors, counters.subscription, currentPriceId')
          /\ RequestsOK(redeemers, counters.redemption, currentPriceId')
      BY <2>4, HubParts, CountersType
    <3> QED  BY <1>5, <3>1, HubParts DEF hubVars, BooksInv, CountersOK, MoneyInv
  <2> QED  BY <2>1, <2>2, <2>5 DEF HubInv, OUSGInv, TokenInv
<1>6. CASE UNCHANGED hubSystemVars
  BY <1>2, <1>6, TokenUnchanged, HubParts DEF hubSystemVars, Elsewhere
<1> QED  BY <1>1, <1>2, <1>3, <1>4, <1>5, <1>6 DEF HubNext, Elsewhere

(* The hub, its token and its pricer stay well typed, no payment or burn   *)
(* overdraws an account, and every price id that a request was given is    *)
(* one that the pricer gave out, although isValid of PricerWithOracle      *)
(* looks at nothing but a timestamp.                                       *)
THEOREM HubStaysInOrder == HubSpec => []HubInOrder
<1>1. HubInv => HubInOrder
  <2> SUFFICES ASSUME HubInv PROVE HubInOrder
    OBVIOUS
  <2>1. OUSGTypeOK
    BY HubParts DEF OUSGInv, OUSGBooks, OUSGAllowanceOK, OUSGConfigOK, OUSGTypeOK
  <2>2. PricerTypeOK
    BY HubParts DEF PricerInv
  <2>3. \A id \in RequestId : /\ depositors[id].user \in Address /\ depositors[id].amount \in Nat
                              /\ redeemers[id].user \in Address /\ redeemers[id].amount \in Nat
                              /\ depositors[id].priceId \in 0 .. currentPriceId
                              /\ redeemers[id].priceId \in 0 .. currentPriceId
    BY RequestFields, HubParts DEF RequestsOK
  <2> QED  BY <2>1, <2>2, <2>3, HubParts DEF HubInOrder, HubTypeOK, CountersOK
<1> QED  BY <1>1, HubInitInv, HubStepInv, PTL DEF HubSpec

(* As long as no price is deleted, latestPriceId names the first of those  *)
(* with the latest timestamp, in whatever order Pricer.addPrice gets them. *)
THEOREM HubLatestIsNewest == HubSpec => []LatestIsNewest
<1>1. HubInv => LatestIsNewest
  BY DEF HubInv, PricerInv
<1> QED  BY <1>1, HubInitInv, HubStepInv, PTL DEF HubSpec

-----------------------------------------------------------------------------
(* What becomes of an open request. *)
DepositsStand == \A id \in RequestId : depositors[id].user # Zero => DepositStands(id)
RedemptionsStand == \A id \in RequestId : redeemers[id].user # Zero => RedemptionStands(id)

LEMMA UnchangedStand ==
  /\ UNCHANGED depositors => DepositsStand
  /\ UNCHANGED redeemers => RedemptionsStand
BY DEF DepositsStand, RedemptionsStand, DepositStands, RedemptionStands, Kept

(* A request that is written where nobody's was displaces none. *)
LEMMA FreeSlot ==
  ASSUME NEW requests \in [RequestId -> RequestType], NEW id \in RequestId, NEW new,
         requests[id].user = Zero
  PROVE  \A i \in RequestId : requests[i].user # Zero
           => Kept(requests[i], [requests EXCEPT ![id] = new][i])
BY DEF Kept

LEMMA GivenPriceId ==
  ASSUME NEW requests \in [RequestId -> RequestType], NEW id \in RequestId, NEW priceId,
         requests[id].priceId = 0
  PROVE  \A i \in RequestId : Kept(requests[i], WithPriceId(requests, id, priceId)[i])
<1> SUFFICES ASSUME NEW i \in RequestId
             PROVE  Kept(requests[i], WithPriceId(requests, id, priceId)[i])
  OBVIOUS
<1> DEFINE old == requests[id]
           new == [old EXCEPT !.priceId = priceId]
<1>1. old \in RequestType
  OBVIOUS
<1>2. new.priceId = priceId
  BY <1>1 DEF RequestType
<1>3. WithPriceId(requests, id, priceId) = [requests EXCEPT ![id] = new]
  BY DEF WithPriceId
<1>4. CASE i = id
  BY <1>2, <1>3, <1>4 DEF Kept
<1>5. CASE i # id
  BY <1>3, <1>5 DEF Kept
<1> QED  BY <1>4, <1>5

LEMMA SettledLeaves ==
  ASSUME NEW requests \in [RequestId -> RequestType], NEW id \in RequestId
  PROVE  /\ Settled(requests, id)[id] = NoRequest
         /\ \A i \in RequestId : i # id => Settled(requests, id)[i] = requests[i]
BY DEF Settled

LEMMA OwnStepStands ==
  ASSUME HubInv, Elsewhere, HubStep
  PROVE  (DepositsStand /\ RedemptionsStand) \/ Overwrites
<1> DEFINE Goal == (DepositsStand /\ RedemptionsStand) \/ Overwrites
<1>0. /\ depositors \in [RequestId -> RequestType] /\ redeemers \in [RequestId -> RequestType]
      /\ \A id \in 1 .. MaxRequests : id >= counters.subscription => depositors[id].user = Zero
      /\ \A id \in 1 .. MaxRequests : id >= counters.redemption => redeemers[id].user = Zero
  BY HubParts DEF RequestsOK
<1>1. ASSUME NEW id \in RequestId, NEW new, depositors[id].user = Zero,
             depositors' = [depositors EXCEPT ![id] = new]
      PROVE  DepositsStand
  <2>1. \A i \in RequestId : depositors[i].user # Zero => Kept(depositors[i], depositors'[i])
    BY <1>0, <1>1, FreeSlot
  <2> QED  BY <2>1 DEF DepositsStand, DepositStands
<1>2. ASSUME NEW id \in RequestId, NEW new, redeemers[id].user = Zero,
             redeemers' = [redeemers EXCEPT ![id] = new]
      PROVE  RedemptionsStand
  <2>1. \A i \in RequestId : redeemers[i].user # Zero => Kept(redeemers[i], redeemers'[i])
    BY <1>0, <1>2, FreeSlot
  <2> QED  BY <2>1 DEF RedemptionsStand, RedemptionStands
<1>3. Requests => Goal
  <2> SUFFICES ASSUME Requests PROVE Goal
    OBVIOUS
  <2>1. ASSUME NEW user \in Users, NEW amount \in CollateralAmounts,
               RequestSubscription(user, amount)
        PROVE  Goal
    <3> DEFINE id  == counters.subscription
               new == Request(user, amount - HubMintFees(amount))
    <3>1. id <= MaxRequests /\ depositors' = [depositors EXCEPT ![id] = new]
          /\ redeemers' = redeemers
      BY <2>1 DEF RequestSubscription
    <3>2. id \in 1 .. MaxRequests /\ id \in RequestId /\ depositors[id].user = Zero
      BY <1>0, <3>1, CountersType, HubParts, HubConstants DEF RequestId
    <3> HIDE DEF id, new
    <3> QED  BY <1>1, <3>1, <3>2, UnchangedStand
  <2>2. ASSUME NEW user \in Users, NEW amount \in RedeemAmounts, RequestRedemption(user, amount)
        PROVE  Goal
    <3> DEFINE id  == counters.redemption
               new == Request(user, amount)
    <3>1. id <= MaxRequests /\ redeemers' = [redeemers EXCEPT ![id] = new]
          /\ depositors' = depositors
      BY <2>2 DEF RequestRedemption
    <3>2. id \in 1 .. MaxRequests /\ id \in RequestId /\ redeemers[id].user = Zero
      BY <1>0, <3>1, CountersType, HubParts, HubConstants DEF RequestId
    <3> HIDE DEF id, new
    <3> QED  BY <1>2, <3>1, <3>2, UnchangedStand
  <2>3. ASSUME NEW user \in Users, NEW amount \in RedeemAmounts,
               RequestRedemptionServicedOffchain(user, amount)
        PROVE  Goal
    BY <2>3, UnchangedStand DEF RequestRedemptionServicedOffchain
  <2>4. DepositProofs => Goal
    <3> SUFFICES ASSUME NEW txHash \in TxHashes, NEW user \in Users,
                        NEW amount \in CollateralAmounts, AddProof(txHash, user, amount)
                 PROVE  Goal
      BY DEF DepositProofs
    <3>1. /\ depositors[txHash].user = Zero /\ redeemers' = redeemers
          /\ depositors' = [depositors EXCEPT ![txHash] = Request(user, amount)]
      BY DEF AddProof
    <3> QED  BY <1>1, <3>1, HashesAreNoCounters, UnchangedStand
  <2>5. RedemptionProofs => Goal
    <3> SUFFICES ASSUME NEW txHash \in TxHashes, NEW prover \in Users, NEW user \in Users,
                        NEW amount \in RedeemAmounts,
                        AddRedemptionProof(prover, txHash, user, amount)
                 PROVE  Goal
      BY DEF RedemptionProofs
    <3>1. /\ redeemers[txHash].user = Zero /\ depositors' = depositors
          /\ redeemers' = [redeemers EXCEPT ![txHash] = Request(user, amount)]
      BY DEF AddRedemptionProof
    <3> QED  BY <1>2, <3>1, HashesAreNoCounters, UnchangedStand
  <2> HIDE DEF Goal
  <2> QED  BY <2>1, <2>2, <2>3, <2>4, <2>5 DEF Requests
<1>4. ASSUME NEW id \in RequestId, ClaimMint(id) PROVE Goal
  <2> DEFINE user == depositors[id].user
             amt  == MintAmountForPrice(depositors[id].amount, GetPrice(depositors[id].priceId))
  <2>1. /\ depositors' = Settled(depositors, id) /\ redeemers' = redeemers
        /\ ousgBalance' = Issued(ousgBalance, user, amt)
    BY <1>4 DEF ClaimMint, IssueOUSG
  <2>2. user \in Address
    BY <1>0, RequestFields
  <2>3. ousgBalance'[user] = ousgBalance[user] + amt
    <3>1. ousgBalance \in [Address -> Nat]
      BY HubParts DEF OUSGInv, OUSGBooks
    <3> HIDE DEF user, amt
    <3> QED  BY <2>1, <2>2, <3>1 DEF Issued
  <2>4. DepositsStand
    <3>1. DepositStands(id)
      BY <1>0, <2>1, <2>3, SettledLeaves DEF DepositStands
    <3>2. \A i \in RequestId : i # id => Kept(depositors[i], depositors'[i])
      BY <1>0, <2>1, SettledLeaves DEF Kept
    <3> QED  BY <3>1, <3>2 DEF DepositsStand, DepositStands
  <2> QED  BY <2>1, <2>4, UnchangedStand
<1>5. ASSUME NEW id \in RequestId, ClaimRedemption(id) PROVE Goal
  <2>1. redeemers' = Settled(redeemers, id) /\ depositors' = depositors
    BY <1>5 DEF ClaimRedemption
  <2>2. \A a \in Address \ {redeemers[id].user, hubConfig.feeRecipient} : usdc'[a] <= usdc[a]
    BY <1>5, ClaimRedemptionInv
  <2>3. RedemptionsStand
    <3>1. RedemptionStands(id)
      BY <1>0, <2>1, <2>2, SettledLeaves DEF RedemptionStands
    <3>2. \A i \in RequestId : i # id => Kept(redeemers[i], redeemers'[i])
      BY <1>0, <2>1, SettledLeaves DEF Kept
    <3> QED  BY <3>1, <3>2 DEF RedemptionsStand, RedemptionStands
  <2> QED  BY <2>1, <2>3, UnchangedStand
<1>6. ASSUME NEW id \in RequestId, NEW priceId, SetPriceIdForDeposits(id, priceId) PROVE Goal
  <2>1. /\ depositors[id].priceId = 0 /\ depositors' = WithPriceId(depositors, id, priceId)
        /\ redeemers' = redeemers
    BY <1>6 DEF SetPriceIdForDeposits
  <2>2. \A i \in RequestId : Kept(depositors[i], depositors'[i])
    BY <1>0, <2>1, GivenPriceId
  <2> QED  BY <2>1, <2>2, UnchangedStand DEF DepositsStand, DepositStands
<1>7. ASSUME NEW id \in RequestId, NEW priceId, SetPriceIdForRedemptions(id, priceId) PROVE Goal
  <2>1. /\ redeemers[id].priceId = 0 /\ redeemers' = WithPriceId(redeemers, id, priceId)
        /\ depositors' = depositors
    BY <1>7 DEF SetPriceIdForRedemptions
  <2>2. \A i \in RequestId : Kept(redeemers[i], redeemers'[i])
    BY <1>0, <2>1, GivenPriceId
  <2> QED  BY <2>1, <2>2, UnchangedStand DEF RedemptionsStand, RedemptionStands
<1>8. Settings => Goal
  BY SettingsInv, UnchangedStand
<1>9. Overwrites => Goal
  OBVIOUS
<1> HIDE DEF Goal
<1>10. Goal
  BY <1>3, <1>4, <1>5, <1>6, <1>7, <1>8, <1>9 DEF HubStep
<1> QED  BY <1>10 DEF Goal

(* A request stands as its user left it until it is given a price id, once, *)
(* and is then settled in his favour; ids and proofs never collide, and     *)
(* only the admin's overwriting (RWAHub.overwriteDepositor and              *)
(* overwriteRedeemer) displaces anything.                                   *)
THEOREM HubRequestsStand == HubSpec => OpenRequestsAreKeptOrSettled
<1> DEFINE Step == \/ \A id \in RequestId : /\ depositors[id].user # Zero => DepositStands(id)
                                            /\ redeemers[id].user # Zero => RedemptionStands(id)
                   \/ Overwrites
<1>1. ASSUME HubInv, [HubNext]_hubSystemVars PROVE [Step]_hubSystemVars
  <2>1. DepositsStand /\ RedemptionsStand => Step
    BY DEF DepositsStand, RedemptionsStand
  <2>2. HubStep /\ Elsewhere => Step
    BY <1>1, <2>1, OwnStepStands
  <2>3. UNCHANGED hubVars => Step
    BY <2>1, UnchangedStand DEF hubVars
  <2>4. HubNext => Step
    BY <2>2, <2>3 DEF HubNext, Elsewhere
  <2> HIDE DEF Step
  <2> QED  BY <1>1, <2>4
<1>2. HubSpec => [][Step]_hubSystemVars
  BY <1>1, HubInitInv, HubStepInv, PTL DEF HubSpec
<1> QED  BY <1>2 DEF OpenRequestsAreKeptOrSettled

-----------------------------------------------------------------------------
(* What users hold and are owed. *)
Amounts(requests) == [id \in RequestId |-> requests[id].amount]

Held(bal) == Within(bal, Users)

LEMMA FiniteParts == IsFiniteSet(RequestId) /\ IsFiniteSet(Users)
<1>1. IsFiniteSet(1 .. MaxRequests) /\ IsFiniteSet(TxHashes)
  BY HubConstants, HubAssumption, FS_Interval
<1>2. IsFiniteSet(RequestId)
  BY <1>1, FS_Union DEF RequestId
<1>3. IsFiniteSet(Address) /\ Users \subseteq Address
  BY AddressAssumption, HubConstants
<1>4. IsFiniteSet(Users)
  BY <1>3, FS_Subset
<1> QED  BY <1>2, <1>4

LEMMA SumPut ==
  ASSUME NEW requests \in [RequestId -> RequestType], NEW id \in RequestId,
         NEW new \in RequestType
  PROVE  /\ Sum(requests) \in Nat
         /\ Sum([requests EXCEPT ![id] = new])
              = Sum(requests) - requests[id].amount + new.amount
<1> DEFINE before == Amounts(requests)
           after  == Amounts([requests EXCEPT ![id] = new])
           amt    == new.amount
<1>1. before \in [RequestId -> Nat] /\ amt \in Nat /\ before[id] = requests[id].amount
  BY DEF Amounts, RequestType
<1>2. after = [before EXCEPT ![id] = amt]
  BY DEF Amounts
<1>3. Sum(requests) = Total(before) /\ Sum([requests EXCEPT ![id] = new]) = Total(after)
  BY DEF Sum, Amounts
<1> HIDE DEF before, after, amt
<1>4. Total(before) \in Nat /\ Total([before EXCEPT ![id] = amt]) = Total(before) - before[id] + amt
  <2>1. IsFiniteSet(RequestId)
    BY FiniteParts
  <2>2. Total(before) \in Nat
    BY <1>1, <2>1, TotalOver
  <2>3. Total(PutAt(before, id, amt)) = Total(before) - before[id] + amt
    BY <1>1, <2>1, TotalOverPut
  <2> QED  BY <2>2, <2>3 DEF PutAt
<1> QED  BY <1>1, <1>2, <1>3, <1>4 DEF amt

LEMMA SumSettled ==
  ASSUME NEW requests \in [RequestId -> RequestType], NEW id \in RequestId
  PROVE  Sum(Settled(requests, id)) = Sum(requests) - requests[id].amount
<1>1. NoRequest \in RequestType /\ NoRequest.amount = 0
  BY HubConstants DEF NoRequest, RequestType
<1>2. Sum([requests EXCEPT ![id] = NoRequest]) = Sum(requests) - requests[id].amount + 0
  BY <1>1, SumPut
<1>3. Sum(requests) \in Nat /\ requests[id].amount \in Nat
  BY <1>1, SumPut, RequestFields
<1> QED  BY <1>2, <1>3 DEF Settled

LEMMA SumWithPriceId ==
  ASSUME NEW requests \in [RequestId -> RequestType], NEW id \in RequestId, NEW priceId \in Nat
  PROVE  Sum(WithPriceId(requests, id, priceId)) = Sum(requests)
<1> DEFINE new == [requests[id] EXCEPT !.priceId = priceId]
<1>1. requests[id] \in RequestType
  OBVIOUS
<1>2. new \in RequestType /\ new.amount = requests[id].amount
  BY <1>1 DEF RequestType
<1> HIDE DEF new
<1>3. Sum([requests EXCEPT ![id] = new]) = Sum(requests) - requests[id].amount + new.amount
  BY <1>2, SumPut
<1>4. Sum(requests) \in Nat /\ requests[id].amount \in Nat
  BY <1>2, SumPut, RequestFields
<1> QED  BY <1>2, <1>3, <1>4 DEF WithPriceId, new

LEMMA HeldPaid ==
  ASSUME NEW bal \in [Address -> Nat], NEW from \in Address, NEW to \in Address,
         NEW amt \in 0 .. bal[from]
  PROVE  /\ Held(Paid(bal, from, to, amt)) \in Nat /\ Held(bal) \in Nat
         /\ Held(Paid(bal, from, to, amt)) <= Held(bal) + amt
         /\ from \in Users => Held(Paid(bal, from, to, amt)) <= Held(bal)
         /\ from \in Users /\ to \notin Users => Held(Paid(bal, from, to, amt)) = Held(bal) - amt
<1> DEFINE end == Paid(bal, from, to, amt)
<1>1. Users \in SUBSET Address /\ end \in [Address -> Nat] /\ amt \in Nat
  BY HubConstants, TotalPaid
<1>2. Held(end) = Held(bal) - (IF from \in Users THEN amt ELSE 0)
                            + (IF to \in Users THEN amt ELSE 0)
  BY <1>1, WithinPaid DEF Held
<1> HIDE DEF end
<1>3. Held(bal) \in Nat /\ Held(end) \in Nat
  BY <1>1, WithinType DEF Held
<1> QED  BY <1>1, <1>2, <1>3 DEF end

(* Worth as a number: x of collateral and y of tokens at price q. *)
WorthOf(x, y, q) == x * decimalsMultiplier * TOKEN + y * q

Money == Held(usdc) + Sum(depositors)
Claims == ousgSupply + Sum(redeemers)

LEMMA WorthIs ==
  ASSUME NEW q
  PROVE  Worth(q) = WorthOf(Money, Claims, q) /\ Worth(q)' = WorthOf(Money', Claims', q)
BY DEF Worth, WorthOf, Money, Claims, Held, Within, Sum

LEMMA Scale ==
  ASSUME NEW x \in Int
  PROVE  /\ decimalsMultiplier * TOKEN \in Nat
         /\ x * decimalsMultiplier * TOKEN = x * (decimalsMultiplier * TOKEN)
BY HubConstants

LEMMA WorthFalls ==
  ASSUME NEW x \in Nat, NEW x2 \in Nat, x2 <= x, NEW y \in Nat, NEW y2 \in Nat, y2 <= y,
         NEW q \in Nat
  PROVE  WorthOf(x2, y2, q) <= WorthOf(x, y, q)
<1> DEFINE k == decimalsMultiplier * TOKEN
<1>1. k \in Nat
  BY Scale
<1>2. WorthOf(x2, y2, q) = x2 * k + y2 * q /\ WorthOf(x, y, q) = x * k + y * q
  BY Scale DEF WorthOf
<1> HIDE DEF k
<1>3. x2 * k <= x * k
  BY <1>1
<1>4. y2 * q <= y * q
  OBVIOUS
<1>5. x2 * k \in Nat /\ x * k \in Nat /\ y2 * q \in Nat /\ y * q \in Nat
  BY <1>1
<1> QED  BY <1>2, <1>3, <1>4, <1>5

LEMMA WorthOfMint ==
  ASSUME NEW x \in Nat, NEW y \in Nat, NEW a \in 0 .. x, NEW m \in Nat, NEW q \in Nat,
         m * q <= a * decimalsMultiplier * TOKEN
  PROVE  WorthOf(x - a, y + m, q) <= WorthOf(x, y, q)
<1> DEFINE k == decimalsMultiplier * TOKEN
<1>1. k \in Nat /\ a \in Nat /\ x - a \in Nat
  BY Scale
<1>2. /\ WorthOf(x - a, y + m, q) = (x - a) * k + (y + m) * q
      /\ WorthOf(x, y, q) = x * k + y * q
      /\ m * q <= a * k
  BY <1>1, Scale DEF WorthOf
<1> HIDE DEF k
<1>3. (x - a) * k = x * k - a * k /\ (y + m) * q = y * q + m * q
  BY <1>1
<1>4. x * k \in Nat /\ a * k \in Nat /\ y * q \in Nat /\ m * q \in Nat
  BY <1>1
<1> QED  BY <1>2, <1>3, <1>4

LEMMA WorthOfRedemption ==
  ASSUME NEW x \in Nat, NEW y \in Nat, NEW a \in 0 .. y, NEW u \in Nat, NEW q \in Nat,
         u * decimalsMultiplier * TOKEN <= a * q
  PROVE  WorthOf(x + u, y - a, q) <= WorthOf(x, y, q)
<1> DEFINE k == decimalsMultiplier * TOKEN
<1>1. k \in Nat /\ a \in Nat /\ y - a \in Nat /\ x + u \in Nat
  BY Scale
<1>2. /\ WorthOf(x + u, y - a, q) = (x + u) * k + (y - a) * q
      /\ WorthOf(x, y, q) = x * k + y * q
      /\ u * k <= a * q
  BY <1>1, Scale DEF WorthOf
<1> HIDE DEF k
<1>3. (x + u) * k = x * k + u * k /\ (y - a) * q = y * q - a * q
  BY <1>1
<1>4. x * k \in Nat /\ a * q \in Nat /\ y * q \in Nat /\ u * k \in Nat
  BY <1>1
<1> QED  BY <1>2, <1>3, <1>4

(* Tokens minted, and collateral paid out, are worth at most what was      *)
(* asked for.                                                              *)
LEMMA MintIsWorth ==
  ASSUME NEW amount \in Nat, NEW price \in Nat \ {0}
  PROVE  MintAmountForPrice(amount, price) * price <= amount * decimalsMultiplier * TOKEN
<1> DEFINE k == amount * decimalsMultiplier * TOKEN
<1>1. k \in Nat
  BY HubConstants
<1> HIDE DEF k
<1>2. (k \div price) * price <= k
  BY <1>1, RoundsDown
<1> QED  BY <1>2 DEF k, MintAmountForPrice

LEMMA RedemptionIsWorth ==
  ASSUME NEW amount \in Nat, NEW price \in Nat
  PROVE  RedemptionAmountForRwa(amount, price) * decimalsMultiplier * TOKEN <= amount * price
<1> DEFINE k == amount * price
           t == TOKEN
           d == decimalsMultiplier
           l == k \div t
           u == l \div d
<1>1. k \in Nat /\ t \in Nat \ {0} /\ d \in Nat \ {0}
  BY HubConstants
<1> HIDE DEF k, t, d
<1>2. l \in Nat /\ l * t <= k
  BY <1>1, RoundsDown
<1> HIDE DEF l
<1>3. u \in Nat /\ u * d <= l
  BY <1>1, <1>2, RoundsDown
<1> HIDE DEF u
<1> DEFINE v == u * d
<1>4. v \in Nat /\ v <= l
  BY <1>1, <1>3
<1> HIDE DEF v
<1>5. v * t <= l * t
  BY <1>1, <1>2, <1>4
<1>6. v * t \in Nat /\ l * t \in Nat
  BY <1>1, <1>2, <1>4
<1>7. v * t <= k
  BY <1>1, <1>2, <1>5, <1>6
<1> QED  BY <1>7 DEF v, u, l, k, t, d, RedemptionAmountForRwa

LEMMA SumType ==
  ASSUME NEW requests \in [RequestId -> RequestType]
  PROVE  /\ Sum(requests) \in Nat
         /\ \A id \in RequestId : requests[id].amount <= Sum(requests)
<1>1. ASSUME NEW id \in RequestId
      PROVE  Sum(requests) \in Nat /\ requests[id].amount <= Sum(requests)
  <2>1. NoRequest \in RequestType
    BY HubConstants DEF NoRequest, RequestType
  <2>2. Sum(requests) \in Nat
    BY <2>1, SumPut
  <2>3. Settled(requests, id) \in [RequestId -> RequestType]
    BY <2>1 DEF Settled
  <2>4. Sum(Settled(requests, id)) \in Nat
    BY <2>1, <2>3, SumPut
  <2>5. requests[id].amount \in Nat
    BY RequestFields
  <2> QED  BY <2>2, <2>4, <2>5, SumSettled
<1>2. Sum(requests) \in Nat
  <2>1. Amounts(requests) \in [RequestId -> Nat] /\ Sum(requests) = Total(Amounts(requests))
    BY DEF Amounts, RequestType, Sum
  <2>2. IsFiniteSet(RequestId)
    BY FiniteParts
  <2> QED  BY <2>1, <2>2, TotalOver
<1> QED  BY <1>1, <1>2

LEMMA HeldType ==
  ASSUME NEW bal \in [Address -> Nat]
  PROVE  Held(bal) \in Nat
BY HubConstants, WithinType DEF Held

(* A hub in good order, as the arithmetic sees it. *)
LEMMA HubNumbers ==
  ASSUME HubInv
  PROVE  /\ depositors \in [RequestId -> RequestType] /\ redeemers \in [RequestId -> RequestType]
         /\ Sum(depositors) \in Nat /\ Sum(redeemers) \in Nat
         /\ Held(usdc) \in Nat /\ ousgSupply \in Nat
         /\ Money \in Nat /\ Claims \in Nat
<1>1. depositors \in [RequestId -> RequestType] /\ redeemers \in [RequestId -> RequestType]
  BY HubParts DEF RequestsOK
<1>2. Sum(depositors) \in Nat /\ Sum(redeemers) \in Nat
  BY <1>1, SumType
<1>3. Held(usdc) \in Nat
  BY HeldType, HubParts
<1>4. ousgSupply \in Nat
  BY HubParts DEF TokenInv, OUSGBooks
<1> QED  BY <1>1, <1>2, <1>3, <1>4 DEF Money, Claims

NoGain == Money' \in Nat /\ Claims' \in Nat /\ Money' <= Money /\ Claims' <= Claims

LEMMA SubscriptionNoGain ==
  ASSUME HubInv, NEW user \in Users, NEW amount \in CollateralAmounts,
         RequestSubscription(user, amount)
  PROVE  NoGain
<1> DEFINE fees == HubMintFees(amount)
           id   == counters.subscription
           rest == amount - fees
           new  == Request(user, rest)
           to   == hubConfig.feeRecipient
           mid  == Paid(usdc, user, to, fees)
           old  == depositors[id].amount
<1>1. /\ id <= MaxRequests /\ amount <= usdc[user]
      /\ depositors' = [depositors EXCEPT ![id] = new]
      /\ usdc' = Paid(mid, user, assetRecipient, rest)
      /\ redeemers' = redeemers /\ UNCHANGED ousgVars
  BY DEF RequestSubscription
<1>2. user \in Address /\ amount \in Nat /\ to \in Address /\ usdc \in [Address -> Nat]
      /\ id \in RequestId
  BY <1>1, HubConstants, HubParts, CountersType DEF ConfigType, RequestId
<1>3. fees \in 0 .. amount
  BY <1>2, FeesType, HubParts
<1>4. new \in RequestType /\ new.amount = rest /\ rest \in Nat
  <2>1. rest \in Nat
    BY <1>2, <1>3
  <2> HIDE DEF rest
  <2> QED  BY <1>2, <2>1, NewRequest
<1> HIDE DEF fees, new, to, id
<1>5. fees \in 0 .. usdc[user] /\ fees \in Nat /\ usdc[user] \in Nat /\ rest + fees = amount
  BY <1>1, <1>2, <1>3
<1> HIDE DEF rest
<1>6. /\ mid \in [Address -> Nat] /\ mid[user] >= usdc[user] - fees
      /\ Held(mid) <= Held(usdc) /\ Held(mid) \in Nat
  BY <1>2, <1>5, TotalPaid, PaidMoves, HeldPaid
<1> HIDE DEF mid
<1>7. rest \in 0 .. mid[user]
  BY <1>1, <1>2, <1>4, <1>5, <1>6
<1>8. Held(usdc') = Held(mid) - rest /\ Held(usdc') \in Nat
  BY <1>1, <1>2, <1>6, <1>7, HeldPaid, HubConstants, CustodyAssumption
<1>9. Sum(depositors') = Sum(depositors) - old + rest
  BY <1>1, <1>2, <1>4, SumPut, HubNumbers
<1>10. old \in Nat /\ old <= Sum(depositors)
  BY <1>2, SumType, RequestFields, HubNumbers
<1> HIDE DEF old
<1>11. Money' \in Nat /\ Money' <= Money
  BY <1>4, <1>6, <1>8, <1>9, <1>10, HubNumbers DEF Money
<1>12. Claims' = Claims
  BY <1>1 DEF Claims, ousgVars, ousgLedger
<1> QED  BY <1>11, <1>12, HubNumbers DEF NoGain

(* What is burned is owed instead, or is gone. *)
LEMMA BurnNoGain ==
  ASSUME HubInv, NEW payer \in Users, NEW user \in Address, NEW amount \in Nat,
         BurnFrom(payer, amount), UNCHANGED <<usdc, depositors>>,
         \/ redeemers' = redeemers
         \/ \E id \in RequestId : redeemers' = [redeemers EXCEPT ![id] = Request(user, amount)]
  PROVE  NoGain
<1>1. ousgSupply' = ousgSupply - amount
  BY DEF BurnFrom, OUSGBurnFrom, RetireOUSG
<1>2. ousgSupply' \in Nat
  BY TokenBurnt, HubParts, HubConstants DEF TokenInv, OUSGBooks
<1>3. Sum(redeemers') \in Nat /\ Sum(redeemers') <= Sum(redeemers) + amount
  <2>1. CASE redeemers' = redeemers
    BY <2>1, HubNumbers
  <2>2. ASSUME NEW id \in RequestId, redeemers' = [redeemers EXCEPT ![id] = Request(user, amount)]
        PROVE  Sum(redeemers') \in Nat /\ Sum(redeemers') <= Sum(redeemers) + amount
    <3> DEFINE new == Request(user, amount)
               old == redeemers[id].amount
    <3>1. new \in RequestType /\ new.amount = amount
      BY NewRequest
    <3>2. redeemers' = [redeemers EXCEPT ![id] = new]
      BY <2>2
    <3> HIDE DEF new
    <3>3. Sum(redeemers') = Sum(redeemers) - old + amount
      <4>1. redeemers \in [RequestId -> RequestType]
        BY HubNumbers
      <4>2. Sum([redeemers EXCEPT ![id] = new]) = Sum(redeemers) - old + new.amount
        BY <3>1, <4>1, SumPut
      <4> QED  BY <3>1, <3>2, <4>2
    <3>4. old \in Nat /\ old <= Sum(redeemers)
      BY SumType, RequestFields, HubNumbers
    <3> HIDE DEF old
    <3> QED  BY <3>3, <3>4, HubNumbers
  <2> QED  BY <2>1, <2>2
<1>4. Claims' \in Nat /\ Claims' <= Claims
  BY <1>1, <1>2, <1>3, HubNumbers DEF Claims
<1>5. Money' = Money
  BY DEF Money
<1> QED  BY <1>4, <1>5, HubNumbers DEF NoGain

LEMMA SettledPrice ==
  ASSUME NEW requests \in [RequestId -> RequestType], NEW id \in RequestId,
         requests[id].user # Zero
  PROVE  GetPrice(requests[id].priceId) \in SettledAt(requests, Settled(requests, id))
<1>1. Settled(requests, id)[id].user = Zero
  BY SettledLeaves DEF NoRequest
<1> QED  BY <1>1 DEF SettledAt

LEMMA ClaimMintNoGain ==
  ASSUME HubInv, NEW id \in RequestId, ClaimMint(id), NEW q \in Nat,
         SettledAt(depositors, depositors') \subseteq {q, 0}
  PROVE  Worth(q)' <= Worth(q)
<1> DEFINE user   == depositors[id].user
           price  == GetPrice(depositors[id].priceId)
           amount == depositors[id].amount
           minted == MintAmountForPrice(amount, price)
<1>1. /\ price # 0 /\ user # Zero
      /\ depositors' = Settled(depositors, id) /\ redeemers' = redeemers
      /\ usdc' = usdc /\ ousgSupply' = ousgSupply + minted
  BY DEF ClaimMint, IssueOUSG, CanIssueOUSG
<1>2. price = q
  <2>1. price \in {q, 0}
    BY <1>1, SettledPrice, HubNumbers
  <2> QED  BY <1>1, <2>1
<1>3. amount \in Nat /\ amount <= Sum(depositors)
  BY SumType, RequestFields, HubNumbers
<1> HIDE DEF price, user, amount
<1>4. q \in Nat \ {0}
  BY <1>1, <1>2
<1>5. minted \in Nat /\ minted * q <= amount * decimalsMultiplier * TOKEN
  BY <1>2, <1>3, <1>4, MintAmountType, MintIsWorth
<1> HIDE DEF minted
<1>6. Sum(depositors') = Sum(depositors) - amount
  BY <1>1, SumSettled, HubNumbers DEF amount
<1>7. Money' = Money - amount /\ amount \in 0 .. Money
  BY <1>1, <1>3, <1>6, HubNumbers DEF Money
<1>8. Claims' = Claims + minted
  BY <1>1, <1>5, HubNumbers DEF Claims
<1>9. WorthOf(Money - amount, Claims + minted, q) <= WorthOf(Money, Claims, q)
  BY <1>5, <1>7, WorthOfMint, HubNumbers
<1> QED  BY <1>7, <1>8, <1>9, WorthIs

LEMMA ClaimRedemptionNoGain ==
  ASSUME HubInv, NEW id \in RequestId, ClaimRedemption(id), NEW q \in Nat,
         SettledAt(redeemers, redeemers') \subseteq {q, 0}
  PROVE  Worth(q)' <= Worth(q)
<1> DEFINE user   == redeemers[id].user
           price  == GetPrice(redeemers[id].priceId)
           amount == redeemers[id].amount
           due    == RedemptionAmountForRwa(amount, price)
           fee    == HubRedemptionFees(due)
           rest   == due - fee
           sender == hubConfig.assetSender
           to     == hubConfig.feeRecipient
           mid    == Paid(usdc, sender, user, rest)
<1>1. /\ due <= usdc[sender]
      /\ redeemers' = Settled(redeemers, id) /\ depositors' = depositors
      /\ usdc' = Paid(mid, sender, to, fee)
      /\ UNCHANGED ousgVars
  BY DEF ClaimRedemption
<1>2. amount \in Nat /\ amount <= Sum(redeemers) /\ price \in Nat /\ user \in Address
  BY SumType, RequestFields, HubNumbers, HubParts, GetPriceType
<1>3. \/ amount = 0
      \/ price = 0
      \/ price = q
  <2>1. CASE user = Zero
    BY <2>1, HubParts DEF RequestsOK
  <2>2. CASE user # Zero
    <3>1. price \in {q, 0}
      BY <1>1, <2>2, SettledPrice, HubNumbers
    <3> QED  BY <3>1
  <2> QED  BY <2>1, <2>2
<1>4. sender \in Address /\ to \in Address /\ usdc \in [Address -> Nat]
  BY HubParts DEF ConfigType
<1> HIDE DEF user, price, amount, sender, to
<1>5. due \in Nat /\ due * decimalsMultiplier * TOKEN <= amount * q
  <2>1. due \in Nat /\ due * decimalsMultiplier * TOKEN <= amount * price
    BY <1>2, RedemptionAmountType, RedemptionIsWorth
  <2> DEFINE a == amount * price
             b == amount * q
             c == due * decimalsMultiplier * TOKEN
  <2>2. a \in Nat /\ b \in Nat /\ a <= b
    <3>1. CASE amount = 0
      BY <1>2, <3>1
    <3>2. CASE price = 0
      BY <1>2, <3>2
    <3>3. CASE price = q
      BY <1>2, <3>3
    <3> QED  BY <1>3, <3>1, <3>2, <3>3
  <2>3. c \in Nat
    <3> HIDE DEF due
    <3> QED  BY <2>1, HubConstants
  <2>4. c <= a
    BY <2>1
  <2> HIDE DEF a, b, c
  <2>5. c <= b
    BY <2>2, <2>3, <2>4
  <2> QED  BY <2>1, <2>5 DEF b, c
<1> HIDE DEF due
<1>6. fee \in 0 .. due
  BY <1>5, FeesType, HubParts
<1> HIDE DEF fee
<1>7. /\ rest \in Nat /\ fee \in Nat /\ rest + fee = due
      /\ rest \in 0 .. usdc[sender] /\ usdc[sender] \in Nat
  BY <1>1, <1>4, <1>5, <1>6
<1> HIDE DEF rest
<1>8. /\ mid \in [Address -> Nat] /\ mid[sender] >= usdc[sender] - rest
      /\ Held(mid) <= Held(usdc) + rest /\ Held(mid) \in Nat
  BY <1>2, <1>4, <1>7, TotalPaid, PaidMoves, HeldPaid
<1> HIDE DEF mid
<1>9. fee \in 0 .. mid[sender]
  BY <1>1, <1>4, <1>7, <1>8
<1>10. Held(usdc') <= Held(mid) + fee /\ Held(usdc') \in Nat
  BY <1>1, <1>4, <1>8, <1>9, HeldPaid
<1>11. Money' \in Nat /\ Money' <= Money + due
  BY <1>1, <1>7, <1>8, <1>10, HubNumbers DEF Money
<1>12. Sum(redeemers') = Sum(redeemers) - amount
  BY <1>1, SumSettled, HubNumbers DEF amount
<1>13. Claims' = Claims - amount /\ amount \in 0 .. Claims
  BY <1>1, <1>2, <1>12, HubNumbers DEF Claims, ousgVars, ousgLedger
<1>14. WorthOf(Money + due, Claims - amount, q) <= WorthOf(Money, Claims, q)
  BY <1>5, <1>13, WorthOfRedemption, HubNumbers
<1>15. WorthOf(Money', Claims', q) <= WorthOf(Money + due, Claims - amount, q)
  <2> DEFINE x == Money + due
             y == Claims - amount
  <2>1. x \in Nat /\ y \in Nat /\ Claims' = y /\ Money' <= x
    BY <1>2, <1>5, <1>11, <1>13, HubNumbers
  <2> HIDE DEF x, y
  <2>2. WorthOf(Money', y, q) <= WorthOf(x, y, q)
    BY <1>11, <2>1, WorthFalls
  <2> QED  BY <2>1, <2>2 DEF x, y
<1>16. \A x, y \in Int : WorthOf(x, y, q) \in Int
  BY HubConstants DEF WorthOf
<1> DEFINE now1 == WorthOf(Money', Claims', q)
           most == WorthOf(Money + due, Claims - amount, q)
           was  == WorthOf(Money, Claims, q)
<1>17. now1 <= most /\ most <= was
  BY <1>14, <1>15
<1>18. now1 \in Int /\ most \in Int /\ was \in Int
  <2>1. /\ Money + due \in Int /\ Claims - amount \in Int
        /\ Money \in Int /\ Claims \in Int /\ Money' \in Int /\ Claims' \in Int
    BY <1>2, <1>5, <1>11, <1>13, HubNumbers
  <2> QED  BY <1>16, <2>1
<1>19. Worth(q)' = now1 /\ Worth(q) = was
  BY WorthIs
<1> HIDE DEF now1, most, was
<1> QED  BY <1>17, <1>18, <1>19

LEMMA HubCounts == HubInv => Money \in Nat /\ Claims \in Nat
BY HubNumbers

(* No call of the hub's own, the two exceptions aside, adds to what users  *)
(* hold and are owed, at the price of what it settles.                     *)
LEMMA NoGainFalls ==
  ASSUME HubInv, NoGain, NEW q \in Nat
  PROVE  Worth(q)' <= Worth(q)
<1> DEFINE x == Money
           y == Claims
           x2 == Money'
           y2 == Claims'
<1>1. x \in Nat /\ y \in Nat /\ x2 \in Nat /\ y2 \in Nat /\ x2 <= x /\ y2 <= y
  BY HubNumbers DEF NoGain
<1>2. Worth(q) = WorthOf(x, y, q) /\ Worth(q)' = WorthOf(x2, y2, q)
  BY WorthIs
<1> HIDE DEF x, y, x2, y2
<1>3. WorthOf(x2, y2, q) <= WorthOf(x, y, q)
  BY <1>1, WorthFalls
<1> QED  BY <1>2, <1>3

LEMMA SameSumsNoGain ==
  ASSUME HubInv, usdc' = usdc, ousgSupply' = ousgSupply,
         Sum(depositors') = Sum(depositors), Sum(redeemers') = Sum(redeemers)
  PROVE  NoGain
<1>1. Money' = Money /\ Claims' = Claims
  BY DEF Money, Claims
<1> QED  BY <1>1, HubNumbers DEF NoGain

LEMMA RequestsNoGain ==
  ASSUME HubInv, Requests
  PROVE  NoGain \/ DepositProofs
<1>1. ASSUME NEW user \in Users, NEW amount \in CollateralAmounts,
             RequestSubscription(user, amount)
      PROVE  NoGain
  BY <1>1, SubscriptionNoGain
<1>2. ASSUME NEW user \in Users, NEW amount \in RedeemAmounts, RequestRedemption(user, amount)
      PROVE  NoGain
  <2>1. /\ BurnFrom(user, amount) /\ UNCHANGED <<usdc, depositors>>
        /\ redeemers' = [redeemers EXCEPT ![counters.redemption] = Request(user, amount)]
        /\ counters.redemption <= MaxRequests
    BY <1>2 DEF RequestRedemption
  <2>2. counters.redemption \in RequestId
    BY <2>1, CountersType, HubParts DEF RequestId
  <2> QED  BY <2>1, <2>2, BurnNoGain, HubConstants
<1>3. ASSUME NEW user \in Users, NEW amount \in RedeemAmounts,
             RequestRedemptionServicedOffchain(user, amount)
      PROVE  NoGain
  <2>1. BurnFrom(user, amount) /\ UNCHANGED <<usdc, depositors, redeemers>>
    BY <1>3 DEF RequestRedemptionServicedOffchain
  <2> QED  BY <2>1, BurnNoGain, HubConstants
<1>4. RedemptionProofs => NoGain
  <2> SUFFICES ASSUME NEW txHash \in TxHashes, NEW prover \in Users, NEW user \in Users,
                      NEW amount \in RedeemAmounts,
                      AddRedemptionProof(prover, txHash, user, amount)
               PROVE  NoGain
    BY DEF RedemptionProofs
  <2>1. /\ BurnFrom(prover, amount) /\ UNCHANGED <<usdc, depositors>>
        /\ redeemers' = [redeemers EXCEPT ![txHash] = Request(user, amount)]
    BY DEF AddRedemptionProof
  <2>2. txHash \in RequestId
    BY DEF RequestId
  <2> QED  BY <2>1, <2>2, BurnNoGain, HubConstants
<1> HIDE DEF NoGain
<1> QED  BY <1>1, <1>2, <1>3, <1>4 DEF Requests

LEMMA SetPriceIdNoGain ==
  ASSUME HubInv, NEW id \in RequestId, NEW priceId \in 0 .. MaxPriceId,
         SetPriceIdForDeposits(id, priceId) \/ SetPriceIdForRedemptions(id, priceId)
  PROVE  NoGain
<1>1. priceId \in Nat
  OBVIOUS
<1>2. CASE SetPriceIdForDeposits(id, priceId)
  <2>1. /\ depositors' = WithPriceId(depositors, id, priceId) /\ redeemers' = redeemers
        /\ usdc' = usdc /\ ousgSupply' = ousgSupply
    BY <1>2 DEF SetPriceIdForDeposits, ousgVars, ousgLedger
  <2>2. Sum(depositors') = Sum(depositors)
    BY <1>1, <2>1, SumWithPriceId, HubNumbers
  <2> QED  BY <2>1, <2>2, SameSumsNoGain
<1>3. CASE SetPriceIdForRedemptions(id, priceId)
  <2>1. /\ redeemers' = WithPriceId(redeemers, id, priceId) /\ depositors' = depositors
        /\ usdc' = usdc /\ ousgSupply' = ousgSupply
    BY <1>3 DEF SetPriceIdForRedemptions, ousgVars, ousgLedger
  <2>2. Sum(redeemers') = Sum(redeemers)
    BY <1>1, <2>1, SumWithPriceId, HubNumbers
  <2> QED  BY <2>1, <2>2, SameSumsNoGain
<1> QED  BY <1>2, <1>3

LEMMA OwnStepNeverGains ==
  ASSUME HubInv, Elsewhere, HubStep, NEW q \in Nat,
         SettledAt(depositors, depositors') \cup SettledAt(redeemers, redeemers')
           \subseteq {q, 0}
  PROVE  Worth(q)' <= Worth(q) \/ DepositProofs \/ Overwrites
<1> DEFINE Falls == Worth(q)' <= Worth(q)
<1>1. NoGain => Falls
  BY NoGainFalls
<1>2. SettledAt(depositors, depositors') \subseteq {q, 0}
      /\ SettledAt(redeemers, redeemers') \subseteq {q, 0}
  OBVIOUS
<1>3. ASSUME NEW id \in RequestId, ClaimMint(id) PROVE Falls
  BY <1>2, <1>3, ClaimMintNoGain
<1>4. ASSUME NEW id \in RequestId, ClaimRedemption(id) PROVE Falls
  BY <1>2, <1>4, ClaimRedemptionNoGain
<1>5. ASSUME NEW id \in RequestId, NEW priceId \in 0 .. MaxPriceId,
             SetPriceIdForDeposits(id, priceId) \/ SetPriceIdForRedemptions(id, priceId)
      PROVE  NoGain
  BY <1>5, SetPriceIdNoGain
<1>6. Settings => NoGain
  BY SettingsInv, SameSumsNoGain
<1>7. Requests => NoGain \/ DepositProofs
  BY RequestsNoGain
<1> HIDE DEF Falls, NoGain
<1>8. Falls \/ DepositProofs \/ Overwrites
  BY <1>1, <1>3, <1>4, <1>5, <1>6, <1>7 DEF HubStep
<1> QED  BY <1>8 DEF Falls

(* From request to settlement the users, all together, never come out with *)
(* more than they put in: what claimMint mints, and claimRedemption pays,  *)
(* is worth at most the request at the price it is settled at, and nothing *)
(* else but a proof of a deposit made elsewhere and the admin's            *)
(* overwriting adds to what they hold and are owed, at any price.          *)
THEOREM HubUsersNeverGain == HubSpec => UsersNeverGain
<1> DEFINE Step == (\E q \in PriceValues \cup OraclePrices :
                      /\ SettledAt(depositors, depositors')
                           \cup SettledAt(redeemers, redeemers') \subseteq {q, 0}
                      /\ Worth(q)' > Worth(q))
                     => DepositProofs \/ Overwrites
<1>1. ASSUME HubInv, [HubNext]_hubSystemVars PROVE [Step]_hubSystemVars
  <2> SUFFICES ASSUME HubNext,
                      NEW q \in PriceValues \cup OraclePrices,
                      SettledAt(depositors, depositors') \cup SettledAt(redeemers, redeemers')
                        \subseteq {q, 0},
                      Worth(q)' > Worth(q)
               PROVE  DepositProofs \/ Overwrites
    BY <1>1
  <2>1. q \in Nat
    BY PricerConstants
  <2> DEFINE was   == Worth(q)
             now1  == Worth(q)'
  <2>2. was \in Int /\ now1 \in Int
    <3>1. HubInv'
      BY <1>1, HubStepInv
    <3>2. Money \in Nat /\ Claims \in Nat
      BY <1>1, HubNumbers
    <3>3. (Money \in Nat /\ Claims \in Nat)'
      BY <3>1, HubCounts, PTL
    <3>4. \A x, y \in Nat : WorthOf(x, y, q) \in Int
      BY <2>1, HubConstants DEF WorthOf
    <3> QED  BY <3>2, <3>3, <3>4, WorthIs
  <2>3. now1 > was
    OBVIOUS
  <2>4. HubStep /\ Elsewhere => now1 <= was \/ DepositProofs \/ Overwrites
    BY <1>1, <2>1, OwnStepNeverGains
  <2>5. UNCHANGED hubVars /\ ousgSupply' = ousgSupply => now1 <= was
    BY <1>1, <2>1, SameSumsNoGain, NoGainFalls DEF hubVars
  <2>6. \/ HubStep /\ Elsewhere
        \/ UNCHANGED hubVars /\ ousgSupply' = ousgSupply
    <3>1. \A user, amount : OUSGApprove(user, hub, amount) => ousgSupply' = ousgSupply
      BY DEF OUSGApprove
    <3>2. UNCHANGED ousgVars => ousgSupply' = ousgSupply
      BY DEF ousgVars, ousgLedger
    <3> DEFINE own  == HubStep /\ Elsewhere
               same == UNCHANGED hubVars /\ ousgSupply' = ousgSupply
    <3>3. HubStep /\ UNCHANGED <<kycVars, pricerVars, now>> => own
      BY DEF Elsewhere
    <3>4. KYCNext /\ UNCHANGED <<hubVars, ousgVars, pricerVars, now>> => same
      BY <3>2
    <3>5. PricerNext /\ UNCHANGED <<hubVars, ousgVars, kycVars>> => same
      BY <3>2
    <3>6. \A user, amount :
            OUSGApprove(user, hub, amount) /\ UNCHANGED <<hubVars, kycVars, pricerVars, now>>
              => same
      BY <3>1
    <3> HIDE DEF own, same
    <3>7. own \/ same
      BY <3>3, <3>4, <3>5, <3>6 DEF HubNext
    <3> QED  BY <3>7 DEF own, same
  <2> HIDE DEF was, now1
  <2> QED  BY <2>2, <2>3, <2>4, <2>5, <2>6
<1>2. HubSpec => [][Step]_hubSystemVars
  BY <1>1, HubInitInv, HubStepInv, PTL DEF HubSpec
<1> QED  BY <1>2 DEF UsersNeverGain

=============================================================================
