---------------------------- MODULE OUSGManager ----------------------------
(***************************************************************************)
(* contracts/ousg/ousgManager.sol with the RWAHub and the                  *)
(* RWAHubOffChainRedemptions it inherits: deposits and redemptions that    *)
(* are requested, given a price id and claimed, each in a transaction of   *)
(* its own, over the OUSG token and the pricer.                            *)
(*                                                                         *)
(* A batch of ids is its ids one after the other.  The holders of the      *)
(* manager's roles are taken as given.  USDC is external: balances, with   *)
(* every payer's approval of this contract given.                          *)
(***************************************************************************)
EXTENDS OUSG, Pricer

CONSTANTS
  hub, assetRecipient,    \* this contract; where deposits go
  BPS_DENOMINATOR,
  TOKEN,                  \* 1e18, one token of rwa
  decimalsMultiplier,     \* rwa units to a unit of collateral
  TxHashes,               \* bound: the hashes proofs arrive under
  CollateralAmounts,      \* bound: amounts deposited
  RedeemAmounts,          \* bound: amounts redeemed
  HubFees, HubMinimums,   \* bound: what the setters are called with
  FeeRecipients, AssetSenders,
  Pausables,              \* bound: the features that get paused
  Funds,                  \* [Address -> Nat], USDC at the start
  MaxRequests,            \* bound: requests per counter
  MaxOpen,                \* bound: requests on record at a time
  MaxSettings             \* bound: fees and pauses in force at a time

Features == {"subscription", "redemption", "offChainRedemption"}

(* Transaction hashes are not small numbers: no counter reaches one.       *)
ASSUME HubAssumption ==
  /\ {hub, assetRecipient} \subseteq Address \ {Zero}
  /\ FeeRecipients \cup AssetSenders \subseteq Address \ {Zero}
  /\ {BPS_DENOMINATOR, TOKEN, decimalsMultiplier} \subseteq Nat \ {0}
  /\ {MaxRequests, MaxOpen, MaxSettings} \subseteq Nat
  /\ TxHashes \subseteq Nat \ 0..(MaxRequests + 1) /\ IsFiniteSet(TxHashes)
  /\ CollateralAmounts \cup RedeemAmounts \subseteq Nat
  /\ HubFees \cup HubMinimums \subseteq Nat
  /\ Pausables \subseteq Features
  /\ Funds \in [Address -> Nat]

(* Deposits go to an account of the issuer, who is no customer of his own. *)
ASSUME CustodyAssumption == assetRecipient \notin Users

VARIABLES
  depositors,    \* depositIdToDepositor
  redeemers,     \* redemptionIdToRedeemer
  counters,      \* subscriptionRequestCounter, redemptionRequestCounter
  hubConfig,     \* fees, minimums, pauses, recipients, KYC settings
  usdc           \* collateral, per account

hubVars == <<depositors, redeemers, counters, hubConfig, usdc>>
hubBooks == <<depositors, redeemers, counters>>

RequestId == 1..MaxRequests \cup TxHashes

NoRequest == [user |-> Zero, amount |-> 0, priceId |-> 0]

Request(user, amount) == [user |-> user, amount |-> amount, priceId |-> 0]

(* Fees start at zero; the minimum for off-chain redemptions is that of    *)
(* the on-chain ones.                                                      *)
HubInit ==
  /\ depositors = [id \in RequestId |-> NoRequest]
  /\ redeemers = [id \in RequestId |-> NoRequest]
  /\ counters = [subscription |-> 1, redemption |-> 1]
  /\ \E minDeposit, minRedemption \in HubMinimums,
        feeRecipient \in FeeRecipients, assetSender \in AssetSenders,
        registry \in Registry, group \in Group :
       hubConfig = [mintFee |-> 0, redemptionFee |-> 0,
                    minDeposit |-> minDeposit, minRedemption |-> minRedemption,
                    minOffChain |-> minRedemption, paused |-> {},
                    feeRecipient |-> feeRecipient, assetSender |-> assetSender,
                    registry |-> registry, group |-> group]
  /\ usdc = Funds

-----------------------------------------------------------------------------
(* _checkRestrictions *)
HubCleared(user) == GetKYCStatus(hubConfig.registry, hubConfig.group, user)

Running(feature) == feature \notin hubConfig.paused

HubMintFees(amount) == (amount * hubConfig.mintFee) \div BPS_DENOMINATOR
HubRedemptionFees(amount) == (amount * hubConfig.redemptionFee) \div BPS_DENOMINATOR

(* Divides by zero, and reverts, when there is no such price. *)
MintAmountForPrice(amount, price) == (amount * decimalsMultiplier * TOKEN) \div price

RedemptionAmountForRwa(amount, price) ==
  ((amount * price) \div TOKEN) \div decimalsMultiplier

(* A mutant of the next definition: the counter stays where it is. *)
CountedNot(counter) == counters

Counted(counter) == [counters EXCEPT ![counter] = @ + 1]

RequestSubscription(user, amount) ==
  LET fees == HubMintFees(amount)
      id   == counters.subscription
  IN  /\ id <= MaxRequests
      /\ Running("subscription")
      /\ HubCleared(user)
      /\ amount >= hubConfig.minDeposit
      /\ amount <= usdc[user]
      /\ depositors' = [depositors EXCEPT ![id] = Request(user, amount - fees)]
      /\ counters' = Counted("subscription")
      /\ usdc' = Paid(Paid(usdc, user, hubConfig.feeRecipient, fees),
                      user, assetRecipient, amount - fees)
      /\ UNCHANGED <<redeemers, hubConfig, ousgVars>>

(* Mutant: the record of a settled request is left in place. *)
SettledKept(requests, id) == requests

(* A request that is settled is deleted. *)
Settled(requests, id) == [requests EXCEPT ![id] = NoRequest]

(* _claimMint, open to anyone; only the token checks the user. *)
ClaimMint(id) ==
  LET request == depositors[id]
      price   == GetPrice(request.priceId)
  IN  /\ Running("subscription")
      /\ request.priceId # 0
      /\ price # 0
      /\ HasRole("OUSG_MINTER", hub)
      /\ IssueOUSG(hub, request.user, MintAmountForPrice(request.amount, price))
      /\ depositors' = Settled(depositors, id)
      /\ UNCHANGED <<redeemers, counters, hubConfig, usdc, ousgAllowance, ousgConfig>>

(* rwa.burnFrom as this contract calls it. *)
BurnFrom(user, amount) == OUSGBurnFrom(hub, user, amount)

RequestRedemption(user, amount) ==
  /\ counters.redemption <= MaxRequests
  /\ Running("redemption")
  /\ amount >= hubConfig.minRedemption
  /\ redeemers' = [redeemers EXCEPT ![counters.redemption] = Request(user, amount)]
  /\ counters' = Counted("redemption")
  /\ BurnFrom(user, amount)
  /\ UNCHANGED <<depositors, hubConfig, usdc>>

(* claimRedemption, open to anyone.  At a price that is gone it pays zero  *)
(* and settles all the same.                                               *)
ClaimRedemption(id) ==
  LET request == redeemers[id]
      due     == RedemptionAmountForRwa(request.amount, GetPrice(request.priceId))
      fee     == HubRedemptionFees(due)
      sender  == hubConfig.assetSender
  IN  /\ Running("redemption")
      /\ HubCleared(request.user)
      /\ request.priceId # 0
      /\ due <= usdc[sender]
      /\ redeemers' = Settled(redeemers, id)
      /\ usdc' = Paid(Paid(usdc, sender, request.user, due - fee),
                      sender, hubConfig.feeRecipient, fee)
      /\ UNCHANGED <<depositors, counters, hubConfig, ousgVars>>

(* Serviced off chain: an id is used up, no record is kept. *)
RequestRedemptionServicedOffchain(user, amount) ==
  /\ counters.redemption <= MaxRequests
  /\ Running("offChainRedemption")
  /\ amount >= hubConfig.minOffChain
  /\ counters' = Counted("redemption")
  /\ BurnFrom(user, amount)
  /\ UNCHANGED <<depositors, redeemers, hubConfig, usdc>>

-----------------------------------------------------------------------------
(* The relayer and the redemption prover. *)

(* A proof is refused while the last one under its hash is unclaimed, and  *)
(* taken again once that is claimed.                                       *)
AddProof(txHash, user, amount) ==
  /\ HubCleared(user)
  /\ depositors[txHash].user = Zero
  /\ depositors' = [depositors EXCEPT ![txHash] = Request(user, amount)]
  /\ UNCHANGED <<redeemers, counters, hubConfig, usdc, ousgVars>>

(* The prover burns tokens of his own for the user. *)
AddRedemptionProof(prover, txHash, user, amount) ==
  /\ HubCleared(user)
  /\ redeemers[txHash].user = Zero
  /\ amount # 0
  /\ user # Zero
  /\ BurnFrom(prover, amount)
  /\ redeemers' = [redeemers EXCEPT ![txHash] = Request(user, amount)]
  /\ UNCHANGED <<depositors, counters, hubConfig, usdc>>

(* The price id setter. *)
WithPriceId(requests, id, priceId) == [requests EXCEPT ![id].priceId = priceId]

SetPriceIdForDeposits(id, priceId) ==
  /\ IsValid(priceId)
  /\ depositors[id].user # Zero
  /\ depositors[id].priceId = 0
  /\ depositors' = WithPriceId(depositors, id, priceId)
  /\ UNCHANGED <<redeemers, counters, hubConfig, usdc, ousgVars>>

(* Here nobody asks whether there is a redeemer. *)
SetPriceIdForRedemptions(id, priceId) ==
  /\ IsValid(priceId)
  /\ redeemers[id].priceId = 0
  /\ redeemers' = WithPriceId(redeemers, id, priceId)
  /\ UNCHANGED <<depositors, counters, hubConfig, usdc, ousgVars>>

(* The manager admin. *)
OverwriteDepositor(id, user, amount, priceId) ==
  /\ HubCleared(user)
  /\ depositors' = [depositors EXCEPT ![id] =
                      [user |-> user, amount |-> amount, priceId |-> priceId]]
  /\ UNCHANGED <<redeemers, counters, hubConfig, usdc, ousgVars>>

OverwriteRedeemer(id, user, amount, priceId) ==
  /\ HubCleared(user)
  /\ redeemers' = [redeemers EXCEPT ![id] =
                     [user |-> user, amount |-> amount, priceId |-> priceId]]
  /\ UNCHANGED <<depositors, counters, hubConfig, usdc, ousgVars>>

Configure(newConfig) == /\ hubConfig' = newConfig
                        /\ UNCHANGED <<hubBooks, usdc, ousgVars>>

SetMinimums ==
  \E amount \in HubMinimums :
    \/ amount >= BPS_DENOMINATOR /\ Configure([hubConfig EXCEPT !.minDeposit = amount])
    \/ amount >= BPS_DENOMINATOR /\ Configure([hubConfig EXCEPT !.minRedemption = amount])
    \/ Configure([hubConfig EXCEPT !.minOffChain = amount])

SetFees == \E fee \in HubFees :
             /\ fee <= BPS_DENOMINATOR
             /\ \/ Configure([hubConfig EXCEPT !.mintFee = fee])
                \/ Configure([hubConfig EXCEPT !.redemptionFee = fee])

SetAccounts ==
  \/ \E a \in FeeRecipients : Configure([hubConfig EXCEPT !.feeRecipient = a])
  \/ \E a \in AssetSenders : Configure([hubConfig EXCEPT !.assetSender = a])

SetKYC ==
  \/ \E registry \in Registry : Configure([hubConfig EXCEPT !.registry = registry])
  \/ \E group \in Group : Configure([hubConfig EXCEPT !.group = group])

(* Pausing what is paused, and unpausing what runs, are allowed. *)
PauseHub == \E feature \in Pausables :
              \/ Configure([hubConfig EXCEPT !.paused = @ \cup {feature}])
              \/ Configure([hubConfig EXCEPT !.paused = @ \ {feature}])

-----------------------------------------------------------------------------
(* The admin corrects entries that exist, to price ids that exist; nothing *)
(* in the code holds him to it.                                            *)
Overwrites ==
  \E user \in Users, priceId \in 0..currentPriceId :
    \/ \E id \in RequestId, amount \in CollateralAmounts :
         depositors[id].user # Zero /\ OverwriteDepositor(id, user, amount, priceId)
    \/ \E id \in RequestId, amount \in RedeemAmounts :
         redeemers[id].user # Zero /\ OverwriteRedeemer(id, user, amount, priceId)

(* Bound: a proof arrives only while the supply is at most MaxOUSG.        *)
DepositProofs == \E txHash \in TxHashes, user \in Users, amount \in CollateralAmounts :
                   ousgSupply <= MaxOUSG /\ AddProof(txHash, user, amount)

RedemptionProofs ==
  \E txHash \in TxHashes, prover, user \in Users, amount \in RedeemAmounts :
    AddRedemptionProof(prover, txHash, user, amount)

(* Bound: at most MaxSettings fees and pauses are in force at a time.      *)
InForce(config) ==
  {fee \in {"mintFee", "redemptionFee"} : config[fee] # 0} \cup config.paused

Settings == /\ SetMinimums \/ SetFees \/ SetAccounts \/ SetKYC \/ PauseHub
            /\ Cardinality(InForce(hubConfig')) <= MaxSettings

OnRecord(requests) == Cardinality({id \in RequestId : requests[id] # NoRequest})

(* Bound: nothing is requested or proved while MaxOpen are on record, and  *)
(* no price id set, the first one only, where there is no redeemer.        *)
Room == OnRecord(depositors) + OnRecord(redeemers) < MaxOpen

Requests ==
  /\ Room
  /\ \/ \E user \in Users, amount \in CollateralAmounts : RequestSubscription(user, amount)
     \/ \E user \in Users, amount \in RedeemAmounts :
          RequestRedemption(user, amount) \/ RequestRedemptionServicedOffchain(user, amount)
     \/ DepositProofs
     \/ RedemptionProofs

HubStep ==
  \/ Requests
  \/ \E id \in RequestId : ClaimMint(id) \/ ClaimRedemption(id)
  \/ \E id \in RequestId, priceId \in 0..MaxPriceId :
       \/ SetPriceIdForDeposits(id, priceId)
       \/ /\ redeemers[id].user # Zero \/ (Room /\ priceId = 1)
          /\ SetPriceIdForRedemptions(id, priceId)
  \/ Overwrites
  \/ Settings

HubNext ==
  \/ HubStep /\ UNCHANGED <<kycVars, pricerVars, now>>
  \/ \E user \in Users, amount \in OUSGApprovals :
       OUSGApprove(user, hub, amount) /\ UNCHANGED <<hubVars, kycVars, pricerVars, now>>
  \/ KYCNext /\ UNCHANGED <<hubVars, ousgVars, pricerVars, now>>
  \/ PricerNext /\ UNCHANGED <<hubVars, ousgVars, kycVars>>

HubSystemInit == KYCInit /\ OUSGInit /\ ClockInit /\ PricerInit /\ HubInit

hubSystemVars == <<hubVars, ousgVars, kycVars, pricerVars, now>>

HubSpec == HubSystemInit /\ [][HubNext]_hubSystemVars

-----------------------------------------------------------------------------
HubTypeOK ==
  /\ OUSGTypeOK
  /\ PricerTypeOK
  /\ usdc \in [Address -> Nat]
  /\ counters \in [{"subscription", "redemption"} -> 1..(MaxRequests + 1)]
  /\ \A id \in RequestId :
       /\ depositors[id].user \in Address /\ depositors[id].amount \in Nat
       /\ redeemers[id].user \in Address /\ redeemers[id].amount \in Nat

(* No payment overdraws an account, no burn the supply; and a request's    *)
(* price id is one the pricer has given out, although isValid only asks    *)
(* for the age of the timestamp under it: a claim never meets a price id   *)
(* without a price, unless the price was deleted since.                    *)
HubInOrder ==
  /\ HubTypeOK
  /\ \A id \in RequestId : /\ depositors[id].priceId \in 0..currentPriceId
                          /\ redeemers[id].priceId \in 0..currentPriceId

(* An open request is as its user left it until its price id is set, once, *)
(* it is settled, with tokens or, but for the fee, USDC going to that very *)
(* user, or the admin overwrites it: no later request or proof displaces   *)
(* it.                                                                     *)
Kept(old, new) == new = old \/ (old.priceId = 0 /\ new = [old EXCEPT !.priceId = new.priceId])

DepositStands(id) ==
  \/ Kept(depositors[id], depositors'[id])
  \/ /\ depositors'[id] = NoRequest
     /\ ousgBalance'[depositors[id].user]
          = ousgBalance[depositors[id].user]
              + MintAmountForPrice(depositors[id].amount, GetPrice(depositors[id].priceId))

RedemptionStands(id) ==
  \/ Kept(redeemers[id], redeemers'[id])
  \/ /\ redeemers'[id] = NoRequest
     /\ \A a \in Address \ {redeemers[id].user, hubConfig.feeRecipient} : usdc'[a] <= usdc[a]

OpenRequestsAreKeptOrSettled ==
  [][\/ \A id \in RequestId : /\ depositors[id].user # Zero => DepositStands(id)
                              /\ redeemers[id].user # Zero => RedemptionStands(id)
     \/ Overwrites]_hubSystemVars

(* What users hold and are owed, all together, at price q, in the smallest *)
(* unit: collateral and open deposits, tokens and open redemptions.        *)
Sum(requests) == Total([id \in RequestId |-> requests[id].amount])

Worth(q) ==
  (Total([user \in Users |-> usdc[user]]) + Sum(depositors)) * decimalsMultiplier * TOKEN
    + (ousgSupply + Sum(redeemers)) * q

SettledAt(requests, newRequests) ==
  {GetPrice(requests[id].priceId) :
     id \in {i \in RequestId : requests[i].user # Zero /\ newRequests[i].user = Zero}}

(* From request to settlement nobody comes out with more than he put in:   *)
(* at the price it is settled at, no claim is worth more than its request, *)
(* and no other call adds to what users hold and are owed, at any price.   *)
(* Only a proof of a deposit made elsewhere and the admin's overwriting    *)
(* add anything.                                                           *)
UsersNeverGain ==
  [][(\E q \in PriceValues \cup OraclePrices :
        /\ SettledAt(depositors, depositors') \cup SettledAt(redeemers, redeemers') \subseteq {q, 0}
        /\ Worth(q)' > Worth(q))
       => DepositProofs \/ Overwrites]_hubSystemVars
=============================================================================
