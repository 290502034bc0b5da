---------------------------- MODULE ManagerProofs ----------------------------
(***************************************************************************)
(* What the instant manager keeps true and what its transactions do to     *)
(* the money of all parties, for any accounts, prices, fees, minimums,     *)
(* limits and amounts.                                                     *)
(*                                                                         *)
(* Each transaction is taken apart into what it does to the four ledgers:  *)
(* USDC, BUIDL, OUSG and the shares of rOUSG.  Every number in it rounds   *)
(* down, so that what a caller gets is worth at most what he gives: the    *)
(* lemmas on conversions say so, and the theorems add them up.             *)
(*                                                                         *)
(* The last part is about the rate limiter by itself: what it promises for *)
(* any limits, window lengths, amounts and length of time.                 *)
(***************************************************************************)
EXTENDS OUSGInstantManager, RateLimiterLog, ROUSGProofs

ConfigOK ==
  /\ config \in [mintFee : Nat, redeemFee : Nat,
                 minimumDepositAmount : Nat, minimumRedemptionAmount : Nat,
                 minBUIDLRedeemAmount : Nat, feeReceiver : Address,
                 oracle : Oracle, mintPaused : BOOLEAN, redeemPaused : BOOLEAN,
                 investorBasedRateLimiter : {NoLimiter} \cup DOMAIN Rejects]
  /\ config.feeReceiver \in FeeReceivers

MoneyOK == /\ usdcBalance \in [Address -> Nat]
           /\ usdcAllowance \in [Users -> Nat]
           /\ buidlBalance \in Nat

(* The inductive invariant, but for the backing of the shares, which holds *)
(* only where the burner role of OUSG spares the wrapper.                  *)
ManagerInv == WrapperInv /\ ConfigOK /\ MoneyOK /\ LimiterTypeOK

LEMMA ManagerConstants ==
  /\ manager \in Address /\ manager \notin Users /\ manager # Zero /\ manager # rOUSG
  /\ usdcReceiver \in Address /\ usdcReceiver \notin Users /\ usdcReceiver # manager
  /\ decimalsMultiplier \in Nat \ {0} /\ MINIMUM_OUSG_PRICE \in Nat
  /\ FEE_GRANULARITY \in Nat \ {0} /\ FEE_CAP \in Nat
  /\ FeeReceivers \subseteq Address
  /\ USDCFunds \in [Users -> Nat] /\ BUIDLFunds \in Nat
  /\ InitialMinimums \in [deposit : Nat, redemption : Nat, buidl : Nat]
  /\ Fees \subseteq Nat /\ Minimums \subseteq Nat
  /\ OUSGRedemptions \subseteq Nat /\ ROUSGRedemptions \subseteq Nat
  /\ USDCApprovals \subseteq Nat /\ USDCTransfers \subseteq Nat
  /\ Requests \subseteq Nat /\ Limits \subseteq Nat /\ Durations \subseteq Nat /\ MaxTime \in Nat
  /\ Users \subseteq Address /\ Zero \notin Users
BY ManagerAssumption, LimiterAssumption, OUSGAssumption

LEMMA ManagerParts ==
  ASSUME ManagerInv
  PROVE  /\ WrapperInv /\ ConfigOK /\ MoneyOK /\ LimiterTypeOK
         /\ SharesBooks /\ AllowancesOK /\ ROUSGConfigOK /\ PriceOK /\ ReserveUnspendable
         /\ OUSGInv /\ OUSGBooks /\ OUSGAllowanceOK
         /\ shares \in [Address -> Nat] /\ totalShares \in Nat
         /\ ousgBalance \in [Address -> Nat] /\ ousgSupply \in Nat
         /\ usdcBalance \in [Address -> Nat] /\ buidlBalance \in Nat
         /\ config.feeReceiver \in Address /\ config.feeReceiver \in FeeReceivers
         /\ config.mintFee \in Nat /\ config.redeemFee \in Nat
         /\ config.minBUIDLRedeemAmount \in Nat
BY DEF ManagerInv, WrapperInv, SharesBooks, OUSGInv, OUSGBooks, MoneyOK, ConfigOK

-----------------------------------------------------------------------------
(* Prices, fees and conversions. *)

LEMMA ManagerPriceType ==
  ASSUME ManagerInv
  PROVE  /\ ManagerPrice \in Nat
         /\ PriceNotTooLow => ManagerPrice \in Nat \ {0}
<1>1. ManagerPrice \in Nat
  BY ROUSGConstants DEF ManagerPrice, ManagerInv, WrapperInv, ConfigOK, PriceOK
<1> QED  BY <1>1, ManagerConstants DEF PriceNotTooLow

LEMMA MintFeesType ==
  ASSUME ManagerInv, NEW usdc \in Nat
  PROVE  MintFees(usdc) \in Nat
<1>1. usdc * config.mintFee \in Nat
  BY ManagerParts
<1> QED  BY <1>1, ManagerConstants DEF MintFees

LEMMA RedemptionFeesType ==
  ASSUME ManagerInv, NEW usdc \in Nat
  PROVE  RedemptionFees(usdc) \in Nat
<1>1. usdc * config.redeemFee \in Nat
  BY ManagerParts
<1> QED  BY <1>1, ManagerConstants DEF RedemptionFees

(* OUSG is minted for what is left of a payment, and is worth at most that. *)
LEMMA MintAmountWorth ==
  ASSUME ManagerInv, PriceNotTooLow, NEW x \in Int, MintAmount(x) > 0
  PROVE  /\ x \in Nat /\ MintAmount(x) \in Nat
         /\ MintAmount(x) * ManagerPrice <= x * decimalsMultiplier * ONE
<1> DEFINE k == decimalsMultiplier * ONE
           p == ManagerPrice
           y == x * k
<1>1. k \in Nat \ {0} /\ p \in Nat \ {0}
  BY ManagerPriceType, ManagerConstants, ROUSGConstants
<1>2. x * decimalsMultiplier * ONE = y
  BY ManagerConstants, ROUSGConstants
<1>3. MintAmount(x) = y \div p
  BY <1>2 DEF MintAmount
<1> HIDE DEF k, p
<1>4. y \in Int
  BY <1>1
<1>5. y > 0
  <2> HIDE DEF y
  <2>1. y \div p \in Int /\ (y <= 0 => y \div p <= 0)
    BY <1>1, <1>4
  <2>2. y \div p > 0
    BY <1>3
  <2> QED  BY <1>4, <2>1, <2>2
<1>6. x \in Nat
  <2>1. x <= 0 => y <= 0
    BY <1>1
  <2> HIDE DEF y
  <2> QED  BY <1>4, <1>5, <2>1
<1>7. y \div p \in Nat /\ (y \div p) * p <= y
  <2>1. y \in Nat
    BY <1>1, <1>6
  <2> HIDE DEF y
  <2> QED  BY <1>1, <2>1, RoundsDown
<1> HIDE DEF y
<1> QED  BY <1>2, <1>3, <1>6, <1>7 DEF p

(* The USDC due for OUSG is worth at most the OUSG. *)
LEMMA RedemptionAmountWorth ==
  ASSUME ManagerInv, NEW ousg \in Nat
  PROVE  /\ RedemptionAmount(ousg) \in Nat
         /\ RedemptionAmount(ousg) * decimalsMultiplier * ONE <= ousg * ManagerPrice
<1> DEFINE x == ousg * ManagerPrice
           e == ONE
           d == decimalsMultiplier
           l == x \div e
           u == l \div d
<1>1. x \in Nat /\ e \in Nat \ {0} /\ d \in Nat \ {0}
  BY ManagerPriceType, ManagerConstants, ROUSGConstants
<1> HIDE DEF x, e, d
<1>2. l \in Nat /\ l * e <= x
  BY <1>1, RoundsDown
<1> HIDE DEF l
<1>3. u \in Nat /\ u * d <= l
  BY <1>1, <1>2, RoundsDown
<1> HIDE DEF u
<1> DEFINE v == u * d
<1>4. v \in Nat /\ v <= l
  BY <1>1, <1>3
<1> HIDE DEF v
<1>5. v * e <= l * e /\ v * e \in Nat /\ l * e \in Nat
  BY <1>1, <1>2, <1>4
<1>6. v * e <= x
  BY <1>1, <1>2, <1>5
<1> QED  BY <1>3, <1>6 DEF v, u, l, x, e, d, RedemptionAmount

(* The shares forwarded to the caller of a rebasing mint. *)
LEMMA SharesForwardedType ==
  ASSUME ManagerInv, Priced, NEW ousg \in Nat
  PROVE  /\ SharesForwarded(ousg) \in Nat /\ SharesForwarded(ousg) <= ousg * MULT
         /\ (ousg * MULT - SharesForwarded(ousg)) * GetOUSGPrice < ONE * MULT + GetOUSGPrice
<1> DEFINE s == ousg * MULT
<1>1. s \in Nat
  BY ROUSGConstants
<1> HIDE DEF s
<1>2. LET n == GetSharesByROUSG(GetROUSGByShares(s))
      IN  n \in Nat /\ n <= s /\ (s - n) * GetOUSGPrice < ONE * MULT + GetOUSGPrice
  BY <1>1, ManagerParts, SharesThereAndBack
<1> QED  BY <1>2 DEF s, SharesForwarded

-----------------------------------------------------------------------------
(* The limiter and the USDC. *)

LEMMA ChargedType ==
  ASSUME LimiterTypeOK, NEW side \in Side, NEW amt \in Nat, CheckAndUpdate(side, amt),
         UNCHANGED now
  PROVE  LimiterTypeOK' /\ amt > 0
<1>1. Used(side) + amt \in Nat /\ WindowStart(side) \in Nat
  BY DEF LimiterTypeOK, Used, WindowStart
<1> QED  BY <1>1 DEF LimiterTypeOK, CheckAndUpdate, Update, Admits

(* A payment for a mint: what it takes, and from whom to whom.             *)
LEMMA PaymentTaken ==
  ASSUME ManagerInv, NEW u \in Users, NEW usdc \in Requests, TakePayment(u, usdc)
  PROVE  /\ MoneyOK' /\ LimiterTypeOK' /\ usdc \in Nat
         /\ MintFees(usdc) \in Nat /\ usdc - MintFees(usdc) \in Nat
         /\ MintAmount(usdc - MintFees(usdc)) \in Nat
         /\ UNCHANGED <<config, buidlBalance>>
         /\ usdcAllowance'[u] # usdcAllowance[u]
         /\ \A S \in SUBSET Address :
              Within(usdcBalance', S)
                = Within(usdcBalance, S) - (IF u \in S THEN usdc ELSE 0)
                    + (IF config.feeReceiver \in S THEN MintFees(usdc) ELSE 0)
                    + (IF usdcReceiver \in S THEN usdc - MintFees(usdc) ELSE 0)
<1> DEFINE fees == MintFees(usdc)
           rest == usdc - fees
           to   == config.feeReceiver
<1>1. /\ usdc \in Nat /\ u \in Address /\ to \in Address /\ usdcReceiver \in Address
      /\ usdcBalance \in [Address -> Nat] /\ usdcAllowance \in [Users -> Nat]
      /\ buidlBalance \in Nat /\ LimiterTypeOK
  BY ManagerConstants, ManagerParts DEF MoneyOK
<1>2. fees \in Nat
  BY <1>1, MintFeesType
<1>3. PriceNotTooLow /\ MintAmount(rest) > 0 /\ rest \in Int
  BY <1>1, <1>2 DEF TakePayment
<1>4. rest \in Nat /\ MintAmount(rest) \in Nat
  BY <1>3, MintAmountWorth
<1>5. /\ fees <= usdcBalance[u]
      /\ rest <= Paid(usdcBalance, u, to, fees)[u]
      /\ usdcBalance' = Paid(Paid(usdcBalance, u, to, fees), u, usdcReceiver, rest)
  BY DEF TakePayment
<1>6. CheckAndUpdate("mint", usdc) /\ UNCHANGED <<now, config, buidlBalance>>
      /\ usdcAllowance[u] >= usdc /\ usdcAllowance' = [usdcAllowance EXCEPT ![u] = @ - usdc]
  BY DEF TakePayment
<1>7. LimiterTypeOK' /\ usdc > 0
  BY <1>1, <1>6, ChargedType DEF Side
<1>8. usdcAllowance' \in [Users -> Nat] /\ usdcAllowance'[u] # usdcAllowance[u]
  BY <1>1, <1>6, <1>7
<1>9. fees + rest = usdc
  BY <1>1, <1>2
<1> HIDE DEF fees, rest, to
<1>10. fees \in 0 .. usdcBalance[u] /\ Paid(usdcBalance, u, to, fees) \in [Address -> Nat]
  BY <1>1, <1>2, <1>5, TotalPaid
<1>11. rest \in 0 .. Paid(usdcBalance, u, to, fees)[u]
  BY <1>1, <1>4, <1>5, <1>10
<1>12. usdcBalance' \in [Address -> Nat]
  BY <1>1, <1>5, <1>10, <1>11, TotalPaid
<1>13. \A S \in SUBSET Address :
         Within(usdcBalance', S)
           = Within(usdcBalance, S) - (IF u \in S THEN fees + rest ELSE 0)
               + (IF to \in S THEN fees ELSE 0) + (IF usdcReceiver \in S THEN rest ELSE 0)
  BY <1>1, <1>5, <1>10, <1>11, TwoPayments
<1>14. MoneyOK'
  BY <1>1, <1>6, <1>8, <1>12 DEF MoneyOK
<1> QED  BY <1>1, <1>2, <1>4, <1>6, <1>7, <1>8, <1>9, <1>13, <1>14 DEF fees, rest, to

(* A redemption: what it pays, and to whom; the BUIDL it sells is replaced *)
(* by as much USDC.                                                        *)
LEMMA RedemptionPaid ==
  ASSUME ManagerInv, NEW u \in Users, NEW ousg \in Nat, PayRedemption(u, ousg)
  PROVE  LET amt == RedemptionAmount(ousg)
             fees == RedemptionFees(amt)
             need == Sourced(amt)
         IN  /\ MoneyOK' /\ LimiterTypeOK' /\ UNCHANGED config
             /\ amt \in Nat /\ fees \in Nat /\ amt - fees \in Nat \ {0} /\ need \in Nat
             /\ buidlBalance' = buidlBalance - need
             /\ \A S \in SUBSET Address :
                  Within(usdcBalance', S)
                    = Within(usdcBalance, S) + (IF manager \in S THEN need - amt ELSE 0)
                        + (IF config.feeReceiver \in S THEN fees ELSE 0)
                        + (IF u \in S THEN amt - fees ELSE 0)
<1> DEFINE amt  == RedemptionAmount(ousg)
           fees == RedemptionFees(amt)
           rest == amt - fees
           need == Sourced(amt)
           to   == config.feeReceiver
           funded == Issued(usdcBalance, manager, need)
<1>1. /\ u \in Address /\ to \in Address /\ manager \in Address
      /\ usdcBalance \in [Address -> Nat] /\ usdcAllowance \in [Users -> Nat]
      /\ buidlBalance \in Nat /\ LimiterTypeOK
  BY ManagerConstants, ManagerParts DEF MoneyOK
<1>2. amt \in Nat
  BY RedemptionAmountWorth
<1>3. fees \in Nat
  <2> HIDE DEF amt
  <2> QED  BY <1>2, RedemptionFeesType
<1>4. need \in Nat
  <2> HIDE DEF amt
  <2> QED  BY <1>1, <1>2, ManagerParts DEF Sourced
<1>5. rest > 0 /\ CheckAndUpdate("redeem", amt) /\ UNCHANGED <<config, usdcAllowance, now>>
      /\ buidlBalance' = buidlBalance - need
  BY DEF PayRedemption, CanPayRedemption, PayFrom, CheckAndUpdate, Charged
<1>6. rest \in Nat \ {0} /\ fees + rest = amt
  <2> HIDE DEF amt, fees
  <2> QED  BY <1>2, <1>3, <1>5
<1>7. PICK paid \in IF need = 0 THEN {0} ELSE RedeemerPays(need) :
        /\ need > 0 => RedeemBUIDL(need, paid)
        /\ fees <= Issued(usdcBalance, manager, paid)[manager]
        /\ rest <= Paid(Issued(usdcBalance, manager, paid), manager, to, fees)[manager]
        /\ usdcBalance' = Paid(Paid(Issued(usdcBalance, manager, paid), manager, to, fees),
                               manager, u, rest)
  BY DEF PayRedemption, Payments, CanPayRedemption, PayFrom
<1> HIDE DEF amt, fees, need, rest, to
<1>8. paid = need /\ need <= buidlBalance
  BY <1>1, <1>4, <1>7 DEF RedeemBUIDL, PaidOneToOne
<1>9. funded \in [Address -> Nat]
  BY <1>1, <1>4, TotalIssued
<1>10. \A S \in SUBSET Address :
         Within(funded, S) = Within(usdcBalance, S) + (IF manager \in S THEN need ELSE 0)
  BY <1>1, <1>4, WithinIssued
<1>11. /\ fees <= funded[manager]
       /\ rest <= Paid(funded, manager, to, fees)[manager]
       /\ usdcBalance' = Paid(Paid(funded, manager, to, fees), manager, u, rest)
  BY <1>7, <1>8
<1> HIDE DEF funded
<1>12. fees \in 0 .. funded[manager] /\ Paid(funded, manager, to, fees) \in [Address -> Nat]
  BY <1>1, <1>3, <1>9, <1>11, TotalPaid
<1>13. rest \in 0 .. Paid(funded, manager, to, fees)[manager]
  BY <1>1, <1>6, <1>11, <1>12
<1>14. usdcBalance' \in [Address -> Nat]
  BY <1>1, <1>9, <1>11, <1>12, <1>13, TwoPayments
<1>15. \A S \in SUBSET Address :
         Within(usdcBalance', S)
           = Within(funded, S) - (IF manager \in S THEN fees + rest ELSE 0)
               + (IF to \in S THEN fees ELSE 0) + (IF u \in S THEN rest ELSE 0)
  BY <1>1, <1>9, <1>11, <1>12, <1>13, TwoPayments
<1>16. ASSUME NEW S \in SUBSET Address
       PROVE  Within(usdcBalance', S)
                = Within(usdcBalance, S) + (IF manager \in S THEN need - amt ELSE 0)
                    + (IF to \in S THEN fees ELSE 0) + (IF u \in S THEN rest ELSE 0)
  <2>1. Within(usdcBalance, S) \in Nat
    BY <1>1, WithinType
  <2>2. Within(funded, S) = Within(usdcBalance, S) + (IF manager \in S THEN need ELSE 0)
    BY <1>10
  <2>3. Within(usdcBalance', S)
          = Within(funded, S) - (IF manager \in S THEN fees + rest ELSE 0)
              + (IF to \in S THEN fees ELSE 0) + (IF u \in S THEN rest ELSE 0)
    BY <1>15
  <2>4. fees + rest = amt /\ need \in Nat /\ fees \in Nat /\ rest \in Nat
    BY <1>2, <1>3, <1>4, <1>6
  <2>5. CASE manager \in S
    BY <2>1, <2>2, <2>3, <2>4, <2>5
  <2>6. CASE manager \notin S
    BY <2>1, <2>2, <2>3, <2>4, <2>6
  <2> QED  BY <2>5, <2>6
<1>17. LimiterTypeOK'
  BY <1>1, <1>2, <1>5, ChargedType DEF Side
<1>18. MoneyOK'
  BY <1>1, <1>4, <1>5, <1>8, <1>14 DEF MoneyOK
<1> QED  BY <1>2, <1>3, <1>4, <1>5, <1>6, <1>16, <1>17, <1>18 DEF amt, fees, rest, need, to

-----------------------------------------------------------------------------
(* The tokens, transaction by transaction. *)

(* Nothing but ledgers changed. *)
LEMMA LedgersKeepInv ==
  ASSUME ManagerInv, MoneyOK', LimiterTypeOK', SharesBooks', AllowancesOK', OUSGBooks',
         OUSGAllowanceOK', ReserveUnspendable',
         UNCHANGED <<config, rousgConfig, ousgConfig, price, kycVars>>
  PROVE  ManagerInv'
BY DEF ManagerInv, ConfigOK, WrapperInv, ROUSGConfigOK, rousgConfig, PriceOK, OUSGInv,
       OUSGConfigOK, ousgConfig, kycVars, KYCTypeOK

LEMMA SurplusIs ==
  ASSUME ManagerInv
  PROVE  /\ Surplus = ousgBalance[rOUSG] * MULT - totalShares
         /\ ousgBalance[rOUSG] \in Nat /\ totalShares \in Nat /\ MULT \in Nat \ {0}
         /\ ousgBalance[rOUSG] * MULT \in Nat
BY ManagerParts, ROUSGConstants DEF Surplus

LEMMA SurplusType == ManagerInv => Surplus \in Int
<1> SUFFICES ASSUME ManagerInv PROVE Surplus \in Int
  OBVIOUS
<1>1. /\ Surplus = ousgBalance[rOUSG] * MULT - totalShares
      /\ ousgBalance[rOUSG] * MULT \in Nat /\ totalShares \in Nat
  BY SurplusIs
<1> QED  BY <1>1

LEMMA MintLedgers ==
  ASSUME ManagerInv, NEW u \in Users, NEW usdc \in Requests, Mint(u, usdc),
         UNCHANGED <<price, kycVars>>
  PROVE  /\ ManagerInv' /\ Surplus' = Surplus
         /\ MintAmount(usdc - MintFees(usdc)) \in Nat
         /\ ousgBalance' = Issued(ousgBalance, u, MintAmount(usdc - MintFees(usdc)))
         /\ ousgSupply' = ousgSupply + MintAmount(usdc - MintFees(usdc))
         /\ UNCHANGED <<shares, totalShares, ousgAllowance>>
<1> DEFINE ousg == MintAmount(usdc - MintFees(usdc))
<1>1. TakePayment(u, usdc) /\ IssueOUSG(manager, u, ousg)
      /\ UNCHANGED <<ousgAllowance, ousgConfig, rousgVars>>
  BY DEF Mint
<1>2. ousg \in Nat /\ MoneyOK' /\ LimiterTypeOK' /\ UNCHANGED config
  BY <1>1, PaymentTaken
<1> HIDE DEF ousg
<1>3. u \in Address /\ rOUSG \in Address /\ u # rOUSG
  BY ManagerConstants, ROUSGConstants
<1>4. OUSGBooks'
  BY <1>1, <1>2, <1>3, ManagerParts, IssueOUSGBooks
<1>5. /\ ousgBalance' = Issued(ousgBalance, u, ousg) /\ ousgSupply' = ousgSupply + ousg
      /\ UNCHANGED <<shares, totalShares, allowances, rousgConfig>>
  BY <1>1 DEF IssueOUSG, rousgVars, rousgLedger
<1>6. ousgBalance'[rOUSG] = ousgBalance[rOUSG]
  BY <1>3, <1>5, ManagerParts DEF Issued
<1>7. SharesBooks' /\ AllowancesOK' /\ OUSGAllowanceOK' /\ ReserveUnspendable'
  BY <1>1, <1>5, ManagerParts
     DEF SharesBooks, SharesAreSum, AllowancesOK, OUSGAllowanceOK, ReserveUnspendable
<1>8. ManagerInv'
  BY <1>1, <1>2, <1>4, <1>5, <1>7, LedgersKeepInv
<1> QED  BY <1>1, <1>2, <1>5, <1>6, <1>8 DEF Surplus, ousg

LEMMA MintRebasingLedgers ==
  ASSUME ManagerInv, NEW u \in Users, NEW usdc \in Requests, MintRebasingOUSG(u, usdc),
         UNCHANGED <<price, kycVars>>
  PROVE  LET ousg == MintAmount(usdc - MintFees(usdc))
             n    == SharesForwarded(ousg)
         IN  /\ ManagerInv' /\ Surplus' = Surplus /\ Priced
             /\ ousg \in Nat /\ n \in Nat /\ n <= ousg * MULT
             /\ \A a \in Address \ {rOUSG} : ousgBalance'[a] = ousgBalance[a]
             /\ ousgSupply' = ousgSupply + ousg
             /\ ousgAllowance'[manager][rOUSG] = IF ousg = MaxUint THEN MaxUint ELSE 0
             /\ shares'[manager] = shares[manager] + (ousg * MULT - n)
             /\ shares'[u] = shares[u] + n
             /\ \A a \in Address \ {manager, u} : shares'[a] = shares[a]
<1> DEFINE ousg == MintAmount(usdc - MintFees(usdc))
           new  == ousg * MULT
           n    == SharesForwarded(ousg)
<1>1. /\ TakePayment(u, usdc) /\ Priced
      /\ ousgBalance' = Wrapped(Issued(ousgBalance, manager, ousg), ousg)
      /\ ousgSupply' = ousgSupply + ousg
      /\ ousgAllowance' = [ousgAllowance EXCEPT
                             ![manager][rOUSG] = IF ousg = MaxUint THEN MaxUint ELSE 0]
      /\ totalShares' = totalShares + new
      /\ shares' = Paid(Issued(shares, manager, new), manager, u, n)
      /\ UNCHANGED <<allowances, rousgConfig, ousgConfig>>
  BY DEF MintRebasingOUSG
<1>2. ousg \in Nat /\ MoneyOK' /\ LimiterTypeOK' /\ UNCHANGED config
  BY <1>1, PaymentTaken
<1> HIDE DEF ousg
<1>3. /\ u \in Address /\ rOUSG \in Address /\ manager \in Address
      /\ u # rOUSG /\ u # manager /\ manager # rOUSG
      /\ MaxUint \in Nat /\ MULT \in Nat \ {0}
  BY ManagerConstants, ROUSGConstants, OUSGAmountsNat
<1>4. new \in Nat /\ n \in Nat /\ n <= new
  BY <1>1, <1>2, <1>3, SharesForwardedType
<1> HIDE DEF n
<1>5. ousgBalance' = Issued(ousgBalance, rOUSG, ousg)
  BY <1>1, <1>2, <1>3, ManagerParts, IssuedPaidOn DEF Wrapped
<1>6. OUSGBooks'
  <2>1. /\ Issued(ousgBalance, rOUSG, ousg) \in [Address -> Nat]
        /\ Total(Issued(ousgBalance, rOUSG, ousg)) = Total(ousgBalance) + ousg
    BY <1>2, <1>3, ManagerParts, TotalIssued
  <2> QED  BY <1>1, <1>2, <1>5, <2>1, ManagerParts DEF OUSGBooks, OUSGSupplyIsSum
<1>7. /\ ousgBalance'[rOUSG] = ousgBalance[rOUSG] + ousg
      /\ \A a \in Address \ {rOUSG} : ousgBalance'[a] = ousgBalance[a]
  BY <1>3, <1>5, ManagerParts DEF Issued
<1>8. n \in 0 .. new /\ shares \in [Address -> Nat]
  BY <1>4, ManagerParts
<1> HIDE DEF new
<1>9. /\ shares' \in [Address -> Nat] /\ Total(shares') = Total(shares) + new
      /\ shares'[manager] = shares[manager] + (new - n)
      /\ shares'[u] = shares[u] + n
      /\ \A a \in Address \ {manager, u} : shares'[a] = shares[a]
  BY <1>1, <1>3, <1>4, <1>8, IssuedPaidInPart
<1>10. SharesBooks'
  BY <1>1, <1>4, <1>9, ManagerParts DEF SharesBooks, SharesAreSum
<1>11. OUSGAllowanceOK' /\ ReserveUnspendable'
       /\ ousgAllowance'[manager][rOUSG] = IF ousg = MaxUint THEN MaxUint ELSE 0
  BY <1>1, <1>3, ManagerParts DEF OUSGAllowanceOK, ReserveUnspendable
<1>12. ManagerInv'
  BY <1>1, <1>2, <1>6, <1>10, <1>11, ManagerParts, LedgersKeepInv DEF AllowancesOK
<1>13. Surplus' = Surplus
  <2> DEFINE r == ousgBalance[rOUSG]
  <2>1. r \in Nat /\ totalShares \in Nat /\ r * MULT \in Nat /\ Surplus = r * MULT - totalShares
    BY SurplusIs
  <2>2. Surplus' = (r + ousg) * MULT - (totalShares + new)
    BY <1>1, <1>7 DEF Surplus
  <2>3. (r + ousg) * MULT = r * MULT + new
    <3> HIDE DEF r
    <3> QED  BY <1>2, <1>3, <2>1 DEF new
  <2> HIDE DEF r
  <2> QED  BY <1>4, <2>1, <2>2, <2>3
<1> QED  BY <1>1, <1>2, <1>4, <1>7, <1>9, <1>11, <1>12, <1>13 DEF ousg, new, n

LEMMA RedeemLedgers ==
  ASSUME ManagerInv, NEW u \in Users, NEW ousg \in Nat, Redeem(u, ousg),
         UNCHANGED <<price, kycVars>>
  PROVE  /\ ManagerInv' /\ Surplus' = Surplus
         /\ ousg <= ousgBalance[u]
         /\ ousgBalance' = Retired(ousgBalance, u, ousg)
         /\ ousgSupply' = ousgSupply - ousg
         /\ \A a \in Address \ {u} : ousgAllowance'[a] = ousgAllowance[a]
         /\ UNCHANGED <<shares, totalShares>>
<1>1. /\ PayRedemption(u, ousg) /\ SpendOUSGAllowance(u, manager, ousg)
      /\ ousg <= ousgBalance[u]
      /\ ousgBalance' = Retired(Paid(ousgBalance, u, manager, ousg), manager, ousg)
      /\ ousgSupply' = ousgSupply - ousg
      /\ UNCHANGED <<ousgConfig, rousgVars>>
  BY DEF Redeem, CanRedeem, CanPayOUSG, PayRedemption
<1>2. MoneyOK' /\ LimiterTypeOK' /\ UNCHANGED config
  BY <1>1, RedemptionPaid
<1>3. /\ u \in Address /\ manager \in Address /\ rOUSG \in Address
      /\ u # manager /\ u # rOUSG
  BY ManagerConstants, ROUSGConstants
<1>4. ousgBalance' = Retired(ousgBalance, u, ousg)
  BY <1>1, <1>3, ManagerParts, PaidThenRetired
<1>5. OUSGBooks'
  <2>1. ousg \in 0 .. ousgBalance[u]
    BY <1>1, <1>3, ManagerParts
  <2>2. /\ Retired(ousgBalance, u, ousg) \in [Address -> Nat]
        /\ Total(Retired(ousgBalance, u, ousg)) = Total(ousgBalance) - ousg
    BY <1>3, <2>1, ManagerParts, TotalRetired
  <2>3. Total(Retired(ousgBalance, u, ousg)) \in Nat
    BY <2>2, TotalType
  <2> QED  BY <1>1, <1>4, <2>2, <2>3, ManagerParts DEF OUSGBooks, OUSGSupplyIsSum
<1>6. OUSGAllowanceOK' /\ ReserveUnspendable'
  BY <1>1, <1>3, ManagerParts, SpendOUSGAllowanceType, SpendKeepsReserve
<1>7. \A a \in Address \ {u} : ousgAllowance'[a] = ousgAllowance[a]
  BY <1>1, ManagerParts DEF SpendOUSGAllowance, SetOUSGAllowance, OUSGAllowanceOK
<1>8. ousgBalance'[rOUSG] = ousgBalance[rOUSG] /\ UNCHANGED <<shares, totalShares, allowances, rousgConfig>>
  BY <1>1, <1>3, <1>4, ManagerParts DEF Retired, rousgVars, rousgLedger
<1>9. SharesBooks' /\ AllowancesOK'
  BY <1>8, ManagerParts DEF SharesBooks, SharesAreSum, AllowancesOK
<1>10. ManagerInv'
  BY <1>1, <1>2, <1>5, <1>6, <1>8, <1>9, LedgersKeepInv
<1> QED  BY <1>1, <1>4, <1>7, <1>8, <1>10 DEF Surplus

LEMMA RedeemRebasingLedgers ==
  ASSUME ManagerInv, NEW u \in Users, NEW rousg \in Nat, RedeemRebasingOUSG(u, rousg),
         UNCHANGED <<price, kycVars>>
  PROVE  LET n    == GetSharesByROUSG(rousg)
             ousg == OUSGFor(n)
         IN  /\ ManagerInv' /\ Surplus' >= Surplus
             /\ PayRedemption(u, ousg)
             /\ n \in Nat /\ ousg \in Nat /\ ousg * MULT <= n /\ n <= shares[u]
             /\ shares' = Retired(shares, u, n)
             /\ \A a \in Address \ {rOUSG} : ousgBalance'[a] = ousgBalance[a]
             /\ ousgSupply' = ousgSupply - ousg
             /\ UNCHANGED ousgAllowance
<1> DEFINE n    == GetSharesByROUSG(rousg)
           ousg == OUSGFor(n)
           left == allowances[u][manager] - rousg
<1>1. /\ PayRedemption(u, ousg) /\ Priced
      /\ SetAllowance(u, manager, left) /\ rousg <= allowances[u][manager]
      /\ n <= shares[u] /\ ousg <= ousgBalance[rOUSG]
      /\ shares' = Retired(shares, u, n)
      /\ totalShares' = totalShares - n
      /\ ousgBalance' = Retired(Paid(ousgBalance, rOUSG, manager, ousg), manager, ousg)
      /\ ousgSupply' = ousgSupply - ousg
      /\ UNCHANGED <<rousgConfig, ousgAllowance, ousgConfig>>
  BY DEF RedeemRebasingOUSG, CanMoveShares, CanPayOUSG
<1>2. /\ u \in Address /\ manager \in Address /\ rOUSG \in Address
      /\ u # manager /\ u # rOUSG /\ manager # rOUSG /\ MULT \in Nat \ {0}
  BY ManagerConstants, ROUSGConstants
<1>3. n \in Nat
  BY <1>1, ManagerParts, GetSharesType
<1> HIDE DEF n
<1>4. ousg \in Nat /\ ousg * MULT <= n
  BY <1>2, <1>3, RoundsDown DEF OUSGFor
<1> HIDE DEF ousg
<1>5. MoneyOK' /\ LimiterTypeOK' /\ UNCHANGED config
  BY <1>1, <1>4, RedemptionPaid
<1>6. ousgBalance' = Retired(ousgBalance, rOUSG, ousg)
  BY <1>1, <1>2, <1>4, ManagerParts, PaidThenRetired
<1>7. OUSGBooks'
  <2>1. ousg \in 0 .. ousgBalance[rOUSG]
    BY <1>1, <1>2, <1>4, ManagerParts
  <2>2. /\ Retired(ousgBalance, rOUSG, ousg) \in [Address -> Nat]
        /\ Total(Retired(ousgBalance, rOUSG, ousg)) = Total(ousgBalance) - ousg
    BY <1>2, <2>1, ManagerParts, TotalRetired
  <2>3. Total(Retired(ousgBalance, rOUSG, ousg)) \in Nat
    BY <2>2, TotalType
  <2> QED  BY <1>1, <1>6, <2>2, <2>3, ManagerParts DEF OUSGBooks, OUSGSupplyIsSum
<1>8. SharesBooks'
  <2>1. n \in 0 .. shares[u]
    BY <1>1, <1>2, <1>3, ManagerParts
  <2>2. Retired(shares, u, n) \in [Address -> Nat] /\ Total(Retired(shares, u, n)) = Total(shares) - n
    BY <1>2, <2>1, ManagerParts, TotalRetired
  <2>3. Total(Retired(shares, u, n)) \in Nat
    BY <2>2, TotalType
  <2> QED  BY <1>1, <2>2, <2>3, ManagerParts DEF SharesBooks, SharesAreSum
<1>9. AllowancesOK'
  <2>1. left \in Nat
    BY <1>1, <1>2, ManagerParts DEF AllowancesOK
  <2> HIDE DEF left
  <2> QED  BY <1>1, <1>2, <2>1, ManagerParts, SetAllowanceType
<1>10. OUSGAllowanceOK' /\ ReserveUnspendable'
  BY <1>1, ManagerParts DEF OUSGAllowanceOK, ReserveUnspendable
<1>11. ManagerInv'
  BY <1>1, <1>5, <1>7, <1>8, <1>9, <1>10, LedgersKeepInv
<1>12. /\ ousgBalance'[rOUSG] = ousgBalance[rOUSG] - ousg
       /\ \A a \in Address \ {rOUSG} : ousgBalance'[a] = ousgBalance[a]
  BY <1>2, <1>6, ManagerParts DEF Retired
<1>13. Surplus' >= Surplus
  <2> DEFINE r == ousgBalance[rOUSG]
  <2>1. r \in Nat /\ totalShares \in Nat /\ r * MULT \in Nat /\ Surplus = r * MULT - totalShares
    BY SurplusIs
  <2>2. Surplus' = (r - ousg) * MULT - (totalShares - n)
    BY <1>1, <1>12 DEF Surplus
  <2>3. (r - ousg) * MULT = r * MULT - ousg * MULT /\ ousg * MULT \in Nat
    <3> HIDE DEF r
    <3> QED  BY <1>2, <1>4, <2>1
  <2> HIDE DEF r
  <2> QED  BY <1>3, <1>4, <2>1, <2>2, <2>3
<1> QED  BY <1>1, <1>3, <1>4, <1>11, <1>12, <1>13 DEF ousg, n

-----------------------------------------------------------------------------
(* The other calls: none of them lowers what backs the shares either. *)

LEMMA InvestorInv ==
  ASSUME ManagerInv, InvestorStep, UNCHANGED <<price, kycVars>>
  PROVE  ManagerInv' /\ Surplus' >= Surplus
<1>1. PICK u \in Users : MintStep(u) \/ RedeemStep(u)
  BY DEF InvestorStep
<1>2. Surplus \in Int
  BY SurplusType
<1>3. CASE MintStep(u)
  BY <1>2, <1>3, MintLedgers, MintRebasingLedgers DEF MintStep
<1>4. ASSUME NEW ousg \in OUSGRedemptions, Redeem(u, ousg)
      PROVE  ManagerInv' /\ Surplus' >= Surplus
  <2>1. ousg \in Nat
    BY ManagerConstants
  <2>2. ManagerInv' /\ Surplus' = Surplus
    BY <1>4, <2>1, RedeemLedgers
  <2> QED  BY <1>2, <2>2
<1>5. ASSUME NEW rousg \in ROUSGRedemptions, RedeemRebasingOUSG(u, rousg)
      PROVE  ManagerInv' /\ Surplus' >= Surplus
  <2>1. rousg \in Nat
    BY ManagerConstants
  <2> QED  BY <1>5, <2>1, RedeemRebasingLedgers
<1> QED  BY <1>1, <1>3, <1>4, <1>5 DEF RedeemStep

(* A call that leaves both tokens alone. *)
LEMMA TokensUntouched ==
  ASSUME ManagerInv, ConfigOK', MoneyOK', LimiterTypeOK',
         UNCHANGED <<rousgVars, ousgVars, price, kycVars>>
  PROVE  ManagerInv' /\ Surplus' = Surplus
<1>1. WrapperInv'
  <2>1. UNCHANGED vars
    BY DEF vars
  <2> QED  BY <2>1, ManagerParts, WrapperStepInv
<1> QED  BY <1>1 DEF ManagerInv, Surplus, rousgVars, rousgLedger, ousgVars, ousgLedger

LEMMA ConfigInv ==
  ASSUME ManagerInv, NEW c \in Users, ConfigStep(c), UNCHANGED <<price, kycVars>>
  PROVE  ManagerInv' /\ Surplus' = Surplus
<1> USE ManagerConstants
<1>0. ConfigOK /\ MoneyOK /\ LimiterTypeOK
  BY ManagerParts
<1> DEFINE Elsewhere == UNCHANGED <<rousgVars, ousgVars>> /\ MoneyOK'
<1>1. CASE ConfigureLimiter(c)
  <2>1. LimiterTypeOK'
    BY <1>0, <1>1 DEF ConfigureLimiter, SetLimit, SetDuration, LimiterTypeOK
  <2>2. Elsewhere /\ ConfigOK'
    BY <1>0, <1>1 DEF ConfigureLimiter, moneyVars, MoneyOK, ConfigOK
  <2> QED  BY <2>1, <2>2, TokensUntouched
<1>2. ASSUME NEW field, NEW value, Configure(field, value), ConfigOK'
      PROVE  ManagerInv' /\ Surplus' = Surplus
  <2>1. Elsewhere /\ LimiterTypeOK'
    BY <1>0, <1>2 DEF Configure, moneyVars, MoneyOK, limiterVars, LimiterTypeOK
  <2> QED  BY <1>2, <2>1, TokensUntouched
<1>3. ASSUME NEW fee \in Fees, SetMintFee(c, fee) \/ SetRedeemFee(c, fee)
      PROVE  ManagerInv' /\ Surplus' = Surplus
  <2>1. CASE SetMintFee(c, fee)
    <3>1. ConfigOK'
      BY <1>0, <2>1 DEF SetMintFee, Configure, ConfigOK
    <3> QED  BY <1>2, <2>1, <3>1 DEF SetMintFee
  <2>2. CASE SetRedeemFee(c, fee)
    <3>1. ConfigOK'
      BY <1>0, <2>2 DEF SetRedeemFee, Configure, ConfigOK
    <3> QED  BY <1>2, <2>2, <3>1 DEF SetRedeemFee
  <2> QED  BY <1>3, <2>1, <2>2
<1>4. ASSUME NEW amt \in Minimums,
             \/ SetMinimumDepositAmount(c, amt)
             \/ SetMinimumRedemptionAmount(c, amt)
             \/ SetMinimumBUIDLRedemptionAmount(c, amt)
      PROVE  ManagerInv' /\ Surplus' = Surplus
  <2>1. CASE SetMinimumDepositAmount(c, amt)
    <3>1. ConfigOK'
      BY <1>0, <2>1 DEF SetMinimumDepositAmount, Configure, ConfigOK
    <3> QED  BY <1>2, <2>1, <3>1 DEF SetMinimumDepositAmount
  <2>2. CASE SetMinimumRedemptionAmount(c, amt)
    <3>1. ConfigOK'
      BY <1>0, <2>2 DEF SetMinimumRedemptionAmount, Configure, ConfigOK
    <3> QED  BY <1>2, <2>2, <3>1 DEF SetMinimumRedemptionAmount
  <2>3. CASE SetMinimumBUIDLRedemptionAmount(c, amt)
    <3>1. ConfigOK'
      BY <1>0, <2>3 DEF SetMinimumBUIDLRedemptionAmount, Configure, ConfigOK
    <3> QED  BY <1>2, <2>3, <3>1 DEF SetMinimumBUIDLRedemptionAmount
  <2> QED  BY <1>4, <2>1, <2>2, <2>3
<1>5. ASSUME NEW o \in Oracle, SetManagerOracle(c, o)
      PROVE  ManagerInv' /\ Surplus' = Surplus
  <2>1. ConfigOK'
    BY <1>0, <1>5 DEF SetManagerOracle, Configure, ConfigOK
  <2> QED  BY <1>2, <1>5, <2>1 DEF SetManagerOracle
<1>6. ASSUME NEW a \in FeeReceivers, SetFeeReceiver(c, a)
      PROVE  ManagerInv' /\ Surplus' = Surplus
  <2>1. a \in Address
    OBVIOUS
  <2>2. ConfigOK'
    BY <1>0, <1>6, <2>1 DEF SetFeeReceiver, Configure, ConfigOK
  <2> QED  BY <1>2, <1>6, <2>2 DEF SetFeeReceiver
<1>7. ASSUME NEW l \in {NoLimiter} \cup DOMAIN Rejects, SetInvestorBasedRateLimiter(c, l)
      PROVE  ManagerInv' /\ Surplus' = Surplus
  <2>1. ConfigOK'
    BY <1>0, <1>7 DEF SetInvestorBasedRateLimiter, Configure, ConfigOK
  <2> QED  BY <1>2, <1>7, <2>1 DEF SetInvestorBasedRateLimiter
<1>8. ASSUME NEW on \in BOOLEAN, Configure("mintPaused", on) \/ Configure("redeemPaused", on)
      PROVE  ManagerInv' /\ Surplus' = Surplus
  <2>1. ConfigOK'
    BY <1>0, <1>8 DEF Configure, ConfigOK
  <2> QED  BY <1>2, <1>8, <2>1
<1> QED  BY <1>1, <1>3, <1>4, <1>5, <1>6, <1>7, <1>8
         DEF ConfigStep, PauseMint, UnpauseMint, PauseRedeem, UnpauseRedeem

LEMMA USDCMoved ==
  ASSUME ManagerInv, NEW from \in Address, NEW to \in Address, NEW amt \in Nat,
         amt <= usdcBalance[from], usdcBalance' = Paid(usdcBalance, from, to, amt),
         UNCHANGED <<usdcAllowance, buidlBalance>>
  PROVE  MoneyOK'
<1>1. amt \in 0 .. usdcBalance[from]
  BY ManagerParts
<1>2. Paid(usdcBalance, from, to, amt) \in [Address -> Nat]
  BY <1>1, ManagerParts, TotalPaid
<1> QED  BY <1>2, ManagerParts DEF MoneyOK

LEMMA RetrieveInv ==
  ASSUME ManagerInv, NEW c \in Users, RetrieveStep(c), UNCHANGED <<price, kycVars>>
  PROVE  ManagerInv' /\ Surplus' >= Surplus
<1> USE ManagerConstants, ROUSGConstants, OUSGAmountsNat
<1>0. ManagerInv /\ ConfigOK /\ MoneyOK /\ LimiterTypeOK /\ Surplus \in Int
  BY ManagerParts, SurplusIs
<1>1. ASSUME NEW amt \in USDCTransfers, NEW to \in {usdcReceiver, Zero}, RetrieveUSDC(c, to, amt)
      PROVE  ManagerInv' /\ Surplus' >= Surplus
  <2>1. to \in Address /\ amt \in Nat
    BY AddressAssumption
  <2>2. MoneyOK'
    BY <1>1, <2>1, USDCMoved DEF RetrieveUSDC
  <2>3. ConfigOK' /\ LimiterTypeOK' /\ UNCHANGED <<rousgVars, ousgVars>>
    BY <1>0, <1>1 DEF RetrieveUSDC, ConfigOK, limiterVars, LimiterTypeOK
  <2> QED  BY <1>0, <2>2, <2>3, TokensUntouched
<1>2. ASSUME NEW amt \in USDCTransfers, RetrieveBUIDL(c, amt)
      PROVE  ManagerInv' /\ Surplus' >= Surplus
  <2>1. MoneyOK'
    BY <1>0, <1>2 DEF RetrieveBUIDL, MoneyOK
  <2>2. ConfigOK' /\ LimiterTypeOK' /\ UNCHANGED <<rousgVars, ousgVars>>
    BY <1>0, <1>2 DEF RetrieveBUIDL, ConfigOK, limiterVars, LimiterTypeOK
  <2> QED  BY <1>0, <2>1, <2>2, TokensUntouched
<1>3. ASSUME UNCHANGED <<managerVars, now>>
      PROVE  ConfigOK' /\ MoneyOK' /\ LimiterTypeOK' /\ UNCHANGED config
  BY <1>0, <1>3 DEF managerVars, moneyVars, limiterVars, ConfigOK, MoneyOK, LimiterTypeOK
<1>4. ASSUME NEW to \in Address, NEW amt \in OUSGAmounts, RetrieveOUSG(c, to, amt)
      PROVE  ManagerInv' /\ Surplus' >= Surplus
  <2>1. /\ PayOUSG(manager, manager, to, amt) /\ UNCHANGED <<ousgAllowance, ousgConfig>>
        /\ UNCHANGED <<managerVars, now, rousgVars>> /\ amt \in Nat
    BY <1>4 DEF RetrieveOUSG, OUSGTransfer
  <2>2. OUSGBooks'
    BY <2>1, ManagerParts, PayOUSGBooks
  <2>3. OUSGAllowanceOK' /\ ReserveUnspendable'
    BY <2>1, ManagerParts DEF OUSGAllowanceOK, ReserveUnspendable
  <2>4. SharesBooks' /\ AllowancesOK' /\ UNCHANGED <<totalShares, rousgConfig>>
    BY <2>1, ManagerParts DEF rousgVars, rousgLedger, SharesBooks, SharesAreSum, AllowancesOK
  <2>5. ManagerInv'
    BY <1>3, <2>1, <2>2, <2>3, <2>4, LedgersKeepInv
  <2>6. ousgBalance'[rOUSG] >= ousgBalance[rOUSG] /\ ousgBalance'[rOUSG] \in Nat
    <3>1. amt \in 0 .. ousgBalance[manager] /\ ousgBalance' = Paid(ousgBalance, manager, to, amt)
      BY <2>1, ManagerParts DEF PayOUSG, CanPayOUSG
    <3>2. Paid(ousgBalance, manager, to, amt)[rOUSG] >= ousgBalance[rOUSG]
      BY <3>1, ManagerParts, PaidMoves
    <3> QED  BY <2>2, <3>1, <3>2 DEF OUSGBooks
  <2> DEFINE r == ousgBalance[rOUSG]
             s == ousgBalance'[rOUSG]
  <2>7. s * MULT >= r * MULT
    <3>1. s >= r /\ s \in Nat /\ r \in Nat
      BY <2>6, SurplusIs
    <3> HIDE DEF r, s
    <3> QED  BY <3>1
  <2>8. Surplus' = s * MULT - totalShares /\ Surplus = r * MULT - totalShares
        /\ totalShares \in Nat /\ r * MULT \in Nat /\ s * MULT \in Nat
    BY <2>4, <2>6, SurplusIs DEF Surplus
  <2> HIDE DEF r, s
  <2> QED  BY <2>5, <2>7, <2>8
<1>5. ASSUME NEW to \in Address, NEW amt \in ROUSGAmounts, RetrieveROUSG(c, to, amt)
      PROVE  ManagerInv' /\ Surplus' >= Surplus
  <2>1. /\ Priced /\ TransferShares(manager, manager, to, GetSharesByROUSG(amt))
        /\ UNCHANGED <<managerVars, now, allowances, rousgConfig, ousgVars>>
    BY <1>5 DEF RetrieveROUSG, Transfer, MoveTokens
  <2>2. GetSharesByROUSG(amt) \in Nat
    BY <2>1, ManagerParts, GetSharesType
  <2>3. SharesBooks' /\ UNCHANGED totalShares
    BY <2>1, <2>2, ManagerParts, TransferSharesBooks DEF TransferShares
  <2>4. /\ OUSGBooks' /\ OUSGAllowanceOK' /\ ReserveUnspendable' /\ AllowancesOK'
        /\ UNCHANGED <<ousgBalance, ousgConfig>>
    BY <2>1, ManagerParts DEF ousgVars, ousgLedger, OUSGBooks, OUSGSupplyIsSum, OUSGAllowanceOK,
                              ReserveUnspendable, AllowancesOK
  <2>5. ManagerInv'
    BY <1>3, <2>1, <2>3, <2>4, LedgersKeepInv
  <2>6. Surplus' = Surplus
    BY <2>3, <2>4 DEF Surplus
  <2> QED  BY <1>0, <2>5, <2>6
<1> QED  BY <1>1, <1>2, <1>4, <1>5 DEF RetrieveStep

LEMMA USDCInv ==
  ASSUME ManagerInv, NEW c \in Users, USDCStep(c), UNCHANGED <<price, kycVars>>
  PROVE  ManagerInv' /\ Surplus' = Surplus
<1> USE ManagerConstants
<1>0. ConfigOK /\ MoneyOK /\ LimiterTypeOK
  BY ManagerParts
<1>1. ASSUME NEW amt \in USDCApprovals, ApproveUSDC(c, amt)
      PROVE  ManagerInv' /\ Surplus' = Surplus
  <2>1. MoneyOK' /\ ConfigOK' /\ LimiterTypeOK' /\ UNCHANGED <<rousgVars, ousgVars>>
    BY <1>0, <1>1 DEF ApproveUSDC, MoneyOK, ConfigOK, limiterVars, LimiterTypeOK
  <2> QED  BY <2>1, TokensUntouched
<1>2. ASSUME NEW amt \in USDCTransfers, GiveUSDC(c, amt)
      PROVE  ManagerInv' /\ Surplus' = Surplus
  <2>1. MoneyOK'
    BY <1>2, USDCMoved DEF GiveUSDC
  <2>2. ConfigOK' /\ LimiterTypeOK' /\ UNCHANGED <<rousgVars, ousgVars>>
    BY <1>0, <1>2 DEF GiveUSDC, ConfigOK, limiterVars, LimiterTypeOK
  <2> QED  BY <2>1, <2>2, TokensUntouched
<1> QED  BY <1>1, <1>2 DEF USDCStep

LEMMA ManagerInitInv == SystemInit => ManagerInv /\ Surplus = 0
<1> SUFFICES ASSUME SystemInit PROVE ManagerInv /\ Surplus = 0
  OBVIOUS
<1> USE ManagerConstants
<1>1. WrapperInv
  BY WrapperInitInv DEF SystemInit
<1>2. ConfigOK
  BY DEF SystemInit, ManagerInit, ConfigOK
<1>3. MoneyOK
  BY DEF SystemInit, ManagerInit, MoneyOK
<1>4. LimiterTypeOK
  BY DEF SystemInit, LimiterInit, LimiterTypeOK
<1>5. Surplus = 0
  BY ROUSGConstants DEF SystemInit, Init, ROUSGInit, OUSGInit, Surplus
<1> QED  BY <1>1, <1>2, <1>3, <1>4, <1>5 DEF ManagerInv

(* The inductive step. *)
LEMMA ManagerStepInv ==
  ASSUME ManagerInv, [ManagerNext]_allVars
  PROVE  ManagerInv' /\ (~ ReserveSeized => Surplus' >= Surplus)
<1>0. ConfigOK /\ MoneyOK /\ LimiterTypeOK /\ WrapperInv /\ Surplus \in Int
  BY ManagerParts, SurplusIs
<1>1. CASE InvestorStep /\ UNCHANGED <<price, kycVars>>
  BY <1>1, InvestorInv
<1>2. ASSUME NEW c \in Users, ConfigStep(c) \/ RetrieveStep(c) \/ USDCStep(c),
             UNCHANGED <<price, kycVars>>
      PROVE  ManagerInv' /\ Surplus' >= Surplus
  BY <1>0, <1>2, ConfigInv, RetrieveInv, USDCInv
<1>3. CASE Next /\ UNCHANGED <<managerVars, now>>
  <2>1. ConfigOK' /\ MoneyOK' /\ LimiterTypeOK'
    BY <1>0, <1>3 DEF managerVars, moneyVars, limiterVars, ConfigOK, MoneyOK, LimiterTypeOK
  <2>2. WrapperInv'
    BY <1>0, <1>3, WrapperStepInv
  <2>3. ~ ReserveSeized => Surplus' >= Surplus
    BY <1>0, <1>3, EveryStepIsAVaultStep, VaultStepKeepsSurplus
  <2> QED  BY <2>1, <2>2, <2>3 DEF ManagerInv
<1>4. ASSUME UNCHANGED vars, UNCHANGED <<config, moneyVars, limiterVars>>, now' \in Nat
      PROVE  ManagerInv' /\ Surplus' >= Surplus
  <2>1. ConfigOK' /\ MoneyOK' /\ LimiterTypeOK'
    BY <1>0, <1>4 DEF moneyVars, limiterVars, ConfigOK, MoneyOK, LimiterTypeOK
  <2>2. UNCHANGED <<rousgVars, ousgVars, price, kycVars>>
    BY <1>4 DEF vars
  <2> QED  BY <1>0, <2>1, <2>2, TokensUntouched
<1>5. CASE TickStep /\ UNCHANGED vars
  BY <1>0, <1>4, <1>5 DEF TickStep, Tick, LimiterTypeOK
<1>6. CASE UNCHANGED allVars
  <2>1. UNCHANGED vars /\ UNCHANGED <<config, moneyVars, limiterVars>> /\ now' \in Nat
    BY <1>0, <1>6 DEF allVars, managerVars, LimiterTypeOK
  <2> QED  BY <1>4, <2>1
<1> QED  BY <1>1, <1>2, <1>3, <1>5, <1>6 DEF ManagerNext

LEMMA ManagerNextInv == ManagerInv /\ [ManagerNext]_allVars => ManagerInv'
BY ManagerStepInv

(* Every reachable state of manager, tokens, limiter and registries is in  *)
(* order: no transaction, however many ledgers it writes, overdraws an     *)
(* account, loses the sum of one or leaves shares unbacked.                *)
THEOREM TokensStayInOrder ==
  ASSUME rOUSG \notin OUSGSeizable
  PROVE  ManagerSpec => []TokensInOrder
<1> DEFINE Inv == ManagerInv /\ Surplus >= 0
<1>1. SystemInit => Inv
  BY ManagerInitInv
<1>2. Inv /\ [ManagerNext]_allVars => Inv'
  <2> SUFFICES ASSUME ManagerInv, Surplus >= 0, [ManagerNext]_allVars
               PROVE  ManagerInv' /\ Surplus' >= 0
    OBVIOUS
  <2>1. ManagerInv' /\ Surplus' >= Surplus
    BY ManagerStepInv DEF ReserveSeized
  <2>2. (Surplus \in Int)'
    BY <2>1, SurplusType, PTL
  <2>3. Surplus \in Int
    BY SurplusType
  <2> QED  BY <2>1, <2>2, <2>3
<1>3. Inv => TokensInOrder
  <2> SUFFICES ASSUME ManagerInv, Surplus >= 0 PROVE TokensInOrder
    OBVIOUS
  <2>1. Backed
    <3> DEFINE r == ousgBalance[rOUSG] * MULT
    <3>1. Surplus = r - totalShares /\ r \in Nat /\ totalShares \in Nat
      BY SurplusIs
    <3>2. totalShares <= r
      <4> HIDE DEF r
      <4> QED  BY <3>1
    <3> QED  BY <3>2 DEF Backed
  <2>2. TypeOK /\ SharesAreSum /\ OUSGSupplyIsSum
    BY DEF ManagerInv, WrapperInv, SharesBooks, AllowancesOK, ROUSGConfigOK, PriceOK, OUSGInv,
           OUSGBooks, OUSGAllowanceOK, OUSGConfigOK, OUSGTypeOK, TypeOK
  <2>3. ManagerTypeOK
    BY <2>2 DEF ManagerInv, ConfigOK, MoneyOK, ManagerTypeOK
  <2> QED  BY <2>1, <2>2, <2>3 DEF TokensInOrder
<1> QED  BY <1>1, <1>2, <1>3, PTL DEF ManagerSpec

-----------------------------------------------------------------------------
(* A mint or redemption happens at one price: the other steps of the       *)
(* system leave the manager's money alone.                                 *)
LEMMA InvestorsMoveMoney ==
  ASSUME ManagerInv, InvestorStep
  PROVE  ~ UNCHANGED <<config, moneyVars>>
<1>1. PICK u \in Users : MintStep(u) \/ RedeemStep(u)
  BY DEF InvestorStep
<1>2. ASSUME NEW usdc \in Requests, TakePayment(u, usdc)
      PROVE  ~ UNCHANGED <<config, moneyVars>>
  <2>1. usdcAllowance'[u] # usdcAllowance[u]
    BY <1>2, PaymentTaken
  <2> QED  BY <2>1 DEF moneyVars
<1>3. ASSUME NEW ousg \in Nat, PayRedemption(u, ousg)
      PROVE  ~ UNCHANGED <<config, moneyVars>>
  <2> DEFINE amt  == RedemptionAmount(ousg)
             fees == RedemptionFees(amt)
             need == Sourced(amt)
             rest == amt - fees
             held == Within(usdcBalance, {u})
  <2>1. /\ fees \in Nat /\ rest \in Nat \ {0} /\ u \in Address /\ u # manager
        /\ need - amt \in Int
        /\ Within(usdcBalance', {u})
             = held + (IF manager \in {u} THEN need - amt ELSE 0)
                    + (IF config.feeReceiver \in {u} THEN fees ELSE 0)
                    + (IF u \in {u} THEN rest ELSE 0)
    <3>1. {u} \in SUBSET Address /\ u # manager
      BY ManagerConstants
    <3> QED  BY <1>3, <3>1, RedemptionPaid
  <2>2. held \in Nat
    BY <2>1, ManagerParts, WithinType
  <2> HIDE DEF amt, fees, need, rest, held
  <2>3. Within(usdcBalance', {u}) > held
    BY <2>1, <2>2
  <2>4. Within(usdcBalance', {u}) # held
    BY <2>2, <2>3
  <2> QED  BY <2>4 DEF held, moneyVars
<1>4. ASSUME NEW usdc \in Requests, Mint(u, usdc) \/ MintRebasingOUSG(u, usdc)
      PROVE  ~ UNCHANGED <<config, moneyVars>>
  <2>1. TakePayment(u, usdc)
    BY <1>4 DEF Mint, MintRebasingOUSG
  <2> QED  BY <1>2, <2>1
<1>5. ASSUME NEW ousg \in OUSGRedemptions, Redeem(u, ousg)
      PROVE  ~ UNCHANGED <<config, moneyVars>>
  <2>1. ousg \in Nat /\ PayRedemption(u, ousg)
    BY <1>5, ManagerConstants DEF Redeem, CanRedeem, PayRedemption
  <2> QED  BY <1>3, <2>1
<1>6. ASSUME NEW rousg \in ROUSGRedemptions, RedeemRebasingOUSG(u, rousg)
      PROVE  ~ UNCHANGED <<config, moneyVars>>
  <2> DEFINE ousg == OUSGFor(GetSharesByROUSG(rousg))
  <2>1. Priced /\ PayRedemption(u, ousg) /\ rousg \in Nat
    BY <1>6, ManagerConstants DEF RedeemRebasingOUSG
  <2>2. GetSharesByROUSG(rousg) \in Nat
    BY <2>1, ManagerParts, GetSharesType
  <2>3. ousg \in Nat
    BY <2>2, OUSGForType
  <2> HIDE DEF ousg
  <2> QED  BY <1>3, <2>1, <2>3
<1> QED  BY <1>1, <1>4, <1>5, <1>6 DEF MintStep, RedeemStep

LEMMA InvestorsPrice ==
  ASSUME ManagerInv, InvestorStep, [ManagerNext]_allVars
  PROVE  UNCHANGED <<price, kycVars>>
<1>1. ~ UNCHANGED <<config, moneyVars>>
  BY InvestorsMoveMoney
<1> QED  BY <1>1 DEF ManagerNext, managerVars, TickStep, allVars

(* No mint is as large as the approval that never runs out. *)
LEMMA MintsAreSmall ==
  ASSUME ManagerInv, NEW u \in Users, NEW usdc \in Requests, TakePayment(u, usdc)
  PROVE  MintAmount(usdc - MintFees(usdc)) < MaxUint
<1> DEFINE rest == usdc - MintFees(usdc)
           ousg == MintAmount(rest)
           p == ManagerPrice
           k == decimalsMultiplier * ONE
<1>1. /\ usdc \in Nat /\ MintFees(usdc) \in Nat /\ rest \in Nat /\ ousg \in Nat
  BY PaymentTaken
<1>2. PriceNotTooLow /\ ousg > 0
  BY DEF TakePayment
<1> HIDE DEF rest
<1>3. p \in Nat \ {0} /\ k \in Nat /\ MaxUint \in Nat
  BY <1>2, ManagerPriceType, ManagerConstants, ROUSGConstants, OUSGAmountsNat
<1>4. ousg * p <= rest * k
  <2>1. ousg * p <= rest * decimalsMultiplier * ONE
    BY <1>1, <1>2, MintAmountWorth
  <2>2. rest * decimalsMultiplier * ONE = rest * k
    BY <1>1, ManagerConstants, ROUSGConstants
  <2> QED  BY <2>1, <2>2
<1>5. usdc * k < MaxUint
  <2>1. usdc * decimalsMultiplier * ONE < MaxUint
    BY RequestAssumption
  <2>2. usdc * decimalsMultiplier * ONE = usdc * k
    BY <1>1, ManagerConstants, ROUSGConstants
  <2> QED  BY <2>1, <2>2
<1>6. rest <= usdc
  BY <1>1 DEF rest
<1> HIDE DEF ousg, p, k
<1>7. rest * k <= usdc * k /\ ousg <= ousg * p
      /\ rest * k \in Nat /\ usdc * k \in Nat /\ ousg * p \in Nat
  <2>1. rest * k <= usdc * k
    BY <1>1, <1>3, <1>6
  <2>2. ousg <= ousg * p
    BY <1>1, <1>3
  <2> QED  BY <1>1, <1>3, <2>1, <2>2
<1>8. ousg < MaxUint
  BY <1>1, <1>3, <1>4, <1>5, <1>7
<1> QED  BY <1>8 DEF ousg, rest

(* A mint or redemption of ousgInstantManager.sol leaves nothing of its    *)
(* caller in the contract but the dust of the two conversions of a         *)
(* rebasing mint: its OUSG is what it was, and its approval of rOUSG is    *)
(* used up.                                                                *)
THEOREM ManagerKeepsOnlyDust == ManagerSpec => KeepsOnlyDust
<1> DEFINE Kept == \/ ousgBalance'[manager] # ousgBalance[manager]
                   \/ ousgAllowance'[manager][rOUSG] \notin {0, ousgAllowance[manager][rOUSG]}
                   \/ (shares'[manager] - shares[manager]) * GetOUSGPrice
                        >= ONE * MULT + GetOUSGPrice
           Step == Kept => ~ InvestorStep
<1>1. ManagerInv /\ [ManagerNext]_allVars => Step
  <2> SUFFICES ASSUME ManagerInv, [ManagerNext]_allVars, InvestorStep PROVE ~ Kept
    OBVIOUS
  <2>1. UNCHANGED <<price, kycVars>>
    BY InvestorsPrice
  <2>2. /\ manager \in Address /\ manager # rOUSG /\ manager \notin Users /\ rOUSG \in Address
        /\ Users \subseteq Address /\ OUSGRedemptions \subseteq Nat /\ ROUSGRedemptions \subseteq Nat
    BY ManagerConstants, ROUSGConstants
  <2>3. /\ shares \in [Address -> Nat] /\ ousgBalance \in [Address -> Nat]
        /\ ousgAllowance \in [Address -> [Address -> 0 .. MaxUint]]
        /\ GetOUSGPrice \in Nat /\ ONE * MULT \in Nat \ {0}
    <3>1. GetOUSGPrice \in Nat
      BY ManagerParts, ROUSGConstants DEF GetOUSGPrice, PriceOK, ROUSGConfigOK
    <3> QED  BY <3>1, ManagerParts, ROUSGConstants DEF OUSGAllowanceOK
  <2>4. ASSUME ousgBalance'[manager] = ousgBalance[manager],
               ousgAllowance'[manager][rOUSG] \in {0, ousgAllowance[manager][rOUSG]},
               shares'[manager] = shares[manager]
        PROVE  ~ Kept
    <3>1. (shares'[manager] - shares[manager]) * GetOUSGPrice = 0
      BY <2>2, <2>3, <2>4
    <3>2. ~ (0 >= ONE * MULT + GetOUSGPrice)
      <4> DEFINE k == ONE * MULT
      <4>1. k \in Nat \ {0}
        BY <2>3
      <4> HIDE DEF k
      <4>2. ~ (0 >= k + GetOUSGPrice)
        BY <2>3, <4>1
      <4> QED  BY <4>2 DEF k
    <3> QED  BY <2>4, <3>1, <3>2
  <2>5. PICK u \in Users : MintStep(u) \/ RedeemStep(u)
    BY DEF InvestorStep
  <2>6. ASSUME NEW usdc \in Requests, Mint(u, usdc) PROVE ~ Kept
    <3>1. /\ ousgBalance' = Issued(ousgBalance, u, MintAmount(usdc - MintFees(usdc)))
          /\ UNCHANGED <<shares, ousgAllowance>>
      BY <2>1, <2>6, MintLedgers
    <3> QED  BY <2>2, <2>3, <2>4, <3>1 DEF Issued
  <2>7. ASSUME NEW usdc \in Requests, MintRebasingOUSG(u, usdc) PROVE ~ Kept
    <3> DEFINE ousg == MintAmount(usdc - MintFees(usdc))
               n == SharesForwarded(ousg)
               left == ousg * MULT - n
    <3>1. /\ Priced /\ ousg \in Nat /\ n \in Nat /\ n <= ousg * MULT
          /\ \A a \in Address \ {rOUSG} : ousgBalance'[a] = ousgBalance[a]
          /\ ousgAllowance'[manager][rOUSG] = IF ousg = MaxUint THEN MaxUint ELSE 0
          /\ shares'[manager] = shares[manager] + left
      BY <2>1, <2>7, MintRebasingLedgers
    <3>2. ousg < MaxUint
      <4>1. TakePayment(u, usdc)
        BY <2>7 DEF MintRebasingOUSG
      <4> QED  BY <4>1, MintsAreSmall
    <3>3. left * GetOUSGPrice < ONE * MULT + GetOUSGPrice
      <4> HIDE DEF ousg
      <4> QED  BY <3>1, SharesForwardedType
    <3>4. ousgAllowance'[manager][rOUSG] = 0
      <4>1. MaxUint \in Nat
        BY OUSGAmountsNat
      <4> HIDE DEF ousg
      <4> QED  BY <3>1, <3>2, <4>1
    <3>5. left \in Int
      <4> HIDE DEF ousg, n
      <4> QED  BY <3>1, ROUSGConstants DEF left
    <3>6. shares'[manager] - shares[manager] = left
      <4> HIDE DEF left
      <4> QED  BY <2>2, <2>3, <3>1, <3>5
    <3> HIDE DEF left, ousg, n
    <3>7. ~ (left * GetOUSGPrice >= ONE * MULT + GetOUSGPrice)
      <4> DEFINE x == left * GetOUSGPrice
                 y == ONE * MULT + GetOUSGPrice
      <4>1. x \in Int /\ y \in Int /\ x < y
        BY <2>3, <3>3, <3>5
      <4> HIDE DEF x, y
      <4>2. ~ (x >= y)
        BY <4>1
      <4> QED  BY <4>2 DEF x, y
    <3> QED  BY <2>2, <3>1, <3>4, <3>6, <3>7
  <2>8. ASSUME NEW ousg \in OUSGRedemptions, Redeem(u, ousg) PROVE ~ Kept
    <3>1. /\ ousgBalance' = Retired(ousgBalance, u, ousg)
          /\ \A a \in Address \ {u} : ousgAllowance'[a] = ousgAllowance[a]
          /\ UNCHANGED shares
      BY <2>1, <2>2, <2>8, RedeemLedgers
    <3> QED  BY <2>2, <2>3, <2>4, <3>1 DEF Retired
  <2>9. ASSUME NEW rousg \in ROUSGRedemptions, RedeemRebasingOUSG(u, rousg) PROVE ~ Kept
    <3>1. /\ shares' = Retired(shares, u, GetSharesByROUSG(rousg))
          /\ \A a \in Address \ {rOUSG} : ousgBalance'[a] = ousgBalance[a]
          /\ UNCHANGED ousgAllowance
      BY <2>1, <2>2, <2>9, RedeemRebasingLedgers
    <3> QED  BY <2>2, <2>3, <2>4, <3>1 DEF Retired
  <2> QED  BY <2>5, <2>6, <2>7, <2>8, <2>9 DEF MintStep, RedeemStep
<1>2. ManagerSpec => [][Step]_allVars
  <2> HIDE DEF Step
  <2> QED  BY <1>1, ManagerInitInv, ManagerNextInv, PTL DEF ManagerSpec
<1> QED  BY <1>2 DEF KeepsOnlyDust

-----------------------------------------------------------------------------
(* Who gains by a mint or a redemption.  The fee receiver is taken not to  *)
(* be an investor: one who is gains the fees.                              *)

LEMMA PaymentSeen ==
  ASSUME FeeReceivers \cap Users = {}, ManagerInv, NEW u \in Users, NEW usdc \in Requests,
         TakePayment(u, usdc)
  PROVE  /\ \A a \in Users : usdcBalance'[a] = usdcBalance[a] - (IF a = u THEN usdc ELSE 0)
         /\ Within(usdcBalance', Address \ Users) = Within(usdcBalance, Address \ Users) + usdc
<1> DEFINE fees == MintFees(usdc)
           rest == usdc - fees
           to   == config.feeReceiver
<1>1. /\ u \in Address /\ usdcReceiver \in Address \ Users /\ to \in Address \ Users
      /\ Users \subseteq Address /\ usdcBalance \in [Address -> Nat]
  BY ManagerConstants, ManagerParts
<1>2. /\ usdc \in Nat /\ fees \in Nat /\ rest \in Nat /\ usdcBalance' \in [Address -> Nat]
  BY PaymentTaken DEF MoneyOK
<1>3. \A S \in SUBSET Address :
        Within(usdcBalance', S)
          = Within(usdcBalance, S) - (IF u \in S THEN usdc ELSE 0)
              + (IF to \in S THEN fees ELSE 0) + (IF usdcReceiver \in S THEN rest ELSE 0)
  BY PaymentTaken
<1>4. fees + rest = usdc
  BY <1>2
<1> HIDE DEF fees, rest, to
<1>5. ASSUME NEW a \in Users
      PROVE  usdcBalance'[a] = usdcBalance[a] - (IF a = u THEN usdc ELSE 0)
  <2>1. {a} \in SUBSET Address /\ a \in Address /\ usdcBalance[a] \in Nat
    BY <1>1
  <2>2. Within(usdcBalance, {a}) = usdcBalance[a]
    BY <1>1, <2>1, WithinOne
  <2>3. Within(usdcBalance', {a}) = usdcBalance'[a]
    BY <1>2, <2>1, WithinOne
  <2>4. Within(usdcBalance', {a})
          = Within(usdcBalance, {a}) - (IF u \in {a} THEN usdc ELSE 0)
              + (IF to \in {a} THEN fees ELSE 0) + (IF usdcReceiver \in {a} THEN rest ELSE 0)
    BY <1>3, <2>1
  <2> QED  BY <1>1, <1>2, <2>1, <2>2, <2>3, <2>4
<1>6. Within(usdcBalance', Address \ Users) = Within(usdcBalance, Address \ Users) + usdc
  <2> DEFINE others == Address \ Users
  <2>1. others \in SUBSET Address /\ u \notin others /\ to \in others /\ usdcReceiver \in others
    BY <1>1
  <2> HIDE DEF others
  <2>2. Within(usdcBalance', others)
          = Within(usdcBalance, others) - (IF u \in others THEN usdc ELSE 0)
              + (IF to \in others THEN fees ELSE 0) + (IF usdcReceiver \in others THEN rest ELSE 0)
    BY <1>3, <2>1
  <2>3. Within(usdcBalance, others) \in Nat
    BY <1>1, <2>1, WithinType
  <2>4. Within(usdcBalance', others) = Within(usdcBalance, others) + usdc
    BY <1>2, <1>4, <2>1, <2>2, <2>3
  <2> QED  BY <2>4 DEF others
<1> QED  BY <1>5, <1>6

LEMMA RedemptionSeen ==
  ASSUME FeeReceivers \cap Users = {}, ManagerInv, NEW u \in Users, NEW ousg \in Nat,
         PayRedemption(u, ousg)
  PROVE  \E got \in Nat :
           /\ got * decimalsMultiplier * ONE <= ousg * ManagerPrice
           /\ \A a \in Users : usdcBalance'[a] = usdcBalance[a] + (IF a = u THEN got ELSE 0)
           /\ buidlBalance' + Within(usdcBalance', Address \ Users)
                = buidlBalance + Within(usdcBalance, Address \ Users) - got
<1> DEFINE amt  == RedemptionAmount(ousg)
           fees == RedemptionFees(amt)
           need == Sourced(amt)
           got  == amt - fees
           to   == config.feeReceiver
<1>1. /\ u \in Address /\ manager \in Address \ Users /\ to \in Address \ Users
      /\ Users \subseteq Address /\ usdcBalance \in [Address -> Nat] /\ buidlBalance \in Nat
  BY ManagerConstants, ManagerParts
<1>2. /\ amt \in Nat /\ fees \in Nat /\ got \in Nat /\ need \in Nat
      /\ usdcBalance' \in [Address -> Nat] /\ buidlBalance' = buidlBalance - need
  BY RedemptionPaid DEF MoneyOK
<1>3. \A S \in SUBSET Address :
        Within(usdcBalance', S)
          = Within(usdcBalance, S) + (IF manager \in S THEN need - amt ELSE 0)
              + (IF to \in S THEN fees ELSE 0) + (IF u \in S THEN got ELSE 0)
  BY RedemptionPaid
<1>4. amt * decimalsMultiplier * ONE <= ousg * ManagerPrice
  BY RedemptionAmountWorth
<1>5. got = amt - fees
  OBVIOUS
<1> HIDE DEF amt, fees, need, got, to
<1>6. got * decimalsMultiplier * ONE <= ousg * ManagerPrice
  <2> DEFINE k == decimalsMultiplier * ONE
             p == ousg * ManagerPrice
  <2>1. k \in Nat /\ p \in Nat
    BY ManagerConstants, ROUSGConstants, ManagerPriceType
  <2>2. got * decimalsMultiplier * ONE = got * k /\ amt * decimalsMultiplier * ONE = amt * k
    BY <1>2, ManagerConstants, ROUSGConstants
  <2>3. got <= amt
    BY <1>2, <1>5
  <2> HIDE DEF k
  <2>4. got * k <= amt * k /\ got * k \in Nat /\ amt * k \in Nat
    BY <1>2, <2>1, <2>3
  <2>5. amt * k <= p
    BY <1>4, <2>2
  <2> HIDE DEF p
  <2>6. got * k <= p
    BY <2>1, <2>4, <2>5
  <2> QED  BY <2>2, <2>6 DEF p
<1>7. ASSUME NEW a \in Users
      PROVE  usdcBalance'[a] = usdcBalance[a] + (IF a = u THEN got ELSE 0)
  <2>1. {a} \in SUBSET Address /\ a \in Address /\ usdcBalance[a] \in Nat
    BY <1>1
  <2>2. Within(usdcBalance, {a}) = usdcBalance[a]
    BY <1>1, <2>1, WithinOne
  <2>3. Within(usdcBalance', {a}) = usdcBalance'[a]
    BY <1>2, <2>1, WithinOne
  <2>4. Within(usdcBalance', {a})
          = Within(usdcBalance, {a}) + (IF manager \in {a} THEN need - amt ELSE 0)
              + (IF to \in {a} THEN fees ELSE 0) + (IF u \in {a} THEN got ELSE 0)
    BY <1>3, <2>1
  <2> QED  BY <1>1, <1>2, <2>1, <2>2, <2>3, <2>4
<1>8. buidlBalance' + Within(usdcBalance', Address \ Users)
        = buidlBalance + Within(usdcBalance, Address \ Users) - got
  <2> DEFINE others == Address \ Users
  <2>1. others \in SUBSET Address /\ u \notin others /\ to \in others /\ manager \in others
    BY <1>1
  <2> HIDE DEF others
  <2>2. Within(usdcBalance', others)
          = Within(usdcBalance, others) + (IF manager \in others THEN need - amt ELSE 0)
              + (IF to \in others THEN fees ELSE 0) + (IF u \in others THEN got ELSE 0)
    BY <1>3, <2>1
  <2>3. Within(usdcBalance, others) \in Nat
    BY <1>1, <2>1, WithinType
  <2>4. buidlBalance' + Within(usdcBalance', others) = buidlBalance + Within(usdcBalance, others) - got
    BY <1>1, <1>2, <1>5, <2>1, <2>2, <2>3
  <2> QED  BY <2>4 DEF others
<1> QED  BY <1>2, <1>6, <1>7, <1>8

(* The arithmetic of a worth: what changes hands, and at what prices.      *)
LEMMA WorthDoesNotRise ==
  ASSUME NEW m \in Nat, NEW k \in Nat, NEW p \in Nat,
         NEW x \in Int, NEW o \in Int, NEW s \in Int,
         NEW c \in Int, NEW d \in Int, NEW n \in Int,
         m * (c * k + d * p) + n * p <= 0
  PROVE  m * ((x + c) * k + (o + d) * p) + (s + n) * p <= m * (x * k + o * p) + s * p
<1> DEFINE y == x * k + o * p
           z == c * k + d * p
<1>1. (x + c) * k = x * k + c * k /\ (o + d) * p = o * p + d * p /\ (s + n) * p = s * p + n * p
  OBVIOUS
<1>2. x * k \in Int /\ c * k \in Int /\ o * p \in Int /\ d * p \in Int /\ s * p \in Int /\ n * p \in Int
  OBVIOUS
<1>3. (x + c) * k + (o + d) * p = y + z /\ y \in Int /\ z \in Int
  BY <1>1, <1>2
<1>4. m * z + n * p <= 0
  OBVIOUS
<1> HIDE DEF y, z
<1>5. m * (y + z) = m * y + m * z /\ m * y \in Int /\ m * z \in Int
  BY <1>3
<1>6. m * (y + z) + (s + n) * p <= m * y + s * p
  BY <1>1, <1>2, <1>4, <1>5
<1> QED  BY <1>3, <1>6 DEF y

(* The four trades: for x of USDC, o of OUSG at a price of p; for n shares *)
(* that are worth no more, or cost no less, than their OUSG.               *)
LEMMA NothingTraded ==
  ASSUME NEW m \in Nat, NEW k \in Nat, NEW p \in Nat
  PROVE  m * (0 * k + 0 * p) + 0 * p <= 0
OBVIOUS

LEMMA OUSGBought ==
  ASSUME NEW m \in Nat, NEW k \in Nat, NEW p \in Nat, NEW x \in Nat, NEW o \in Nat, o * p <= x * k
  PROVE  m * ((-x) * k + o * p) + 0 * p <= 0
<1> DEFINE z == (-x) * k + o * p
<1>1. (-x) * k = -(x * k) /\ x * k \in Nat /\ o * p \in Nat /\ 0 * p = 0
  OBVIOUS
<1>2. z \in Int /\ z <= 0
  BY <1>1
<1> HIDE DEF z
<1>3. m * z <= 0 /\ m * z \in Int
  BY <1>2
<1> QED  BY <1>1, <1>3 DEF z

LEMMA SharesBought ==
  ASSUME NEW m \in Nat, NEW k \in Nat, NEW p \in Nat, NEW x \in Nat, NEW o \in Nat, o * p <= x * k,
         NEW n \in Nat, n <= o * m
  PROVE  m * ((-x) * k + 0 * p) + n * p <= 0
<1> DEFINE v == x * k
           w == o * p
<1>1. v \in Nat /\ w \in Nat /\ w <= v /\ (-x) * k + 0 * p = -v
  OBVIOUS
<1>2. n * p <= (o * m) * p /\ n * p \in Nat /\ (o * m) * p \in Nat
  BY SMT
<1>3. (o * m) * p = m * w
  OBVIOUS
<1> HIDE DEF v, w
<1>4. m * w <= m * v /\ m * (-v) = -(m * v) /\ m * v \in Nat /\ m * w \in Nat
  BY <1>1
<1>5. n * p <= m * v
  BY <1>2, <1>3, <1>4
<1> QED  BY <1>1, <1>2, <1>4, <1>5

LEMMA OUSGSold ==
  ASSUME NEW m \in Nat, NEW k \in Nat, NEW p \in Nat, NEW x \in Nat, NEW o \in Nat, x * k <= o * p
  PROVE  m * (x * k + (-o) * p) + 0 * p <= 0
<1> DEFINE z == x * k + (-o) * p
<1>1. (-o) * p = -(o * p) /\ x * k \in Nat /\ o * p \in Nat /\ 0 * p = 0
  OBVIOUS
<1>2. z \in Int /\ z <= 0
  BY <1>1
<1> HIDE DEF z
<1>3. m * z <= 0 /\ m * z \in Int
  BY <1>2
<1> QED  BY <1>1, <1>3 DEF z

LEMMA SharesSold ==
  ASSUME NEW m \in Nat, NEW k \in Nat, NEW p \in Nat, NEW x \in Nat, NEW o \in Nat, x * k <= o * p,
         NEW n \in Nat, o * m <= n
  PROVE  m * (x * k + 0 * p) + (-n) * p <= 0
<1> DEFINE v == x * k
           w == o * p
<1>1. v \in Nat /\ w \in Nat /\ v <= w /\ x * k + 0 * p = v /\ (-n) * p = -(n * p)
  OBVIOUS
<1>2. (o * m) * p <= n * p /\ n * p \in Nat /\ (o * m) * p \in Nat
  BY SMT
<1>3. (o * m) * p = m * w
  OBVIOUS
<1> HIDE DEF v, w
<1>4. m * v <= m * w /\ m * v \in Nat /\ m * w \in Nat
  BY <1>1
<1>5. m * v <= n * p
  BY <1>2, <1>3, <1>4
<1> QED  BY <1>1, <1>2, <1>4, <1>5

(* The same from the state: what an account owns, and what the issuer has  *)
(* beyond what it owes.                                                    *)
LEMMA WorthSteps ==
  ASSUME ManagerInv, UNCHANGED <<config, price>>, NEW a \in Address,
         NEW c \in Int, NEW d \in Int, NEW n \in Int,
         usdcBalance'[a] = usdcBalance[a] + c, ousgBalance'[a] = ousgBalance[a] + d,
         shares'[a] = shares[a] + n,
         MULT * (c * (decimalsMultiplier * ONE) + d * ManagerPrice) + n * ManagerPrice <= 0
  PROVE  ~ (Worth(a)' > Worth(a))
<1> DEFINE k == decimalsMultiplier * ONE
           m == MULT
           p == ManagerPrice
           x == usdcBalance[a]
           o == ousgBalance[a]
           s == shares[a]
           before == m * (x * k + o * p) + s * p
           after  == m * ((x + c) * k + (o + d) * p) + (s + n) * p
<1>1. k \in Nat /\ m \in Nat /\ p \in Nat /\ x \in Nat /\ o \in Nat /\ s \in Nat
  BY ManagerConstants, ROUSGConstants, ManagerPriceType, ManagerParts
<1>2. \A y \in Int : y * decimalsMultiplier * ONE = y * k
  BY ManagerConstants, ROUSGConstants
<1>3. Worth(a) = before
  BY <1>1, <1>2 DEF Worth
<1>4. Worth(a)' = after
  <2>1. ManagerPrice' = p
    BY DEF ManagerPrice
  <2>2. Worth(a)' = m * ((x + c) * decimalsMultiplier * ONE + (o + d) * ManagerPrice')
                      + (s + n) * ManagerPrice'
    BY DEF Worth
  <2>3. x + c \in Int
    BY <1>1
  <2> HIDE DEF k, m, p, x, o, s
  <2> QED  BY <1>2, <2>1, <2>2, <2>3
<1>5. after <= before /\ after \in Int /\ before \in Int
  <2>1. m * (c * k + d * p) + n * p <= 0
    OBVIOUS
  <2> HIDE DEF k, m, p, x, o, s
  <2>2. after <= before
    BY <1>1, <2>1, WorthDoesNotRise
  <2>3. after \in Int /\ before \in Int
    BY <1>1
  <2> QED  BY <2>2, <2>3
<1> HIDE DEF after, before
<1> QED  BY <1>3, <1>4, <1>5

LEMMA EquitySteps ==
  ASSUME ManagerInv, UNCHANGED <<config, price>>, NEW c \in Int, NEW d \in Int,
         buidlBalance' + Within(usdcBalance', Address \ Users)
           = buidlBalance + Within(usdcBalance, Address \ Users) + c,
         ousgSupply' = ousgSupply + d,
         d * ManagerPrice <= c * (decimalsMultiplier * ONE)
  PROVE  ~ (Equity' < Equity)
<1> DEFINE k == decimalsMultiplier * ONE
           p == ManagerPrice
           x == buidlBalance + Within(usdcBalance, Address \ Users)
           y == buidlBalance' + Within(usdcBalance', Address \ Users)
           o == ousgSupply
           before == x * k - o * p
           after  == (x + c) * k - (o + d) * p
<1>1. k \in Nat /\ p \in Nat /\ x \in Nat /\ o \in Nat
  <2>1. (Address \ Users) \in SUBSET Address
    OBVIOUS
  <2>2. Within(usdcBalance, Address \ Users) \in Nat
    BY <2>1, ManagerParts, WithinType
  <2> QED  BY <2>2, ManagerConstants, ROUSGConstants, ManagerPriceType, ManagerParts
<1>2. \A z \in Int : z * decimalsMultiplier * ONE = z * k
  BY ManagerConstants, ROUSGConstants
<1>3. Equity = before
  BY <1>1, <1>2 DEF Equity, Within
<1>4. Equity' = after
  <2>1. ManagerPrice' = p
    BY DEF ManagerPrice
  <2>2. Equity' = y * decimalsMultiplier * ONE - (o + d) * ManagerPrice'
    BY DEF Equity, Within
  <2>3. y = x + c
    OBVIOUS
  <2> HIDE DEF k, p, x, y, o
  <2>4. y \in Int
    BY <1>1, <2>3
  <2> QED  BY <1>2, <2>1, <2>2, <2>3, <2>4
<1>5. d * p <= c * k
  OBVIOUS
<1> HIDE DEF k, p, x, o
<1>6. (x + c) * k = x * k + c * k /\ (o + d) * p = o * p + d * p
  BY <1>1
<1>7. x * k \in Int /\ c * k \in Int /\ o * p \in Int /\ d * p \in Int
  BY <1>1
<1>8. ~ (after < before)
  BY <1>5, <1>6, <1>7
<1> QED  BY <1>3, <1>4, <1>8

(* A trade seen by those who take no part in it. *)
LEMMA Bystander ==
  ASSUME ManagerInv, UNCHANGED <<config, price>>, NEW a \in Address,
         usdcBalance'[a] = usdcBalance[a], ousgBalance'[a] = ousgBalance[a], shares'[a] = shares[a]
  PROVE  ~ (Worth(a)' > Worth(a))
<1> DEFINE k == decimalsMultiplier * ONE
           p == ManagerPrice
<1>1. k \in Nat /\ p \in Nat /\ MULT \in Nat
  BY ManagerConstants, ROUSGConstants, ManagerPriceType
<1>2. usdcBalance[a] \in Nat /\ ousgBalance[a] \in Nat /\ shares[a] \in Nat
  BY ManagerParts
<1>3. MULT * (0 * k + 0 * p) + 0 * p <= 0
  <2> HIDE DEF k, p
  <2> QED  BY <1>1, NothingTraded
<1>4. /\ usdcBalance'[a] = usdcBalance[a] + 0 /\ ousgBalance'[a] = ousgBalance[a] + 0
      /\ shares'[a] = shares[a] + 0
  BY <1>2
<1> QED  BY <1>3, <1>4, WorthSteps

(* The OUSG minted is worth at most the whole payment. *)
LEMMA MintIsWorthItsPrice ==
  ASSUME ManagerInv, NEW u \in Users, NEW usdc \in Requests, TakePayment(u, usdc)
  PROVE  LET ousg == MintAmount(usdc - MintFees(usdc))
         IN  ousg \in Nat /\ ousg * ManagerPrice <= usdc * (decimalsMultiplier * ONE)
<1> DEFINE rest == usdc - MintFees(usdc)
           ousg == MintAmount(rest)
           w == ousg * ManagerPrice
           k == decimalsMultiplier * ONE
<1>1. /\ usdc \in Nat /\ MintFees(usdc) \in Nat /\ rest \in Nat /\ ousg \in Nat
      /\ PriceNotTooLow /\ ousg > 0 /\ rest <= usdc
  <2>1. /\ usdc \in Nat /\ MintFees(usdc) \in Nat /\ rest \in Nat /\ ousg \in Nat
    BY PaymentTaken
  <2> QED  BY <2>1 DEF TakePayment
<1> HIDE DEF rest
<1>2. w <= rest * decimalsMultiplier * ONE
  BY <1>1, MintAmountWorth
<1>3. rest * decimalsMultiplier * ONE = rest * k /\ k \in Nat /\ ManagerPrice \in Nat
  BY <1>1, ManagerConstants, ROUSGConstants, ManagerPriceType
<1> HIDE DEF ousg, k
<1>4. rest * k <= usdc * k /\ rest * k \in Nat /\ usdc * k \in Nat /\ w \in Nat
  BY <1>1, <1>3
<1> HIDE DEF w
<1>5. w <= usdc * k
  BY <1>2, <1>3, <1>4
<1> QED  BY <1>1, <1>5 DEF w, k, ousg, rest

(* No trade takes more from the issuer than it gives, or gives more to     *)
(* anyone than it takes from him.                                          *)
FairTrade == /\ \A a \in Users : ~ (Worth(a)' > Worth(a))
             /\ ~ (Equity' < Equity)

LEMMA MintIsFair ==
  ASSUME FeeReceivers \cap Users = {}, ManagerInv, NEW u \in Users, NEW usdc \in Requests,
         Mint(u, usdc), UNCHANGED <<price, kycVars>>
  PROVE  FairTrade
<1> DEFINE ousg == MintAmount(usdc - MintFees(usdc))
           k == decimalsMultiplier * ONE
           p == ManagerPrice
<1>1. TakePayment(u, usdc)
  BY DEF Mint
<1>2. /\ usdc \in Nat /\ ousg \in Nat /\ ousg * p <= usdc * k
      /\ UNCHANGED <<config, buidlBalance>>
  BY <1>1, PaymentTaken, MintIsWorthItsPrice
<1>3. /\ ousgBalance' = Issued(ousgBalance, u, ousg) /\ ousgSupply' = ousgSupply + ousg
      /\ UNCHANGED shares
  BY MintLedgers
<1>4. /\ k \in Nat /\ p \in Nat /\ MULT \in Nat /\ Users \subseteq Address
      /\ usdcBalance \in [Address -> Nat] /\ ousgBalance \in [Address -> Nat]
      /\ shares \in [Address -> Nat] /\ buidlBalance \in Nat
  BY ManagerConstants, ROUSGConstants, ManagerPriceType, ManagerParts
<1>5. /\ \A a \in Users : usdcBalance'[a] = usdcBalance[a] - (IF a = u THEN usdc ELSE 0)
      /\ Within(usdcBalance', Address \ Users) = Within(usdcBalance, Address \ Users) + usdc
  BY <1>1, PaymentSeen
<1> HIDE DEF ousg, k, p
<1>6. ASSUME NEW a \in Users PROVE ~ (Worth(a)' > Worth(a))
  <2>0. usdcBalance[a] \in Nat /\ ousgBalance[a] \in Nat /\ shares[a] \in Nat /\ a \in Address
    BY <1>4
  <2>1. CASE a = u
    <3>1. MULT * ((-usdc) * k + ousg * p) + 0 * p <= 0
      BY <1>2, <1>4, OUSGBought
    <3>2. /\ usdcBalance'[a] = usdcBalance[a] + (-usdc) /\ ousgBalance'[a] = ousgBalance[a] + ousg
          /\ shares'[a] = shares[a] + 0 /\ (-usdc) \in Int
      BY <1>2, <1>3, <1>4, <1>5, <2>0, <2>1 DEF Issued
    <3> QED  BY <1>2, <2>0, <3>1, <3>2, WorthSteps DEF k, p
  <2>2. CASE a # u
    <3>1. /\ usdcBalance'[a] = usdcBalance[a] /\ ousgBalance'[a] = ousgBalance[a]
          /\ shares'[a] = shares[a]
      BY <1>3, <1>4, <1>5, <2>0, <2>2 DEF Issued
    <3> QED  BY <1>2, <2>0, <3>1, Bystander
  <2> QED  BY <2>1, <2>2
<1>7. ~ (Equity' < Equity)
  <2> DEFINE held == Within(usdcBalance, Address \ Users)
  <2>1. held \in Nat
    BY <1>4, WithinType
  <2>2. Within(usdcBalance', Address \ Users) = held + usdc
    BY <1>5
  <2> HIDE DEF held
  <2>3. buidlBalance' + Within(usdcBalance', Address \ Users) = buidlBalance + held + usdc
    BY <1>2, <1>4, <2>1, <2>2
  <2>4. ousgSupply' = ousgSupply + ousg /\ ousg \in Int /\ usdc \in Int
        /\ ousg * ManagerPrice <= usdc * (decimalsMultiplier * ONE) /\ UNCHANGED <<config, price>>
    BY <1>2, <1>3 DEF k, p
  <2> QED  BY <2>3, <2>4, EquitySteps DEF held
<1> QED  BY <1>6, <1>7 DEF FairTrade

LEMMA MintRebasingIsFair ==
  ASSUME FeeReceivers \cap Users = {}, ManagerInv, NEW u \in Users, NEW usdc \in Requests,
         MintRebasingOUSG(u, usdc), UNCHANGED <<price, kycVars>>
  PROVE  FairTrade
<1> DEFINE ousg == MintAmount(usdc - MintFees(usdc))
           n == SharesForwarded(ousg)
           k == decimalsMultiplier * ONE
           p == ManagerPrice
<1>1. TakePayment(u, usdc)
  BY DEF MintRebasingOUSG
<1>2. /\ usdc \in Nat /\ ousg \in Nat /\ ousg * p <= usdc * k
      /\ UNCHANGED <<config, buidlBalance>>
  BY <1>1, PaymentTaken, MintIsWorthItsPrice
<1>3. /\ n \in Nat /\ n <= ousg * MULT
      /\ \A a \in Address \ {rOUSG} : ousgBalance'[a] = ousgBalance[a]
      /\ ousgSupply' = ousgSupply + ousg
      /\ shares'[u] = shares[u] + n
      /\ \A a \in Address \ {manager, u} : shares'[a] = shares[a]
  BY MintRebasingLedgers
<1>4. /\ k \in Nat /\ p \in Nat /\ MULT \in Nat
      /\ Users \subseteq Address \ {manager, rOUSG}
      /\ usdcBalance \in [Address -> Nat] /\ ousgBalance \in [Address -> Nat]
      /\ shares \in [Address -> Nat] /\ buidlBalance \in Nat
  BY ManagerConstants, ROUSGConstants, ManagerPriceType, ManagerParts
<1>5. /\ \A a \in Users : usdcBalance'[a] = usdcBalance[a] - (IF a = u THEN usdc ELSE 0)
      /\ Within(usdcBalance', Address \ Users) = Within(usdcBalance, Address \ Users) + usdc
  BY <1>1, PaymentSeen
<1> HIDE DEF n, ousg, k, p
<1>6. ASSUME NEW a \in Users PROVE ~ (Worth(a)' > Worth(a))
  <2>0. /\ usdcBalance[a] \in Nat /\ ousgBalance[a] \in Nat /\ shares[a] \in Nat
        /\ a \in Address /\ a # manager /\ ousgBalance'[a] = ousgBalance[a]
    BY <1>3, <1>4
  <2>1. CASE a = u
    <3>1. MULT * ((-usdc) * k + 0 * p) + n * p <= 0
      BY <1>2, <1>3, <1>4, SharesBought
    <3>2. /\ usdcBalance'[a] = usdcBalance[a] + (-usdc) /\ ousgBalance'[a] = ousgBalance[a] + 0
          /\ shares'[a] = shares[a] + n /\ (-usdc) \in Int
      BY <1>2, <1>3, <1>5, <2>0, <2>1
    <3> QED  BY <1>2, <1>3, <2>0, <3>1, <3>2, WorthSteps DEF k, p
  <2>2. CASE a # u
    <3>1. usdcBalance'[a] = usdcBalance[a] /\ shares'[a] = shares[a]
      BY <1>3, <1>5, <2>0, <2>2
    <3> QED  BY <1>2, <2>0, <3>1, Bystander
  <2> QED  BY <2>1, <2>2
<1>7. ~ (Equity' < Equity)
  <2> DEFINE held == Within(usdcBalance, Address \ Users)
  <2>1. held \in Nat
    BY <1>4, WithinType
  <2>2. Within(usdcBalance', Address \ Users) = held + usdc
    BY <1>5
  <2> HIDE DEF held
  <2>3. buidlBalance' + Within(usdcBalance', Address \ Users) = buidlBalance + held + usdc
    BY <1>2, <1>4, <2>1, <2>2
  <2>4. ousgSupply' = ousgSupply + ousg /\ ousg \in Int /\ usdc \in Int
        /\ ousg * ManagerPrice <= usdc * (decimalsMultiplier * ONE) /\ UNCHANGED <<config, price>>
    BY <1>2, <1>3 DEF k, p
  <2> QED  BY <2>3, <2>4, EquitySteps DEF held
<1> QED  BY <1>6, <1>7 DEF FairTrade

LEMMA RedemptionKeepsEquity ==
  ASSUME ManagerInv, UNCHANGED <<config, price>>, NEW got \in Nat, NEW ousg \in Nat,
         buidlBalance' + Within(usdcBalance', Address \ Users)
           = buidlBalance + Within(usdcBalance, Address \ Users) - got,
         ousgSupply' = ousgSupply - ousg,
         got * (decimalsMultiplier * ONE) <= ousg * ManagerPrice
  PROVE  ~ (Equity' < Equity)
<1> DEFINE k == decimalsMultiplier * ONE
           p == ManagerPrice
           held == Within(usdcBalance, Address \ Users)
           c == -got
           d == -ousg
<1>1. k \in Nat /\ p \in Nat /\ held \in Nat /\ buidlBalance \in Nat /\ ousgSupply \in Nat
  <2>1. (Address \ Users) \in SUBSET Address
    OBVIOUS
  <2>2. held \in Nat
    BY <2>1, ManagerParts, WithinType
  <2> QED  BY <2>2, ManagerConstants, ROUSGConstants, ManagerPriceType, ManagerParts
<1>2. c \in Int /\ d \in Int
  OBVIOUS
<1>3. d * p <= c * k
  <2>1. got * k <= ousg * p
    OBVIOUS
  <2> HIDE DEF k, p
  <2>2. c * k = -(got * k) /\ d * p = -(ousg * p) /\ got * k \in Nat /\ ousg * p \in Nat
    BY <1>1
  <2> HIDE DEF c, d
  <2> QED  BY <2>1, <2>2
<1>4. ousgSupply' = ousgSupply + d
  BY <1>1
<1>5. buidlBalance' + Within(usdcBalance', Address \ Users) = buidlBalance + held + c
  <2> HIDE DEF k, p
  <2>1. buidlBalance + held - got = buidlBalance + held + c
    <3> HIDE DEF held
    <3> QED  BY <1>1
  <2> QED  BY <2>1
<1>6. d * ManagerPrice <= c * (decimalsMultiplier * ONE)
  BY <1>3
<1> HIDE DEF c, d
<1> QED  BY <1>2, <1>4, <1>5, <1>6, EquitySteps DEF held

LEMMA RedeemIsFair ==
  ASSUME FeeReceivers \cap Users = {}, ManagerInv, NEW u \in Users, NEW ousg \in Nat,
         Redeem(u, ousg), UNCHANGED <<price, kycVars>>
  PROVE  FairTrade
<1> DEFINE k == decimalsMultiplier * ONE
           p == ManagerPrice
<1>1. PayRedemption(u, ousg) /\ UNCHANGED config
  BY DEF Redeem, CanRedeem, PayRedemption, PayFrom
<1>2. PICK got \in Nat :
        /\ got * decimalsMultiplier * ONE <= ousg * ManagerPrice
        /\ \A a \in Users : usdcBalance'[a] = usdcBalance[a] + (IF a = u THEN got ELSE 0)
        /\ buidlBalance' + Within(usdcBalance', Address \ Users)
             = buidlBalance + Within(usdcBalance, Address \ Users) - got
  BY <1>1, RedemptionSeen
<1>3. /\ ousgBalance' = Retired(ousgBalance, u, ousg) /\ ousgSupply' = ousgSupply - ousg
      /\ UNCHANGED shares
  BY RedeemLedgers
<1>4. /\ k \in Nat /\ p \in Nat /\ MULT \in Nat /\ Users \subseteq Address
      /\ usdcBalance \in [Address -> Nat] /\ ousgBalance \in [Address -> Nat]
      /\ shares \in [Address -> Nat] /\ buidlBalance \in Nat /\ ousgSupply \in Nat
  BY ManagerConstants, ROUSGConstants, ManagerPriceType, ManagerParts
<1>5. got * k <= ousg * p
  <2>1. got * decimalsMultiplier * ONE = got * k
    BY ManagerConstants, ROUSGConstants
  <2> QED  BY <1>2, <2>1
<1> HIDE DEF k, p
<1>6. ASSUME NEW a \in Users PROVE ~ (Worth(a)' > Worth(a))
  <2>0. usdcBalance[a] \in Nat /\ ousgBalance[a] \in Nat /\ shares[a] \in Nat /\ a \in Address
    BY <1>4
  <2>1. CASE a = u
    <3>1. MULT * (got * k + (-ousg) * p) + 0 * p <= 0
      BY <1>4, <1>5, OUSGSold
    <3>2. /\ usdcBalance'[a] = usdcBalance[a] + got /\ ousgBalance'[a] = ousgBalance[a] + (-ousg)
          /\ shares'[a] = shares[a] + 0 /\ (-ousg) \in Int
      BY <1>2, <1>3, <1>4, <2>0, <2>1 DEF Retired
    <3> QED  BY <1>1, <2>0, <3>1, <3>2, WorthSteps DEF k, p
  <2>2. CASE a # u
    <3>1. /\ usdcBalance'[a] = usdcBalance[a] /\ ousgBalance'[a] = ousgBalance[a]
          /\ shares'[a] = shares[a]
      BY <1>2, <1>3, <1>4, <2>0, <2>2 DEF Retired
    <3> QED  BY <1>1, <2>0, <3>1, Bystander
  <2> QED  BY <2>1, <2>2
<1>7. ~ (Equity' < Equity)
  BY <1>1, <1>2, <1>3, <1>5, RedemptionKeepsEquity DEF k, p
<1> QED  BY <1>6, <1>7 DEF FairTrade

LEMMA RedeemRebasingIsFair ==
  ASSUME FeeReceivers \cap Users = {}, ManagerInv, NEW u \in Users, NEW rousg \in Nat,
         RedeemRebasingOUSG(u, rousg), UNCHANGED <<price, kycVars>>
  PROVE  FairTrade
<1> DEFINE n == GetSharesByROUSG(rousg)
           ousg == OUSGFor(n)
           k == decimalsMultiplier * ONE
           p == ManagerPrice
<1>1. /\ PayRedemption(u, ousg) /\ n \in Nat /\ ousg \in Nat /\ ousg * MULT <= n
      /\ shares' = Retired(shares, u, n)
      /\ \A a \in Address \ {rOUSG} : ousgBalance'[a] = ousgBalance[a]
      /\ ousgSupply' = ousgSupply - ousg
  BY RedeemRebasingLedgers
<1> HIDE DEF n, ousg
<1>2. PICK got \in Nat :
        /\ got * decimalsMultiplier * ONE <= ousg * ManagerPrice
        /\ \A a \in Users : usdcBalance'[a] = usdcBalance[a] + (IF a = u THEN got ELSE 0)
        /\ buidlBalance' + Within(usdcBalance', Address \ Users)
             = buidlBalance + Within(usdcBalance, Address \ Users) - got
  BY <1>1, RedemptionSeen
<1>3. UNCHANGED config
  BY <1>1 DEF PayRedemption, PayFrom
<1>4. /\ k \in Nat /\ p \in Nat /\ MULT \in Nat /\ Users \subseteq Address \ {rOUSG}
      /\ usdcBalance \in [Address -> Nat] /\ ousgBalance \in [Address -> Nat]
      /\ shares \in [Address -> Nat] /\ buidlBalance \in Nat /\ ousgSupply \in Nat
  BY ManagerConstants, ROUSGConstants, ManagerPriceType, ManagerParts
<1>5. got * k <= ousg * p
  <2>1. got * decimalsMultiplier * ONE = got * k
    BY ManagerConstants, ROUSGConstants
  <2> QED  BY <1>2, <2>1
<1> HIDE DEF k, p
<1>6. ASSUME NEW a \in Users PROVE ~ (Worth(a)' > Worth(a))
  <2>0. /\ usdcBalance[a] \in Nat /\ ousgBalance[a] \in Nat /\ shares[a] \in Nat /\ a \in Address
        /\ ousgBalance'[a] = ousgBalance[a]
    BY <1>1, <1>4
  <2>1. CASE a = u
    <3>1. MULT * (got * k + 0 * p) + (-n) * p <= 0
      BY <1>1, <1>4, <1>5, SharesSold
    <3>2. /\ usdcBalance'[a] = usdcBalance[a] + got /\ ousgBalance'[a] = ousgBalance[a] + 0
          /\ shares'[a] = shares[a] + (-n) /\ (-n) \in Int
      BY <1>1, <1>2, <1>4, <2>0, <2>1 DEF Retired
    <3> QED  BY <1>3, <2>0, <3>1, <3>2, WorthSteps DEF k, p
  <2>2. CASE a # u
    <3>1. usdcBalance'[a] = usdcBalance[a] /\ shares'[a] = shares[a]
      BY <1>1, <1>2, <1>4, <2>0, <2>2 DEF Retired
    <3> QED  BY <1>3, <2>0, <3>1, Bystander
  <2> QED  BY <2>1, <2>2
<1>7. ~ (Equity' < Equity)
  BY <1>1, <1>2, <1>3, <1>5, RedemptionKeepsEquity DEF k, p
<1> QED  BY <1>6, <1>7 DEF FairTrade

LEMMA TradesAreFair ==
  ASSUME FeeReceivers \cap Users = {}, ManagerInv, [ManagerNext]_allVars, InvestorStep
  PROVE  FairTrade
<1>1. UNCHANGED <<price, kycVars>>
  BY InvestorsPrice
<1>2. PICK u \in Users : MintStep(u) \/ RedeemStep(u)
  BY DEF InvestorStep
<1>3. CASE MintStep(u)
  BY <1>1, <1>3, MintIsFair, MintRebasingIsFair DEF MintStep
<1>4. ASSUME NEW ousg \in OUSGRedemptions, Redeem(u, ousg) PROVE FairTrade
  BY <1>1, <1>4, RedeemIsFair, ManagerConstants
<1>5. ASSUME NEW rousg \in ROUSGRedemptions, RedeemRebasingOUSG(u, rousg) PROVE FairTrade
  BY <1>1, <1>5, RedeemRebasingIsFair, ManagerConstants
<1> QED  BY <1>2, <1>3, <1>4, <1>5 DEF RedeemStep

(* At an unchanged price no investor, the caller or another, is worth more *)
(* after a mint or redemption of ousgInstantManager.sol than before: each  *)
(* of its roundings goes against the caller, whatever the fees.            *)
THEOREM ManagerNobodyProfits ==
  ASSUME FeeReceivers \cap Users = {}
  PROVE  ManagerSpec => NobodyProfits
<1> DEFINE Step == (\E a \in Users : Worth(a)' > Worth(a)) => ~ InvestorStep
<1>1. ManagerInv /\ [ManagerNext]_allVars => Step
  BY TradesAreFair DEF FairTrade
<1>2. ManagerSpec => [][Step]_allVars
  <2> HIDE DEF Step
  <2> QED  BY <1>1, ManagerInitInv, ManagerNextInv, PTL DEF ManagerSpec
<1> QED  BY <1>2 DEF NobodyProfits

(* The other side of it: no mint or redemption leaves the issuer owing     *)
(* more than it received for it.                                           *)
THEOREM ManagerEquityStays ==
  ASSUME FeeReceivers \cap Users = {}
  PROVE  ManagerSpec => EquityNeverFalls
<1> DEFINE Step == Equity' < Equity => ~ InvestorStep
<1>1. ManagerInv /\ [ManagerNext]_allVars => Step
  BY TradesAreFair DEF FairTrade
<1>2. ManagerSpec => [][Step]_allVars
  <2> HIDE DEF Step
  <2> QED  BY <1>1, ManagerInitInv, ManagerNextInv, PTL DEF ManagerSpec
<1> QED  BY <1>2 DEF EquityNeverFalls

-----------------------------------------------------------------------------
(* What there is to pay a redemption with. *)

(* Whatever is sourced from BUIDL covers, with the USDC held, the amount   *)
(* redeemed; and BUIDL covers it if it covers the amount and the           *)
(* redeemer's minimum.                                                     *)
LEMMA SourcedCovers ==
  ASSUME ManagerInv, NEW amt \in Nat \ {0},
         buidlBalance >= amt, buidlBalance >= config.minBUIDLRedeemAmount
  PROVE  /\ Sourced(amt) \in Nat /\ Sourced(amt) <= buidlBalance
         /\ usdcBalance[manager] + Sourced(amt) >= amt
<1> DEFINE least == config.minBUIDLRedeemAmount
           held  == usdcBalance[manager]
<1>1. least \in Nat /\ held \in Nat /\ buidlBalance \in Nat
  BY ManagerConstants, ManagerParts
<1>2. Sourced(amt) = IF amt >= least THEN amt ELSE IF amt > held THEN least ELSE 0
  BY DEF Sourced
<1> HIDE DEF least, held
<1>3. least <= buidlBalance
  BY DEF least
<1>4. Sourced(amt) \in Nat /\ Sourced(amt) <= buidlBalance /\ held + Sourced(amt) >= amt
  BY <1>1, <1>2, <1>3
<1> QED  BY <1>4 DEF held

(* What a payment in full leaves this contract: enough for the fee, and    *)
(* after the fee, also one it pays to itself, enough for the rest.         *)
LEMMA FeeLeavesTheRest ==
  ASSUME ManagerInv, NEW paid \in Nat, NEW fees \in Nat, NEW rest \in Nat,
         usdcBalance[manager] + paid >= fees + rest
  PROVE  LET funded == Issued(usdcBalance, manager, paid)
         IN  /\ fees <= funded[manager]
             /\ rest <= Paid(funded, manager, config.feeReceiver, fees)[manager]
<1> DEFINE funded == Issued(usdcBalance, manager, paid)
           to     == config.feeReceiver
<1>1. manager \in Address /\ to \in Address /\ usdcBalance[manager] \in Nat
  BY ManagerConstants, ManagerParts
<1>2. funded \in [Address -> Nat] /\ funded[manager] = usdcBalance[manager] + paid
  BY <1>1, ManagerParts DEF Issued
<1>3. fees <= funded[manager] /\ rest <= funded[manager] - fees /\ funded[manager] \in Nat
  BY <1>1, <1>2
<1> HIDE DEF funded, to
<1>4. /\ to = manager => Paid(funded, manager, to, fees)[manager] = funded[manager]
      /\ to # manager => Paid(funded, manager, to, fees)[manager] = funded[manager] - fees
  BY <1>1, <1>2, <1>3 DEF Paid, Issued, Retired
<1>5. rest <= Paid(funded, manager, to, fees)[manager]
  BY <1>3, <1>4
<1> QED  BY <1>3, <1>5 DEF funded, to

(* A redemption of ousgInstantManager.sol never fails for want of USDC     *)
(* while there is BUIDL for it, whatever the fees, the minimums, the fee   *)
(* receiver and the USDC the contract happens to hold.                     *)
THEOREM ManagerRedemptionIsOpen == ManagerSpec => []RedemptionIsOpen
<1>1. ManagerInv => RedemptionIsOpen
  <2> SUFFICES ASSUME ManagerInv, NEW u \in Users, NEW ousg \in OUSGRedemptions,
                      ~ config.redeemPaused,
                      ousg <= ousgAllowance[u][manager], ousg <= ousgBalance[u],
                      OUSGHook(manager, u, manager), PriceNotTooLow,
                      RedemptionAmount(ousg) >= config.minimumRedemptionAmount,
                      Admits("redeem", RedemptionAmount(ousg)), InvestorMayProceed(u),
                      RedemptionAmount(ousg) > RedemptionFees(RedemptionAmount(ousg)),
                      buidlBalance >= RedemptionAmount(ousg),
                      buidlBalance >= config.minBUIDLRedeemAmount
               PROVE  CanRedeem(u, ousg, Sourced(RedemptionAmount(ousg)))
    BY DEF RedemptionIsOpen
  <2> DEFINE amt  == RedemptionAmount(ousg)
             fees == RedemptionFees(amt)
             rest == amt - fees
             need == Sourced(amt)
             funded == Issued(usdcBalance, manager, need)
             feeOut == Paid(funded, manager, config.feeReceiver, fees)
  <2>1. ousg \in Nat /\ u # Zero /\ manager # Zero
        /\ ousgAllowance[u][manager] \in Nat
    BY ManagerConstants, ManagerParts, OUSGAssumption DEF OUSGAllowanceOK
  <2>2. amt \in Nat
    BY <2>1, RedemptionAmountWorth
  <2>3. fees \in Nat /\ amt > fees
    <3> HIDE DEF amt
    <3>1. fees \in Nat
      BY <2>2, RedemptionFeesType
    <3> QED  BY <3>1 DEF amt
  <2>4. rest \in Nat \ {0} /\ fees + rest = amt /\ amt \in Nat \ {0}
    <3> HIDE DEF amt, fees
    <3> QED  BY <2>2, <2>3
  <2>5. need \in Nat /\ need <= buidlBalance /\ usdcBalance[manager] + need >= amt
    BY <2>4, SourcedCovers
  <2>6. need > 0 => RedeemBUIDL(need, need)
    BY <2>5 DEF RedeemBUIDL, PaidOneToOne
  <2>7. CanPayOUSG(manager, u, manager, ousg)
    BY <2>1 DEF CanPayOUSG
  <2>8. Admits("redeem", Charged(amt))
    BY DEF Charged
  <2>9. fees <= funded[manager] /\ rest <= feeOut[manager]
    <3> HIDE DEF amt, fees, rest, need
    <3> QED  BY <2>3, <2>4, <2>5, FeeLeavesTheRest
  <2>10. rest > 0
    <3> HIDE DEF rest
    <3> QED  BY <2>4
  <2>11. CanPayRedemption(u, ousg, need)
    BY <2>6, <2>8, <2>9, <2>10 DEF CanPayRedemption
  <2>12. ousgAllowance[u][manager] >= ousg
    BY <2>1
  <2> QED  BY <2>7, <2>11, <2>12 DEF CanRedeem
<1> QED  BY <1>1, ManagerInitInv, ManagerNextInv, PTL DEF ManagerSpec

-----------------------------------------------------------------------------
(* The gates of both tokens, KYC and pause, in every transaction. *)
GatesHold == SharesGated /\ OUSGGated

(* Neither token is touched where both ledgers stay. *)
LEMMA LedgersStay ==
  ASSUME UNCHANGED <<rousgLedger, ousgBalance, ousgSupply>>
  PROVE  GatesHold
BY DEF GatesHold, SharesGated, OUSGGated, rousgLedger

(* The calls of the investors: every movement passes the hooks. *)
LEMMA InvestorsPassTheGates ==
  ASSUME ManagerInv, InvestorStep
  PROVE  GatesHold
<1> USE ManagerConstants, ManagerParts
<1>1. PICK u \in Users : MintStep(u) \/ RedeemStep(u)
  BY DEF InvestorStep
<1>2. u \in Address /\ u # Zero
  BY ManagerConstants
<1>3. ASSUME NEW usdc \in Requests, Mint(u, usdc) PROVE GatesHold
  <2> DEFINE n == MintAmount(usdc - MintFees(usdc))
  <2>1. IssueOUSG(manager, u, n) /\ UNCHANGED rousgVars
    BY <1>3 DEF Mint
  <2> HIDE DEF n
  <2>2. ~ ousgPaused /\ OUSGCleared(u) /\ ousgBalance' = Issued(ousgBalance, u, n)
    BY <1>2, <2>1 DEF IssueOUSG, CanIssueOUSG, OUSGHook
  <2> QED  BY <2>1, <2>2 DEF GatesHold, SharesGated, OUSGGated, Issued, rousgVars, rousgLedger
<1>4. ASSUME NEW usdc \in Requests, MintRebasingOUSG(u, usdc) PROVE GatesHold
  <2> DEFINE n == MintAmount(usdc - MintFees(usdc))
             f == SharesForwarded(n)
             s == n * MULT
  <2>1. /\ ousgBalance' = Wrapped(Issued(ousgBalance, manager, n), n)
        /\ shares' = Paid(Issued(shares, manager, s), manager, u, f)
    BY <1>4 DEF MintRebasingOUSG
  <2> HIDE DEF n, f, s
  <2>2. /\ ~ ousgPaused /\ OUSGCleared(manager) /\ OUSGCleared(rOUSG)
        /\ ~ rousgPaused /\ Cleared(manager) /\ Cleared(u)
    BY <1>2, <1>4, ROUSGConstants
       DEF MintRebasingOUSG, CanIssueOUSG, OUSGHook, CanMintShares, ROUSGHook
  <2>3. ASSUME NEW a \in Address, ~ OUSGCleared(a) PROVE ousgBalance'[a] = ousgBalance[a]
    BY <2>1, <2>2, <2>3 DEF Wrapped, Paid, Issued, Retired
  <2>4. ASSUME NEW a \in Address, ~ Cleared(a) PROVE shares'[a] = shares[a]
    BY <2>1, <2>2, <2>4 DEF Paid, Issued, Retired
  <2> QED  BY <2>2, <2>3, <2>4 DEF GatesHold, SharesGated, OUSGGated
<1>5. ASSUME NEW ousg \in OUSGRedemptions, Redeem(u, ousg) PROVE GatesHold
  <2>1. /\ CanPayOUSG(manager, u, manager, ousg)
        /\ ousgBalance' = Retired(Paid(ousgBalance, u, manager, ousg), manager, ousg)
        /\ UNCHANGED rousgVars
    BY <1>5 DEF Redeem, CanRedeem
  <2>2. ~ ousgPaused /\ OUSGCleared(manager) /\ OUSGCleared(u)
    BY <1>2, <2>1 DEF CanPayOUSG, OUSGHook
  <2> QED  BY <2>1, <2>2 DEF GatesHold, SharesGated, OUSGGated, Paid, Issued, Retired, rousgVars,
                             rousgLedger
<1>6. ASSUME NEW rousg \in ROUSGRedemptions, RedeemRebasingOUSG(u, rousg) PROVE GatesHold
  <2> DEFINE n    == GetSharesByROUSG(rousg)
             ousg == OUSGFor(n)
  <2>1. /\ CanMoveShares(manager, u, manager, n)
        /\ CanPayOUSG(rOUSG, rOUSG, manager, ousg)
        /\ shares' = Retired(shares, u, n)
        /\ ousgBalance' = Retired(Paid(ousgBalance, rOUSG, manager, ousg), manager, ousg)
    BY <1>6 DEF RedeemRebasingOUSG
  <2> HIDE DEF n, ousg
  <2>2. /\ ~ ousgPaused /\ OUSGCleared(manager) /\ OUSGCleared(rOUSG)
        /\ ~ rousgPaused /\ Cleared(u)
    BY <1>2, <2>1, ROUSGConstants DEF CanPayOUSG, OUSGHook, CanMoveShares, ROUSGHook
  <2>3. ASSUME NEW a \in Address, ~ OUSGCleared(a) PROVE ousgBalance'[a] = ousgBalance[a]
    BY <2>1, <2>2, <2>3 DEF Paid, Issued, Retired
  <2>4. ASSUME NEW a \in Address, ~ Cleared(a) PROVE shares'[a] = shares[a]
    BY <2>1, <2>2, <2>4 DEF Retired
  <2> QED  BY <2>2, <2>3, <2>4 DEF GatesHold, SharesGated, OUSGGated
<1> QED  BY <1>1, <1>3, <1>4, <1>5, <1>6 DEF MintStep, RedeemStep

(* The calls that spend tokens the manager holds. *)
LEMMA RetrievalsPassTheGates ==
  ASSUME ManagerInv, NEW c \in Users, RetrieveStep(c)
  PROVE  GatesHold
<1> USE ManagerConstants, ManagerParts
<1>1. ASSUME NEW to \in Address, NEW amt \in OUSGAmounts, RetrieveOUSG(c, to, amt)
      PROVE  GatesHold
  <2>1. CanPayOUSG(manager, manager, to, amt) /\ UNCHANGED rousgVars
        /\ ousgBalance' = Paid(ousgBalance, manager, to, amt)
    BY <1>1 DEF RetrieveOUSG, OUSGTransfer, PayOUSG
  <2> QED  BY <2>1 DEF CanPayOUSG, OUSGHook, GatesHold, SharesGated, OUSGGated, Paid, Issued,
                       Retired, rousgVars, rousgLedger
<1>2. ASSUME NEW to \in Address, NEW amt \in ROUSGAmounts, RetrieveROUSG(c, to, amt)
      PROVE  GatesHold
  <2> DEFINE n == GetSharesByROUSG(amt)
  <2>1. CanMoveShares(manager, manager, to, n) /\ UNCHANGED ousgVars
        /\ shares' = SharesMoved(manager, to, n)
    BY <1>2 DEF RetrieveROUSG, Transfer, MoveTokens, TransferShares
  <2> HIDE DEF n
  <2> QED  BY <2>1 DEF CanMoveShares, ROUSGHook, GatesHold, SharesGated, OUSGGated, SharesMoved,
                       Issued, Retired, ousgVars, ousgLedger
<1>3. ASSUME UNCHANGED <<rousgVars, ousgVars>> PROVE GatesHold
  BY <1>3, LedgersStay DEF rousgVars, ousgVars, ousgLedger
<1> QED  BY <1>1, <1>2, <1>3 DEF RetrieveStep, RetrieveUSDC, RetrieveBUIDL

(* The calls to the tokens themselves. *)
LEMMA TokenStepsPassTheGates ==
  ASSUME WrapperInv, Next
  PROVE  GatesHold
BY SharesStepIsGated, ReserveStepIsGated DEF GatesHold, WrapperInv, OUSGInv

(* In the whole system, manager, wrapper, token and registries, an account *)
(* that either token has not cleared keeps what it has of that token (what *)
(* FrozenStay leaves open apart), and a paused token does not move: no     *)
(* transaction of the manager, which acts for its callers and for itself,  *)
(* finds a way around a hook.                                              *)
THEOREM ManagerPassesTheGates ==
  ManagerSpec => FrozenStay /\ PausedStay /\ OUSGFrozenStay /\ OUSGPausedStay
<1>1. ASSUME ManagerInv, ManagerNext PROVE GatesHold
  <2>1. ManagerInv => WrapperInv
    BY DEF ManagerInv
  <2>2. ASSUME UNCHANGED <<rousgVars, ousgVars>> PROVE GatesHold
    BY <2>2, LedgersStay DEF rousgVars, ousgVars, ousgLedger
  <2>3. ASSUME NEW c \in Users, ConfigStep(c) \/ USDCStep(c) PROVE GatesHold
    BY <2>2, <2>3
       DEF ConfigStep, ConfigureLimiter, SetMintFee, SetRedeemFee, SetMinimumDepositAmount,
           SetMinimumRedemptionAmount, SetMinimumBUIDLRedemptionAmount, SetManagerOracle,
           SetFeeReceiver, SetInvestorBasedRateLimiter, PauseMint, UnpauseMint, PauseRedeem,
           UnpauseRedeem, Configure, USDCStep, ApproveUSDC, GiveUSDC
  <2> QED  BY <1>1, <2>1, <2>2, <2>3, InvestorsPassTheGates, RetrievalsPassTheGates,
              TokenStepsPassTheGates DEF ManagerNext, vars
<1>2. ManagerInv /\ [ManagerNext]_allVars
        => /\ [\A a \in Address :
                 ~ Cleared(a) /\ shares'[a] # shares[a] =>
                   \E b \in Users, amt \in ROUSGAmounts : Burn(b, a, amt)]_vars
           /\ [rousgPaused => UNCHANGED rousgLedger]_vars
           /\ [\A a \in Address : ~ OUSGCleared(a) => ousgBalance'[a] = ousgBalance[a]]_ousgVars
           /\ [ousgPaused => UNCHANGED <<ousgBalance, ousgSupply>>]_ousgVars
  BY <1>1 DEF GatesHold, SharesGated, OUSGGated, allVars, vars, ousgVars
<1> QED  BY <1>2, ManagerInitInv, ManagerNextInv, PTL
         DEF ManagerSpec, FrozenStay, PausedStay, OUSGFrozenStay, OUSGPausedStay

(* The money that moves with a payment or a redemption of u is his, or a   *)
(* receiver's.                                                             *)
LEMMA OthersKeepTheirUSDC ==
  ASSUME ManagerInv, NEW u \in Users, NEW v \in Users, v # u, v # config.feeReceiver
  PROVE  /\ \A usdc \in Requests : TakePayment(u, usdc) => usdcBalance'[v] = usdcBalance[v]
         /\ \A ousg, paid : PayFrom(u, ousg, paid) => usdcBalance'[v] = usdcBalance[v]
<1>1. /\ v \in Address /\ v # usdcReceiver /\ v # manager
      /\ usdcBalance \in [Address -> Nat]
  BY ManagerConstants, ManagerParts
<1>2. \A bal, from, to, n : DOMAIN bal = Address /\ v # from /\ v # to
        => /\ DOMAIN Paid(bal, from, to, n) = Address
           /\ Paid(bal, from, to, n)[v] = bal[v]
  BY <1>1 DEF Paid, Issued, Retired
<1>3. \A n : DOMAIN Issued(usdcBalance, manager, n) = Address
               /\ Issued(usdcBalance, manager, n)[v] = usdcBalance[v]
  BY <1>1 DEF Issued
<1>4. ASSUME NEW usdc \in Requests, TakePayment(u, usdc) PROVE usdcBalance'[v] = usdcBalance[v]
  BY <1>1, <1>2, <1>4 DEF TakePayment
<1>5. ASSUME NEW ousg, NEW paid, PayFrom(u, ousg, paid) PROVE usdcBalance'[v] = usdcBalance[v]
  BY <1>1, <1>2, <1>3, <1>5 DEF PayFrom
<1> QED  BY <1>4, <1>5

(* The caller passes the hooks in each of the four calls. *)
LEMMA CallersAreServed ==
  ASSUME ManagerInv, NEW u \in Users, MintStep(u) \/ RedeemStep(u)
  PROVE  Served(u)
<1> USE ManagerConstants, ManagerParts
<1>1. u \in Address /\ u # Zero /\ u # manager /\ u # rOUSG
  BY ManagerConstants, ROUSGConstants
<1>2. ASSUME NEW usdc \in Requests, Mint(u, usdc) PROVE Served(u)
  BY <1>1, <1>2 DEF Mint, IssueOUSG, CanIssueOUSG, OUSGHook, Served, rousgVars, rousgLedger
<1>3. ASSUME NEW usdc \in Requests, MintRebasingOUSG(u, usdc) PROVE Served(u)
  <2> DEFINE n == MintAmount(usdc - MintFees(usdc))
  <2>1. /\ ~ ousgPaused /\ ~ rousgPaused /\ Cleared(u)
        /\ ousgBalance' = Wrapped(Issued(ousgBalance, manager, n), n)
    BY <1>1, <1>3 DEF MintRebasingOUSG, CanIssueOUSG, OUSGHook, CanMintShares, ROUSGHook
  <2> HIDE DEF n
  <2>2. ousgBalance'[u] = ousgBalance[u]
    BY <1>1, <2>1 DEF Wrapped, Paid, Issued, Retired
  <2> QED  BY <2>1, <2>2 DEF Served
<1>4. ASSUME NEW ousg \in OUSGRedemptions, Redeem(u, ousg) PROVE Served(u)
  BY <1>1, <1>4 DEF Redeem, CanRedeem, CanPayOUSG, OUSGHook, Served, rousgVars, rousgLedger
<1>5. ASSUME NEW rousg \in ROUSGRedemptions, RedeemRebasingOUSG(u, rousg) PROVE Served(u)
  <2> DEFINE n    == GetSharesByROUSG(rousg)
             ousg == OUSGFor(n)
  <2>1. /\ CanMoveShares(manager, u, manager, n)
        /\ CanPayOUSG(rOUSG, rOUSG, manager, ousg)
        /\ ousgBalance' = Retired(Paid(ousgBalance, rOUSG, manager, ousg), manager, ousg)
    BY <1>5 DEF RedeemRebasingOUSG
  <2> HIDE DEF n, ousg
  <2>2. ~ ousgPaused /\ ~ rousgPaused /\ Cleared(u)
    BY <1>1, <2>1 DEF CanPayOUSG, OUSGHook, CanMoveShares, ROUSGHook
  <2>3. ousgBalance'[u] = ousgBalance[u]
    BY <1>1, <2>1 DEF Paid, Issued, Retired
  <2> QED  BY <2>2, <2>3 DEF Served
<1> QED  BY <1>2, <1>3, <1>4, <1>5 DEF MintStep, RedeemStep

(* Mints and redemptions move the USDC of those alone whom the tokens'     *)
(* hooks let through, though the manager itself checks no KYC.             *)
THEOREM ManagerServesTheCleared == ManagerSpec => ServesOnlyTheCleared
<1>1. ASSUME ManagerInv, InvestorStep, NEW v \in Users \ {config.feeReceiver},
             usdcBalance'[v] # usdcBalance[v]
      PROVE  Served(v)
  <2>1. PICK u \in Users : MintStep(u) \/ RedeemStep(u)
    BY <1>1 DEF InvestorStep
  <2>2. Served(u)
    BY <1>1, <2>1, CallersAreServed
  <2>3. \/ \E usdc \in Requests : TakePayment(u, usdc)
        \/ \E ousg, paid : PayFrom(u, ousg, paid)
    BY <2>1 DEF MintStep, RedeemStep, Mint, MintRebasingOUSG, Redeem, RedeemRebasingOUSG,
                PayRedemption
  <2>4. v = u
    BY <1>1, <2>3, OthersKeepTheirUSDC
  <2> QED  BY <2>2, <2>4
<1>2. ManagerInv /\ [ManagerNext]_allVars
        => [(\E u \in Users \ {config.feeReceiver} :
               usdcBalance'[u] # usdcBalance[u] /\ ~ Served(u)) => ~ InvestorStep]_allVars
  BY <1>1
<1> QED  BY <1>2, ManagerInitInv, ManagerNextInv, PTL DEF ManagerSpec, ServesOnlyTheCleared

-----------------------------------------------------------------------------
(* The rate limiter. *)

LEMMA LimiterConstants == /\ Adjustable \subseteq Side
                          /\ Limits \subseteq Nat /\ Durations \subseteq Nat
                          /\ Requests \subseteq Nat /\ MaxTime \in Nat
BY LimiterAssumption, AdjustableAssumption

(* A checked and recorded request leaves naturals behind: the subtraction  *)
(* in the check has been guarded.                                          *)
LEMMA CheckAndUpdateType ==
  ASSUME LimiterTypeOK, NEW side \in Side, NEW amt \in Nat, CheckAndUpdate(side, amt)
  PROVE  /\ current' \in [Side -> Nat] /\ lastReset' \in [Side -> Nat]
         /\ UNCHANGED <<limit, duration>>
         /\ Used(side) \in Nat
         /\ current'[side] = Used(side) + amt
         /\ current'[side] <= limit[side]
         /\ limit[side] > 0
<1>1. Used(side) \in Nat /\ WindowStart(side) \in Nat
  BY DEF LimiterTypeOK, Used, WindowStart
<1>2. current'[side] = Used(side) + amt
  BY DEF CheckAndUpdate, Update, LimiterTypeOK
<1>3. limit[side] \in Nat
  BY DEF LimiterTypeOK
<1> QED  BY <1>1, <1>2, <1>3 DEF CheckAndUpdate, Update, Admits, LimiterTypeOK

LimiterInv == LogTypeOK /\ now \in Times

LEMMA LogInitInv == LogInit => LimiterInv
<1> SUFFICES ASSUME LogInit PROVE LimiterInv
  OBVIOUS
<1>1. /\ limit \in [Side -> Limits] /\ duration \in [Side -> Durations]
      /\ current = [side \in Side |-> 0] /\ now = 0
      /\ lastReset = [side \in Side |-> now]
  BY DEF LogInit, LimiterInit
<1>2. limit \in [Side -> Nat] /\ duration \in [Side -> Nat]
  BY <1>1, LimiterConstants
<1>3. LimiterTypeOK
  BY <1>1, <1>2 DEF LimiterTypeOK
<1>4. /\ now \in Times /\ admitted \in [Side -> [Times -> Nat]]
      /\ settled \in [Side -> Times \cup {-1}]
  BY <1>1, LimiterConstants DEF LogInit, Times
<1> QED  BY <1>3, <1>4 DEF LimiterInv, LogTypeOK

LEMMA LogStepInv == LimiterInv /\ [LogNext]_logVars => LimiterInv'
<1> SUFFICES ASSUME LimiterInv, [LogNext]_logVars PROVE LimiterInv'
  OBVIOUS
<1> USE LimiterConstants DEF LimiterInv, LogTypeOK
<1>1. ASSUME NEW side \in Side, NEW amt \in Requests, Request(side, amt)
      PROVE  LimiterInv'
  <2>1. amt \in Nat
    OBVIOUS
  <2>2. /\ current' \in [Side -> Nat] /\ lastReset' \in [Side -> Nat]
        /\ UNCHANGED <<limit, duration>>
    BY <1>1, <2>1, CheckAndUpdateType DEF Request
  <2>3. admitted' \in [Side -> [Times -> Nat]]
    BY <1>1, <2>1 DEF Request
  <2> QED  BY <1>1, <2>2, <2>3 DEF Request, LimiterTypeOK
<1>2. ASSUME NEW side \in Adjustable, Reconfigure(side)
      PROVE  LimiterInv'
  BY <1>2 DEF Reconfigure, SetLimit, SetDuration, LimiterTypeOK
<1>3. CASE Tick /\ UNCHANGED <<admitted, settled>>
  BY <1>3 DEF Tick, limiterVars, LimiterTypeOK, Times
<1>4. CASE UNCHANGED logVars
  BY <1>4 DEF logVars, limiterVars, LimiterTypeOK
<1> QED  BY <1>1, <1>2, <1>3, <1>4 DEF LogNext

(* Only a request admits anything, and only on its own side. *)
LEMMA OnlyRequestsAdmit ==
  ASSUME LimiterInv, LogNext, NEW side \in Side, admitted'[side] # admitted[side]
  PROVE  \E amt \in Requests : Request(side, amt)
<1>1. PICK s \in Side, amt \in Requests : Request(s, amt)
  BY DEF LogNext, Reconfigure
<1>2. s = side
  BY <1>1 DEF Request, LimiterInv, LogTypeOK
<1> QED  BY <1>1, <1>2

(* The limiter's variables and its history are well typed. *)
THEOREM LimiterTypeCorrect == LogSpec => []LogTypeOK
<1>1. LimiterInv => LogTypeOK
  BY DEF LimiterInv
<1> QED  BY <1>1, LogInitInv, LogStepInv, PTL DEF LogSpec

(* No request is admitted that leaves its side above its limit, whatever   *)
(* the limit and the window were set to while it was open; at limit zero   *)
(* nothing is admitted at all.                                             *)
THEOREM LimitHolds == LogSpec => AdmissionWithinLimit
<1>1. LimiterInv /\ [LogNext]_logVars
        => [\A side \in Side : admitted'[side] # admitted[side] =>
              current'[side] <= limit[side] /\ limit[side] > 0]_logVars
  <2> SUFFICES ASSUME LimiterInv, LogNext, NEW side \in Side, admitted'[side] # admitted[side]
               PROVE  current'[side] <= limit[side] /\ limit[side] > 0
    OBVIOUS
  <2>1. PICK amt \in Requests : Request(side, amt)
    BY OnlyRequestsAdmit
  <2>2. amt \in Nat /\ CheckAndUpdate(side, amt)
    BY <2>1, LimiterConstants DEF Request
  <2> QED  BY <2>2, CheckAndUpdateType DEF LimiterInv, LogTypeOK
<1> QED  BY <1>1, LogInitInv, LogStepInv, PTL DEF LogSpec, AdmissionWithinLimit

-----------------------------------------------------------------------------
(* What is admitted during a span of time. *)

LEMMA SpanType ==
  ASSUME NEW f \in [Times -> Nat], NEW ts \in SUBSET Times
  PROVE  IsFiniteSet(ts) /\ Within(f, ts) \in Nat
<1>1. IsFiniteSet(Times)
  <2>1. 0 \in Int /\ MaxTime \in Int
    BY LimiterConstants
  <2> QED  BY <2>1, FS_Interval DEF Times
<1>2. IsFiniteSet(ts)
  BY <1>1, FS_Subset
<1> DEFINE part == [t \in ts |-> f[t]]
<1>3. part \in [ts -> Nat]
  OBVIOUS
<1> HIDE DEF part
<1>4. Total(part) \in Nat
  BY <1>2, <1>3, TotalOver
<1> QED  BY <1>2, <1>4 DEF Within, part

(* A quiet time adds nothing. *)
LEMMA SpanQuiet ==
  ASSUME NEW f \in [Times -> Nat], NEW ts \in SUBSET Times, \A t \in ts : f[t] = 0
  PROVE  Within(f, ts) = 0
<1> DEFINE part == [t \in ts |-> f[t]]
<1>1. \A t \in ts : 1 .. part[t] = {}
  OBVIOUS
<1>2. ts = DOMAIN part
  OBVIOUS
<1> HIDE DEF part
<1>3. \A t \in ts : Coins(part, t) = {}
  BY <1>1 DEF Coins
<1>4. AllCoins(part) = {}
  BY <1>2, <1>3 DEF AllCoins
<1> QED  BY <1>4, FS_EmptySet DEF Within, Total, part

(* Two spans that do not meet add up, and a part is at most the whole.     *)
LEMMA SpanBoth ==
  ASSUME NEW f \in [Times -> Nat], NEW A \in SUBSET Times, NEW B \in SUBSET Times, A \cap B = {}
  PROVE  Within(f, A \cup B) = Within(f, A) + Within(f, B)
<1> DEFINE both == [t \in A \cup B |-> f[t]]
           one  == [t \in A |-> f[t]]
           two  == [t \in B |-> f[t]]
<1>1. AllCoins(both) = AllCoins(one) \cup AllCoins(two) /\ AllCoins(one) \cap AllCoins(two) = {}
  <2>1. DOMAIN both = A \cup B /\ DOMAIN one = A /\ DOMAIN two = B
    OBVIOUS
  <2>2. \A t \in A : Coins(both, t) = Coins(one, t)
    BY DEF Coins
  <2>3. \A t \in B : Coins(both, t) = Coins(two, t)
    BY DEF Coins
  <2>4. \A p : (\A t \in A : p \in Coins(one, t) => p[1] = t) /\ (\A t \in B : p \in Coins(two, t) => p[1] = t)
    BY DEF Coins
  <2> HIDE DEF both, one, two
  <2>5. AllCoins(both) = AllCoins(one) \cup AllCoins(two)
    BY <2>1, <2>2, <2>3 DEF AllCoins
  <2>6. \A p \in AllCoins(one) \cap AllCoins(two) : p[1] \in A /\ p[1] \in B
    BY <2>1, <2>4 DEF AllCoins
  <2> QED  BY <2>5, <2>6
<1>2. IsFiniteSet(A) /\ IsFiniteSet(B) /\ one \in [A -> Nat] /\ two \in [B -> Nat]
  BY SpanType
<1> HIDE DEF both, one, two
<1>3. IsFiniteSet(AllCoins(one)) /\ IsFiniteSet(AllCoins(two))
      /\ Total(one) \in Nat /\ Total(two) \in Nat
  BY <1>2, TotalOver
<1>4. Cardinality(AllCoins(one) \cup AllCoins(two))
        = Cardinality(AllCoins(one)) + Cardinality(AllCoins(two))
            - Cardinality(AllCoins(one) \cap AllCoins(two))
  BY <1>3, FS_Union
<1>5. Cardinality(AllCoins(one) \cap AllCoins(two)) = 0
  BY <1>1, FS_EmptySet
<1>6. Total(both) = Total(one) + Total(two)
  BY <1>1, <1>3, <1>4, <1>5 DEF Total
<1> QED  BY <1>6 DEF Within, both, one, two

LEMMA SpanPart ==
  ASSUME NEW f \in [Times -> Nat], NEW B \in SUBSET Times, NEW A \in SUBSET B
  PROVE  Within(f, A) <= Within(f, B)
<1> DEFINE rest == B \ A
<1>1. A \in SUBSET Times /\ rest \in SUBSET Times /\ A \cap rest = {} /\ A \cup rest = B
  OBVIOUS
<1> HIDE DEF rest
<1>2. Within(f, A \cup rest) = Within(f, A) + Within(f, rest)
  BY <1>1, SpanBoth
<1>3. Within(f, A) \in Nat /\ Within(f, rest) \in Nat
  BY <1>1, SpanType
<1>4. Within(f, B) = Within(f, A) + Within(f, rest)
  BY <1>1, <1>2
<1> QED  BY <1>3, <1>4

(* What is recorded at a time counts for the spans it is in. *)
LEMMA SpanRecorded ==
  ASSUME NEW f \in [Times -> Nat], NEW ts \in SUBSET Times, NEW n \in Times, NEW amt \in Nat
  PROVE  /\ Issued(f, n, amt) \in [Times -> Nat]
         /\ Within(Issued(f, n, amt), ts) = Within(f, ts) + (IF n \in ts THEN amt ELSE 0)
<1> DEFINE before == [t \in ts |-> f[t]]
           after  == [t \in ts |-> Issued(f, n, amt)[t]]
<1>1. Issued(f, n, amt) \in [Times -> Nat]
  BY DEF Issued
<1>2. before \in [ts -> Nat] /\ IsFiniteSet(ts) /\ Within(f, ts) \in Nat
  BY SpanType
<1>3. Within(f, ts) = Total(before) /\ Within(Issued(f, n, amt), ts) = Total(after)
  BY DEF Within
<1>4. CASE n \in ts
  <2>1. after = Issued(before, n, amt)
    BY <1>4 DEF Issued
  <2> HIDE DEF before, after
  <2>2. Total(Issued(before, n, amt)) = Total(before) + amt
    BY <1>2, <1>4, TotalOverIssued
  <2> QED  BY <1>1, <1>3, <1>4, <2>1, <2>2
<1>5. CASE n \notin ts
  <2>1. after = before
    BY <1>5 DEF Issued
  <2> HIDE DEF before, after
  <2> QED  BY <1>1, <1>2, <1>3, <1>5, <2>1
<1> QED  BY <1>4, <1>5

LEMMA SpanOfTimes ==
  ASSUME NEW a \in Nat, NEW b \in Int, b <= MaxTime
  PROVE  a .. b \in SUBSET Times
BY LimiterConstants DEF Times

(* A later start and an earlier end leave no more. *)
LEMMA SpanInside ==
  ASSUME NEW f \in [Times -> Nat], NEW a \in Nat, NEW b \in Int, b <= MaxTime,
         NEW x \in Nat, NEW y \in Int, a <= x, y <= b
  PROVE  Within(f, x .. y) <= Within(f, a .. b)
<1>1. a .. b \in SUBSET Times /\ x .. y \in SUBSET a .. b
  BY SpanOfTimes
<1> QED  BY <1>1, SpanPart

LEMMA SpanSplit ==
  ASSUME NEW f \in [Times -> Nat], NEW a \in Nat, NEW b \in Nat, NEW c \in Int,
         a <= b, b <= c + 1, c <= MaxTime
  PROVE  Within(f, a .. c) = Within(f, a .. b - 1) + Within(f, b .. c)
<1> DEFINE early == a .. b - 1
           late  == b .. c
<1>1. early \in SUBSET Times /\ late \in SUBSET Times
  BY SpanOfTimes
<1>2. early \cap late = {} /\ early \cup late = a .. c
  OBVIOUS
<1>3. Within(f, early \cup late) = Within(f, early) + Within(f, late)
  <2> HIDE DEF early, late
  <2> QED  BY <1>1, <1>2, SpanBoth
<1> QED  BY <1>2, <1>3

(* The last time of a span by itself. *)
LEMMA SpanLast ==
  ASSUME NEW f \in [Times -> Nat], NEW a \in Nat, NEW m \in Nat, a <= m, m <= MaxTime
  PROVE  Within(f, a .. m) = Within(f, a .. m - 1) + Within(f, m .. m)
<1>1. \A b \in Nat, e \in Int : a <= b /\ b <= e + 1 /\ e <= MaxTime
        => Within(f, a .. e) = Within(f, a .. b - 1) + Within(f, b .. e)
  BY SpanSplit
<1>2. m \in Int /\ m <= m + 1
  OBVIOUS
<1> QED  BY <1>1, <1>2

-----------------------------------------------------------------------------
(* One side of the limiter at time n: f is its log, r its last reset, c    *)
(* what is tracked as used, s when its settings last changed, d the length *)
(* of its window and l its limit.                                          *)

(* The tracked amount against the log. *)
WindowOK(f, r, c, n) ==
  /\ r <= n
  /\ \A t \in Times : t > n => f[t] = 0
  /\ Within(f, r + 1 .. n) <= c
  /\ c <= Within(f, r .. n)

(* Where the window's own admissions under the present settings begin. *)
Opening(r, s) == IF r > s THEN r ELSE s + 1

(* Where a window's length of time that begins at t ends, as far as it has *)
(* come.                                                                   *)
SpanEnd(t, d, n) == IF t + d - 1 <= n THEN t + d - 1 ELSE n

(* Why no window's length sees more than twice the limit: under the        *)
(* present settings nothing is admitted after the open window is over, the *)
(* open window has admitted at most the limit, and so had, before it, any  *)
(* stretch that is less than a window's length from its reset.             *)
SettledOK(f, r, c, n, s, d, l) ==
  /\ \A t \in Times : t > s /\ t >= r + d => f[t] = 0
  /\ r > s => Within(f, r .. n) <= c
  /\ Within(f, Opening(r, s) .. n) <= l
  /\ \A t \in Times : t > s /\ t > r - d => Within(f, t .. r - 1) <= l
  /\ \A t \in Times : t > s /\ t <= n => Within(f, t .. SpanEnd(t, d, n)) <= 2 * l

SideOK(f, r, c, n, s, d, l) ==
  /\ s <= n
  /\ WindowOK(f, r, c, n)
  /\ d > 0 => SettledOK(f, r, c, n, s, d, l)

(* An empty span. *)
LEMMA SpanEmpty ==
  ASSUME NEW f \in [Times -> Nat], NEW a \in Int, NEW b \in Int, b < a
  PROVE  Within(f, a .. b) = 0
<1>1. a .. b = {} /\ {} \in SUBSET Times
  OBVIOUS
<1>2. Within(f, {}) = 0
  BY SpanQuiet
<1> QED  BY <1>1, <1>2

(* A side to which nothing has happened. *)
LEMMA SideBegins ==
  ASSUME NEW d \in Nat, NEW l \in Nat
  PROVE  SideOK([t \in Times |-> 0], 0, 0, 0, -1, d, l)
<1> DEFINE f == [t \in Times |-> 0]
<1>1. f \in [Times -> Nat] /\ \A t \in Times : f[t] = 0
  OBVIOUS
<1> HIDE DEF f
<1>2. \A a \in Nat, b \in Int : b <= MaxTime => Within(f, a .. b) = 0
  <2> SUFFICES ASSUME NEW a \in Nat, NEW b \in Int, b <= MaxTime PROVE Within(f, a .. b) = 0
    OBVIOUS
  <2>1. a .. b \in SUBSET Times
    BY SpanOfTimes
  <2> QED  BY <1>1, <2>1, SpanQuiet
<1>3. Within(f, 0 .. 0) = 0 /\ Within(f, 0 + 1 .. 0) = 0
  <2>1. 0 <= MaxTime /\ 0 \in Nat /\ 0 + 1 \in Nat /\ 0 \in Int /\ 0 < 0 + 1
    BY LimiterConstants
  <2>2. Within(f, 0 .. 0) = 0
    BY <1>2, <2>1
  <2>3. Within(f, 0 + 1 .. 0) = 0
    BY <1>1, SpanEmpty
  <2> QED  BY <2>2, <2>3
<1>4. WindowOK(f, 0, 0, 0)
  BY <1>1, <1>3 DEF WindowOK
<1>5. ASSUME NEW t \in Times
      PROVE  Within(f, t .. 0 - 1) <= l /\ (t <= 0 => Within(f, t .. SpanEnd(t, d, 0)) <= 2 * l)
  <2>1. t \in Nat /\ SpanEnd(t, d, 0) \in Int /\ SpanEnd(t, d, 0) <= MaxTime /\ 0 - 1 <= MaxTime
    BY LimiterConstants DEF Times, SpanEnd
  <2> QED  BY <1>2, <2>1
<1>6. SettledOK(f, 0, 0, 0, -1, d, l)
  BY <1>1, <1>3, <1>5 DEF SettledOK, Opening
<1>7. SideOK(f, 0, 0, 0, -1, d, l)
  BY <1>4, <1>6 DEF SideOK
<1> QED  BY <1>7 DEF f

(* New settings: nothing has been admitted under them yet. *)
LEMMA SideReconfigured ==
  ASSUME NEW f \in [Times -> Nat], NEW r \in Nat, NEW c \in Nat, NEW n \in Times,
         NEW d \in Nat, NEW l \in Nat, WindowOK(f, r, c, n)
  PROVE  SideOK(f, r, c, n, n, d, l)
<1>1. n \in Nat /\ r <= n /\ \A t \in Times : t \in Nat
  BY LimiterConstants DEF WindowOK, Times
<1>2. Opening(r, n) = n + 1
  BY <1>1 DEF Opening
<1>3. Within(f, n + 1 .. n) = 0
  BY <1>1, SpanEmpty
<1>4. \A t \in Times : t > n => Within(f, t .. r - 1) = 0
  BY <1>1, SpanEmpty
<1>5. \A t \in Times : t > n => f[t] = 0
  BY DEF WindowOK
<1>6. SettledOK(f, r, c, n, n, d, l)
  BY <1>1, <1>2, <1>3, <1>4, <1>5 DEF SettledOK
<1> QED  BY <1>1, <1>6 DEF SideOK

(* Time goes on: the new time is quiet. *)
LEMMA SideTicks ==
  ASSUME NEW f \in [Times -> Nat], NEW r \in Nat, NEW c \in Nat, NEW n \in Times,
         NEW s \in Times \cup {-1}, NEW d \in Nat, NEW l \in Nat,
         SideOK(f, r, c, n, s, d, l), n + 1 \in Times
  PROVE  SideOK(f, r, c, n + 1, s, d, l)
<1>1. /\ n \in Nat /\ n + 1 <= MaxTime /\ r <= n /\ s <= n /\ s \in Int /\ s + 1 \in Nat
      /\ MaxTime \in Nat /\ \A t \in Times : t \in Nat
  BY LimiterConstants DEF SideOK, WindowOK, Times
<1>2. \A a \in Nat : a <= n + 1 => Within(f, a .. n + 1) = Within(f, a .. n)
  <2> SUFFICES ASSUME NEW a \in Nat, a <= n + 1
               PROVE  Within(f, a .. n + 1) = Within(f, a .. n)
    OBVIOUS
  <2>1. n + 1 .. n + 1 \in SUBSET Times /\ \A t \in n + 1 .. n + 1 : f[t] = 0
    BY <1>1 DEF SideOK, WindowOK
  <2>2. Within(f, n + 1 .. n + 1) = 0
    BY <2>1, SpanQuiet
  <2>3. Within(f, a .. n + 1) = Within(f, a .. (n + 1) - 1) + Within(f, n + 1 .. n + 1)
    <3>1. n + 1 \in Nat /\ n + 1 <= MaxTime
      BY <1>1
    <3> QED  BY <3>1, SpanLast
  <2>4. (n + 1) - 1 = n /\ a .. n \in SUBSET Times
    <3>1. n \in Int /\ n <= MaxTime /\ (n + 1) - 1 = n
      BY <1>1
    <3> QED  BY <3>1, SpanOfTimes
  <2>5. Within(f, a .. n) \in Nat
    BY <2>4, SpanType
  <2> QED  BY <2>2, <2>3, <2>4, <2>5
<1>3. WindowOK(f, r, c, n + 1)
  BY <1>1, <1>2 DEF SideOK, WindowOK
<1>4. ASSUME d > 0, SettledOK(f, r, c, n, s, d, l)
      PROVE  SettledOK(f, r, c, n + 1, s, d, l)
  <2>1. Opening(r, s) \in Nat /\ Opening(r, s) <= n + 1
    BY <1>1 DEF Opening
  <2>2. Within(f, Opening(r, s) .. n + 1) <= l
    BY <1>2, <1>4, <2>1 DEF SettledOK
  <2>3. r > s => Within(f, r .. n + 1) <= c
    BY <1>1, <1>2, <1>4 DEF SettledOK
  <2>4. ASSUME NEW t \in Times, t > s, t <= n
        PROVE  Within(f, t .. SpanEnd(t, d, n + 1)) <= 2 * l
    <3>1. Within(f, t .. SpanEnd(t, d, n)) <= 2 * l
      BY <1>4, <2>4 DEF SettledOK
    <3>2. t + d - 1 <= n => SpanEnd(t, d, n + 1) = SpanEnd(t, d, n)
      BY <1>1 DEF SpanEnd
    <3>3. ~(t + d - 1 <= n) => SpanEnd(t, d, n + 1) = n + 1 /\ SpanEnd(t, d, n) = n
      BY <1>1 DEF SpanEnd
    <3>4. Within(f, t .. n + 1) = Within(f, t .. n)
      BY <1>1, <1>2, <2>4
    <3> QED  BY <3>1, <3>2, <3>3, <3>4
  <2>5. Within(f, n + 1 .. SpanEnd(n + 1, d, n + 1)) <= 2 * l
    <3>1. SpanEnd(n + 1, d, n + 1) = n + 1
      BY <1>1, <1>4 DEF SpanEnd
    <3>2. Within(f, n + 1 .. n + 1) = Within(f, n + 1 .. n)
      <4>1. n + 1 \in Nat /\ n + 1 <= n + 1
        BY <1>1
      <4> QED  BY <1>2, <4>1
    <3>3. Within(f, n + 1 .. n) = 0
      BY <1>1, SpanEmpty
    <3>4. Within(f, n + 1 .. SpanEnd(n + 1, d, n + 1)) = 0
      BY <3>1, <3>2, <3>3
    <3> QED  BY <3>4
  <2>6. \A t \in Times : t <= n + 1 => t <= n \/ t = n + 1
    BY <1>1
  <2>7. \A t \in Times : t > s /\ t <= n + 1 => Within(f, t .. SpanEnd(t, d, n + 1)) <= 2 * l
    BY <2>4, <2>5, <2>6
  <2> QED  BY <1>4, <2>2, <2>3, <2>7 DEF SettledOK
<1> QED  BY <1>1, <1>3, <1>4 DEF SideOK

(* A request while the window is open adds to what is used. *)
LEMMA SideAdmits ==
  ASSUME NEW f \in [Times -> Nat], NEW r \in Nat, NEW c \in Nat, NEW n \in Times,
         NEW s \in Times \cup {-1}, NEW d \in Nat, NEW l \in Nat, NEW amt \in Nat,
         SideOK(f, r, c, n, s, d, l), n < r + d, c + amt <= l
  PROVE  SideOK(Issued(f, n, amt), r, c + amt, n, s, d, l)
<1> DEFINE g == Issued(f, n, amt)
<1>1. /\ n \in Nat /\ n <= MaxTime /\ r <= n /\ s <= n /\ s \in Int /\ s + 1 \in Nat
      /\ MaxTime \in Nat /\ \A t \in Times : t \in Nat /\ t <= MaxTime
  BY LimiterConstants DEF SideOK, WindowOK, Times
<1>2. g \in [Times -> Nat] /\ \A t \in Times \ {n} : g[t] = f[t]
  BY DEF Issued
<1>3. \A ts \in SUBSET Times : n \notin ts => Within(g, ts) = Within(f, ts)
  <2> SUFFICES ASSUME NEW ts \in SUBSET Times, n \notin ts PROVE Within(g, ts) = Within(f, ts)
    OBVIOUS
  <2>1. Within(f, ts) \in Nat
    BY SpanType
  <2> QED  BY <2>1, SpanRecorded
<1>4. \A ts \in SUBSET Times : n \in ts => Within(g, ts) = Within(f, ts) + amt
  BY SpanRecorded
<1>5. \A a \in Nat, b \in Int : b <= MaxTime =>
        a .. b \in SUBSET Times /\ Within(f, a .. b) \in Nat /\ Within(g, a .. b) \in Nat
  BY <1>2, SpanOfTimes, SpanType
<1> HIDE DEF g
<1>6. Within(g, r + 1 .. n) <= c + amt
  <2>1. r + 1 \in Nat /\ n \in Int
    BY <1>1
  <2>2. r + 1 .. n \in SUBSET Times /\ Within(f, r + 1 .. n) \in Nat
    BY <1>1, <1>5, <2>1
  <2>3. Within(f, r + 1 .. n) <= c
    BY DEF SideOK, WindowOK
  <2>4. Within(g, r + 1 .. n) = Within(f, r + 1 .. n) \/ Within(g, r + 1 .. n) = Within(f, r + 1 .. n) + amt
    BY <1>3, <1>4, <2>2
  <2> QED  BY <2>2, <2>3, <2>4
<1>7. Within(g, r .. n) = Within(f, r .. n) + amt /\ Within(f, r .. n) \in Nat
  <2>1. r .. n \in SUBSET Times /\ n \in r .. n /\ Within(f, r .. n) \in Nat
    BY <1>1, <1>5
  <2> QED  BY <1>4, <2>1
<1>8. WindowOK(g, r, c + amt, n)
  <2>1. \A t \in Times : t > n => g[t] = 0
    BY <1>1, <1>2 DEF SideOK, WindowOK
  <2>2. c <= Within(f, r .. n)
    BY DEF SideOK, WindowOK
  <2>3. c + amt <= Within(g, r .. n)
    BY <1>7, <2>2
  <2> QED  BY <1>1, <1>6, <2>1, <2>3 DEF WindowOK
<1>9. ASSUME d > 0 PROVE SettledOK(g, r, c + amt, n, s, d, l)
  <2>0. SettledOK(f, r, c, n, s, d, l)
    BY <1>9 DEF SideOK
  <2>1. \A t \in Times : t > s /\ t >= r + d => g[t] = 0
    BY <1>1, <1>2, <2>0 DEF SettledOK
  <2>2. r > s => Within(g, r .. n) <= c + amt
    <3>1. r > s => Within(f, r .. n) <= c
      BY <2>0 DEF SettledOK
    <3> QED  BY <1>7, <3>1
  <2>3. Within(g, Opening(r, s) .. n) <= l
    <3>1. r > s => Opening(r, s) = r
      BY DEF Opening
    <3>2. ~(r > s) => Opening(r, s) = s + 1 /\ s + 1 \in Nat /\ r + 1 <= s + 1
      BY <1>1 DEF Opening
    <3>3. ~(r > s) => Within(g, s + 1 .. n) <= Within(g, r + 1 .. n)
      <4>1. r + 1 \in Nat /\ n \in Int /\ n <= n
        BY <1>1
      <4> QED  BY <1>1, <1>2, <3>2, <4>1, SpanInside
    <3>4. ~(r > s) => Within(g, s + 1 .. n) \in Nat /\ Within(g, r + 1 .. n) \in Nat
      <4>1. r + 1 \in Nat /\ n \in Int
        BY <1>1
      <4> QED  BY <1>1, <1>5, <3>2, <4>1
    <3> QED  BY <1>6, <1>7, <2>2, <3>1, <3>2, <3>3, <3>4
  <2>4. \A t \in Times : t > s /\ t > r - d => Within(g, t .. r - 1) <= l
    <3> SUFFICES ASSUME NEW t \in Times, t > s, t > r - d PROVE Within(g, t .. r - 1) <= l
      OBVIOUS
    <3>1. t \in Nat /\ r - 1 \in Int /\ r - 1 <= MaxTime /\ n \notin t .. r - 1
      BY <1>1
    <3>2. t .. r - 1 \in SUBSET Times
      BY <1>5, <3>1
    <3>3. Within(g, t .. r - 1) = Within(f, t .. r - 1)
      BY <1>3, <3>1, <3>2
    <3> QED  BY <2>0, <3>3 DEF SettledOK
  <2>5. \A t \in Times : t > s /\ t <= n => Within(g, t .. SpanEnd(t, d, n)) <= 2 * l
    <3> SUFFICES ASSUME NEW t \in Times, t > s, t <= n
                 PROVE  Within(g, t .. SpanEnd(t, d, n)) <= 2 * l
      OBVIOUS
    <3> DEFINE e == SpanEnd(t, d, n)
    <3>1. t \in Nat /\ e \in Int /\ e <= n /\ e <= t + d - 1 /\ e <= MaxTime
      BY <1>1 DEF SpanEnd
    <3>2. Within(f, t .. e) <= 2 * l
      BY <2>0 DEF SettledOK
    <3> HIDE DEF e
    <3>3. t .. e \in SUBSET Times /\ Within(g, t .. e) \in Nat
      BY <1>5, <3>1
    <3>4. CASE e < r
      <4>1. n \notin t .. e
        BY <1>1, <3>1, <3>4
      <4>2. Within(g, t .. e) = Within(f, t .. e)
        BY <1>3, <3>3, <4>1
      <4> QED  BY <3>2, <4>2 DEF e
    <3>5. ASSUME r <= t PROVE Within(g, t .. e) <= 2 * l
      <4>1. Opening(r, s) \in Nat /\ Opening(r, s) <= t /\ n \in Int
        BY <1>1, <3>1, <3>5 DEF Opening
      <4>2. Within(g, t .. e) <= Within(g, Opening(r, s) .. n)
        BY <1>1, <1>2, <3>1, <4>1, SpanInside
      <4>3. Within(g, Opening(r, s) .. n) \in Nat
        BY <1>1, <1>5, <4>1
      <4> QED  BY <2>3, <3>3, <4>2, <4>3
    <3>6. ASSUME t < r, r <= e PROVE Within(g, t .. e) <= 2 * l
      <4>1. t > r - d /\ r > s
        BY <1>1, <3>1, <3>6
      <4>2. Within(g, t .. r - 1) <= l
        BY <2>4, <3>6, <4>1
      <4>3. Within(g, r .. n) <= l
        BY <2>3, <4>1 DEF Opening
      <4>4. Within(g, r .. e) <= Within(g, r .. n)
        <5>1. n \in Int /\ r <= r
          BY <1>1
        <5> QED  BY <1>1, <1>2, <3>1, <5>1, SpanInside
      <4>5. Within(g, t .. e) = Within(g, t .. r - 1) + Within(g, r .. e)
        <5>1. t \in Nat /\ r \in Nat /\ e \in Int /\ t <= r /\ r <= e + 1 /\ e <= MaxTime
          BY <1>1, <3>1, <3>6
        <5> QED  BY ONLY <1>2, <5>1, SpanSplit
      <4>6. Within(g, t .. r - 1) \in Nat /\ Within(g, r .. e) \in Nat /\ Within(g, r .. n) \in Nat
        <5>1. r - 1 \in Int /\ r - 1 <= MaxTime /\ n \in Int
          BY <1>1
        <5> QED  BY <1>1, <1>5, <3>1, <5>1
      <4> QED  BY <4>2, <4>3, <4>4, <4>5, <4>6
    <3> QED  BY <1>1, <3>1, <3>4, <3>5, <3>6 DEF e
  <2> QED  BY <2>1, <2>2, <2>3, <2>4, <2>5 DEF SettledOK
<1>10. SideOK(g, r, c + amt, n, s, d, l)
  BY <1>1, <1>8, <1>9 DEF SideOK
<1> QED  BY <1>10 DEF g

(* A request that finds the window over begins a new one. *)
LEMMA SideBeginsAgain ==
  ASSUME NEW f \in [Times -> Nat], NEW r \in Nat, NEW c \in Nat, NEW n \in Times,
         NEW s \in Times \cup {-1}, NEW d \in Nat, NEW l \in Nat, NEW amt \in Nat,
         SideOK(f, r, c, n, s, d, l), n >= r + d, amt <= l
  PROVE  SideOK(Issued(f, n, amt), n, amt, n, s, d, l)
<1> DEFINE g == Issued(f, n, amt)
<1>1. /\ n \in Nat /\ n \in Int /\ n <= MaxTime /\ r <= n /\ s <= n /\ s \in Int /\ s + 1 \in Nat
      /\ MaxTime \in Nat /\ \A t \in Times : t \in Nat /\ t <= MaxTime
  BY LimiterConstants DEF SideOK, WindowOK, Times
<1>2. g \in [Times -> Nat] /\ \A t \in Times \ {n} : g[t] = f[t]
  BY DEF Issued
<1>3. \A ts \in SUBSET Times : n \notin ts => Within(g, ts) = Within(f, ts)
  <2> SUFFICES ASSUME NEW ts \in SUBSET Times, n \notin ts PROVE Within(g, ts) = Within(f, ts)
    OBVIOUS
  <2>1. Within(f, ts) \in Nat
    BY SpanType
  <2> QED  BY <2>1, SpanRecorded
<1>4. \A ts \in SUBSET Times : n \in ts => Within(g, ts) = Within(f, ts) + amt
  BY SpanRecorded
<1>5. \A a \in Nat, b \in Int : b <= MaxTime =>
        a .. b \in SUBSET Times /\ Within(f, a .. b) \in Nat /\ Within(g, a .. b) \in Nat
  BY <1>2, SpanOfTimes, SpanType
<1> HIDE DEF g
<1>6. Within(g, n .. n) = Within(f, n .. n) + amt /\ Within(f, n .. n) \in Nat
  <2>1. \A a \in Nat : a .. n \in SUBSET Times /\ Within(f, a .. n) \in Nat
    BY <1>1, <1>5
  <2>2. n .. n \in SUBSET Times /\ Within(f, n .. n) \in Nat
    <3> HIDE DEF g
    <3>1. ASSUME NEW a \in Nat, a = n
          PROVE  a .. n \in SUBSET Times /\ Within(f, a .. n) \in Nat
      BY <2>1, <3>1
    <3> QED  BY <1>1, <3>1
  <2>3. n \in n .. n
    BY <1>1
  <2> QED  BY <1>4, <2>2, <2>3
<1>7. Within(g, n + 1 .. n) = 0
  BY <1>1, <1>2, SpanEmpty
<1>8. WindowOK(g, n, amt, n)
  <2>1. \A t \in Times : t > n => g[t] = 0
    BY <1>1, <1>2 DEF SideOK, WindowOK
  <2> QED  BY <1>1, <1>6, <1>7, <2>1 DEF WindowOK
<1>9. ASSUME d > 0 PROVE SettledOK(g, n, amt, n, s, d, l)
  <2>0. SettledOK(f, r, c, n, s, d, l)
    BY <1>9 DEF SideOK
  <2>1. \A t \in Times : t > s /\ t >= n + d => g[t] = 0
    <3> SUFFICES ASSUME NEW t \in Times, t > s, t >= n + d PROVE g[t] = 0
      OBVIOUS
    <3>1. t # n /\ t >= r + d
      BY <1>1, <1>9
    <3> QED  BY <1>2, <2>0, <3>1 DEF SettledOK
  <2>2. n > s => Within(g, n .. n) = amt
    <3> SUFFICES ASSUME n > s PROVE Within(g, n .. n) = amt
      OBVIOUS
    <3>1. f[n] = 0
      BY <2>0 DEF SettledOK
    <3>2. n .. n = {n}
      BY <1>1
    <3>3. n .. n \in SUBSET Times /\ \A t \in n .. n : f[t] = 0
      BY <3>1, <3>2
    <3>4. Within(f, n .. n) = 0
      BY <3>3, SpanQuiet
    <3> QED  BY <1>6, <3>4
  <2>3. Within(g, Opening(n, s) .. n) <= l
    <3>1. ~(n > s) => Opening(n, s) = n + 1
      BY <1>1 DEF Opening
    <3>2. n > s => Opening(n, s) = n
      BY DEF Opening
    <3>3. ~(n > s) => Within(g, Opening(n, s) .. n) = 0
      BY <1>7, <3>1
    <3>4. n > s => Within(g, Opening(n, s) .. n) = amt
      BY <2>2, <3>2
    <3> QED  BY <3>3, <3>4
  <2>4. \A t \in Times : t > s /\ t > n - d => Within(g, t .. n - 1) <= l
    <3> SUFFICES ASSUME NEW t \in Times, t > s, t > n - d PROVE Within(g, t .. n - 1) <= l
      OBVIOUS
    <3>1. t \in Nat /\ n - 1 \in Int /\ n - 1 <= MaxTime /\ n \notin t .. n - 1 /\ n - 1 <= n
      BY <1>1
    <3>2. Opening(r, s) \in Nat /\ Opening(r, s) <= t
      BY <1>1, <3>1 DEF Opening
    <3>3. Within(f, t .. n - 1) <= Within(f, Opening(r, s) .. n)
      BY <1>1, <3>1, <3>2, SpanInside
    <3>4. Within(f, Opening(r, s) .. n) <= l
      BY <2>0 DEF SettledOK
    <3>5. /\ t .. n - 1 \in SUBSET Times /\ Within(f, t .. n - 1) \in Nat
          /\ Within(f, Opening(r, s) .. n) \in Nat
      BY <1>1, <1>5, <3>1, <3>2
    <3>6. Within(g, t .. n - 1) = Within(f, t .. n - 1)
      BY <1>3, <3>1, <3>5
    <3> QED  BY <3>3, <3>4, <3>5, <3>6
  <2>5. \A t \in Times : t > s /\ t <= n => Within(g, t .. SpanEnd(t, d, n)) <= 2 * l
    <3> SUFFICES ASSUME NEW t \in Times, t > s, t <= n
                 PROVE  Within(g, t .. SpanEnd(t, d, n)) <= 2 * l
      OBVIOUS
    <3> DEFINE e == SpanEnd(t, d, n)
    <3>1. t \in Nat /\ e \in Int /\ e <= n /\ e <= t + d - 1 /\ e <= MaxTime
      BY <1>1 DEF SpanEnd
    <3>2. Within(f, t .. e) <= 2 * l
      BY <2>0 DEF SettledOK
    <3> HIDE DEF e
    <3>3. t .. e \in SUBSET Times
      BY <1>5, <3>1
    <3>4. CASE e < n
      <4>1. n \notin t .. e
        BY <1>1, <3>1, <3>4
      <4>2. Within(g, t .. e) = Within(f, t .. e)
        BY <1>3, <3>3, <4>1
      <4> QED  BY <3>2, <4>2 DEF e
    <3>5. ASSUME e = n PROVE Within(g, t .. e) <= 2 * l
      <4>1. t > n - d /\ n > s
        BY <1>1, <3>1, <3>5
      <4>2. Within(g, t .. n - 1) <= l
        BY <2>4, <4>1
      <4>3. Within(g, n .. n) = amt
        BY <2>2, <4>1
      <4>4. Within(g, t .. n) = Within(g, t .. n - 1) + Within(g, n .. n)
        BY <1>1, <1>2, <3>1, SpanLast
      <4>5. Within(g, t .. n - 1) \in Nat
        <5>1. n - 1 \in Int /\ n - 1 <= MaxTime
          BY <1>1
        <5> QED  BY <1>5, <3>1, <5>1
      <4> QED  BY <3>5, <4>2, <4>3, <4>4, <4>5
    <3> QED  BY <1>1, <3>1, <3>4, <3>5 DEF e
  <2>6. n > s => Within(g, n .. n) <= amt
    BY <2>2
  <2> QED  BY <2>1, <2>3, <2>4, <2>5, <2>6 DEF SettledOK
<1>10. SideOK(g, n, amt, n, s, d, l)
  BY <1>1, <1>8, <1>9 DEF SideOK
<1> QED  BY <1>10 DEF g

-----------------------------------------------------------------------------
(* Each side of the limiter, as it stands. *)
SidesOK == \A side \in Side :
  SideOK(admitted[side], lastReset[side], current[side], now,
         settled[side], duration[side], limit[side])

WindowInv == LimiterInv /\ SidesOK

LEMMA SideTypes ==
  ASSUME LimiterInv, NEW side \in Side
  PROVE  /\ admitted[side] \in [Times -> Nat] /\ lastReset[side] \in Nat
         /\ current[side] \in Nat /\ now \in Times /\ settled[side] \in Times \cup {-1}
         /\ duration[side] \in Nat /\ limit[side] \in Nat
BY DEF LimiterInv, LogTypeOK, LimiterTypeOK

LEMMA WindowInitInv == LogInit => WindowInv
<1> SUFFICES ASSUME LogInit PROVE WindowInv
  OBVIOUS
<1>1. LimiterInv
  BY LogInitInv
<1>2. ASSUME NEW side \in Side
      PROVE  SideOK(admitted[side], lastReset[side], current[side], now,
                    settled[side], duration[side], limit[side])
  <2>1. /\ admitted[side] = [t \in Times |-> 0] /\ lastReset[side] = 0 /\ current[side] = 0
        /\ now = 0 /\ settled[side] = -1
    BY DEF LogInit, LimiterInit
  <2>2. duration[side] \in Nat /\ limit[side] \in Nat
    BY <1>1, SideTypes
  <2>3. SideOK([t \in Times |-> 0], 0, 0, 0, -1, duration[side], limit[side])
    BY <2>2, SideBegins
  <2> QED  BY <2>1, <2>3
<1> QED  BY <1>1, <1>2 DEF WindowInv, SidesOK

(* A request, on the side it is made to. *)
LEMMA RequestKeepsItsSide ==
  ASSUME WindowInv, NEW side \in Side, NEW amt \in Nat, Request(side, amt)
  PROVE  SideOK(Issued(admitted[side], now, amt),
                WindowStart(side), Used(side) + amt, now,
                settled[side], duration[side], limit[side])
<1>1. LimiterInv /\ SideOK(admitted[side], lastReset[side], current[side], now,
                           settled[side], duration[side], limit[side])
  BY DEF WindowInv, SidesOK
<1>2. /\ admitted[side] \in [Times -> Nat] /\ lastReset[side] \in Nat
      /\ current[side] \in Nat /\ now \in Times /\ settled[side] \in Times \cup {-1}
      /\ duration[side] \in Nat /\ limit[side] \in Nat
  BY <1>1, SideTypes
<1>3. Used(side) \in Nat /\ Used(side) + amt <= limit[side]
  BY <1>2 DEF Request, CheckAndUpdate, Admits, Used
<1>4. now \in Nat
  BY <1>2 DEF Times
<1>5. CASE Expired(side)
  <2>1. now >= lastReset[side] + duration[side] /\ amt <= limit[side]
        /\ WindowStart(side) = now /\ Used(side) + amt = amt
    BY <1>3, <1>5 DEF Expired, Used, WindowStart
  <2>2. SideOK(Issued(admitted[side], now, amt), now, amt, now,
               settled[side], duration[side], limit[side])
    BY <1>1, <1>2, <2>1, SideBeginsAgain
  <2> QED  BY <2>1, <2>2
<1>6. CASE ~Expired(side)
  <2>1. now < lastReset[side] + duration[side]
        /\ WindowStart(side) = lastReset[side] /\ Used(side) = current[side]
    BY <1>2, <1>4, <1>6 DEF Expired, Used, WindowStart
  <2>2. SideOK(Issued(admitted[side], now, amt), lastReset[side], current[side] + amt, now,
               settled[side], duration[side], limit[side])
    BY <1>1, <1>2, <1>3, <2>1, SideAdmits
  <2> QED  BY <2>1, <2>2
<1> QED  BY <1>5, <1>6

LEMMA WindowStepInv == WindowInv /\ [LogNext]_logVars => WindowInv'
<1> SUFFICES ASSUME WindowInv, [LogNext]_logVars PROVE WindowInv'
  OBVIOUS
<1>1. LimiterInv /\ LimiterInv'
  BY LogStepInv DEF WindowInv
<1> SUFFICES ASSUME NEW s \in Side
             PROVE  SideOK(admitted'[s], lastReset'[s], current'[s], now',
                           settled'[s], duration'[s], limit'[s])
  BY <1>1 DEF WindowInv, SidesOK
<1> DEFINE Goal == SideOK(admitted'[s], lastReset'[s], current'[s], now',
                          settled'[s], duration'[s], limit'[s])
<1>2. SideOK(admitted[s], lastReset[s], current[s], now, settled[s], duration[s], limit[s])
  BY DEF WindowInv, SidesOK
<1>3. /\ admitted[s] \in [Times -> Nat] /\ lastReset[s] \in Nat
      /\ current[s] \in Nat /\ now \in Times /\ settled[s] \in Times \cup {-1}
      /\ duration[s] \in Nat /\ limit[s] \in Nat
  BY <1>1, SideTypes
<1>4. ASSUME NEW side \in Side, NEW amt \in Requests, Request(side, amt) PROVE Goal
  <2>1. amt \in Nat /\ admitted \in [Side -> [Times -> Nat]]
        /\ current \in [Side -> Nat] /\ lastReset \in [Side -> Nat]
    BY <1>1, LimiterConstants DEF LimiterInv, LogTypeOK, LimiterTypeOK
  <2>2. /\ UNCHANGED <<limit, duration, now, settled>>
        /\ current' = [current EXCEPT ![side] = Used(side) + amt]
        /\ lastReset' = [lastReset EXCEPT ![side] = WindowStart(side)]
        /\ admitted' = [admitted EXCEPT ![side][now] = @ + amt]
    BY <1>4 DEF Request, CheckAndUpdate, Update
  <2>3. ASSUME s # side PROVE Goal
    <3>1. admitted'[s] = admitted[s] /\ current'[s] = current[s] /\ lastReset'[s] = lastReset[s]
      BY <2>1, <2>2, <2>3
    <3> QED  BY <1>2, <2>2, <3>1
  <2>4. ASSUME s = side PROVE Goal
    <3>1. admitted'[s] = Issued(admitted[s], now, amt)
      BY <2>1, <2>2, <2>4 DEF Issued
    <3>2. current'[s] = Used(s) + amt /\ lastReset'[s] = WindowStart(s)
      BY <2>1, <2>2, <2>4
    <3>3. SideOK(Issued(admitted[s], now, amt), WindowStart(s), Used(s) + amt, now,
                 settled[s], duration[s], limit[s])
      BY <1>4, <2>1, <2>4, RequestKeepsItsSide
    <3> QED  BY <2>2, <3>1, <3>2, <3>3
  <2> QED  BY <2>3, <2>4
<1>5. ASSUME NEW side \in Adjustable, Reconfigure(side) PROVE Goal
  <2>1. UNCHANGED <<now, admitted, current, lastReset>>
        /\ settled' = [settled EXCEPT ![side] = now]
    BY <1>5 DEF Reconfigure, SetLimit, SetDuration
  <2>2. settled \in [Side -> Times \cup {-1}] /\ side \in Side
    BY <1>1, LimiterConstants DEF LimiterInv, LogTypeOK
  <2>3. s # side => duration'[s] = duration[s] /\ limit'[s] = limit[s] /\ settled'[s] = settled[s]
    BY <1>1, <1>5, <2>1, <2>2 DEF Reconfigure, SetLimit, SetDuration, LimiterInv, LogTypeOK, LimiterTypeOK
  <2>4. ASSUME s = side PROVE Goal
    <3>1. settled'[s] = now
      BY <2>1, <2>2, <2>4
    <3>2. duration'[s] \in Nat /\ limit'[s] \in Nat
      BY <1>1 DEF LimiterInv, LogTypeOK, LimiterTypeOK
    <3>3. WindowOK(admitted[s], lastReset[s], current[s], now)
      BY <1>2 DEF SideOK
    <3>4. SideOK(admitted[s], lastReset[s], current[s], now, now, duration'[s], limit'[s])
      BY <1>3, <3>2, <3>3, SideReconfigured
    <3> QED  BY <2>1, <3>1, <3>4
  <2> QED  BY <1>2, <2>1, <2>3, <2>4
<1>6. ASSUME Tick, UNCHANGED <<admitted, settled>> PROVE Goal
  <2>1. now' = now + 1 /\ now + 1 \in Times /\ UNCHANGED <<limit, current, lastReset, duration>>
    BY <1>3, <1>6, LimiterConstants DEF Tick, limiterVars, Times
  <2>2. SideOK(admitted[s], lastReset[s], current[s], now + 1, settled[s], duration[s], limit[s])
    BY <1>2, <1>3, <2>1, SideTicks
  <2> QED  BY <1>6, <2>1, <2>2
<1>7. UNCHANGED logVars => Goal
  BY <1>2 DEF logVars, limiterVars
<1> QED  BY <1>4, <1>5, <1>6, <1>7 DEF LogNext

LEMMA WindowInvMatches == WindowInv => CurrentMatchesLog
BY DEF WindowInv, SidesOK, SideOK, WindowOK, CurrentMatchesLog, AdmittedDuring, Within

LEMMA WindowInvBounds == WindowInv => TwiceTheLimitInAnyWindow
<1> SUFFICES ASSUME WindowInv, NEW side \in Side, NEW t \in settled[side] + 1 .. now,
                    duration[side] > 0
             PROVE  AdmittedDuring(side, t .. SpanEnd(t, duration[side], now)) <= 2 * limit[side]
  BY DEF TwiceTheLimitInAnyWindow, SpanEnd
<1>1. LimiterInv /\ SettledOK(admitted[side], lastReset[side], current[side], now,
                              settled[side], duration[side], limit[side])
  BY DEF WindowInv, SidesOK, SideOK
<1>2. now \in Times /\ settled[side] \in Times \cup {-1}
  BY <1>1, SideTypes
<1>3. t \in Times /\ t > settled[side] /\ t <= now
  BY <1>2, LimiterConstants DEF Times
<1>4. Within(admitted[side], t .. SpanEnd(t, duration[side], now)) <= 2 * limit[side]
  BY <1>1, <1>3 DEF SettledOK
<1> QED  BY <1>4 DEF AdmittedDuring, Within

(* What a side tracks as used is what it admitted since its last reset, up *)
(* to what fell on the reset's own timestamp: nothing admitted later is    *)
(* forgotten and nothing that was not admitted is counted.                 *)
THEOREM LimiterMatchesItsLog == LogSpec => []CurrentMatchesLog
BY WindowInitInv, WindowStepInv, WindowInvMatches, PTL DEF LogSpec

(* Under unchanged settings no stretch of time as long as a window sees    *)
(* more than twice the limit, wherever it lies.                            *)
THEOREM LimiterTwiceTheLimit == LogSpec => []TwiceTheLimitInAnyWindow
BY WindowInitInv, WindowStepInv, WindowInvBounds, PTL DEF LogSpec

(* A sliding window counts at least what the limiter does: an open window  *)
(* lies within its own length up to now, and one that is over counts       *)
(* nothing.                                                                *)
LEMMA UsedIsRecent ==
  ASSUME WindowInv, NEW side \in Side
  PROVE  /\ Used(side) \in Nat /\ AdmittedDuring(side, Recent(side)) \in Nat
         /\ Used(side) <= AdmittedDuring(side, Recent(side))
<1> DEFINE f == admitted[side]
           r == lastReset[side]
           c == current[side]
           d == duration[side]
<1>1. /\ f \in [Times -> Nat] /\ r \in Nat /\ c \in Nat /\ now \in Times /\ d \in Nat
      /\ WindowOK(f, r, c, now)
  BY SideTypes DEF WindowInv, SidesOK, SideOK
<1>2. now \in Nat /\ now <= MaxTime
  BY <1>1, LimiterConstants DEF Times
<1>3. Recent(side) \in SUBSET Times
  <2>1. Recent(side) \in SUBSET (0 .. now)
    BY DEF Recent
  <2>2. 0 .. now \in SUBSET Times
    BY <1>2, LimiterConstants DEF Times
  <2> QED  BY <2>1, <2>2
<1>4. AdmittedDuring(side, Recent(side)) = Within(f, Recent(side))
  BY DEF AdmittedDuring, Within
<1>5. Within(f, Recent(side)) \in Nat
  <2> HIDE DEF f
  <2> QED  BY <1>1, <1>3, SpanType
<1>6. Used(side) = IF now >= r + d THEN 0 ELSE c
  BY DEF Used, Expired
<1>7. CASE now >= r + d
  <2>1. Used(side) = 0
    BY <1>6, <1>7
  <2> QED  BY <1>4, <1>5, <2>1
<1>8. CASE ~(now >= r + d)
  <2>1. r .. now \in SUBSET Recent(side)
    <3>1. \A t \in r .. now : t \in 0 .. now /\ t > now - d
      BY <1>1, <1>2, <1>8
    <3> QED  BY <3>1 DEF Recent
  <2>2. c <= Within(f, r .. now)
    BY <1>1 DEF WindowOK
  <2>3. Used(side) = c
    BY <1>6, <1>8
  <2> HIDE DEF f, r, c
  <2>4. Within(f, r .. now) <= Within(f, Recent(side)) /\ Within(f, r .. now) \in Nat
    <3>1. r .. now \in SUBSET Times
      BY <1>3, <2>1
    <3> QED  BY <1>1, <1>3, <2>1, <3>1, SpanPart, SpanType
  <2> QED  BY <1>1, <1>4, <1>5, <2>2, <2>3, <2>4
<1> QED  BY <1>7, <1>8

(* The limiter never refuses what a sliding window of the same length and  *)
(* limit would admit, whatever the settings were before.                   *)
THEOREM LimiterNeverStricter == LogSpec => []NeverStricterThanSliding
<1>1. WindowInv => NeverStricterThanSliding
  <2> SUFFICES ASSUME WindowInv, NEW side \in Side, NEW amt \in 1 .. limit[side],
                      AdmittedDuring(side, Recent(side)) + amt <= limit[side]
               PROVE  Admits(side, amt)
    BY DEF NeverStricterThanSliding
  <2>1. limit[side] \in Nat /\ amt \in Nat /\ amt > 0
    BY SideTypes DEF WindowInv
  <2>2. Used(side) + amt <= limit[side] /\ Used(side) \in Nat
    BY <2>1, UsedIsRecent
  <2> QED  BY <2>1, <2>2 DEF Admits
<1> QED  BY <1>1, WindowInitInv, WindowStepInv, PTL DEF LogSpec

=============================================================================
