----------------------------- MODULE OUSGProofs -----------------------------
(***************************************************************************)
(* What the OUSG token keeps true, for any accounts, roles, registries and *)
(* amounts: its types, its supply, and what a pause or a missing KYC entry *)
(* freezes.                                                                *)
(*                                                                         *)
(* The lemmas take each external function by itself and any address as its *)
(* caller, so that the contracts that call the token can use them.         *)
(***************************************************************************)
EXTENDS OUSG, LedgerLemmas

(* The token's ledger and its running total. *)
OUSGBooks == /\ ousgBalance \in [Address -> Nat]
             /\ ousgSupply \in Nat
             /\ OUSGSupplyIsSum

OUSGAllowanceOK == ousgAllowance \in [Address -> [Address -> 0 .. MaxUint]]

OUSGConfigOK == ousgPaused \in BOOLEAN /\ ousgRegistry \in Registry /\ ousgGroup \in Group

OUSGInv == OUSGBooks /\ OUSGAllowanceOK /\ OUSGConfigOK /\ KYCTypeOK

(* The writes of _transfer, _mint and _burn. *)
LEMMA PayOUSGBooks ==
  ASSUME OUSGBooks, NEW caller, NEW from \in Address, NEW to \in Address, NEW amt \in Nat,
         PayOUSG(caller, from, to, amt)
  PROVE  OUSGBooks'
<1>1. amt \in 0 .. ousgBalance[from]
  BY DEF PayOUSG, CanPayOUSG, OUSGBooks
<1>2. /\ Paid(ousgBalance, from, to, amt) \in [Address -> Nat]
      /\ Total(Paid(ousgBalance, from, to, amt)) = Total(ousgBalance)
  BY <1>1, TotalPaid DEF OUSGBooks
<1> QED  BY <1>2 DEF PayOUSG, OUSGBooks, OUSGSupplyIsSum

LEMMA IssueOUSGBooks ==
  ASSUME OUSGBooks, NEW caller, NEW to \in Address, NEW amt \in Nat,
         IssueOUSG(caller, to, amt)
  PROVE  OUSGBooks'
<1>1. /\ Issued(ousgBalance, to, amt) \in [Address -> Nat]
      /\ Total(Issued(ousgBalance, to, amt)) = Total(ousgBalance) + amt
  BY TotalIssued DEF OUSGBooks
<1> QED  BY <1>1 DEF IssueOUSG, OUSGBooks, OUSGSupplyIsSum

LEMMA RetireOUSGBooks ==
  ASSUME OUSGBooks, NEW caller, NEW from \in Address, NEW amt \in Nat,
         RetireOUSG(caller, from, amt)
  PROVE  OUSGBooks'
<1>1. amt \in 0 .. ousgBalance[from]
  BY DEF RetireOUSG, CanRetireOUSG, OUSGBooks
<1>2. /\ Retired(ousgBalance, from, amt) \in [Address -> Nat]
      /\ Total(Retired(ousgBalance, from, amt)) = Total(ousgBalance) - amt
  BY <1>1, TotalRetired DEF OUSGBooks
<1>3. Total(Retired(ousgBalance, from, amt)) \in Nat
  BY <1>2, TotalType
<1> QED  BY <1>2, <1>3 DEF RetireOUSG, OUSGBooks, OUSGSupplyIsSum

(* The writes of _approve and _spendAllowance. *)
LEMMA SetOUSGAllowanceType ==
  ASSUME OUSGAllowanceOK, NEW owner \in Address, NEW spender \in Address,
         NEW amt \in 0 .. MaxUint, SetOUSGAllowance(owner, spender, amt)
  PROVE  OUSGAllowanceOK'
BY DEF SetOUSGAllowance, OUSGAllowanceOK

LEMMA SpendOUSGAllowanceType ==
  ASSUME OUSGAllowanceOK, NEW owner \in Address, NEW spender \in Address,
         NEW amt \in Nat, SpendOUSGAllowance(owner, spender, amt)
  PROVE  OUSGAllowanceOK'
<1> DEFINE current == ousgAllowance[owner][spender]
<1>1. current \in 0 .. MaxUint /\ MaxUint \in Nat
  BY OUSGAssumption DEF OUSGAllowanceOK
<1>2. CASE current = MaxUint /\ UNCHANGED ousgAllowance
  BY <1>2 DEF OUSGAllowanceOK
<1>3. CASE amt <= current /\ SetOUSGAllowance(owner, spender, current - amt)
  <2>1. current - amt \in 0 .. MaxUint
    BY <1>1, <1>3
  <2> QED  BY <1>3, <2>1, SetOUSGAllowanceType
<1> QED  BY <1>2, <1>3 DEF SpendOUSGAllowance

(* The amounts a run enumerates are natural numbers. *)
LEMMA OUSGAmountsNat == /\ OUSGAmounts \subseteq Nat
                        /\ OUSGApprovals \subseteq 0 .. MaxUint
                        /\ Users \subseteq Address
                        /\ OUSGSpenders \subseteq Address
                        /\ OUSGSeizable \subseteq Address
                        /\ MaxUint \in Nat
BY OUSGAssumption

(* Everything a holder can call keeps the ledger and the allowances. *)
LEMMA HolderKeepsOUSG ==
  ASSUME OUSGInv, NEW c \in Address, OUSGHolderStep(c)
  PROVE  OUSGBooks' /\ OUSGAllowanceOK' /\ UNCHANGED ousgConfig
<1> USE OUSGAmountsNat DEF OUSGInv
<1>1. ASSUME NEW to \in Address, NEW amt \in OUSGAmounts, OUSGTransfer(c, to, amt)
      PROVE  OUSGBooks' /\ OUSGAllowanceOK' /\ UNCHANGED ousgConfig
  BY <1>1, PayOUSGBooks DEF OUSGTransfer, OUSGAllowanceOK
<1>2. ASSUME NEW from \in Address, NEW to \in Address, NEW amt \in OUSGAmounts,
             OUSGTransferFrom(c, from, to, amt)
      PROVE  OUSGBooks' /\ OUSGAllowanceOK' /\ UNCHANGED ousgConfig
  BY <1>2, PayOUSGBooks, SpendOUSGAllowanceType DEF OUSGTransferFrom
<1>3. ASSUME NEW s \in Address, NEW amt \in 0 .. MaxUint, OUSGApprove(c, s, amt)
      PROVE  OUSGBooks' /\ OUSGAllowanceOK' /\ UNCHANGED ousgConfig
  BY <1>3, SetOUSGAllowanceType DEF OUSGApprove, OUSGBooks, OUSGSupplyIsSum
<1>4. ASSUME NEW s \in OUSGSpenders, NEW amt \in OUSGApprovals, OUSGIncreaseAllowance(c, s, amt)
      PROVE  OUSGBooks' /\ OUSGAllowanceOK' /\ UNCHANGED ousgConfig
  <2>1. ousgAllowance[c][s] + amt \in 0 .. MaxUint
    BY <1>4 DEF OUSGIncreaseAllowance, OUSGAllowanceOK
  <2> QED  BY <1>3, <1>4, <2>1 DEF OUSGIncreaseAllowance
<1>5. ASSUME NEW s \in OUSGSpenders, NEW amt \in OUSGApprovals, OUSGDecreaseAllowance(c, s, amt)
      PROVE  OUSGBooks' /\ OUSGAllowanceOK' /\ UNCHANGED ousgConfig
  <2>1. ousgAllowance[c][s] - amt \in 0 .. MaxUint
    BY <1>5 DEF OUSGDecreaseAllowance, OUSGAllowanceOK
  <2> QED  BY <1>3, <1>5, <2>1 DEF OUSGDecreaseAllowance
<1>6. ASSUME NEW amt \in OUSGAmounts, OUSGBurnOwn(c, amt)
      PROVE  OUSGBooks' /\ OUSGAllowanceOK' /\ UNCHANGED ousgConfig
  BY <1>6, RetireOUSGBooks DEF OUSGBurnOwn, OUSGAllowanceOK
<1>7. ASSUME NEW from \in Address, NEW amt \in OUSGAmounts, OUSGBurnFrom(c, from, amt)
      PROVE  OUSGBooks' /\ OUSGAllowanceOK' /\ UNCHANGED ousgConfig
  BY <1>7, RetireOUSGBooks, SpendOUSGAllowanceType DEF OUSGBurnFrom
<1> QED  BY <1>1, <1>2, <1>3, <1>4, <1>5, <1>6, <1>7 DEF OUSGHolderStep

(* So does everything a role holder can call. *)
LEMMA RoleKeepsOUSG ==
  ASSUME OUSGInv, NEW c \in Address, OUSGRoleStep(c)
  PROVE  OUSGBooks' /\ OUSGAllowanceOK' /\ OUSGConfigOK'
<1> USE OUSGAmountsNat DEF OUSGInv
<1>1. ASSUME NEW to \in Address, NEW amt \in OUSGAmounts, OUSGMint(c, to, amt)
      PROVE  OUSGBooks' /\ OUSGAllowanceOK' /\ OUSGConfigOK'
  BY <1>1, IssueOUSGBooks DEF OUSGMint, OUSGAllowanceOK, OUSGConfigOK, ousgConfig
<1>2. ASSUME NEW from \in OUSGSeizable, NEW amt \in OUSGAmounts, OUSGSeize(c, from, amt)
      PROVE  OUSGBooks' /\ OUSGAllowanceOK' /\ OUSGConfigOK'
  BY <1>2, RetireOUSGBooks DEF OUSGSeize, OUSGAllowanceOK, OUSGConfigOK, ousgConfig
<1>3. ASSUME \/ OUSGPause(c)
             \/ OUSGUnpause(c)
             \/ \E r \in Registry : OUSGSetKYCRegistry(c, r)
             \/ \E g \in Group : OUSGSetKYCRequirementGroup(c, g)
      PROVE  OUSGBooks' /\ OUSGAllowanceOK' /\ OUSGConfigOK'
  BY <1>3 DEF OUSGPause, OUSGUnpause, OUSGSetKYCRegistry, OUSGSetKYCRequirementGroup,
              ousgLedger, OUSGBooks, OUSGSupplyIsSum, OUSGAllowanceOK, OUSGConfigOK
<1> QED  BY <1>1, <1>2, <1>3 DEF OUSGRoleStep

(* The registries and the sanctions list, whatever they do. *)
LEMMA KYCKeepsTypes == KYCTypeOK /\ KYCNext => KYCTypeOK'
BY KYCAssumption DEF KYCTypeOK, KYCNext, AddKYCAddresses, RemoveKYCAddresses, SetSanctions

LEMMA OUSGInitInv == OUSGWithKYCInit => OUSGInv
<1> SUFFICES ASSUME OUSGInit, KYCInit PROVE OUSGInv
  BY DEF OUSGWithKYCInit
<1>1. OUSGBooks
  BY TotalZero DEF OUSGInit, OUSGBooks, OUSGSupplyIsSum
<1>2. OUSGAllowanceOK
  BY OUSGAmountsNat DEF OUSGInit, OUSGAllowanceOK
<1>3. OUSGConfigOK
  BY DEF OUSGInit, OUSGConfigOK
<1>4. KYCTypeOK
  BY KYCAssumption, AddressAssumption DEF KYCInit, KYCTypeOK
<1> QED  BY <1>1, <1>2, <1>3, <1>4 DEF OUSGInv

LEMMA OUSGNextInv == OUSGInv /\ OUSGNext => OUSGBooks' /\ OUSGAllowanceOK' /\ OUSGConfigOK'
<1> SUFFICES ASSUME OUSGInv, NEW c \in Users, OUSGHolderStep(c) \/ OUSGRoleStep(c)
             PROVE  OUSGBooks' /\ OUSGAllowanceOK' /\ OUSGConfigOK'
  BY DEF OUSGNext
<1>1. c \in Address
  BY OUSGAmountsNat
<1>2. CASE OUSGHolderStep(c)
  BY <1>1, <1>2, HolderKeepsOUSG DEF OUSGInv, OUSGConfigOK, ousgConfig
<1>3. CASE OUSGRoleStep(c)
  BY <1>1, <1>3, RoleKeepsOUSG
<1> QED  BY <1>2, <1>3

LEMMA OUSGStepInv == OUSGInv /\ [OUSGWithKYC]_<<ousgVars, kycVars>> => OUSGInv'
<1> SUFFICES ASSUME OUSGInv, [OUSGWithKYC]_<<ousgVars, kycVars>> PROVE OUSGInv'
  OBVIOUS
<1>1. CASE OUSGNext /\ UNCHANGED kycVars
  <2>1. KYCTypeOK'
    BY <1>1 DEF OUSGInv, KYCTypeOK, kycVars
  <2> QED  BY <1>1, <2>1, OUSGNextInv DEF OUSGInv
<1>2. CASE UNCHANGED ousgVars /\ KYCTypeOK'
  BY <1>2 DEF ousgVars, ousgLedger, ousgConfig, OUSGInv, OUSGBooks, OUSGSupplyIsSum,
              OUSGAllowanceOK, OUSGConfigOK
<1>3. CASE UNCHANGED <<ousgVars, kycVars>>
  BY <1>2, <1>3 DEF OUSGInv, KYCTypeOK, kycVars
<1> QED  BY <1>1, <1>2, <1>3, KYCKeepsTypes DEF OUSGWithKYC, OUSGInv

(* Every reachable state of the token is well typed: no debit takes a      *)
(* balance below zero and no allowance leaves the range of a uint256.      *)
THEOREM OUSGTypeCorrect == OUSGSpec => []OUSGTypeOK
<1>1. OUSGInv => OUSGTypeOK
  BY DEF OUSGInv, OUSGBooks, OUSGAllowanceOK, OUSGConfigOK, OUSGTypeOK
<1> QED  BY <1>1, OUSGInitInv, OUSGStepInv, PTL DEF OUSGSpec

(* The supply of OUSG is the sum of its balances, whatever is transferred, *)
(* minted, burned or seized, to whom and by whom.                          *)
THEOREM OUSGSupplyCorrect == OUSGSpec => []OUSGSupplyIsSum
<1>1. OUSGInv => OUSGSupplyIsSum
  BY DEF OUSGInv, OUSGBooks
<1> QED  BY <1>1, OUSGInitInv, OUSGStepInv, PTL DEF OUSGSpec

-----------------------------------------------------------------------------
(* What the hook of the token leaves alone in a step: the coins of whoever *)
(* is not cleared and, under a pause, all of them.                         *)
OUSGGated ==
  /\ \A a \in Address : ~ OUSGCleared(a) => ousgBalance'[a] = ousgBalance[a]
  /\ ousgPaused => UNCHANGED <<ousgBalance, ousgSupply>>

(* The three writes of the balances pass the hook, whoever calls. *)
LEMMA WritesPassTheHook ==
  ASSUME OUSGBooks, NEW c, NEW from, NEW to, NEW amt,
         \/ UNCHANGED <<ousgBalance, ousgSupply>>
         \/ PayOUSG(c, from, to, amt)
         \/ IssueOUSG(c, to, amt)
         \/ RetireOUSG(c, from, amt)
  PROVE  OUSGGated
<1>1. ousgBalance \in [Address -> Nat]
  BY DEF OUSGBooks
<1>2. CASE UNCHANGED <<ousgBalance, ousgSupply>>
  BY <1>2 DEF OUSGGated
<1>3. CASE PayOUSG(c, from, to, amt)
  BY <1>1, <1>3 DEF OUSGGated, PayOUSG, CanPayOUSG, OUSGHook, Paid, Issued, Retired
<1>4. CASE IssueOUSG(c, to, amt)
  BY <1>1, <1>4 DEF OUSGGated, IssueOUSG, CanIssueOUSG, OUSGHook, Issued
<1>5. CASE RetireOUSG(c, from, amt)
  BY <1>1, <1>5 DEF OUSGGated, RetireOUSG, CanRetireOUSG, OUSGHook, Retired
<1> QED  BY <1>2, <1>3, <1>4, <1>5

LEMMA OUSGStepIsGated ==
  ASSUME OUSGBooks, OUSGNext
  PROVE  OUSGGated
<1>1. PICK c \in Users : OUSGHolderStep(c) \/ OUSGRoleStep(c)
  BY DEF OUSGNext
<1>2. CASE OUSGHolderStep(c)
  BY <1>2, WritesPassTheHook
     DEF OUSGHolderStep, OUSGTransfer, OUSGTransferFrom, OUSGApprove, OUSGIncreaseAllowance,
         OUSGDecreaseAllowance, OUSGBurnOwn, OUSGBurnFrom
<1>3. CASE OUSGRoleStep(c)
  BY <1>3, WritesPassTheHook
     DEF OUSGRoleStep, OUSGMint, OUSGSeize, OUSGPause, OUSGUnpause, OUSGSetKYCRegistry,
         OUSGSetKYCRequirementGroup, ousgLedger
<1> QED  BY <1>1, <1>2, <1>3

(* Pausing OUSG stops holders, spenders, minters and burners alike.        *)
THEOREM OUSGPauseFreezes == OUSGSpec => OUSGPausedStay
<1>1. OUSGInv /\ [OUSGWithKYC]_<<ousgVars, kycVars>>
        => [ousgPaused => UNCHANGED <<ousgBalance, ousgSupply>>]_ousgVars
  BY OUSGStepIsGated DEF OUSGInv, OUSGGated, OUSGWithKYC, ousgVars
<1> QED  BY <1>1, OUSGInitInv, OUSGStepInv, PTL DEF OUSGSpec, OUSGPausedStay

(* An account that is not KYC'd keeps its balance whoever calls, minters   *)
(* and burners included.                                                   *)
THEOREM OUSGFreezeHolds == OUSGSpec => OUSGFrozenStay
<1>1. OUSGInv /\ [OUSGWithKYC]_<<ousgVars, kycVars>>
        => [\A a \in Address : ~ OUSGCleared(a) => ousgBalance'[a] = ousgBalance[a]]_ousgVars
  BY OUSGStepIsGated DEF OUSGInv, OUSGGated, OUSGWithKYC, ousgVars
<1> QED  BY <1>1, OUSGInitInv, OUSGStepInv, PTL DEF OUSGSpec, OUSGFrozenStay

-----------------------------------------------------------------------------
(* Accounts that send no transactions approve nobody. *)
IdleApproveNobody == \A a \in Address \ Users, s \in Address : ousgAllowance[a][s] = 0

IdleInv == OUSGInv /\ IdleApproveNobody

(* What is spent of an allowance, and by it of the owner's coins: nothing  *)
(* if the owner is idle.                                                   *)
LEMMA IdleSpendNothing ==
  ASSUME IdleInv, NEW owner \in Address, NEW spender \in Address, NEW amt \in Nat,
         SpendOUSGAllowance(owner, spender, amt)
  PROVE  IdleApproveNobody' /\ (owner \notin Users => amt = 0)
<1> DEFINE current == ousgAllowance[owner][spender]
<1>1. ousgAllowance \in [Address -> [Address -> 0 .. MaxUint]] /\ MaxUint \in Nat \ {0}
  BY OUSGAssumption DEF IdleInv, OUSGInv, OUSGAllowanceOK
<1>2. owner \notin Users => current = 0
  BY DEF IdleInv, IdleApproveNobody
<1>3. CASE current = MaxUint /\ UNCHANGED ousgAllowance
  BY <1>1, <1>2, <1>3 DEF IdleInv, IdleApproveNobody
<1>4. CASE amt <= current /\ SetOUSGAllowance(owner, spender, current - amt)
  <2>1. owner \notin Users => amt = 0 /\ current - amt = 0
    BY <1>1, <1>2, <1>4
  <2>2. ousgAllowance' = [ousgAllowance EXCEPT ![owner][spender] = current - amt]
    BY <1>4 DEF SetOUSGAllowance
  <2>3. ASSUME NEW a \in Address \ Users, NEW s \in Address
        PROVE  ousgAllowance'[a][s] = 0
    BY <1>1, <2>1, <2>2 DEF IdleInv, IdleApproveNobody
  <2> QED  BY <2>1, <2>3 DEF IdleApproveNobody
<1> QED  BY <1>3, <1>4 DEF SpendOUSGAllowance

(* A call of a user leaves every idle account without approvals and, the   *)
(* burner's reach apart, without a loss.                                   *)
LEMMA IdleStep ==
  ASSUME IdleInv, OUSGNext
  PROVE  /\ IdleApproveNobody'
         /\ \A a \in Address \ (Users \cup OUSGSeizable) : ousgBalance'[a] >= ousgBalance[a]
<1> DEFINE Kept == \A a \in Address \ (Users \cup OUSGSeizable) :
                     ousgBalance'[a] >= ousgBalance[a]
<1> USE OUSGAmountsNat
<1>1. /\ ousgBalance \in [Address -> Nat]
      /\ ousgAllowance \in [Address -> [Address -> 0 .. MaxUint]]
      /\ IdleApproveNobody
  BY DEF IdleInv, OUSGInv, OUSGBooks, OUSGAllowanceOK
<1>2. PICK c \in Users : OUSGHolderStep(c) \/ OUSGRoleStep(c)
  BY DEF OUSGNext
<1>3. ASSUME NEW from \in Address, NEW to \in Address, NEW amt \in Nat,
             from \in Users \/ amt = 0, PayOUSG(c, from, to, amt)
      PROVE  Kept
  BY <1>1, <1>3 DEF PayOUSG, Paid, Issued, Retired
<1>4. ASSUME NEW from \in Address, NEW amt \in Nat,
             from \in Users \cup OUSGSeizable \/ amt = 0, RetireOUSG(c, from, amt)
      PROVE  Kept
  BY <1>1, <1>4 DEF RetireOUSG, Retired
<1>5. ASSUME NEW to \in Address, NEW amt \in OUSGAmounts, OUSGTransfer(c, to, amt)
      PROVE  IdleApproveNobody' /\ Kept
  BY <1>1, <1>3, <1>5 DEF OUSGTransfer, IdleApproveNobody
<1>6. ASSUME NEW from \in Address, NEW to \in Address, NEW amt \in OUSGAmounts,
             OUSGTransferFrom(c, from, to, amt)
      PROVE  IdleApproveNobody' /\ Kept
  BY <1>3, <1>6, IdleSpendNothing DEF OUSGTransferFrom
<1>7. ASSUME NEW s \in Address, NEW amt \in 0 .. MaxUint, OUSGApprove(c, s, amt)
      PROVE  IdleApproveNobody' /\ Kept
  BY <1>1, <1>7 DEF OUSGApprove, SetOUSGAllowance, IdleApproveNobody
<1>8. ASSUME NEW s \in OUSGSpenders, NEW amt \in OUSGApprovals,
             OUSGIncreaseAllowance(c, s, amt) \/ OUSGDecreaseAllowance(c, s, amt)
      PROVE  IdleApproveNobody' /\ Kept
  <2>1. PICK n \in 0 .. MaxUint : OUSGApprove(c, s, n)
    BY <1>1, <1>8 DEF OUSGIncreaseAllowance, OUSGDecreaseAllowance
  <2> QED  BY <1>7, <2>1
<1>9. ASSUME NEW amt \in OUSGAmounts, OUSGBurnOwn(c, amt)
      PROVE  IdleApproveNobody' /\ Kept
  BY <1>1, <1>4, <1>9 DEF OUSGBurnOwn, IdleApproveNobody
<1>10. ASSUME NEW from \in Address, NEW amt \in OUSGAmounts, OUSGBurnFrom(c, from, amt)
       PROVE  IdleApproveNobody' /\ Kept
  BY <1>4, <1>10, IdleSpendNothing DEF OUSGBurnFrom
<1>11. ASSUME NEW to \in Address, NEW amt \in OUSGAmounts, OUSGMint(c, to, amt)
       PROVE  IdleApproveNobody' /\ Kept
  BY <1>1, <1>11 DEF OUSGMint, IssueOUSG, Issued, IdleApproveNobody
<1>12. ASSUME NEW from \in OUSGSeizable, NEW amt \in OUSGAmounts, OUSGSeize(c, from, amt)
       PROVE  IdleApproveNobody' /\ Kept
  BY <1>1, <1>4, <1>12 DEF OUSGSeize, IdleApproveNobody
<1>13. ASSUME UNCHANGED ousgLedger
       PROVE  IdleApproveNobody' /\ Kept
  BY <1>1, <1>13 DEF ousgLedger, IdleApproveNobody
<1>14. CASE OUSGHolderStep(c)
  BY <1>14, <1>5, <1>6, <1>7, <1>8, <1>9, <1>10 DEF OUSGHolderStep
<1>15. CASE OUSGRoleStep(c)
  BY <1>15, <1>11, <1>12, <1>13
     DEF OUSGRoleStep, OUSGPause, OUSGUnpause, OUSGSetKYCRegistry, OUSGSetKYCRequirementGroup
<1> QED  BY <1>2, <1>14, <1>15

(* An account that sends no transactions never loses a coin but to the     *)
(* burner role, whatever the users approve, transfer and burn.             *)
THEOREM OUSGIdleKept == OUSGSpec => OUSGIdleKeep
<1>1. OUSGWithKYCInit => IdleInv
  BY OUSGInitInv DEF IdleInv, IdleApproveNobody, OUSGInit, OUSGWithKYCInit
<1>2. IdleInv /\ [OUSGWithKYC]_<<ousgVars, kycVars>> => IdleInv'
  BY OUSGStepInv, IdleStep
     DEF IdleInv, IdleApproveNobody, OUSGWithKYC, ousgVars, ousgLedger
<1>3. IdleInv /\ [OUSGWithKYC]_<<ousgVars, kycVars>>
        => [\A a \in Address \ (Users \cup OUSGSeizable) :
              ousgBalance'[a] >= ousgBalance[a]]_ousgVars
  BY IdleStep DEF OUSGWithKYC, ousgVars
<1> QED  BY <1>1, <1>2, <1>3, PTL DEF OUSGSpec, OUSGIdleKeep

=============================================================================
