----------------------------- MODULE ROUSGProofs -----------------------------
(***************************************************************************)
(* What the rebasing wrapper keeps true, for any accounts, prices, roles,  *)
(* registries, amounts and scales.                                         *)
(*                                                                         *)
(* The wrapper is shown to implement ShareVault; that its shares stay      *)
(* backed is then a matter of the vault's four actions.  The refinement    *)
(* needs to know who can lower this contract's OUSG: it never sends        *)
(* transactions of its own, approves nobody (ReserveUnspendable), and is   *)
(* spared by the burner role (the assumption of the theorems that need     *)
(* it).                                                                    *)
(***************************************************************************)
EXTENDS ROUSG, OUSGProofs

SharesBooks == /\ shares \in [Address -> Nat]
               /\ totalShares \in Nat
               /\ SharesAreSum

AllowancesOK == allowances \in [Address -> [Address -> Nat]]

ROUSGConfigOK == /\ rousgPaused \in BOOLEAN
                 /\ rousgRegistry \in Registry
                 /\ rousgGroup \in Group
                 /\ oracle \in Oracle

PriceOK == price \in [Oracle -> Prices]

(* The inductive invariant.  Totals are natural because they are sums; the *)
(* reserve stays because nobody is approved to spend it.                   *)
WrapperInv == /\ SharesBooks /\ AllowancesOK /\ ROUSGConfigOK /\ PriceOK
              /\ OUSGInv /\ ReserveUnspendable

LEMMA ROUSGConstants == /\ rOUSG \in Address /\ rOUSG \notin Users /\ rOUSG # Zero
                        /\ Users \subseteq Address
                        /\ ONE \in Nat \ {0} /\ MULT \in Nat \ {0}
                        /\ Prices \subseteq Nat
                        /\ ROUSGAmounts \subseteq Nat /\ ShareAmounts \subseteq Nat
                        /\ ROUSGApprovals \subseteq Nat /\ Spenders \subseteq Address
BY ROUSGAssumption, OUSGAssumption

-----------------------------------------------------------------------------
(* The conversions. *)

(* Any amount converts to a whole number of shares while there is a price. *)
LEMMA GetSharesType ==
  ASSUME ROUSGConfigOK, PriceOK, Priced, NEW amt \in Nat
  PROVE  GetSharesByROUSG(amt) \in Nat
<1>1. GetOUSGPrice \in Nat \ {0}
  BY ROUSGConstants DEF ROUSGConfigOK, PriceOK, Priced, GetOUSGPrice
<1>2. amt * ONE * MULT \in Nat
  <2>1. ONE \in Nat /\ MULT \in Nat
    BY ROUSGConstants
  <2>2. amt * ONE \in Nat
    BY <2>1
  <2> QED  BY <2>1, <2>2
<1> DEFINE p == GetOUSGPrice
           x == amt * ONE * MULT
<1>3. p \in Nat \ {0} /\ x \in Nat
  BY <1>1, <1>2
<1>4. x \div p \in Nat
  <2> HIDE DEF p, x
  <2> QED  BY <1>3
<1> QED  BY <1>4 DEF GetSharesByROUSG

-----------------------------------------------------------------------------
(* The writes of the three internal functions. *)

LEMMA TransferSharesBooks ==
  ASSUME SharesBooks, NEW caller, NEW from \in Address, NEW to \in Address, NEW n \in Nat,
         TransferShares(caller, from, to, n)
  PROVE  SharesBooks'
<1>1. n \in 0 .. shares[from]
  BY DEF TransferShares, CanMoveShares, SharesBooks
<1>2. shares' = Paid(shares, from, to, n)
  BY DEF TransferShares, SharesMoved, Paid
<1>3. /\ Paid(shares, from, to, n) \in [Address -> Nat]
      /\ Total(Paid(shares, from, to, n)) = Total(shares)
  BY <1>1, TotalPaid DEF SharesBooks
<1> QED  BY <1>2, <1>3 DEF TransferShares, SharesBooks, SharesAreSum

LEMMA MintSharesBooks ==
  ASSUME SharesBooks, NEW caller, NEW to \in Address, NEW n \in Nat,
         MintShares(caller, to, n)
  PROVE  SharesBooks'
<1>1. /\ Issued(shares, to, n) \in [Address -> Nat]
      /\ Total(Issued(shares, to, n)) = Total(shares) + n
  BY TotalIssued DEF SharesBooks
<1> QED  BY <1>1 DEF MintShares, SharesBooks, SharesAreSum

LEMMA BurnSharesBooks ==
  ASSUME SharesBooks, NEW caller, NEW from \in Address, NEW n \in Nat,
         CanBurnShares(caller, from, n), SharesBurned(from, n)
  PROVE  SharesBooks'
<1>1. n \in 0 .. shares[from]
  BY DEF CanBurnShares, SharesBooks
<1>2. /\ Retired(shares, from, n) \in [Address -> Nat]
      /\ Total(Retired(shares, from, n)) = Total(shares) - n
  BY <1>1, TotalRetired DEF SharesBooks
<1>3. Total(Retired(shares, from, n)) \in Nat
  BY <1>2, TotalType
<1> QED  BY <1>2, <1>3 DEF SharesBurned, SharesBooks, SharesAreSum

(* The OUSG this contract pulls in and pays out. *)
LEMMA PullKeepsOUSG ==
  ASSUME OUSGInv, NEW c \in Address, NEW amt \in Nat, OUSGTransferFrom(rOUSG, c, rOUSG, amt),
         UNCHANGED kycVars
  PROVE  OUSGInv'
<1>1. OUSGBooks' /\ OUSGAllowanceOK'
  BY ROUSGConstants, PayOUSGBooks, SpendOUSGAllowanceType DEF OUSGTransferFrom, OUSGInv
<1> QED  BY <1>1 DEF OUSGTransferFrom, OUSGInv, ousgConfig, OUSGConfigOK, kycVars, KYCTypeOK

(* The whole OUSG for any number of shares is a natural number.            *)
LEMMA OUSGForType == ASSUME NEW n \in Nat PROVE OUSGFor(n) \in Nat
<1>1. MULT \in Nat \ {0}
  BY ROUSGConstants
<1> QED  BY <1>1 DEF OUSGFor

(* What unwrap and burn do, seen as OUSG sent by this contract.            *)
LEMMA ReleasePays ==
  ASSUME NEW c, NEW from, NEW n, CanRelease(c, from, n), Released(c, from, n)
  PROVE  /\ CanBurnShares(c, from, n) /\ SharesBurned(from, n) /\ WorthAUnit(n)
         /\ PayOUSG(rOUSG, rOUSG, c, OUSGFor(n))
         /\ UNCHANGED <<allowances, rousgConfig, ousgAllowance, ousgConfig>>
BY DEF CanRelease, Released, PayOUSG

LEMMA ReleaseKeepsOUSG ==
  ASSUME OUSGInv, NEW c \in Address, NEW from, NEW n \in Nat,
         CanRelease(c, from, n), Released(c, from, n), UNCHANGED kycVars
  PROVE  OUSGInv'
<1>1. OUSGBooks'
  BY OUSGForType, ReleasePays, ROUSGConstants, PayOUSGBooks DEF OUSGInv
<1> QED  BY <1>1, ReleasePays DEF OUSGInv, OUSGAllowanceOK, ousgConfig, OUSGConfigOK,
                                  kycVars, KYCTypeOK

-----------------------------------------------------------------------------
(* Nobody is approved to spend the reserve, and nobody comes to be. *)

LEMMA SpendKeepsReserve ==
  ASSUME OUSGAllowanceOK, ReserveUnspendable,
         NEW owner \in Address, NEW spender \in Address, NEW amt \in Nat,
         SpendOUSGAllowance(owner, spender, amt)
  PROVE  ReserveUnspendable' /\ (owner = rOUSG => amt = 0)
<1>1. MaxUint \in Nat \ {0} /\ rOUSG \in Address
  BY OUSGAssumption, ROUSGConstants
<1>2. CASE owner = rOUSG
  <2>1. ousgAllowance[owner][spender] = 0
    BY <1>2 DEF ReserveUnspendable
  <2>2. amt = 0 /\ SetOUSGAllowance(owner, spender, 0)
    BY <1>1, <2>1 DEF SpendOUSGAllowance
  <2>3. \A s \in Address : ousgAllowance'[rOUSG][s] = 0
    BY <1>1, <1>2, <2>2 DEF SetOUSGAllowance, ReserveUnspendable, OUSGAllowanceOK
  <2> QED  BY <2>2, <2>3 DEF ReserveUnspendable
<1>3. CASE owner # rOUSG
  BY <1>1, <1>3 DEF SpendOUSGAllowance, SetOUSGAllowance, ReserveUnspendable, OUSGAllowanceOK
<1> QED  BY <1>2, <1>3

LEMMA OUSGKeepsReserve ==
  ASSUME OUSGInv, ReserveUnspendable, OUSGNext
  PROVE  ReserveUnspendable'
<1> USE OUSGAmountsNat, ROUSGConstants DEF OUSGInv
<1>1. PICK c \in Users : OUSGHolderStep(c) \/ OUSGRoleStep(c)
  BY DEF OUSGNext
<1>2. c \in Address /\ c # rOUSG
  OBVIOUS
<1>3. ASSUME NEW s \in Address, NEW amt, OUSGApprove(c, s, amt)
      PROVE  ReserveUnspendable'
  BY <1>2, <1>3 DEF OUSGApprove, SetOUSGAllowance, ReserveUnspendable, OUSGAllowanceOK
<1>4. CASE UNCHANGED ousgAllowance
  BY <1>4 DEF ReserveUnspendable
<1>5. CASE \E from, to \in Address, amt \in OUSGAmounts :
             OUSGTransferFrom(c, from, to, amt) \/ OUSGBurnFrom(c, from, amt)
  <2>1. PICK from \in Address, amt \in OUSGAmounts : SpendOUSGAllowance(from, c, amt)
    BY <1>5 DEF OUSGTransferFrom, OUSGBurnFrom
  <2> QED  BY <1>2, <2>1, SpendKeepsReserve
<1>6. CASE OUSGHolderStep(c)
  BY <1>3, <1>4, <1>5, <1>6
  DEF OUSGHolderStep, OUSGTransfer, OUSGIncreaseAllowance, OUSGDecreaseAllowance, OUSGBurnOwn
<1>7. CASE OUSGRoleStep(c)
  BY <1>4, <1>7 DEF OUSGRoleStep, OUSGMint, OUSGSeize, OUSGPause, OUSGUnpause,
                    OUSGSetKYCRegistry, OUSGSetKYCRequirementGroup, ousgLedger
<1> QED  BY <1>1, <1>6, <1>7

-----------------------------------------------------------------------------
(* The inductive step, a call at a time. *)

LEMMA WrapperInitInv == Init => WrapperInv
<1> SUFFICES ASSUME Init PROVE WrapperInv
  OBVIOUS
<1>1. OUSGInv
  BY OUSGInitInv DEF Init, OUSGWithKYCInit
<1>2. SharesBooks
  BY TotalZero DEF Init, ROUSGInit, SharesBooks, SharesAreSum
<1>3. AllowancesOK /\ ROUSGConfigOK /\ PriceOK
  BY DEF Init, ROUSGInit, AllowancesOK, ROUSGConfigOK, PriceOK
<1>4. ReserveUnspendable
  BY ROUSGConstants DEF Init, OUSGInit, ReserveUnspendable
<1> QED  BY <1>1, <1>2, <1>3, <1>4 DEF WrapperInv

(* A call that touches only the shares and the allowances. *)
LEMMA LedgerCallKeepsInv ==
  ASSUME WrapperInv, SharesBooks', AllowancesOK',
         UNCHANGED <<rousgConfig, price, ousgVars, kycVars>>
  PROVE  WrapperInv'
BY DEF WrapperInv, ROUSGConfigOK, rousgConfig, PriceOK, ousgVars, ousgLedger, ousgConfig,
       OUSGInv, OUSGBooks, OUSGSupplyIsSum, OUSGAllowanceOK, OUSGConfigOK, kycVars, KYCTypeOK,
       ReserveUnspendable

LEMMA SetAllowanceType ==
  ASSUME AllowancesOK, NEW owner \in Address, NEW spender \in Address, NEW amt \in Nat,
         SetAllowance(owner, spender, amt)
  PROVE  AllowancesOK'
BY DEF SetAllowance, AllowancesOK

(* unwrap and burn. *)
LEMMA ReleaseKeepsInv ==
  ASSUME WrapperInv, NEW c \in Address, NEW from \in Address, NEW n \in Nat,
         CanRelease(c, from, n), Released(c, from, n), UNCHANGED <<price, kycVars>>
  PROVE  WrapperInv'
<1>1. SharesBooks'
  BY ReleasePays, BurnSharesBooks DEF WrapperInv
<1>2. OUSGInv'
  BY ReleaseKeepsOUSG DEF WrapperInv
<1> QED  BY <1>1, <1>2, ReleasePays
         DEF WrapperInv, AllowancesOK, rousgConfig, ROUSGConfigOK, PriceOK, ReserveUnspendable

LEMMA HolderKeepsWrapper ==
  ASSUME WrapperInv, NEW c \in Users, HolderStep(c), UNCHANGED <<price, kycVars>>
  PROVE  WrapperInv'
<1> USE ROUSGConstants, OUSGAmountsNat
<1>0. SharesBooks /\ AllowancesOK /\ ROUSGConfigOK /\ PriceOK /\ OUSGInv /\ ReserveUnspendable
  BY DEF WrapperInv
<1>1. ASSUME NEW to \in Address, NEW amt \in ROUSGAmounts, Transfer(c, to, amt)
      PROVE  WrapperInv'
  <2>1. GetSharesByROUSG(amt) \in Nat
    BY <1>0, <1>1, GetSharesType DEF Transfer, MoveTokens
  <2>2. SharesBooks'
    BY <1>0, <1>1, <2>1, TransferSharesBooks DEF Transfer, MoveTokens
  <2> QED  BY <1>0, <1>1, <2>2, LedgerCallKeepsInv DEF Transfer, AllowancesOK
<1>2. ASSUME NEW from \in Address, NEW to \in Address, NEW amt \in ROUSGAmounts,
             TransferFrom(c, from, to, amt)
      PROVE  WrapperInv'
  <2>1. GetSharesByROUSG(amt) \in Nat
    BY <1>0, <1>2, GetSharesType DEF TransferFrom, MoveTokens
  <2>2. SharesBooks'
    BY <1>0, <1>2, <2>1, TransferSharesBooks DEF TransferFrom, MoveTokens
  <2>3. allowances[from][c] - amt \in Nat
    BY <1>0, <1>2 DEF TransferFrom, AllowancesOK
  <2>4. AllowancesOK'
    BY <1>0, <1>2, <2>3, SetAllowanceType DEF TransferFrom
  <2> QED  BY <1>2, <2>2, <2>4, LedgerCallKeepsInv DEF TransferFrom
<1>3. ASSUME NEW to \in Address, NEW n \in ShareAmounts, TransferSharesTo(c, to, n)
      PROVE  WrapperInv'
  <2>1. SharesBooks'
    BY <1>0, <1>3, TransferSharesBooks DEF TransferSharesTo
  <2> QED  BY <1>0, <1>3, <2>1, LedgerCallKeepsInv DEF TransferSharesTo, AllowancesOK
<1>4. ASSUME NEW s \in Spenders, NEW amt \in Nat, Approve(c, s, amt)
      PROVE  WrapperInv'
  <2>1. AllowancesOK'
    BY <1>0, <1>4, SetAllowanceType DEF Approve
  <2> QED  BY <1>0, <1>4, <2>1, LedgerCallKeepsInv DEF Approve, SharesBooks, SharesAreSum
<1>5. ASSUME NEW s \in Spenders, NEW amt \in ROUSGApprovals,
             IncreaseAllowance(c, s, amt) \/ DecreaseAllowance(c, s, amt)
      PROVE  WrapperInv'
  <2>1. allowances[c][s] \in Nat /\ amt \in Nat
    BY <1>0 DEF AllowancesOK
  <2> QED  BY <1>4, <1>5, <2>1 DEF IncreaseAllowance, DecreaseAllowance
<1>6. ASSUME NEW amt \in OUSGAmounts, Wrap(c, amt)
      PROVE  WrapperInv'
  <2>1. amt \in Nat /\ amt * MULT \in Nat
    OBVIOUS
  <2>2. SharesBooks'
    BY <1>0, <1>6, <2>1, MintSharesBooks DEF Wrap
  <2>3. OUSGInv'
    BY <1>0, <1>6, <2>1, PullKeepsOUSG DEF Wrap
  <2>4. ReserveUnspendable'
    BY <1>0, <1>6, <2>1, SpendKeepsReserve DEF Wrap, OUSGTransferFrom, OUSGInv
  <2> QED  BY <1>0, <1>6, <2>2, <2>3, <2>4
           DEF Wrap, WrapperInv, AllowancesOK, rousgConfig, ROUSGConfigOK, PriceOK
<1>7. ASSUME NEW amt \in ROUSGAmounts, Unwrap(c, amt)
      PROVE  WrapperInv'
  <2>1. GetSharesByROUSG(amt) \in Nat
    BY <1>0, <1>7, GetSharesType DEF Unwrap, CanUnwrap
  <2> QED  BY <1>7, <2>1, ReleaseKeepsInv DEF Unwrap, CanUnwrap
<1> QED  BY <1>1, <1>2, <1>3, <1>4, <1>5, <1>6, <1>7 DEF HolderStep

LEMMA RoleKeepsWrapper ==
  ASSUME WrapperInv, NEW c \in Users, RoleStep(c), UNCHANGED <<price, kycVars>>
  PROVE  WrapperInv'
<1> USE ROUSGConstants
<1>0. SharesBooks /\ AllowancesOK /\ ROUSGConfigOK /\ PriceOK /\ OUSGInv /\ ReserveUnspendable
  BY DEF WrapperInv
<1>1. ASSUME NEW from \in Address, NEW amt \in ROUSGAmounts, Burn(c, from, amt)
      PROVE  WrapperInv'
  <2>1. GetSharesByROUSG(amt) \in Nat
    BY <1>0, <1>1, GetSharesType DEF Burn
  <2> QED  BY <1>1, <2>1, ReleaseKeepsInv DEF Burn
<1>2. ASSUME \/ Pause(c)
             \/ Unpause(c)
             \/ \E o \in Oracle : SetOracle(c, o)
             \/ \E r \in Registry : SetKYCRegistry(c, r)
             \/ \E g \in Group : SetKYCRequirementGroup(c, g)
      PROVE  WrapperInv'
  <2>1. UNCHANGED <<rousgLedger, ousgVars>> /\ ROUSGConfigOK'
    BY <1>0, <1>2 DEF Pause, Unpause, SetOracle, SetKYCRegistry, SetKYCRequirementGroup,
                      ROUSGConfigOK
  <2> QED  BY <1>0, <2>1
           DEF rousgLedger, WrapperInv, SharesBooks, SharesAreSum, AllowancesOK, PriceOK,
               ousgVars, ousgLedger, ousgConfig, OUSGInv, OUSGBooks, OUSGSupplyIsSum,
               OUSGAllowanceOK, OUSGConfigOK, kycVars, KYCTypeOK, ReserveUnspendable
<1> QED  BY <1>1, <1>2 DEF RoleStep

LEMMA WrapperStepInv == WrapperInv /\ [Next]_vars => WrapperInv'
<1> SUFFICES ASSUME WrapperInv, [Next]_vars PROVE WrapperInv'
  OBVIOUS
<1>1. ASSUME NEW c \in Users, HolderStep(c) \/ RoleStep(c), UNCHANGED <<price, kycVars>>
      PROVE  WrapperInv'
  BY <1>1, HolderKeepsWrapper, RoleKeepsWrapper
<1>2. CASE UNCHANGED rousgVars /\ PriceOK' /\ OUSGInv' /\ ReserveUnspendable'
  BY <1>2 DEF WrapperInv, rousgVars, rousgLedger, rousgConfig, SharesBooks, SharesAreSum,
              AllowancesOK, ROUSGConfigOK
<1>3. CASE OUSGNext /\ UNCHANGED <<rousgVars, price, kycVars>>
  <2>1. OUSGInv'
    BY <1>3, OUSGNextInv DEF WrapperInv, OUSGInv, kycVars, KYCTypeOK
  <2>2. ReserveUnspendable'
    BY <1>3, OUSGKeepsReserve DEF WrapperInv
  <2> QED  BY <1>2, <1>3, <2>1, <2>2 DEF WrapperInv, PriceOK
<1>4. CASE UNCHANGED <<rousgVars, ousgVars>> /\ PriceOK' /\ KYCTypeOK'
  BY <1>2, <1>4 DEF WrapperInv, ousgVars, ousgLedger, ousgConfig, OUSGInv, OUSGBooks,
                    OUSGSupplyIsSum, OUSGAllowanceOK, OUSGConfigOK, ReserveUnspendable
<1>5. CASE KYCNext /\ UNCHANGED <<rousgVars, price, ousgVars>>
  BY <1>4, <1>5, KYCKeepsTypes DEF WrapperInv, OUSGInv, PriceOK
<1>6. CASE OracleStep
  BY <1>4, <1>6 DEF OracleStep, WrapperInv, OUSGInv, PriceOK, kycVars, KYCTypeOK
<1>7. CASE UNCHANGED vars
  BY <1>4, <1>7 DEF vars, WrapperInv, OUSGInv, PriceOK, kycVars, KYCTypeOK
<1> QED  BY <1>1, <1>3, <1>5, <1>6, <1>7 DEF Next

(* Every reachable state of wrapper, token and registries is well typed:   *)
(* no checked or unchecked subtraction goes below zero.                    *)
THEOREM WrapperTypeCorrect == Spec => []TypeOK
<1>1. WrapperInv => TypeOK
  BY DEF WrapperInv, SharesBooks, AllowancesOK, ROUSGConfigOK, PriceOK, OUSGInv, OUSGBooks,
         OUSGAllowanceOK, OUSGConfigOK, OUSGTypeOK, TypeOK
<1> QED  BY <1>1, WrapperInitInv, WrapperStepInv, PTL DEF Spec

(* totalShares is always the sum of the shares, also if the burner role    *)
(* takes the reserve.                                                      *)
THEOREM WrapperSharesAreSum == Spec => []SharesAreSum
<1>1. WrapperInv => SharesAreSum
  BY DEF WrapperInv, SharesBooks
<1> QED  BY <1>1, WrapperInitInv, WrapperStepInv, PTL DEF Spec

(* The wrapper never approves anyone to spend the OUSG it holds.           *)
THEOREM ReserveStaysUnspendable == Spec => []ReserveUnspendable
<1>1. WrapperInv => ReserveUnspendable
  BY DEF WrapperInv
<1> QED  BY <1>1, WrapperInitInv, WrapperStepInv, PTL DEF Spec

-----------------------------------------------------------------------------
(* What a step may never do. *)

(* What the gates of rOUSG leave alone in a step: the shares of whoever is *)
(* not cleared and, under a pause, shares and allowances.                  *)
SharesGated ==
  /\ \A a \in Address : ~ Cleared(a) => shares'[a] = shares[a]
  /\ rousgPaused => UNCHANGED rousgLedger

LEMMA PauseIsChecked ==
  ASSUME Next, rousgPaused
  PROVE  UNCHANGED rousgLedger
<1>1. ASSUME NEW c \in Users, HolderStep(c) PROVE UNCHANGED rousgLedger
  BY <1>1 DEF HolderStep, Transfer, TransferFrom, MoveTokens, TransferSharesTo, TransferShares,
              CanMoveShares, Approve, IncreaseAllowance, DecreaseAllowance, SetAllowance,
              Wrap, MintShares, CanMintShares, Unwrap, CanUnwrap, CanRelease, CanBurnShares
<1>2. ASSUME NEW c \in Users, RoleStep(c) PROVE UNCHANGED rousgLedger
  BY <1>2 DEF RoleStep, Burn, CanRelease, CanBurnShares, Pause, Unpause, SetOracle,
              SetKYCRegistry, SetKYCRequirementGroup
<1> QED  BY <1>1, <1>2 DEF Next, OracleStep, rousgVars

(* The three writes of shares, seen from an account that is not KYC'd.     *)
LEMMA SharesMoveByHook ==
  ASSUME SharesBooks, NEW a \in Address, ~ Cleared(a),
         NEW c, NEW from \in Address, NEW to \in Address, NEW n,
         \/ TransferShares(c, from, to, n)
         \/ MintShares(c, to, n)
         \/ CanRelease(c, from, n) /\ Released(c, from, n)
  PROVE  shares'[a] = shares[a]
<1> USE DEF SharesBooks, ROUSGHook
<1>1. CASE TransferShares(c, from, to, n)
  BY <1>1 DEF TransferShares, CanMoveShares, SharesMoved, Issued, Retired
<1>2. CASE MintShares(c, to, n)
  BY <1>2 DEF MintShares, CanMintShares, Issued
<1>3. CASE CanRelease(c, from, n) /\ Released(c, from, n)
  BY <1>3, ReleasePays DEF CanBurnShares, SharesBurned, Retired
<1> QED  BY <1>1, <1>2, <1>3

LEMMA SharesStepIsGated ==
  ASSUME SharesBooks, Next
  PROVE  SharesGated
<1>1. ASSUME NEW a \in Address, ~ Cleared(a) PROVE shares'[a] = shares[a]
  <2>1. ASSUME NEW c \in Users, HolderStep(c) PROVE shares'[a] = shares[a]
    <3>1. c \in Address
      BY ROUSGConstants
    <3> QED  BY <1>1, <2>1, <3>1, SharesMoveByHook
             DEF HolderStep, Transfer, TransferFrom, MoveTokens, TransferSharesTo, Approve,
                 IncreaseAllowance, DecreaseAllowance, Wrap, Unwrap, CanUnwrap
  <2>2. ASSUME NEW c \in Users, RoleStep(c) PROVE shares'[a] = shares[a]
    BY <1>1, <2>2, SharesMoveByHook
    DEF RoleStep, Burn, Pause, Unpause, SetOracle, SetKYCRegistry, SetKYCRequirementGroup,
        rousgLedger
  <2> QED  BY <2>1, <2>2 DEF Next, OracleStep, rousgVars, rousgLedger
<1> QED  BY <1>1, PauseIsChecked DEF SharesGated

(* A wrap pays OUSG in, an unwrap and a burn pay it out, through the hook  *)
(* of OUSG.                                                                *)
LEMMA ReserveStepIsGated ==
  ASSUME OUSGBooks, Next
  PROVE  OUSGGated
<1>1. ASSUME NEW c \in Users, HolderStep(c) PROVE OUSGGated
  <2>1. ASSUME UNCHANGED ousgVars PROVE OUSGGated
    BY <2>1, WritesPassTheHook DEF ousgVars, ousgLedger
  <2>2. ASSUME NEW amt \in OUSGAmounts, Wrap(c, amt) PROVE OUSGGated
    BY <2>2, WritesPassTheHook DEF Wrap, OUSGTransferFrom
  <2>3. ASSUME NEW amt \in ROUSGAmounts, Unwrap(c, amt) PROVE OUSGGated
    BY <2>3, ReleasePays, WritesPassTheHook DEF Unwrap, CanUnwrap
  <2> QED  BY <1>1, <2>1, <2>2, <2>3
           DEF HolderStep, Transfer, TransferFrom, TransferSharesTo, Approve, IncreaseAllowance,
               DecreaseAllowance
<1>2. ASSUME NEW c \in Users, RoleStep(c) PROVE OUSGGated
  <2>1. ASSUME UNCHANGED ousgVars PROVE OUSGGated
    BY <2>1, WritesPassTheHook DEF ousgVars, ousgLedger
  <2>2. ASSUME NEW from \in Address, NEW amt \in ROUSGAmounts, Burn(c, from, amt)
        PROVE  OUSGGated
    BY <2>2, ReleasePays, WritesPassTheHook DEF Burn
  <2> QED  BY <1>2, <2>1, <2>2
           DEF RoleStep, Pause, Unpause, SetOracle, SetKYCRegistry, SetKYCRequirementGroup
<1>3. CASE UNCHANGED ousgVars
  BY <1>3, WritesPassTheHook DEF ousgVars, ousgLedger
<1> QED  BY <1>1, <1>2, <1>3, OUSGStepIsGated DEF Next, OracleStep

(* A pause of rOUSG freezes shares and allowances, burns included.         *)
THEOREM WrapperPauseFreezes == Spec => PausedStay
<1>1. [Next]_vars => [rousgPaused => UNCHANGED rousgLedger]_vars
  BY PauseIsChecked
<1> QED  BY <1>1, PTL DEF Spec, PausedStay

(* No holder and no spender changes the shares of an account that is not   *)
(* KYC'd with rOUSG.                                                       *)
THEOREM WrapperFreezeHolds == Spec => FrozenStay
<1>1. WrapperInv /\ [Next]_vars
        => [\A a \in Address :
              ~ Cleared(a) /\ shares'[a] # shares[a] =>
                \E b \in Users, amt \in ROUSGAmounts : Burn(b, a, amt)]_vars
  BY SharesStepIsGated DEF WrapperInv, SharesGated
<1> QED  BY <1>1, WrapperInitInv, WrapperStepInv, PTL DEF Spec, FrozenStay

(* An amount is worth at least the shares it is converted to.              *)
LEMMA SharesWorthAtMost ==
  ASSUME ROUSGConfigOK, PriceOK, Priced, NEW amt \in Nat
  PROVE  GetSharesByROUSG(amt) * GetOUSGPrice <= amt * ONE * MULT
<1> DEFINE p == GetOUSGPrice
           x == amt * ONE * MULT
<1>1. p \in Nat \ {0}
  BY ROUSGConstants DEF ROUSGConfigOK, PriceOK, Priced, GetOUSGPrice
<1>2. x \in Nat
  <2>1. ONE \in Nat /\ MULT \in Nat
    BY ROUSGConstants
  <2>2. amt * ONE \in Nat
    BY <2>1
  <2> QED  BY <2>1, <2>2
<1>3. (x \div p) * p <= x
  <2> HIDE DEF p, x
  <2> QED  BY <1>1, <1>2, RoundsDown
<1> QED  BY <1>3 DEF GetSharesByROUSG

(* The allowance a transferFrom draws down is worth the shares it moves.   *)
THEOREM AllowancesPay == Spec => AllowanceCovers
<1>1. ASSUME WrapperInv, NEW c \in Users, NEW owner \in Address, NEW to \in Address,
             NEW amt \in ROUSGAmounts, TransferFrom(c, owner, to, amt)
      PROVE  (allowances[owner][c] - allowances'[owner][c]) * ONE * MULT
               >= (shares[owner] - shares'[owner]) * GetOUSGPrice
  <2> DEFINE n == GetSharesByROUSG(amt)
  <2>1. /\ shares \in [Address -> Nat] /\ allowances \in [Address -> [Address -> Nat]]
        /\ ROUSGConfigOK /\ PriceOK /\ Priced /\ amt \in Nat /\ c \in Address
    BY <1>1, ROUSGConstants
       DEF WrapperInv, SharesBooks, AllowancesOK, TransferFrom, MoveTokens
  <2>2. n \in Nat /\ n * GetOUSGPrice <= amt * ONE * MULT
    BY <2>1, GetSharesType, SharesWorthAtMost
  <2>3. allowances'[owner][c] = allowances[owner][c] - amt
    BY <1>1, <2>1 DEF TransferFrom, SetAllowance
  <2>4. allowances[owner][c] - allowances'[owner][c] = amt
    <3>1. allowances[owner][c] \in Nat
      BY <2>1
    <3> QED  BY <2>1, <2>3, <3>1
  <2>5. shares' = Paid(shares, owner, to, n)
    BY <1>1 DEF TransferFrom, MoveTokens, TransferShares, SharesMoved, Paid
  <2>6. shares[owner] - shares'[owner] \in {0, n}
    <3> HIDE DEF n
    <3>1. shares[owner] \in Nat
      BY <2>1
    <3>2. shares'[owner] \in {shares[owner], shares[owner] - n}
      BY <2>1, <2>2, <2>5 DEF Paid, Issued, Retired
    <3> QED  BY <2>2, <3>1, <3>2
  <2>7. GetOUSGPrice \in Nat /\ ONE \in Nat /\ MULT \in Nat
    BY <2>1, ROUSGConstants DEF ROUSGConfigOK, PriceOK, GetOUSGPrice
  <2>8. amt * ONE \in Nat
    BY <2>1, <2>7
  <2>9. 0 <= amt * ONE * MULT
    BY <2>7, <2>8
  <2> HIDE DEF n
  <2>10. (shares[owner] - shares'[owner]) * GetOUSGPrice <= amt * ONE * MULT
    <3>1. CASE shares[owner] - shares'[owner] = 0
      BY <2>7, <2>9, <3>1
    <3>2. CASE shares[owner] - shares'[owner] = n
      BY <2>2, <3>2
    <3> QED  BY <2>6, <3>1, <3>2
  <2>11. /\ (shares[owner] - shares'[owner]) * GetOUSGPrice \in Int
         /\ amt * ONE * MULT \in Int
    BY <2>2, <2>6, <2>7, <2>8
  <2> QED  BY <2>4, <2>10, <2>11
<1>2. WrapperInv /\ [Next]_vars
        => [\A c \in Users, owner, to \in Address, amt \in ROUSGAmounts :
              TransferFrom(c, owner, to, amt) =>
                (allowances[owner][c] - allowances'[owner][c]) * ONE * MULT
                  >= (shares[owner] - shares'[owner]) * GetOUSGPrice]_vars
  BY <1>1
<1> QED  BY <1>2, WrapperInitInv, WrapperStepInv, PTL DEF Spec, AllowanceCovers

-----------------------------------------------------------------------------
(* The refinement: what each call is to the vault. *)

VaultStep == [V!VaultNext]_V!vault

LEMMA ReassignIsAVaultStep ==
  ASSUME SharesBooks, NEW c, NEW from \in Address, NEW to \in Address, NEW n \in Nat,
         TransferShares(c, from, to, n), UNCHANGED ousgVars
  PROVE  VaultStep
<1>1. n \in 0 .. shares[from]
  BY DEF TransferShares, CanMoveShares, SharesBooks
<1>2. V!Reassign(from, to, n)
  BY <1>1 DEF TransferShares, SharesMoved, V!Reassign, V!Paid, V!Issued, V!Retired, Issued,
              Retired, ousgVars, ousgLedger
<1> QED  BY <1>1, <1>2 DEF VaultStep, V!VaultNext

(* wrap: the caller's OUSG comes in and his shares are created.            *)
LEMMA WrapIsADeposit ==
  ASSUME WrapperInv, NEW c \in Users, NEW amt \in OUSGAmounts, Wrap(c, amt)
  PROVE  VaultStep
<1>1. c \in Address /\ c # rOUSG /\ rOUSG \in Address /\ amt \in Nat
  BY ROUSGConstants, OUSGAmountsNat
<1>2. ousgBalance' = Paid(ousgBalance, c, rOUSG, amt)
  BY DEF Wrap, OUSGTransferFrom, PayOUSG
<1>3. ousgBalance'[rOUSG] = ousgBalance[rOUSG] + amt
  BY <1>1, <1>2 DEF Paid, Issued, Retired, WrapperInv, OUSGInv, OUSGBooks
<1>4. V!Deposit(c, amt)
  BY <1>3 DEF Wrap, MintShares, Issued, V!Deposit, V!Issued
<1> QED  BY <1>1, <1>4 DEF VaultStep, V!VaultNext

(* unwrap and burn: shares go, and their whole OUSG with them.             *)
LEMMA BurnIsAWithdrawal ==
  ASSUME WrapperInv, NEW c \in Users, NEW from \in Address, NEW n \in Nat,
         CanRelease(c, from, n), Released(c, from, n)
  PROVE  VaultStep
<1>1. c \in Address /\ c # rOUSG /\ rOUSG \in Address /\ MULT \in Nat \ {0}
  BY ROUSGConstants
<1>2. n \in MULT .. shares[from]
  BY <1>1, ReleasePays DEF WorthAUnit, CanBurnShares, WrapperInv, SharesBooks
<1> DEFINE out == n \div MULT
<1>3. ousgBalance' = Paid(ousgBalance, rOUSG, c, out)
  BY DEF Released, OUSGFor
<1>4. out \in Nat
  BY <1>1
<1>5. ousgBalance'[rOUSG] = ousgBalance[rOUSG] - out
  <2> HIDE DEF out
  <2> QED  BY <1>1, <1>3, <1>4 DEF Paid, Issued, Retired, WrapperInv, OUSGInv, OUSGBooks
<1>6. V!Withdraw(from, n)
  BY <1>2, <1>5, ReleasePays DEF SharesBurned, Retired, V!Withdraw, V!Retired
<1> QED  BY <1>2, <1>6 DEF VaultStep, V!VaultNext

(* The one call of OUSG that is none of the vault's. *)
ReserveSeized ==
  rOUSG \in OUSGSeizable /\ \E b \in Users, amt \in OUSGAmounts : OUSGSeize(b, rOUSG, amt)

(* OUSG's other calls: the reserve only ever grows, by a donation.         *)
LEMMA OUSGCallIsADonation ==
  ASSUME WrapperInv, ~ ReserveSeized, OUSGNext, UNCHANGED rousgVars
  PROVE  VaultStep
<1> USE ROUSGConstants, OUSGAmountsNat
<1>0. /\ ousgBalance \in [Address -> Nat] /\ OUSGAllowanceOK /\ ReserveUnspendable
  BY DEF WrapperInv, OUSGInv, OUSGBooks
<1>1. CASE ousgBalance'[rOUSG] = ousgBalance[rOUSG]
  BY <1>1 DEF VaultStep, V!vault, rousgVars, rousgLedger
<1>2. ASSUME NEW amt \in OUSGAmounts, ousgBalance'[rOUSG] = ousgBalance[rOUSG] + amt
      PROVE  VaultStep
  <2>1. V!Donate(amt)
    BY <1>2 DEF V!Donate, rousgVars, rousgLedger
  <2> QED  BY <2>1, AddressAssumption DEF VaultStep, V!VaultNext
<1>3. ASSUME NEW c \in Address, NEW from \in Address, NEW to \in Address, NEW amt \in OUSGAmounts,
             PayOUSG(c, from, to, amt), from = rOUSG => amt = 0
      PROVE  VaultStep
  <2>1. ousgBalance' = Paid(ousgBalance, from, to, amt) /\ amt \in Nat
    BY <1>3 DEF PayOUSG
  <2>2. CASE to = rOUSG
    <3>1. ousgBalance'[rOUSG] = ousgBalance[rOUSG] + amt
      BY <1>0, <1>3, <2>1, <2>2 DEF Paid, Issued, Retired
    <3> QED  BY <1>2, <3>1
  <2>3. CASE to # rOUSG
    <3>1. ousgBalance'[rOUSG] = ousgBalance[rOUSG]
      BY <1>0, <1>3, <2>1, <2>3 DEF Paid, Issued, Retired
    <3> QED  BY <1>1, <3>1
  <2> QED  BY <2>2, <2>3
<1>4. ASSUME NEW c \in Address, NEW from \in Address, NEW amt \in OUSGAmounts,
             RetireOUSG(c, from, amt), from = rOUSG => amt = 0
      PROVE  VaultStep
  <2>1. ousgBalance'[rOUSG] = ousgBalance[rOUSG]
    BY <1>0, <1>4 DEF RetireOUSG, Retired
  <2> QED  BY <1>1, <2>1
<1>5. PICK c \in Users : OUSGHolderStep(c) \/ OUSGRoleStep(c)
  BY DEF OUSGNext
<1>6. c \in Address /\ c # rOUSG
  OBVIOUS
<1>7. CASE UNCHANGED ousgBalance
  BY <1>1, <1>7
<1>8. ASSUME NEW from \in Address, NEW to \in Address, NEW amt \in OUSGAmounts,
             OUSGTransferFrom(c, from, to, amt) \/ OUSGBurnFrom(c, from, amt)
      PROVE  VaultStep
  <2>1. from = rOUSG => amt = 0
    BY <1>0, <1>6, <1>8, SpendKeepsReserve DEF OUSGTransferFrom, OUSGBurnFrom
  <2> QED  BY <1>3, <1>4, <1>6, <1>8, <2>1 DEF OUSGTransferFrom, OUSGBurnFrom
<1>9. ASSUME NEW to \in Address, NEW amt \in OUSGAmounts, OUSGMint(c, to, amt)
      PROVE  VaultStep
  <2>1. ousgBalance' = Issued(ousgBalance, to, amt)
    BY <1>9 DEF OUSGMint, IssueOUSG
  <2> QED  BY <1>0, <1>1, <1>2, <2>1 DEF Issued
<1>10. CASE OUSGHolderStep(c)
  BY <1>3, <1>4, <1>6, <1>7, <1>8, <1>10
  DEF OUSGHolderStep, OUSGTransfer, OUSGApprove, OUSGIncreaseAllowance, OUSGDecreaseAllowance,
      OUSGBurnOwn
<1>11. ASSUME NEW from \in OUSGSeizable, NEW amt \in OUSGAmounts, OUSGSeize(c, from, amt)
       PROVE  VaultStep
  <2>1. from # rOUSG
    BY <1>11 DEF ReserveSeized
  <2> QED  BY <1>4, <1>6, <1>11, <2>1 DEF OUSGSeize
<1>12. CASE OUSGRoleStep(c)
  BY <1>7, <1>9, <1>11, <1>12
  DEF OUSGRoleStep, OUSGPause, OUSGUnpause, OUSGSetKYCRegistry, OUSGSetKYCRequirementGroup,
      ousgLedger
<1> QED  BY <1>5, <1>10, <1>12

LEMMA EveryStepIsAVaultStep ==
  ASSUME WrapperInv, [Next]_vars, ~ ReserveSeized
  PROVE  VaultStep
<1> USE ROUSGConstants
<1>0. SharesBooks /\ ROUSGConfigOK /\ PriceOK
  BY DEF WrapperInv
<1>1. CASE UNCHANGED <<shares, totalShares, ousgBalance>>
  BY <1>1 DEF VaultStep, V!vault
<1>2. ASSUME NEW c \in Users, HolderStep(c) PROVE VaultStep
  <2>1. ASSUME NEW from \in Address, NEW to \in Address, NEW amt \in ROUSGAmounts,
               MoveTokens(c, from, to, amt), UNCHANGED ousgVars
        PROVE  VaultStep
    BY <1>0, <2>1, GetSharesType, ReassignIsAVaultStep DEF MoveTokens
  <2>2. ASSUME NEW to \in Address, NEW n \in ShareAmounts, TransferSharesTo(c, to, n)
        PROVE  VaultStep
    BY <1>0, <2>2, ReassignIsAVaultStep DEF TransferSharesTo
  <2>3. ASSUME NEW amt \in ROUSGAmounts, Unwrap(c, amt)
        PROVE  VaultStep
    BY <1>0, <2>3, GetSharesType, BurnIsAWithdrawal DEF Unwrap, CanUnwrap
  <2>4. ASSUME NEW s \in Address, NEW amt, Approve(c, s, amt)
        PROVE  VaultStep
    BY <1>1, <2>4 DEF Approve, ousgVars, ousgLedger
  <2> QED  BY <1>2, <2>1, <2>2, <2>3, <2>4, WrapIsADeposit
           DEF HolderStep, Transfer, TransferFrom, IncreaseAllowance, DecreaseAllowance
<1>3. ASSUME NEW c \in Users, RoleStep(c) PROVE VaultStep
  <2>1. ASSUME NEW from \in Address, NEW amt \in ROUSGAmounts, Burn(c, from, amt)
        PROVE  VaultStep
    BY <1>0, <2>1, GetSharesType, BurnIsAWithdrawal DEF Burn
  <2> QED  BY <1>1, <1>3, <2>1
           DEF RoleStep, Pause, Unpause, SetOracle, SetKYCRegistry, SetKYCRequirementGroup,
               rousgLedger, ousgVars, ousgLedger
<1>4. CASE OUSGNext /\ UNCHANGED rousgVars
  BY <1>4, OUSGCallIsADonation
<1> QED  BY <1>1, <1>2, <1>3, <1>4
         DEF Next, OracleStep, vars, rousgVars, rousgLedger, ousgVars, ousgLedger

(* With the burner role of OUSG kept away from the wrapper, every behaviour *)
(* of wrapper, token, oracle and registries is one of the share vault.      *)
THEOREM WrapperImplementsVault ==
  ASSUME rOUSG \notin OUSGSeizable
  PROVE  Spec => ImplementsShareVault
<1>1. Init => V!VaultInit
  BY ROUSGConstants DEF Init, ROUSGInit, OUSGInit, V!VaultInit
<1>2. WrapperInv /\ [Next]_vars => [V!VaultNext]_V!vault
  BY EveryStepIsAVaultStep DEF VaultStep, ReserveSeized
<1> QED  BY <1>1, <1>2, WrapperInitInv, WrapperStepInv, PTL
         DEF Spec, ImplementsShareVault, V!VaultSpec

-----------------------------------------------------------------------------
(* The vault keeps its books, whatever it is a view of. *)

VaultInv == V!VaultTypeOK /\ V!ClaimsAreSum /\ V!ClaimsBacked

(* The vault adds up as the tokens do. *)
LEMMA VaultTotal == \A bal : V!Total(bal) = Total(bal)
BY DEF V!Total, V!AllCoins, V!Coins, Total, AllCoins, Coins,
       V!Cardinality, Cardinality

LEMMA VaultInitInv == V!VaultInit => VaultInv
<1> SUFFICES ASSUME V!VaultInit PROVE VaultInv
  OBVIOUS
<1>1. V!ClaimsAreSum
  BY VaultTotal, TotalZero DEF V!VaultInit, V!ClaimsAreSum
<1> QED  BY <1>1, ROUSGConstants DEF V!VaultInit, VaultInv, V!VaultTypeOK, V!ClaimsBacked

(* The three parts are inductive together: the sum shows that a withdrawal *)
(* takes no more than all claims, and the backing that the reserve can pay *)
(* for what is taken.                                                      *)
LEMMA VaultStepInv == VaultInv /\ VaultStep => VaultInv'
<1> SUFFICES ASSUME VaultInv, VaultStep PROVE VaultInv'
  OBVIOUS
<1> DEFINE reserve == ousgBalance[rOUSG]
<1>1. /\ shares \in [Address -> Nat] /\ totalShares \in Nat /\ reserve \in Nat
      /\ Total(shares) = totalShares /\ totalShares <= reserve * MULT
      /\ MULT \in Nat \ {0} /\ OUSGAmounts \subseteq Nat
  BY VaultTotal, ROUSGConstants, OUSGAmountsNat
     DEF VaultInv, V!VaultTypeOK, V!ClaimsAreSum, V!ClaimsBacked
<1>2. ASSUME NEW total \in Nat, totalShares' = total, shares' \in [Address -> Nat],
             Total(shares') = total, reserve' \in Nat, total <= reserve' * MULT
      PROVE  VaultInv'
  <2>1. V!ClaimsAreSum'
    BY <1>2, VaultTotal DEF V!ClaimsAreSum
  <2> QED  BY <1>2, <2>1 DEF VaultInv, V!VaultTypeOK, V!ClaimsBacked
<1>3. ASSUME NEW a \in Address, NEW n \in OUSGAmounts, V!Deposit(a, n)
      PROVE  VaultInv'
  <2>1. n \in Nat /\ n * MULT \in Nat
    BY <1>1
  <2>2. shares' \in [Address -> Nat] /\ Total(shares') = Total(shares) + n * MULT
    <3>1. shares' = Issued(shares, a, n * MULT)
      BY <1>3 DEF V!Deposit, V!Issued, Issued
    <3> QED  BY <1>1, <2>1, <3>1, TotalIssued
  <2>3. totalShares + n * MULT <= (reserve + n) * MULT
    <3> HIDE DEF reserve
    <3> QED  BY <1>1, <2>1, DepositStaysBacked
  <2>4. totalShares' = totalShares + n * MULT /\ reserve' = reserve + n
    BY <1>3 DEF V!Deposit
  <2> QED  BY <1>1, <1>2, <2>1, <2>2, <2>3, <2>4
<1>4. ASSUME NEW n \in OUSGAmounts, V!Donate(n)
      PROVE  VaultInv'
  <2>1. n \in Nat
    BY <1>1
  <2>2. totalShares <= (reserve + n) * MULT
    <3> HIDE DEF reserve
    <3> QED  BY <1>1, <2>1, DepositStaysBacked
  <2> QED  BY <1>1, <1>2, <1>4, <2>1, <2>2 DEF V!Donate
<1>5. ASSUME NEW a \in Address, NEW k \in MULT .. shares[a], V!Withdraw(a, k)
      PROVE  VaultInv'
  <2>1. k \in Nat /\ k \in 0 .. shares[a] /\ k \div MULT \in Nat
    BY <1>1, RoundsDown
  <2>2. shares' \in [Address -> Nat] /\ Total(shares') = Total(shares) - k
    <3>1. shares' = Retired(shares, a, k)
      BY <1>5 DEF V!Withdraw, V!Retired, Retired
    <3> QED  BY <1>1, <2>1, <3>1, TotalRetired
  <2>3. Total(shares') \in Nat
    BY <2>2, TotalType
  <2>4. k \in 0 .. totalShares
    BY <1>1, <2>1, <2>2, <2>3
  <2>5. k \div MULT <= reserve /\ totalShares - k <= (reserve - k \div MULT) * MULT
    <3> HIDE DEF reserve
    <3> QED  BY <1>1, <2>4, WithdrawalStaysBacked
  <2> DEFINE out == k \div MULT
  <2>6. totalShares' = totalShares - k /\ reserve' = reserve - out
    BY <1>5 DEF V!Withdraw
  <2>7. out \in Nat /\ out <= reserve /\ totalShares - k <= (reserve - out) * MULT
    BY <2>1, <2>5
  <2> HIDE DEF out
  <2>8. reserve - out \in Nat
    BY <1>1, <2>7
  <2> QED  BY <1>1, <1>2, <2>2, <2>3, <2>6, <2>7, <2>8
<1>6. ASSUME NEW a \in Address, NEW b \in Address, NEW k \in 0 .. shares[a], V!Reassign(a, b, k)
      PROVE  VaultInv'
  <2>1. shares' \in [Address -> Nat] /\ Total(shares') = Total(shares)
    <3>1. shares' = Paid(shares, a, b, k)
      BY <1>6 DEF V!Reassign, V!Paid, V!Issued, V!Retired, Paid, Issued, Retired
    <3> QED  BY <1>1, <3>1, TotalPaid
  <2> QED  BY <1>1, <1>2, <1>6, <2>1 DEF V!Reassign
<1>7. CASE UNCHANGED V!vault
  BY <1>1, <1>2, <1>7 DEF V!vault
<1> QED  BY <1>3, <1>4, <1>5, <1>6, <1>7 DEF VaultStep, V!VaultNext

(* The running total is always the sum of the claims, and the reserve      *)
(* always covers it: what wrap, unwrap, burn and the transfers of rOUSG.sol *)
(* are to keep true.  Only the vault's four actions matter here.           *)
THEOREM VaultKeepsItsBooks ==
  V!VaultSpec => [](V!VaultTypeOK /\ V!ClaimsAreSum /\ V!ClaimsBacked)
<1>1. V!VaultInit => VaultInv
  BY VaultInitInv
<1>2. VaultInv /\ [V!VaultNext]_V!vault => VaultInv'
  BY VaultStepInv DEF VaultStep
<1>3. VaultInv => V!VaultTypeOK /\ V!ClaimsAreSum /\ V!ClaimsBacked
  BY DEF VaultInv
<1> QED  BY <1>1, <1>2, <1>3, PTL DEF V!VaultSpec

(* Every share is backed by the OUSG the contract holds: the rounding of   *)
(* unwrap and burn never pays out more than the shares that go.            *)
THEOREM WrapperIsBacked ==
  ASSUME rOUSG \notin OUSGSeizable
  PROVE  Spec => []Backed
<1>1. Spec => V!VaultSpec
  BY WrapperImplementsVault DEF ImplementsShareVault
<1>2. V!ClaimsBacked => Backed
  BY DEF V!ClaimsBacked, Backed
<1> QED  BY <1>1, <1>2, VaultKeepsItsBooks, PTL

-----------------------------------------------------------------------------
(* What holders are shown, and what they get for it. *)

LEMMA Scales ==
  ASSUME WrapperInv
  PROVE  /\ ONE * MULT \in Nat \ {0} /\ GetOUSGPrice \in Nat
         /\ shares \in [Address -> Nat] /\ totalShares \in Nat /\ Total(shares) = totalShares
<1>1. ONE * MULT \in Nat \ {0}
  BY ROUSGConstants
<1>2. GetOUSGPrice \in Nat
  BY ROUSGConstants DEF WrapperInv, ROUSGConfigOK, PriceOK, GetOUSGPrice
<1> QED  BY <1>1, <1>2 DEF WrapperInv, SharesBooks, SharesAreSum

(* Shares taken for the rOUSG they are worth, and back: none more, and     *)
(* those lost are worth less than a unit of rOUSG and one share.           *)
LEMMA SharesThereAndBack ==
  ASSUME WrapperInv, Priced, NEW s \in Nat
  PROVE  LET n == GetSharesByROUSG(GetROUSGByShares(s))
         IN  n \in Nat /\ n <= s /\ (s - n) * GetOUSGPrice < ONE * MULT + GetOUSGPrice
<1> DEFINE p == GetOUSGPrice
           k == ONE * MULT
           r == (s * p) \div k
           n == (r * k) \div p
<1>1. p \in Nat \ {0} /\ k \in Nat \ {0}
  BY Scales DEF Priced
<1>2. n \in Nat /\ n <= s /\ (s - n) * p < k + p
  <2> HIDE DEF p, k
  <2> QED  BY <1>1, RoundTrip
<1>3. GetROUSGByShares(s) = r
  BY DEF GetROUSGByShares
<1>4. r \in Nat
  <2> HIDE DEF p, k
  <2> QED  BY <1>1, ShownOne
<1>5. GetSharesByROUSG(r) = n
  <2> HIDE DEF r
  <2>1. r * ONE * MULT = r * (ONE * MULT)
    BY <1>4, ROUSGConstants
  <2> QED  BY <2>1 DEF GetSharesByROUSG
<1> HIDE DEF n, r
<1> QED  BY <1>2, <1>3, <1>5

(* The balances that rOUSG.balanceOf shows never add up to more than       *)
(* totalSupply, and fall short of it by less than a unit for each holder,  *)
(* at any price.                                                           *)
THEOREM WrapperSupplyMatches == Spec => []SupplyMatchesBalances
<1>1. WrapperInv => SupplyMatchesBalances
  <2> SUFFICES ASSUME WrapperInv PROVE SupplyMatchesBalances
    OBVIOUS
  <2> DEFINE k     == ONE * MULT
             whole == (Total(shares) * GetOUSGPrice) \div k
             parts == Total(Shown(shares, GetOUSGPrice, k))
             h     == Cardinality(Holders(shares, Address))
  <2>1. TotalSupply = whole
    BY Scales DEF TotalSupply, GetROUSGByShares
  <2>2. [a \in Address |-> BalanceOf(a)] = Shown(shares, GetOUSGPrice, k)
    BY DEF BalanceOf, GetROUSGByShares, Shown
  <2>3. {a \in Address : shares[a] > 0} = Holders(shares, Address)
    BY DEF Holders
  <2>4. /\ whole \in Nat /\ parts \in Nat /\ h \in Nat
        /\ parts <= whole
        /\ whole = parts \/ whole < parts + h
    <3>1. k \in Nat \ {0}
      BY Scales
    <3> HIDE DEF k
    <3> QED  BY <3>1, Scales, ShownGap
  <2> HIDE DEF whole, k
  <2>5. Total([a \in Address |-> BalanceOf(a)]) = parts
    BY <2>2
  <2>6. Cardinality({a \in Address : shares[a] > 0}) = h
    BY <2>3
  <2> HIDE DEF parts, h
  <2>7. whole - parts >= 0 /\ (whole - parts = 0 \/ whole - parts < h)
    BY <2>4
  <2> QED  BY <2>1, <2>5, <2>6, <2>7 DEF SupplyMatchesBalances
<1> QED  BY <1>1, WrapperInitInv, WrapperStepInv, PTL DEF Spec

(* Who unwraps all that rOUSG.balanceOf shows him is out at most one unit  *)
(* of OUSG, while OUSG is worth at least one.                              *)
THEOREM WrapperFullExit == Spec => []FullExitLosesAtMostOneUnit
<1>1. WrapperInv => FullExitLosesAtMostOneUnit
  <2> SUFFICES ASSUME WrapperInv, GetOUSGPrice >= ONE, NEW a \in Address
               PROVE  GetSharesByROUSG(BalanceOf(a)) \div MULT >= shares[a] \div MULT - 1
    BY DEF FullExitLosesAtMostOneUnit
  <2> DEFINE s == shares[a]
             p == GetOUSGPrice
             n == GetSharesByROUSG(GetROUSGByShares(s))
             k == ONE * MULT
             m == MULT
  <2>1. s \in Nat /\ p \in Nat \ {0} /\ m \in Nat \ {0} /\ p >= ONE /\ k = ONE * m
    BY Scales, ROUSGConstants
  <2>2. n \in Nat /\ n <= s /\ (s - n) * p < k + p
    <3>1. Priced
      BY <2>1 DEF Priced
    <3> HIDE DEF s
    <3> QED  BY <2>1, <3>1, SharesThereAndBack
  <2> HIDE DEF n, s, p, k, m
  <2>3. k <= p * m
    <3>1. ONE \in Nat
      BY ROUSGConstants
    <3> QED  BY <2>1, <3>1
  <2>4. s - n < m + 1
    <3> SUFFICES ASSUME s - n >= m + 1 PROVE FALSE
      BY <2>1, <2>2
    <3>1. (s - n) * p >= (m + 1) * p
      BY <2>1, <2>2
    <3>2. (m + 1) * p = p * m + p /\ p * m \in Nat
      BY <2>1
    <3>3. k \in Nat /\ (s - n) * p \in Nat
      <4>1. ONE \in Nat /\ s - n \in Nat
        BY <2>1, <2>2, ROUSGConstants
      <4> QED  BY <2>1, <4>1
    <3> QED  BY <2>1, <2>2, <2>3, <3>1, <3>2, <3>3
  <2>5. n \div m >= s \div m - 1
    <3> DEFINE d == s \div m
               e == n \div m
    <3>1. d \in Nat /\ e \in Nat /\ d * m <= s /\ n < e * m + m
      BY <2>1, <2>2, RoundsDown, RoundsDownLess
    <3> HIDE DEF d, e
    <3>2. d * m < (e + 2) * m
      <4>1. (e + 2) * m = e * m + m + m /\ e * m \in Nat /\ d * m \in Nat
        BY <2>1, <3>1
      <4> QED  BY <2>1, <2>2, <2>4, <3>1, <4>1
    <3>3. d < e + 2
      BY <2>1, <3>1, <3>2
    <3>4. e >= d - 1
      BY <3>1, <3>3
    <3> QED  BY <3>4 DEF d, e
  <2> QED  BY <2>5 DEF n, s, m, BalanceOf
<1> QED  BY <1>1, WrapperInitInv, WrapperStepInv, PTL DEF Spec

(* Who may move both tokens, and holds shares worth a unit of OUSG, can    *)
(* unwrap all that rOUSG.balanceOf shows him: rounding never asks for more *)
(* shares than he has, nor for more OUSG than the contract holds.          *)
THEOREM WrapperExitIsOpen ==
  ASSUME rOUSG \notin OUSGSeizable
  PROVE  Spec => []ExitIsOpen
<1>1. WrapperInv /\ Backed => ExitIsOpen
  <2> SUFFICES ASSUME WrapperInv, Backed, NEW a \in Users,
                      ~ rousgPaused, ~ ousgPaused,
                      Cleared(a), OUSGCleared(a), OUSGCleared(rOUSG), Priced,
                      GetSharesByROUSG(BalanceOf(a)) >= MULT
               PROVE  CanUnwrap(a, BalanceOf(a))
    BY DEF ExitIsOpen
  <2> DEFINE amt == BalanceOf(a)
             n   == GetSharesByROUSG(amt)
             out == OUSGFor(n)
             r   == ousgBalance[rOUSG]
             m   == MULT
  <2>1. /\ a \in Address /\ a # Zero /\ rOUSG # Zero /\ m \in Nat \ {0} /\ r \in Nat
        /\ shares \in [Address -> Nat] /\ totalShares \in Nat /\ Total(shares) = totalShares
    BY Scales, ROUSGConstants, OUSGAssumption DEF WrapperInv, OUSGInv, OUSGBooks
  <2>2. n \in Nat /\ n <= shares[a]
    BY <2>1, SharesThereAndBack DEF BalanceOf
  <2>3. shares[a] <= totalShares
    BY <2>1, TotalCoversOne
  <2>4. amt > 0
    <3>1. amt \in Nat
      <4>1. (shares[a] * GetOUSGPrice) \div (ONE * MULT) \in Nat
        <5> DEFINE k == ONE * MULT
                   p == GetOUSGPrice
        <5>1. k \in Nat \ {0} /\ p \in Nat /\ shares[a] \in Nat
          BY <2>1, Scales
        <5> HIDE DEF k, p
        <5>2. shares[a] * p \in Nat
          BY <5>1
        <5>3. (shares[a] * p) \div k \in Nat
          BY <5>1, <5>2
        <5> QED  BY <5>3 DEF k, p
      <4> QED  BY <4>1 DEF BalanceOf, GetROUSGByShares
    <3>2. CASE amt = 0
      <4>1. amt * ONE * MULT = 0 /\ GetOUSGPrice \in Nat \ {0}
        BY <3>2, Scales, ROUSGConstants DEF Priced
      <4>2. n = 0
        BY <4>1 DEF GetSharesByROUSG
      <4> QED  BY <2>1, <4>2
    <3> QED  BY <3>1, <3>2
  <2>5. out <= r
    <3> HIDE DEF n, r, m
    <3>1. n <= r * m
      <4>1. r * m \in Nat /\ totalShares <= r * m
        BY <2>1 DEF Backed, r, m
      <4> QED  BY <2>1, <2>2, <2>3, <4>1
    <3>2. n \div m <= r
      BY <2>1, <2>2, <3>1, RoundsDownMost
    <3> QED  BY <3>2 DEF OUSGFor, m
  <2>6. CanBurnShares(a, a, n)
    BY <2>1, <2>2 DEF CanBurnShares, ROUSGHook
  <2>7. CanPayOUSG(rOUSG, rOUSG, a, out)
    BY <2>1, <2>5 DEF CanPayOUSG, OUSGHook
  <2> HIDE DEF amt, out
  <2> QED  BY <2>4, <2>6, <2>7 DEF CanUnwrap, CanRelease, WorthAUnit, out, amt
<1> QED  BY <1>1, WrapperIsBacked, WrapperInitInv, WrapperStepInv, PTL DEF Spec

-----------------------------------------------------------------------------
(* The reserve beyond what backs the shares. *)

(* The arithmetic of the vault's four actions.                             *)
LEMMA VaultStepKeepsSurplus ==
  ASSUME WrapperInv, VaultStep
  PROVE  Surplus' >= Surplus
<1> DEFINE r  == ousgBalance[rOUSG]
           r2 == ousgBalance'[rOUSG]
           m  == MULT
<1>1. r \in Nat /\ totalShares \in Nat /\ m \in Nat \ {0} /\ OUSGAmounts \subseteq Nat
      /\ shares \in [Address -> Nat]
  BY ROUSGConstants, OUSGAmountsNat DEF WrapperInv, OUSGInv, OUSGBooks, SharesBooks
<1>2. Surplus = r * m - totalShares /\ Surplus' = r2 * m - totalShares'
  BY DEF Surplus
<1>3. ASSUME NEW a \in Address, NEW n \in OUSGAmounts, V!Deposit(a, n)
      PROVE  r2 * m - totalShares' >= r * m - totalShares
  <2>1. r2 = r + n /\ totalShares' = totalShares + n * m /\ n \in Nat
    BY <1>1, <1>3 DEF V!Deposit
  <2> HIDE DEF r, r2, m
  <2>2. (r + n) * m = r * m + n * m /\ r * m \in Nat /\ n * m \in Nat
    BY <1>1, <2>1
  <2> QED  BY <1>1, <2>1, <2>2
<1>4. ASSUME NEW n \in OUSGAmounts, V!Donate(n)
      PROVE  r2 * m - totalShares' >= r * m - totalShares
  <2>1. r2 = r + n /\ totalShares' = totalShares /\ n \in Nat
    BY <1>1, <1>4 DEF V!Donate
  <2> HIDE DEF r, r2, m
  <2>2. (r + n) * m = r * m + n * m /\ r * m \in Nat /\ n * m \in Nat
    BY <1>1, <2>1
  <2> QED  BY <1>1, <2>1, <2>2
<1>5. ASSUME NEW a \in Address, NEW k \in m .. shares[a], V!Withdraw(a, k)
      PROVE  r2 * m - totalShares' >= r * m - totalShares
  <2> DEFINE out == k \div m
  <2>1. k \in Nat
    BY <1>1
  <2>2. out \in Nat /\ out * m <= k
    <3> HIDE DEF m
    <3> QED  BY <1>1, <2>1, RoundsDown
  <2>3. r2 = r - out /\ totalShares' = totalShares - k
    BY <1>5 DEF V!Withdraw
  <2> HIDE DEF r, r2, m, out
  <2>4. (r - out) * m = r * m - out * m /\ r * m \in Nat /\ out * m \in Nat
    BY <1>1, <2>2
  <2> QED  BY <1>1, <2>1, <2>2, <2>3, <2>4
<1>6. ASSUME r2 = r, totalShares' = totalShares
      PROVE  r2 * m - totalShares' >= r * m - totalShares
  <2> HIDE DEF r, r2, m
  <2>1. r * m \in Nat
    BY <1>1
  <2> QED  BY <1>1, <1>6, <2>1
<1>7. ASSUME NEW a \in Address, NEW b \in Address, NEW k \in 0 .. shares[a], V!Reassign(a, b, k)
      PROVE  r2 * m - totalShares' >= r * m - totalShares
  <2>1. r2 = r /\ totalShares' = totalShares
    BY <1>7 DEF V!Reassign
  <2> QED  BY <1>6, <2>1
<1>8. CASE UNCHANGED V!vault
  <2>1. r2 = r /\ totalShares' = totalShares
    BY <1>8 DEF V!vault
  <2> QED  BY <1>2, <1>6, <2>1
<1> HIDE DEF r, r2
<1> QED  BY <1>2, <1>3, <1>4, <1>5, <1>7, <1>8 DEF VaultStep, V!VaultNext

(* The surplus over the shares only shrinks when the burner role of OUSG   *)
(* burns from the wrapper: the rounding of unwrap and burn of rOUSG.sol is *)
(* always in its favour.                                                   *)
THEOREM WrapperSurplusStays == Spec => SurplusNeverShrinks
<1> DEFINE Step == Surplus' >= Surplus
                     \/ \E b \in Users, amt \in OUSGAmounts : OUSGSeize(b, rOUSG, amt)
<1>1. WrapperInv /\ [Next]_vars => [Step]_vars
  <2>1. ReserveSeized => Step
    BY DEF ReserveSeized
  <2>2. WrapperInv /\ [Next]_vars /\ ~ ReserveSeized => Step
    BY EveryStepIsAVaultStep, VaultStepKeepsSurplus
  <2> HIDE DEF Step
  <2> QED  BY <2>1, <2>2
<1>2. Spec => [][Step]_vars
  BY <1>1, WrapperInitInv, WrapperStepInv, PTL DEF Spec
<1> QED  BY <1>2 DEF SurplusNeverShrinks

=============================================================================
