------------------------- MODULE OUSGInstantManager -------------------------
(***************************************************************************)
(* contracts/ousg/ousgInstantManager.sol: instant mints and redemptions of *)
(* OUSG and rOUSG against USDC, composed with both tokens, the oracle, the *)
(* KYC registries and the rate limiter the contract inherits.              *)
(*                                                                         *)
(* One transaction makes many calls: a rebasing mint takes USDC in two     *)
(* transfers, mints OUSG, approves, wraps and transfers rOUSG.  It is one  *)
(* action; where the same ledger changes several times the action composes *)
(* the ledger operators in the order of the calls.  The functions are      *)
(* nonReentrant and the tokens make no callbacks.                          *)
(*                                                                         *)
(* multiexcall, by which the admin makes this contract call anything, is   *)
(* not modelled.                                                           *)
(***************************************************************************)
EXTENDS ROUSG, RateLimiter

CONSTANTS
  manager,             \* the address of this contract
  usdcReceiver,        \* immutable: receives the USDC of subscriptions
  decimalsMultiplier,  \* immutable: 10^(OUSG decimals - USDC decimals)
  MINIMUM_OUSG_PRICE,  \* the circuit breaker
  FEE_GRANULARITY,     \* fees are fractions of it
  FEE_CAP,             \* 200, the number in setMintFee and setRedeemFee
  InitialMinimums,     \* the initial values of the three minimum amounts
  Rejects,             \* [investor limiter -> the callers it rejects]
  FeeReceivers,        \* bound: the addresses setFeeReceiver is given
  Fees,                \* bound: the fees a configurer sets
  Minimums,            \* bound: the minimum amounts a configurer sets
  OUSGRedemptions,     \* bound: the amounts of OUSG redeemed
  ROUSGRedemptions,    \* bound: the amounts of rOUSG redeemed
  USDCApprovals,       \* bound: the amounts of USDC users approve
  USDCTransfers,       \* bound: the amounts of USDC users give to this contract
  USDCFunds,           \* bound: the USDC each user starts with
  BUIDLFunds           \* bound: the BUIDL this contract starts with

NoLimiter == "none"    \* address(0) as the investor-based limiter

ASSUME ManagerAssumption ==
  /\ manager \in Address \ (Users \cup {Zero, rOUSG})
  /\ usdcReceiver \in Address \ (Users \cup {Zero, rOUSG, manager})
  /\ decimalsMultiplier \in Nat \ {0}
  /\ MINIMUM_OUSG_PRICE \in Nat
  /\ FEE_GRANULARITY \in Nat \ {0}
  /\ FEE_CAP \in Nat
  /\ FeeReceivers \subseteq Address
  /\ USDCFunds \in [Users -> Nat]
  /\ BUIDLFunds \in Nat
  /\ InitialMinimums \in [deposit : Nat, redemption : Nat, buidl : Nat]
  /\ \A s \in {Fees, Minimums, OUSGRedemptions, ROUSGRedemptions,
             USDCApprovals, USDCTransfers} : s \subseteq Nat
  /\ NoLimiter \notin DOMAIN Rejects

(* _getMintAmount multiplies with checked arithmetic: a larger request     *)
(* reverts.  (The product is even, type(uint256).max is not.)              *)
ASSUME RequestAssumption ==
  \A usdc \in Requests : usdc * decimalsMultiplier * ONE < MaxUint

VARIABLES
  config,          \* the configuration, a record with the contract's names
  usdcBalance,     \* USDC
  usdcAllowance,   \* USDC the users let this contract take
  buidlBalance     \* BUIDL held by this contract

moneyVars   == <<usdcBalance, usdcAllowance, buidlBalance>>
managerVars == <<config, moneyVars, limiterVars>>
allVars     == <<managerVars, now, vars>>

ManagerTypeOK ==
  /\ config \in [mintFee : Nat, redeemFee : Nat,
                 minimumDepositAmount : Nat, minimumRedemptionAmount : Nat,
                 minBUIDLRedeemAmount : Nat, feeReceiver : Address,
                 oracle : Oracle, mintPaused : BOOLEAN, redeemPaused : BOOLEAN,
                 investorBasedRateLimiter : {NoLimiter} \cup DOMAIN Rejects]
  /\ usdcBalance \in [Address -> Nat]
  /\ usdcAllowance \in [Users -> Nat]
  /\ buidlBalance \in Nat
  /\ LimiterTypeOK
  /\ TypeOK

(* The constructor and the initial values of the variables. *)
ManagerInit ==
  /\ \E o \in Oracle, f \in FeeReceivers \ {Zero} :
       config = [mintFee |-> 0, redeemFee |-> 0,
                 minimumDepositAmount |-> InitialMinimums.deposit,
                 minimumRedemptionAmount |-> InitialMinimums.redemption,
                 minBUIDLRedeemAmount |-> InitialMinimums.buidl, feeReceiver |-> f,
                 oracle |-> o, mintPaused |-> FALSE, redeemPaused |-> FALSE,
                 investorBasedRateLimiter |-> NoLimiter]
  /\ usdcBalance = [a \in Address |-> IF a \in Users THEN USDCFunds[a] ELSE 0]
  /\ usdcAllowance = [u \in Users |-> 0]
  /\ buidlBalance = BUIDLFunds

SystemInit == ManagerInit /\ LimiterInit /\ Init

-----------------------------------------------------------------------------
(* Prices, conversions and fees: each rounds down. *)

ManagerPrice   == price[config.oracle]
PriceNotTooLow == ManagerPrice > MINIMUM_OUSG_PRICE

(* A mutant of the next definition: the mint is rounded up. *)
MintAmountRoundedUp(usdc) ==
  (usdc * decimalsMultiplier * ONE + ManagerPrice - 1) \div ManagerPrice

MintAmount(usdc) == (usdc * decimalsMultiplier * ONE) \div ManagerPrice

RedemptionAmount(ousg) == ((ousg * ManagerPrice) \div ONE) \div decimalsMultiplier

MintFees(usdc)       == (usdc * config.mintFee) \div FEE_GRANULARITY
RedemptionFees(usdc) == (usdc * config.redeemFee) \div FEE_GRANULARITY

(* The hook for a limiter per investor: it may reject the caller. *)
InvestorMayProceed(u) ==
  config.investorBasedRateLimiter # NoLimiter =>
    u \notin Rejects[config.investorBasedRateLimiter]

-----------------------------------------------------------------------------
(* Minting. *)

(* _mint up to the OUSG itself: the checks, and the caller's USDC in two   *)
(* transfers, fee first.                                                   *)
TakePayment(u, usdc) ==
  LET fees     == MintFees(usdc)
      afterFee == Paid(usdcBalance, u, config.feeReceiver, fees)
  IN  /\ usdc >= config.minimumDepositAmount
      /\ CheckAndUpdate("mint", usdc)
      /\ InvestorMayProceed(u)
      /\ usdcAllowance[u] >= usdc
      /\ PriceNotTooLow
      /\ MintAmount(usdc - fees) > 0
      /\ fees <= usdcBalance[u]
      /\ usdc - fees <= afterFee[u]
      /\ usdcBalance' = Paid(afterFee, u, usdcReceiver, usdc - fees)
      /\ usdcAllowance' = [usdcAllowance EXCEPT ![u] = @ - usdc]
      /\ HasRole("OUSG_MINTER", manager)
      /\ UNCHANGED <<config, buidlBalance, now>>

Mint(u, usdc) ==
  /\ ~ config.mintPaused
  /\ TakePayment(u, usdc)
  /\ IssueOUSG(manager, u, MintAmount(usdc - MintFees(usdc)))
  /\ UNCHANGED <<ousgAllowance, ousgConfig, rousgVars>>

(* A mutant of the next definition: the OUSG never leaves the manager. *)
NotWrapped(bal, ousg) == bal

(* wrap as it moves OUSG: from this contract to rOUSG. *)
Wrapped(bal, ousg) == Paid(bal, manager, rOUSG, ousg)

(* A mutant of the next definition: OUSG is taken for shares. *)
SharesForwardedUnscaled(ousg) == GetSharesByROUSG(GetROUSGByShares(ousg))

(* The shares the caller receives: those of the rOUSG the new shares are   *)
(* worth, so rounded twice.                                                *)
SharesForwarded(ousg) == GetSharesByROUSG(GetROUSGByShares(ousg * MULT))

(* _mint to this contract, approve, wrap, transfer. *)
MintRebasingOUSG(u, usdc) ==
  LET ousg == MintAmount(usdc - MintFees(usdc))
      n    == SharesForwarded(ousg)
  IN  /\ ~ config.mintPaused
      /\ TakePayment(u, usdc)
      /\ CanIssueOUSG(manager, manager)
      /\ OUSGHook(rOUSG, manager, rOUSG)
      /\ CanMintShares(manager, manager)
      /\ Priced
      /\ ROUSGHook(manager, manager, u)
      /\ n <= shares[manager] + ousg * MULT
      /\ ousgBalance' = Wrapped(Issued(ousgBalance, manager, ousg), ousg)
      /\ ousgSupply' = ousgSupply + ousg
      /\ ousgAllowance' = [ousgAllowance EXCEPT
                             ![manager][rOUSG] = IF ousg = MaxUint THEN MaxUint ELSE 0]
      /\ totalShares' = totalShares + ousg * MULT
      /\ shares' = Paid(Issued(shares, manager, ousg * MULT), manager, u, n)
      /\ UNCHANGED <<allowances, rousgConfig, ousgConfig>>

-----------------------------------------------------------------------------
(* Redeeming. *)

(* A mutant of the next definition: a small redemption redeems no BUIDL. *)
SourcedNoMinimum(amt) == IF amt >= config.minBUIDLRedeemAmount THEN amt ELSE 0

(* How much BUIDL a redemption of amt turns into USDC: all of it at or     *)
(* above the redeemer's minimum; the minimum if the USDC held falls short; *)
(* else none.                                                              *)
Sourced(amt) ==
  IF amt >= config.minBUIDLRedeemAmount THEN amt
  ELSE IF amt > usdcBalance[manager] THEN config.minBUIDLRedeemAmount
  ELSE 0

(* The redeemer is external: it takes the BUIDL and sends USDC, as much as *)
(* it took or less.                                                        *)
RedeemerPays(amt) == {amt, amt - 1} \cap Nat

(* A mutant of the next definition: a short payment is accepted. *)
PaidAnything(paid, amt) == TRUE

PaidOneToOne(paid, amt) == paid = amt

(* _redeemBUIDL *)
RedeemBUIDL(amt, paid) ==
  /\ buidlBalance >= config.minBUIDLRedeemAmount
  /\ amt <= buidlBalance
  /\ PaidOneToOne(paid, amt)

(* What a redemption counts against the rate limit. *)
Charged(amt) == amt

(* What the redeemer may pay a redemption of ousg: nothing if not asked. *)
Payments(ousg) == LET need == Sourced(RedemptionAmount(ousg)) IN
                    IF need = 0 THEN {0} ELSE RedeemerPays(need)

(* _redeem but for the burn of OUSG, when the redeemer pays `paid`: its    *)
(* checks, USDC from BUIDL or from what is held, the fee, the rest ...     *)
CanPayRedemption(u, ousg, paid) ==
  LET amt    == RedemptionAmount(ousg)
      fees   == RedemptionFees(amt)
      need   == Sourced(amt)
      funded == Issued(usdcBalance, manager, paid)
      feeOut == Paid(funded, manager, config.feeReceiver, fees)
  IN  /\ PriceNotTooLow
      /\ amt >= config.minimumRedemptionAmount
      /\ Admits("redeem", Charged(amt))
      /\ InvestorMayProceed(u)
      /\ amt - fees > 0
      /\ need > 0 => RedeemBUIDL(need, paid)
      /\ fees <= funded[manager]
      /\ amt - fees <= feeOut[manager]

(* ... and its writes, in the order of the calls. *)
PayFrom(u, ousg, paid) ==
  LET amt  == RedemptionAmount(ousg)
      fees == RedemptionFees(amt)
  IN  /\ Update("redeem", Charged(amt))
      /\ usdcBalance' = Paid(Paid(Issued(usdcBalance, manager, paid),
                                  manager, config.feeReceiver, fees),
                             manager, u, amt - fees)
      /\ buidlBalance' = buidlBalance - Sourced(amt)
      /\ UNCHANGED <<config, usdcAllowance, now>>

PayRedemption(u, ousg) ==
  \E paid \in Payments(ousg) : CanPayRedemption(u, ousg, paid) /\ PayFrom(u, ousg, paid)

(* transferFrom the caller, then burn: the checks ... *)
CanRedeem(u, ousg, paid) ==
  /\ ~ config.redeemPaused
  /\ ousgAllowance[u][manager] >= ousg
  /\ CanPayOUSG(manager, u, manager, ousg)
  /\ CanPayRedemption(u, ousg, paid)

(* ... and the writes. *)
Redeem(u, ousg) ==
  \E paid \in Payments(ousg) :
    /\ CanRedeem(u, ousg, paid)
    /\ SpendOUSGAllowance(u, manager, ousg)
    /\ PayFrom(u, ousg, paid)
    /\ ousgBalance' = Retired(Paid(ousgBalance, u, manager, ousg), manager, ousg)
    /\ ousgSupply' = ousgSupply - ousg
    /\ UNCHANGED <<ousgConfig, rousgVars>>

(* rOUSG from the caller, unwrap it, burn the OUSG it paid.  The shares    *)
(* moved in and burned are the same number: the price is the same.         *)
RedeemRebasingOUSG(u, rousg) ==
  LET n    == GetSharesByROUSG(rousg)
      ousg == OUSGFor(n)
  IN  /\ ~ config.redeemPaused
      /\ rousg <= allowances[u][manager]
      /\ Priced
      /\ CanMoveShares(manager, u, manager, n)
      /\ SetAllowance(u, manager, allowances[u][manager] - rousg)
      /\ rousg > 0
      /\ WorthAUnit(n)
      /\ ROUSGHook(manager, manager, Zero)
      /\ CanPayOUSG(rOUSG, rOUSG, manager, ousg)
      /\ OUSGHook(manager, manager, Zero)
      /\ PayRedemption(u, ousg)
      /\ shares' = Retired(shares, u, n)
      /\ totalShares' = totalShares - n
      /\ ousgBalance' = Retired(Paid(ousgBalance, rOUSG, manager, ousg), manager, ousg)
      /\ ousgSupply' = ousgSupply - ousg
      /\ UNCHANGED <<rousgConfig, ousgAllowance, ousgConfig>>

-----------------------------------------------------------------------------
(* Configuration.  The tokens, the limiter and the money are not touched.  *)

Configure(field, value) ==
  /\ config' = [config EXCEPT ![field] = value]
  /\ UNCHANGED <<moneyVars, limiterVars, now, rousgVars, ousgVars>>

ConfigureLimiter(c) ==
  /\ HasRole("M_CONFIGURER", c)
  /\ \/ \E side \in Side, n \in Limits : SetLimit(side, n)
     \/ \E side \in Side, d \in Durations : SetDuration(side, d)
  /\ UNCHANGED <<config, moneyVars, now, rousgVars, ousgVars>>

(* Both fee setters compare the fee in force with the cap, not the new one. *)
SetMintFee(c, fee) ==
  /\ HasRole("M_CONFIGURER", c)
  /\ config.mintFee < FEE_CAP
  /\ Configure("mintFee", fee)

SetRedeemFee(c, fee) ==
  /\ HasRole("M_CONFIGURER", c)
  /\ config.redeemFee < FEE_CAP
  /\ Configure("redeemFee", fee)

SetMinimumDepositAmount(c, amt) ==
  /\ HasRole("M_CONFIGURER", c)
  /\ amt >= FEE_GRANULARITY
  /\ Configure("minimumDepositAmount", amt)

SetMinimumRedemptionAmount(c, amt) ==
  /\ HasRole("M_CONFIGURER", c)
  /\ amt >= FEE_GRANULARITY
  /\ Configure("minimumRedemptionAmount", amt)

SetMinimumBUIDLRedemptionAmount(c, amt) ==
  /\ HasRole("M_ADMIN", c)
  /\ Configure("minBUIDLRedeemAmount", amt)

SetManagerOracle(c, o) ==
  /\ HasRole("M_ADMIN", c)
  /\ Configure("oracle", o)

SetFeeReceiver(c, a) ==
  /\ HasRole("M_ADMIN", c)
  /\ a # Zero
  /\ Configure("feeReceiver", a)

SetInvestorBasedRateLimiter(c, l) ==
  /\ HasRole("M_ADMIN", c)
  /\ Configure("investorBasedRateLimiter", l)

(* Pausing twice is allowed: the code sets the flag without looking at it. *)
PauseMint(c)     == HasRole("M_PAUSER", c) /\ Configure("mintPaused", TRUE)
UnpauseMint(c)   == HasRole("M_ADMIN", c)  /\ Configure("mintPaused", FALSE)
PauseRedeem(c)   == HasRole("M_PAUSER", c) /\ Configure("redeemPaused", TRUE)
UnpauseRedeem(c) == HasRole("M_ADMIN", c)  /\ Configure("redeemPaused", FALSE)

(* retrieveTokens: this contract transfers any of its tokens. *)
RetrieveUSDC(c, to, amt) ==
  /\ HasRole("M_ADMIN", c)
  /\ to # Zero
  /\ amt <= usdcBalance[manager]
  /\ usdcBalance' = Paid(usdcBalance, manager, to, amt)
  /\ UNCHANGED <<config, usdcAllowance, buidlBalance, limiterVars, now, rousgVars, ousgVars>>

RetrieveBUIDL(c, amt) ==
  /\ HasRole("M_ADMIN", c)
  /\ amt <= buidlBalance
  /\ buidlBalance' = buidlBalance - amt
  /\ UNCHANGED <<config, usdcBalance, usdcAllowance, limiterVars, now, rousgVars, ousgVars>>

RetrieveOUSG(c, to, amt) ==
  /\ HasRole("M_ADMIN", c)
  /\ OUSGTransfer(manager, to, amt)
  /\ UNCHANGED <<managerVars, now, rousgVars>>

RetrieveROUSG(c, to, amt) ==
  /\ HasRole("M_ADMIN", c)
  /\ Transfer(manager, to, amt)
  /\ UNCHANGED <<managerVars, now>>

-----------------------------------------------------------------------------
(* The users' side of USDC: approving this contract, and giving it USDC    *)
(* outside of any mint.                                                    *)
ApproveUSDC(u, amt) ==
  /\ usdcAllowance' = [usdcAllowance EXCEPT ![u] = amt]
  /\ UNCHANGED <<config, usdcBalance, buidlBalance, limiterVars, now, rousgVars, ousgVars>>

GiveUSDC(u, amt) ==
  /\ amt <= usdcBalance[u]
  /\ usdcBalance' = Paid(usdcBalance, u, manager, amt)
  /\ UNCHANGED <<config, usdcAllowance, buidlBalance, limiterVars, now, rousgVars, ousgVars>>

-----------------------------------------------------------------------------
MintStep(u) == \E usdc \in Requests : Mint(u, usdc) \/ MintRebasingOUSG(u, usdc)

RedeemStep(u) == \/ \E ousg \in OUSGRedemptions : Redeem(u, ousg)
                 \/ \E rousg \in ROUSGRedemptions : RedeemRebasingOUSG(u, rousg)

InvestorStep == \E u \in Users : MintStep(u) \/ RedeemStep(u)

ConfigStep(c) ==
  \/ ConfigureLimiter(c)
  \/ \E fee \in Fees : SetMintFee(c, fee) \/ SetRedeemFee(c, fee)
  \/ \E amt \in Minimums : \/ SetMinimumDepositAmount(c, amt)
                            \/ SetMinimumRedemptionAmount(c, amt)
                            \/ SetMinimumBUIDLRedemptionAmount(c, amt)
  \/ \E o \in Oracle : SetManagerOracle(c, o)
  \/ \E a \in FeeReceivers : SetFeeReceiver(c, a)
  \/ \E l \in {NoLimiter} \cup DOMAIN Rejects : SetInvestorBasedRateLimiter(c, l)
  \/ PauseMint(c) \/ UnpauseMint(c) \/ PauseRedeem(c) \/ UnpauseRedeem(c)

RetrieveStep(c) ==
  \/ \E amt \in USDCTransfers : \/ \E to \in {usdcReceiver, Zero} : RetrieveUSDC(c, to, amt)
                                 \/ RetrieveBUIDL(c, amt)
  \/ \E to \in Address, amt \in OUSGAmounts : RetrieveOUSG(c, to, amt)
  \/ \E to \in Address, amt \in ROUSGAmounts : RetrieveROUSG(c, to, amt)

USDCStep(u) == \/ \E amt \in USDCApprovals : ApproveUSDC(u, amt)
               \/ \E amt \in USDCTransfers : GiveUSDC(u, amt)

TickStep == Tick /\ UNCHANGED <<config, moneyVars>>

ManagerNext ==
  \/ InvestorStep /\ UNCHANGED <<price, kycVars>>
  \/ \E c \in Users : (ConfigStep(c) \/ RetrieveStep(c) \/ USDCStep(c))
                       /\ UNCHANGED <<price, kycVars>>
  \/ Next /\ UNCHANGED <<managerVars, now>>
  \/ TickStep /\ UNCHANGED vars

ManagerSpec == SystemInit /\ [][ManagerNext]_allVars

-----------------------------------------------------------------------------
(* Properties. *)

(* Every transaction leaves all contracts in order, this one's balances    *)
(* included: nothing is overdrawn, each token's total is the sum of its    *)
(* holders, and the wrapped OUSG backs the shares.                         *)
TokensInOrder == ManagerTypeOK /\ OUSGSupplyIsSum /\ SharesAreSum /\ Backed

(* What an account owns, and what this contract and the two receivers own  *)
(* less the OUSG they owe for, at the manager's price; both scaled up so   *)
(* that no division is needed.                                             *)
Worth(a) == MULT * (usdcBalance[a] * decimalsMultiplier * ONE + ousgBalance[a] * ManagerPrice)
              + shares[a] * ManagerPrice

Equity ==
  LET cash == buidlBalance + Total([a \in Address \ Users |-> usdcBalance[a]])
  IN  cash * decimalsMultiplier * ONE - ousgSupply * ManagerPrice

(* At an unchanged price nobody gains by minting or redeeming, neither the *)
(* caller nor another user: every rounding goes against the caller.        *)
NobodyProfits ==
  [][(\E a \in Users : Worth(a)' > Worth(a)) => ~ InvestorStep]_allVars

(* The other side of it: no mint or redemption leaves the issuer with less *)
(* than it owes more; BUIDL turns into USDC one to one or not at all.      *)
EquityNeverFalls == [][Equity' < Equity => ~ InvestorStep]_allVars

(* A transaction leaves nothing of its caller behind but dust: this        *)
(* contract's OUSG and its approval of rOUSG are what they were, and the   *)
(* shares it keeps of a rebasing mint are worth less than a unit of rOUSG  *)
(* and one share.                                                          *)
KeepsOnlyDust ==
  [][(\/ ousgBalance'[manager] # ousgBalance[manager]
      \/ ousgAllowance'[manager][rOUSG] \notin {0, ousgAllowance[manager][rOUSG]}
      \/ (shares'[manager] - shares[manager]) * GetOUSGPrice >= ONE * MULT + GetOUSGPrice)
     => ~ InvestorStep]_allVars

(* The money follows the gates: a mint or a redemption moves an investor's *)
(* USDC only when OUSG is not paused, and either he is KYC'd with OUSG and *)
(* his shares stay, or he is KYC'd with rOUSG, which is not paused either, *)
(* and his OUSG stays.  This contract asks none of it: the hooks must see  *)
(* the investor in each of the four calls, though it is the caller there.  *)
Served(u) ==
  /\ ~ ousgPaused
  /\ \/ OUSGCleared(u) /\ shares'[u] = shares[u]
     \/ ~ rousgPaused /\ Cleared(u) /\ ousgBalance'[u] = ousgBalance[u]

ServesOnlyTheCleared ==
  [][(\E u \in Users \ {config.feeReceiver} :
        usdcBalance'[u] # usdcBalance[u] /\ ~ Served(u)) => ~ InvestorStep]_allVars

(* A redemption never fails for want of USDC while this contract has BUIDL *)
(* for it: whatever the fees and minimums, once the tokens, the gates and  *)
(* the rate limit let the caller through and BUIDL covers the amount and   *)
(* the redeemer's minimum, a redeemer that pays in full makes the call     *)
(* succeed.  CanRedeem is all that Redeem asks for: its other conjuncts    *)
(* are assignments, to an allowance that covers the amount among them.     *)
RedemptionIsOpen ==
  \A u \in Users, ousg \in OUSGRedemptions :
    LET amt == RedemptionAmount(ousg) IN
      (/\ ~ config.redeemPaused
       /\ ousg <= ousgAllowance[u][manager]
       /\ ousg <= ousgBalance[u]
       /\ OUSGHook(manager, u, manager)
       /\ PriceNotTooLow
       /\ amt >= config.minimumRedemptionAmount
       /\ Admits("redeem", amt)
       /\ InvestorMayProceed(u)
       /\ amt > RedemptionFees(amt)
       /\ buidlBalance >= amt
       /\ buidlBalance >= config.minBUIDLRedeemAmount)
      => CanRedeem(u, ousg, Sourced(amt))

-----------------------------------------------------------------------------
(* What the source says, and the code does not do. *)

(* The requirement of setMintFee and setRedeemFee (lines 557 and 570) is   *)
(* called "Fee too high": no fee reaches the cap.                          *)
FeesBelowCap == config.mintFee < FEE_CAP /\ config.redeemFee < FEE_CAP

=============================================================================
