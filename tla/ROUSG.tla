------------------------------- MODULE ROUSG -------------------------------
(***************************************************************************)
(* The rebasing wrapper contracts/ousg/rOUSG.sol, beside the OUSG token it *)
(* wraps, the oracle that prices it and the KYC registries both consult.   *)
(*                                                                         *)
(* Holders own shares; amounts of rOUSG exist only in the interface, where *)
(* the oracle's price converts them to shares, rounding down.  wrap,       *)
(* unwrap and burn call the OUSG token in the same transaction, so each is *)
(* one action that conjoins the token's own transfer.                      *)
(***************************************************************************)
EXTENDS OUSG

CONSTANTS
  rOUSG,           \* the address of this contract
  ONE,             \* 1e18, the scale of prices
  MULT,            \* OUSG_TO_ROUSG_SHARES_MULTIPLIER
  Oracle,          \* the oracles setOracle may choose from
  Prices,          \* bound: the answers of an oracle, 0 among them at will
  ROUSGAmounts,    \* bound: amounts passed to rOUSG calls
  Spenders,        \* bound: the addresses holders approve
  ROUSGApprovals,  \* bound: amounts passed to approve and its increments
  MaxAllowance,    \* bound: no allowance is raised above it by increments
  ShareAmounts,    \* bound: amounts passed to transferShares
  MaxShares        \* bound: no wrap takes totalShares above it

ASSUME ROUSGAssumption ==
  /\ rOUSG \in Address \ (Users \cup {Zero})
  /\ ONE \in Nat \ {0}
  /\ MULT \in Nat \ {0}
  /\ Prices \subseteq Nat
  /\ ROUSGAmounts \subseteq Nat
  /\ Spenders \subseteq Address
  /\ ROUSGApprovals \subseteq Nat
  /\ MaxAllowance \in Nat
  /\ ShareAmounts \subseteq Nat

VARIABLES
  shares,           \* shares[account]
  totalShares,      \* totalShares
  allowances,       \* allowances[owner][spender], in rOUSG
  rousgPaused,      \* Pausable._paused
  rousgRegistry,    \* kycRegistry
  rousgGroup,       \* kycRequirementGroup
  oracle,           \* the oracle in use
  price             \* [Oracle -> price its getPriceData answers]

rousgLedger == <<shares, totalShares, allowances>>
rousgConfig == <<rousgPaused, rousgRegistry, rousgGroup, oracle>>
rousgVars   == <<rousgLedger, rousgConfig>>
vars        == <<rousgVars, price, ousgVars, kycVars>>

TypeOK ==
  /\ shares \in [Address -> Nat]
  /\ totalShares \in Nat
  /\ allowances \in [Address -> [Address -> Nat]]
  /\ rousgPaused \in BOOLEAN
  /\ rousgRegistry \in Registry
  /\ rousgGroup \in Group
  /\ oracle \in Oracle
  /\ price \in [Oracle -> Prices]
  /\ OUSGTypeOK

ROUSGInit ==
  /\ shares = [a \in Address |-> 0]
  /\ totalShares = 0
  /\ allowances = [a \in Address |-> [b \in Address |-> 0]]
  /\ rousgPaused = FALSE
  /\ rousgRegistry \in Registry
  /\ rousgGroup \in Group
  /\ oracle \in Oracle
  /\ price \in [Oracle -> Prices]

Init == ROUSGInit /\ OUSGInit /\ KYCInit

-----------------------------------------------------------------------------
(* Prices and conversions. *)

GetOUSGPrice == price[oracle]

(* Mutants of the conversions: rounding up, and a forgotten multiplier. *)
GetSharesRoundedUp(amt)  == (amt * ONE * MULT + GetOUSGPrice - 1) \div GetOUSGPrice
GetSharesUnscaled(amt)   == (amt * ONE) \div GetOUSGPrice
GetROUSGRoundedUp(n)     == (n * GetOUSGPrice + ONE * MULT - 1) \div (ONE * MULT)

(* Both conversions round down; the first divides by the price, and a call *)
(* that needs it reverts while the price is zero.                          *)
GetSharesByROUSG(amt) == (amt * ONE * MULT) \div GetOUSGPrice
GetROUSGByShares(n)   == (n * GetOUSGPrice) \div (ONE * MULT)

BalanceOf(a) == GetROUSGByShares(shares[a])
TotalSupply  == GetROUSGByShares(totalShares)

Priced == GetOUSGPrice # 0

(* KYCRegistryClient._getKYCStatus *)
Cleared(a) == GetKYCStatus(rousgRegistry, rousgGroup, a)

(* A mutant of the hook: no check of the sender. *)
ROUSGHookNoFrom(caller, from, to) ==
  \A a \in ({to} \cup ({caller} \ {from})) \ {Zero} : Cleared(a)

(* _beforeTokenTransfer: a caller who is neither end must be KYC'd, and so *)
(* must whichever of the two ends is an account.                           *)
ROUSGHook(caller, from, to) ==
  /\ caller \notin {from, to} => Cleared(caller)
  /\ from # Zero => Cleared(from)
  /\ to # Zero => Cleared(to)

(* A mutant of the next definition: the recipient is read too early. *)
SharesMovedStale(from, to, n) ==
  [Retired(shares, from, n) EXCEPT ![to] = shares[to] + n]

(* The writes of _transferShares: the recipient's shares are read after    *)
(* the sender's are written.                                               *)
SharesMoved(from, to, n) == Issued(Retired(shares, from, n), to, n)

-----------------------------------------------------------------------------
(* The internal functions: the checks of _transferShares, _mintShares and  *)
(* _burnShares ...                                                         *)

CanMoveShares(caller, from, to, n) ==
  /\ ~ rousgPaused
  /\ from # Zero
  /\ to # Zero
  /\ ROUSGHook(caller, from, to)
  /\ n <= shares[from]

CanMintShares(caller, to) ==
  /\ ~ rousgPaused
  /\ to # Zero
  /\ ROUSGHook(caller, Zero, to)

(* A mutant of the next definition: an account cannot be emptied. *)
CanBurnSharesNotAll(caller, from, n) ==
  ~ rousgPaused /\ from # Zero /\ ROUSGHook(caller, from, Zero) /\ n < shares[from]

CanBurnShares(caller, from, n) ==
  /\ ~ rousgPaused
  /\ from # Zero
  /\ ROUSGHook(caller, from, Zero)
  /\ n <= shares[from]

(* ... and their writes. *)
TransferShares(caller, from, to, n) ==
  /\ CanMoveShares(caller, from, to, n)
  /\ shares' = SharesMoved(from, to, n)
  /\ UNCHANGED totalShares

MintShares(caller, to, n) ==
  /\ CanMintShares(caller, to)
  /\ totalShares' = totalShares + n
  /\ shares' = Issued(shares, to, n)

(* A mutant of the next definition: the total is left as it was. *)
SharesBurnedUncounted(from, n) ==
  /\ shares' = Retired(shares, from, n)
  /\ UNCHANGED totalShares

SharesBurned(from, n) ==
  /\ totalShares' = totalShares - n
  /\ shares' = Retired(shares, from, n)

SetAllowance(owner, spender, amt) ==
  /\ ~ rousgPaused
  /\ owner # Zero
  /\ spender # Zero
  /\ allowances' = [allowances EXCEPT ![owner][spender] = amt]

(* _transfer *)
MoveTokens(caller, from, to, amt) ==
  /\ Priced
  /\ TransferShares(caller, from, to, GetSharesByROUSG(amt))

(* A mutant of the threshold: any share at all may be redeemed. *)
WorthSomething(n) == n > 0

(* UnwrapTooSmall is the other case: less than one unit of OUSG. *)
WorthAUnit(n) == n >= MULT

(* A mutant of the next definition: the payout is rounded up. *)
OUSGForRoundedUp(n) == (n + MULT - 1) \div MULT

(* The whole OUSG paid for n shares. *)
OUSGFor(n) == n \div MULT

(* What unwrap and burn have in common once the amount is n shares: every  *)
(* check on the way, those of ousg.transfer included ...                   *)
CanRelease(caller, from, n) ==
  /\ WorthAUnit(n)
  /\ CanBurnShares(caller, from, n)
  /\ CanPayOUSG(rOUSG, rOUSG, caller, OUSGFor(n))

(* ... and every write: the shares go, this contract pays the caller.      *)
Released(caller, from, n) ==
  /\ SharesBurned(from, n)
  /\ ousgBalance' = Paid(ousgBalance, rOUSG, caller, OUSGFor(n))
  /\ UNCHANGED <<allowances, rousgConfig, ousgAllowance, ousgSupply, ousgConfig>>

-----------------------------------------------------------------------------
(* The external functions. *)

Transfer(caller, to, amt) ==
  /\ MoveTokens(caller, caller, to, amt)
  /\ UNCHANGED <<allowances, rousgConfig, ousgVars>>

(* There is no infinite allowance here: every use is subtracted. *)
TransferFrom(caller, from, to, amt) ==
  /\ amt <= allowances[from][caller]
  /\ MoveTokens(caller, from, to, amt)
  /\ SetAllowance(from, caller, allowances[from][caller] - amt)
  /\ UNCHANGED <<rousgConfig, ousgVars>>

TransferSharesTo(caller, to, n) ==
  /\ TransferShares(caller, caller, to, n)
  /\ UNCHANGED <<allowances, rousgConfig, ousgVars>>

Approve(caller, spender, amt) ==
  /\ SetAllowance(caller, spender, amt)
  /\ UNCHANGED <<shares, totalShares, rousgConfig, ousgVars>>

IncreaseAllowance(caller, spender, added) ==
  Approve(caller, spender, allowances[caller][spender] + added)

DecreaseAllowance(caller, spender, subtracted) ==
  /\ subtracted <= allowances[caller][spender]
  /\ Approve(caller, spender, allowances[caller][spender] - subtracted)

Wrap(caller, amt) ==
  /\ amt > 0
  /\ MintShares(caller, caller, amt * MULT)
  /\ OUSGTransferFrom(rOUSG, caller, rOUSG, amt)
  /\ UNCHANGED <<allowances, rousgConfig>>

CanUnwrap(caller, amt) ==
  /\ amt > 0
  /\ Priced
  /\ CanRelease(caller, caller, GetSharesByROUSG(amt))

Unwrap(caller, amt) ==
  /\ CanUnwrap(caller, amt)
  /\ Released(caller, caller, GetSharesByROUSG(amt))

(* burn(account, amount): the burner takes the OUSG behind the shares. *)
Burn(caller, from, amt) ==
  /\ HasRole("BURNER", caller)
  /\ Priced
  /\ CanRelease(caller, from, GetSharesByROUSG(amt))
  /\ Released(caller, from, GetSharesByROUSG(amt))

Pause(caller) ==
  /\ HasRole("PAUSER", caller)
  /\ ~ rousgPaused
  /\ rousgPaused' = TRUE
  /\ UNCHANGED <<rousgLedger, rousgRegistry, rousgGroup, oracle, ousgVars>>

Unpause(caller) ==
  /\ HasRole("ADMIN", caller)
  /\ rousgPaused
  /\ rousgPaused' = FALSE
  /\ UNCHANGED <<rousgLedger, rousgRegistry, rousgGroup, oracle, ousgVars>>

SetOracle(caller, o) ==
  /\ HasRole("ADMIN", caller)
  /\ oracle' = o
  /\ UNCHANGED <<rousgLedger, rousgPaused, rousgRegistry, rousgGroup, ousgVars>>

SetKYCRegistry(caller, registry) ==
  /\ HasRole("CONFIGURER", caller)
  /\ rousgRegistry' = registry
  /\ UNCHANGED <<rousgLedger, rousgPaused, rousgGroup, oracle, ousgVars>>

SetKYCRequirementGroup(caller, group) ==
  /\ HasRole("CONFIGURER", caller)
  /\ rousgGroup' = group
  /\ UNCHANGED <<rousgLedger, rousgPaused, rousgRegistry, oracle, ousgVars>>

-----------------------------------------------------------------------------
HolderStep(c) ==
  \/ \E to \in Address, amt \in ROUSGAmounts : Transfer(c, to, amt)
  \/ \E from, to \in Address, amt \in ROUSGAmounts : TransferFrom(c, from, to, amt)
  \/ \E to \in Address, n \in ShareAmounts : TransferSharesTo(c, to, n)
  \/ \E s \in Spenders, amt \in ROUSGApprovals : Approve(c, s, amt)
  \/ \E s \in Spenders, amt \in ROUSGApprovals :
       /\ allowances[c][s] + amt <= MaxAllowance
       /\ IncreaseAllowance(c, s, amt)
  \/ \E s \in Spenders, amt \in ROUSGApprovals : DecreaseAllowance(c, s, amt)
  \/ \E amt \in OUSGAmounts : totalShares + amt * MULT <= MaxShares /\ Wrap(c, amt)
  \/ \E amt \in ROUSGAmounts : Unwrap(c, amt)

RoleStep(c) ==
  \/ \E from \in Address, amt \in ROUSGAmounts : Burn(c, from, amt)
  \/ Pause(c)
  \/ Unpause(c)
  \/ \E o \in Oracle : SetOracle(c, o)
  \/ \E r \in Registry : SetKYCRegistry(c, r)
  \/ \E g \in Group : SetKYCRequirementGroup(c, g)

(* The oracle answers what it likes: another contract sets its price. *)
OracleStep == /\ \E o \in Oracle, p \in Prices : price' = [price EXCEPT ![o] = p]
              /\ UNCHANGED <<rousgVars, ousgVars, kycVars>>

Next ==
  \/ \E c \in Users : (HolderStep(c) \/ RoleStep(c)) /\ UNCHANGED <<price, kycVars>>
  \/ OUSGNext /\ UNCHANGED <<rousgVars, price, kycVars>>
  \/ KYCNext /\ UNCHANGED <<rousgVars, price, ousgVars>>
  \/ OracleStep

Spec == Init /\ [][Next]_vars

-----------------------------------------------------------------------------
(* Safety. *)

(* totalShares is the sum of the holders' shares, through transfers to     *)
(* oneself, wraps, unwraps and burns.                                      *)
SharesAreSum == Total(shares) = totalShares

(* The contract holds an OUSG for every MULT shares: the rounding of       *)
(* unwrap and burn and the OUSG sent to the contract directly only add to  *)
(* the reserve.  It needs the burner role to leave the contract alone.     *)
Backed == totalShares <= ousgBalance[rOUSG] * MULT

(* Nobody can spend the reserve: the contract approves no spender.         *)
ReserveUnspendable == \A s \in Address : ousgAllowance[rOUSG][s] = 0

(* The balances shown to holders never add up to more than totalSupply and *)
(* fall short of it by less than one unit per holder, at any price.        *)
SupplyMatchesBalances ==
  LET holders == {a \in Address : shares[a] > 0}
      gap     == TotalSupply - Total([a \in Address |-> BalanceOf(a)])
  IN  gap >= 0 /\ (gap = 0 \/ gap < Cardinality(holders))

(* A holder who unwraps everything he sees gets all his whole OUSG but one *)
(* unit at the worst, as long as OUSG is worth at least one.               *)
FullExitLosesAtMostOneUnit ==
  GetOUSGPrice >= ONE =>
    \A a \in Address :
      GetSharesByROUSG(BalanceOf(a)) \div MULT >= shares[a] \div MULT - 1

(* The exit is open: when neither token is paused and the holder and this  *)
(* contract are KYC'd with both, unwrapping all of a balance that is worth *)
(* a unit of OUSG succeeds; the reserve is never what stops it.  CanUnwrap *)
(* is all that Unwrap asks for: its other conjuncts are assignments.       *)
ExitIsOpen ==
  \A a \in Users :
    (/\ ~ rousgPaused /\ ~ ousgPaused
     /\ Cleared(a) /\ OUSGCleared(a) /\ OUSGCleared(rOUSG)
     /\ Priced
     /\ GetSharesByROUSG(BalanceOf(a)) >= MULT)
    => CanUnwrap(a, BalanceOf(a))

-----------------------------------------------------------------------------
(* Action properties. *)

(* The shares of an account that is not KYC'd do not change: no holder and *)
(* no spender can move them, in or out.  What the admin burn may do to     *)
(* such an account is left open: its comment, "Admin burn function to burn *)
(* rOUSG tokens from any account", and the hook it runs, which requires    *)
(* the account's KYC, say different things.                                *)
FrozenStay ==
  [][\A a \in Address :
       ~ Cleared(a) /\ shares'[a] # shares[a] =>
         \E b \in Users, amt \in ROUSGAmounts : Burn(b, a, amt)]_vars

(* A pause freezes shares and allowances whatever role the caller has;     *)
(* burn has no pause check of its own.                                     *)
PausedStay == [][rousgPaused => UNCHANGED rousgLedger]_vars

(* A spender pays for what he takes: the allowance that transferFrom draws *)
(* down is worth, at the price of the moment, at least the shares that     *)
(* leave the owner, however the conversion rounds.                         *)
AllowanceCovers ==
  [][\A c \in Users, owner, to \in Address, amt \in ROUSGAmounts :
       TransferFrom(c, owner, to, amt) =>
         (allowances[owner][c] - allowances'[owner][c]) * ONE * MULT
           >= (shares[owner] - shares'[owner]) * GetOUSGPrice]_vars

(* The surplus of the reserve over the shares never shrinks, except when   *)
(* the OUSG burner role burns from this contract.                          *)
Surplus == ousgBalance[rOUSG] * MULT - totalShares

SurplusNeverShrinks ==
  [][Surplus' >= Surplus
     \/ \E b \in Users, amt \in OUSGAmounts : OUSGSeize(b, rOUSG, amt)]_vars

-----------------------------------------------------------------------------
(* The wrapper implements the share vault. *)
V == INSTANCE ShareVault WITH Mult     <- MULT,
                              Deposits <- OUSGAmounts,
                              claim    <- shares,
                              claims   <- totalShares,
                              reserve  <- ousgBalance[rOUSG]

(* Each call of either token, seen through shares and reserve, is a        *)
(* deposit, a withdrawal, a reassignment or a donation of the vault.       *)
ImplementsShareVault == V!VaultSpec

=============================================================================
