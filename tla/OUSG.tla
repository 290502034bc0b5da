-------------------------------- MODULE OUSG --------------------------------
(***************************************************************************)
(* The OUSG token, contracts/ousg/ousg.sol (CashKYCSenderReceiver): an     *)
(* OpenZeppelin ERC-20 with minter/pauser preset, whose transfer hook      *)
(* requires the caller, the sender and the recipient to be KYC'd.          *)
(*                                                                         *)
(* One action per external function.  The caller is the first parameter    *)
(* (msg.sender).  A call that reverts is an action that is not enabled.    *)
(* Roles are fixed: granting and revoking them (AccessControl) is not      *)
(* modelled.                                                               *)
(***************************************************************************)
EXTENDS KYCStatus

CONSTANTS
  Users,          \* the addresses that send transactions
  RoleHolders,    \* [role name -> SUBSET Address]
  MaxUint,        \* type(uint256).max, the allowance that is never spent
  OUSGAmounts,    \* bound: amounts passed to transfers, mints and burns
  OUSGSpenders,   \* bound: the addresses holders approve
  OUSGApprovals,  \* bound: amounts passed to approve and its increments
  MaxOUSG,        \* bound: no mint takes the supply above it
  OUSGSeizable    \* the accounts the burner role is used against

HasRole(role, a) == a \in RoleHolders[role]

ASSUME OUSGAssumption ==
  /\ Users \subseteq Address \ {Zero}
  /\ MaxUint \in Nat \ {0}
  /\ OUSGAmounts \subseteq 0 .. MaxUint
  /\ OUSGSpenders \subseteq Address
  /\ OUSGApprovals \subseteq 0 .. MaxUint
  /\ OUSGSeizable \subseteq Address
  /\ \A role \in DOMAIN RoleHolders : RoleHolders[role] \subseteq Address \ {Zero}

VARIABLES
  ousgBalance,    \* _balances
  ousgAllowance,  \* _allowances[owner][spender]
  ousgSupply,     \* _totalSupply
  ousgPaused,     \* Pausable._paused
  ousgRegistry,   \* kycRegistry
  ousgGroup       \* kycRequirementGroup

ousgLedger == <<ousgBalance, ousgAllowance, ousgSupply>>
ousgConfig == <<ousgPaused, ousgRegistry, ousgGroup>>
ousgVars   == <<ousgLedger, ousgConfig>>

OUSGTypeOK ==
  /\ ousgBalance \in [Address -> Nat]
  /\ ousgAllowance \in [Address -> [Address -> 0 .. MaxUint]]
  /\ ousgSupply \in Nat
  /\ ousgPaused \in BOOLEAN
  /\ ousgRegistry \in Registry
  /\ ousgGroup \in Group
  /\ KYCTypeOK

(* A freshly initialised token; the registries already list some people. *)
OUSGInit ==
  /\ ousgBalance = [a \in Address |-> 0]
  /\ ousgAllowance = [a \in Address |-> [b \in Address |-> 0]]
  /\ ousgSupply = 0
  /\ ousgPaused = FALSE
  /\ ousgRegistry \in Registry
  /\ ousgGroup \in Group

-----------------------------------------------------------------------------
(* KYCRegistryClient._getKYCStatus *)
OUSGCleared(a) == GetKYCStatus(ousgRegistry, ousgGroup, a)

(* Mutants of the hook: no check of the pause, none of the sender. *)
OUSGHookNoPause(caller, from, to) ==
  OUSGCleared(caller) /\ \A a \in {from, to} \ {Zero} : OUSGCleared(a)

OUSGHookNoFrom(caller, from, to) ==
  ~ ousgPaused /\ OUSGCleared(caller) /\ (to # Zero => OUSGCleared(to))

(* _beforeTokenTransfer: the pause check of ERC20Pausable, then KYC of the *)
(* caller and of whichever of the two ends is an account.                  *)
OUSGHook(caller, from, to) ==
  /\ ~ ousgPaused
  /\ OUSGCleared(caller)
  /\ from # Zero => OUSGCleared(from)
  /\ to # Zero => OUSGCleared(to)

(* ERC20._transfer, _mint and _burn: their checks ... *)
CanPayOUSG(caller, from, to, amt) ==
  /\ from # Zero
  /\ to # Zero
  /\ OUSGHook(caller, from, to)
  /\ amt <= ousgBalance[from]

CanIssueOUSG(caller, to) == to # Zero /\ OUSGHook(caller, Zero, to)

CanRetireOUSG(caller, from, amt) ==
  /\ from # Zero
  /\ OUSGHook(caller, from, Zero)
  /\ amt <= ousgBalance[from]

(* ... and their writes. *)
PayOUSG(caller, from, to, amt) ==
  /\ CanPayOUSG(caller, from, to, amt)
  /\ ousgBalance' = Paid(ousgBalance, from, to, amt)
  /\ UNCHANGED ousgSupply

IssueOUSG(caller, to, amt) ==
  /\ CanIssueOUSG(caller, to)
  /\ ousgBalance' = Issued(ousgBalance, to, amt)
  /\ ousgSupply' = ousgSupply + amt

RetireOUSG(caller, from, amt) ==
  /\ CanRetireOUSG(caller, from, amt)
  /\ ousgBalance' = Retired(ousgBalance, from, amt)
  /\ ousgSupply' = ousgSupply - amt

(* _approve *)
SetOUSGAllowance(owner, spender, amt) ==
  /\ owner # Zero
  /\ spender # Zero
  /\ ousgAllowance' = [ousgAllowance EXCEPT ![owner][spender] = amt]

(* A mutant of the next definition: what is missing is not asked for. *)
SpendOUSGAllowanceClamped(owner, spender, amt) ==
  LET current == ousgAllowance[owner][spender] IN
    SetOUSGAllowance(owner, spender, IF amt <= current THEN current - amt ELSE 0)

(* _spendAllowance: the maximal allowance is never drawn down. *)
SpendOUSGAllowance(owner, spender, amt) ==
  LET current == ousgAllowance[owner][spender] IN
    \/ current = MaxUint /\ UNCHANGED ousgAllowance
    \/ /\ current # MaxUint
       /\ amt <= current
       /\ SetOUSGAllowance(owner, spender, current - amt)

-----------------------------------------------------------------------------
(* The external functions. *)

OUSGTransfer(caller, to, amt) ==
  /\ PayOUSG(caller, caller, to, amt)
  /\ UNCHANGED <<ousgAllowance, ousgConfig>>

OUSGTransferFrom(caller, from, to, amt) ==
  /\ SpendOUSGAllowance(from, caller, amt)
  /\ PayOUSG(caller, from, to, amt)
  /\ UNCHANGED ousgConfig

OUSGApprove(caller, spender, amt) ==
  /\ SetOUSGAllowance(caller, spender, amt)
  /\ UNCHANGED <<ousgBalance, ousgSupply, ousgConfig>>

(* The sum is checked arithmetic: an overflow reverts. *)
OUSGIncreaseAllowance(caller, spender, added) ==
  /\ ousgAllowance[caller][spender] + added <= MaxUint
  /\ OUSGApprove(caller, spender, ousgAllowance[caller][spender] + added)

OUSGDecreaseAllowance(caller, spender, subtracted) ==
  /\ subtracted <= ousgAllowance[caller][spender]
  /\ OUSGApprove(caller, spender, ousgAllowance[caller][spender] - subtracted)

OUSGMint(caller, to, amt) ==
  /\ HasRole("OUSG_MINTER", caller)
  /\ IssueOUSG(caller, to, amt)
  /\ UNCHANGED <<ousgAllowance, ousgConfig>>

(* ERC20Burnable.burn and burnFrom, open to every holder and spender. *)
OUSGBurnOwn(caller, amt) ==
  /\ RetireOUSG(caller, caller, amt)
  /\ UNCHANGED <<ousgAllowance, ousgConfig>>

OUSGBurnFrom(caller, from, amt) ==
  /\ SpendOUSGAllowance(from, caller, amt)
  /\ RetireOUSG(caller, from, amt)
  /\ UNCHANGED ousgConfig

(* burn(from, amount), the burner role's own entry point. *)
OUSGSeize(caller, from, amt) ==
  /\ HasRole("OUSG_BURNER", caller)
  /\ RetireOUSG(caller, from, amt)
  /\ UNCHANGED <<ousgAllowance, ousgConfig>>

OUSGPause(caller) ==
  /\ HasRole("OUSG_PAUSER", caller)
  /\ ~ ousgPaused
  /\ ousgPaused' = TRUE
  /\ UNCHANGED <<ousgLedger, ousgRegistry, ousgGroup>>

OUSGUnpause(caller) ==
  /\ HasRole("OUSG_PAUSER", caller)
  /\ ousgPaused
  /\ ousgPaused' = FALSE
  /\ UNCHANGED <<ousgLedger, ousgRegistry, ousgGroup>>

(* Registry holds contracts only, so the zero-address check always passes. *)
OUSGSetKYCRegistry(caller, registry) ==
  /\ HasRole("OUSG_KYC_CONFIGURER", caller)
  /\ ousgRegistry' = registry
  /\ UNCHANGED <<ousgLedger, ousgPaused, ousgGroup>>

OUSGSetKYCRequirementGroup(caller, group) ==
  /\ HasRole("OUSG_KYC_CONFIGURER", caller)
  /\ ousgGroup' = group
  /\ UNCHANGED <<ousgLedger, ousgPaused, ousgRegistry>>

-----------------------------------------------------------------------------
OUSGHolderStep(c) ==
  \/ \E to \in Address, amt \in OUSGAmounts : OUSGTransfer(c, to, amt)
  \/ \E from, to \in Address, amt \in OUSGAmounts : OUSGTransferFrom(c, from, to, amt)
  \/ \E s \in OUSGSpenders, amt \in OUSGApprovals : OUSGApprove(c, s, amt)
  \/ \E s \in OUSGSpenders, amt \in OUSGApprovals : OUSGIncreaseAllowance(c, s, amt)
  \/ \E s \in OUSGSpenders, amt \in OUSGApprovals : OUSGDecreaseAllowance(c, s, amt)
  \/ \E amt \in OUSGAmounts : OUSGBurnOwn(c, amt)
  \/ \E from \in Address, amt \in OUSGAmounts : OUSGBurnFrom(c, from, amt)

OUSGRoleStep(c) ==
  \/ \E to \in Address, amt \in OUSGAmounts :
       ousgSupply + amt <= MaxOUSG /\ OUSGMint(c, to, amt)
  \/ \E from \in OUSGSeizable, amt \in OUSGAmounts : OUSGSeize(c, from, amt)
  \/ OUSGPause(c)
  \/ OUSGUnpause(c)
  \/ \E r \in Registry : OUSGSetKYCRegistry(c, r)
  \/ \E g \in Group : OUSGSetKYCRequirementGroup(c, g)

OUSGNext == \E c \in Users : OUSGHolderStep(c) \/ OUSGRoleStep(c)

(* The token beside its registries. *)
OUSGWithKYCInit == OUSGInit /\ KYCInit

OUSGWithKYC == \/ UNCHANGED ousgVars /\ KYCNext
               \/ UNCHANGED kycVars /\ OUSGNext

OUSGSpec == OUSGWithKYCInit /\ [][OUSGWithKYC]_<<ousgVars, kycVars>>

-----------------------------------------------------------------------------
(* Properties of the token. *)

(* The supply is the sum of the balances: no path through transfer,        *)
(* transferFrom to oneself, mint or any of the three burns loses or        *)
(* creates a coin.                                                         *)
OUSGSupplyIsSum == Total(ousgBalance) = ousgSupply

(* An account that is not cleared cannot be touched: whoever the caller    *)
(* is, also a minter or burner, its balance stays (_beforeTokenTransfer).  *)
OUSGFrozenStay ==
  [][\A a \in Address : ~ OUSGCleared(a) => ousgBalance'[a] = ousgBalance[a]]_ousgVars

(* While the token is paused no balance moves and the supply is fixed, for *)
(* holders and for every role; only approvals still work.                  *)
OUSGPausedStay ==
  [][ousgPaused => UNCHANGED <<ousgBalance, ousgSupply>>]_ousgVars

(* An account that sends no transactions of its own, and that the burner  *)
(* role leaves alone, never loses a coin: no approval, transferFrom or     *)
(* burnFrom among the others reaches it.                                   *)
OUSGIdleKeep ==
  [][\A a \in Address \ (Users \cup OUSGSeizable) :
       ousgBalance'[a] >= ousgBalance[a]]_ousgVars

=============================================================================
