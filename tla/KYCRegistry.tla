---------------------------- MODULE KYCRegistry ----------------------------
(***************************************************************************)
(* contracts/kyc/KYCRegistry.sol: who may change what KYCStatus shows.     *)
(* Each group of a registry is gated by a role of it, the default admin    *)
(* role until another one is assigned.  Holders of that role add and       *)
(* remove addresses, or sign an addition off-chain, which anybody delivers *)
(* until its deadline: a signature carries no nonce, so it can be          *)
(* delivered again once the user has been removed.                         *)
(***************************************************************************)
EXTENDS KYCStatus, BlockTime, FiniteSets

CONSTANTS Admin,          \* the constructor's admin of every registry
          KYCRoles,       \* the roles made for groups
          Staff,          \* bound: the accounts roles are granted to
          Deadlines,      \* bound: the deadlines that are signed
          MaxSignatures   \* bound: how many signatures are made

DefaultAdmin  == "DEFAULT_ADMIN_ROLE"
RegistryAdmin == "REGISTRY_ADMIN"
Roles         == {DefaultAdmin, RegistryAdmin} \cup KYCRoles

ASSUME RegistryAssumption == /\ Admin \in Staff
                             /\ Staff \subseteq Address \ {Zero}
                             /\ Deadlines \subseteq Nat
                             /\ MaxSignatures \in Nat

VARIABLES holders,        \* [Registry \X Roles -> SUBSET Staff]
          kycGroupRoles,  \* [Registry \X Group -> Roles]
          signatures      \* those made so far; any of them can be delivered

accessVars   == <<holders, kycGroupRoles>>
registryVars == <<kycVars, accessVars, signatures, now>>

(* The signed struct and its domain, which names the registry. *)
Approvals == [registry : Registry, group : Group, user : Reviewed,
              deadline : Deadlines, signer : Staff]

RegistryTypeOK ==
  /\ KYCTypeOK
  /\ holders \in [Registry \X Roles -> SUBSET Staff]
  /\ kycGroupRoles \in [Registry \X Group -> Roles]
  /\ signatures \subseteq Approvals
  /\ now \in Nat

(* After the constructors, and a first batch from the admin. *)
RegistryInit ==
  /\ KYCInit
  /\ ClockInit
  /\ holders = [rr \in Registry \X Roles |->
                  IF rr[2] \in {DefaultAdmin, RegistryAdmin} THEN {Admin} ELSE {}]
  /\ kycGroupRoles = [rg \in Registry \X Group |-> DefaultAdmin]
  /\ signatures = {}

(* Those who may change the group now. *)
GroupHolders(r, g) == holders[<<r, kycGroupRoles[<<r, g>>]>>]

-----------------------------------------------------------------------------
(* A mutant of the grant: the roles of groups can be taken by anybody. *)
GrantRoleUnchecked(caller, r, role, a) ==
  /\ role \in KYCRoles \/ caller \in holders[<<r, DefaultAdmin>>]
  /\ holders' = [holders EXCEPT ![<<r, role>>] = @ \cup {a}]
  /\ UNCHANGED <<kycVars, kycGroupRoles, signatures, now>>

(* AccessControl: the default admin role administers every role. *)
GrantRole(caller, r, role, a) ==
  /\ caller \in holders[<<r, DefaultAdmin>>]
  /\ holders' = [holders EXCEPT ![<<r, role>>] = @ \cup {a}]
  /\ UNCHANGED <<kycVars, kycGroupRoles, signatures, now>>

RevokeRole(caller, r, role, a) ==
  /\ caller \in holders[<<r, DefaultAdmin>>]
  /\ holders' = [holders EXCEPT ![<<r, role>>] = @ \ {a}]
  /\ UNCHANGED <<kycVars, kycGroupRoles, signatures, now>>

RenounceRole(caller, r, role) ==
  /\ holders' = [holders EXCEPT ![<<r, role>>] = @ \ {caller}]
  /\ UNCHANGED <<kycVars, kycGroupRoles, signatures, now>>

AssignRoletoKYCGroup(caller, r, g, role) ==
  /\ caller \in holders[<<r, RegistryAdmin>>]
  /\ kycGroupRoles' = [kycGroupRoles EXCEPT ![<<r, g>>] = role]
  /\ UNCHANGED <<kycVars, holders, signatures, now>>

AddBatch(caller, r, g, accounts) ==
  /\ caller \in GroupHolders(r, g)
  /\ AddKYCAddresses(r, g, accounts)
  /\ UNCHANGED <<accessVars, signatures, now>>

RemoveBatch(caller, r, g, accounts) ==
  /\ caller \in GroupHolders(r, g)
  /\ RemoveKYCAddresses(r, g, accounts)
  /\ UNCHANGED <<accessVars, signatures, now>>

(* Off-chain: anybody can sign anything, also without the role. *)
SignApproval(approval) ==
  /\ Cardinality(signatures) < MaxSignatures
  /\ signatures' = signatures \cup {approval}
  /\ UNCHANGED <<kycVars, accessVars, now>>

(* A mutant of the delivery: whoever signed, the role is not looked up. *)
AddKYCAddressViaAnySignature(approval) ==
  /\ approval.user \notin kycState[<<approval.registry, approval.group>>]
  /\ now <= approval.deadline
  /\ AddKYCAddresses(approval.registry, approval.group, {approval.user})
  /\ UNCHANGED <<accessVars, signatures, now>>

(* The deadline is the last second; the signer's role is the group's role  *)
(* now, not when it signed.                                                *)
AddKYCAddressViaSignature(approval) ==
  /\ approval.user \notin kycState[<<approval.registry, approval.group>>]
  /\ now <= approval.deadline
  /\ approval.signer \in GroupHolders(approval.registry, approval.group)
  /\ AddKYCAddresses(approval.registry, approval.group, {approval.user})
  /\ UNCHANGED <<accessVars, signatures, now>>

ReviewSanctions(accounts) ==
  /\ SetSanctions(accounts)
  /\ UNCHANGED <<accessVars, signatures, now>>

Tick == ClockTick /\ UNCHANGED <<kycVars, accessVars, signatures>>

-----------------------------------------------------------------------------
AccessStep(c, r) ==
  \/ \E role \in Roles, a \in Staff : GrantRole(c, r, role, a) \/ RevokeRole(c, r, role, a)
  \/ \E role \in Roles : RenounceRole(c, r, role)
  \/ \E g \in Group, role \in Roles : AssignRoletoKYCGroup(c, r, g, role)

ListStep(c, r) ==
  \E g \in Group, as \in SUBSET Reviewed : AddBatch(c, r, g, as) \/ RemoveBatch(c, r, g, as)

RegistryNext ==
  \/ \E c \in Staff, r \in Registry : AccessStep(c, r) \/ ListStep(c, r)
  \/ \E approval \in Approvals : SignApproval(approval)
  \/ \E approval \in signatures : AddKYCAddressViaSignature(approval)
  \/ \E as \in SUBSET Reviewed : ReviewSanctions(as)
  \/ Tick

-----------------------------------------------------------------------------
(* Properties. *)

(* While nobody holds the role of a group, its list is fixed: signatures   *)
(* made earlier, by those who held the role or for a role the group had    *)
(* then, change nothing, however often they are delivered.                 *)
OrphanGroupsAreFrozen ==
  [][\A r \in Registry, g \in Group :
       GroupHolders(r, g) = {} => kycState'[<<r, g>>] = kycState[<<r, g>>]]_registryVars

(* The authority over a registry does not come from nothing: when its two  *)
(* administrator roles and the role of a group have been given up, nobody  *)
(* holds that group's role again.                                          *)
Abandoned(r, g) ==
  /\ holders[<<r, DefaultAdmin>>] = {}
  /\ holders[<<r, RegistryAdmin>>] = {}
  /\ GroupHolders(r, g) = {}

AbandonedForGood ==
  [][\A r \in Registry, g \in Group : Abandoned(r, g) => Abandoned(r, g)']_registryVars
=============================================================================
