------------------------- MODULE KYCRegistryProofs -------------------------
(***************************************************************************)
(* What KYCRegistry guarantees, for any registries, groups, roles, staff   *)
(* and signatures: that a signature is worth no more than the role its     *)
(* signer holds when it is delivered, and that authority given up does not *)
(* return; and that the OUSG token beside real registries keeps what       *)
(* OUSGProofs shows beside lists that change freely.                       *)
(***************************************************************************)
EXTENDS OUSGWithRegistry, OUSGProofs

(* The list of a group changes in one of three ways, and each needs a      *)
(* holder of the group's role.                                             *)
LEMMA ListChangesNeedAHolder ==
  ASSUME RegistryNext
  PROVE  \/ UNCHANGED kycState
         \/ \E r \in Registry, g \in Group, as \in SUBSET Reviewed :
              /\ GroupHolders(r, g) # {}
              /\ UNCHANGED <<accessVars, signatures, now>>
              /\ AddKYCAddresses(r, g, as) \/ RemoveKYCAddresses(r, g, as)
         \/ \E approval \in signatures :
              /\ GroupHolders(approval.registry, approval.group) # {}
              /\ AddKYCAddressViaSignature(approval)
<1>1. ASSUME NEW c \in Staff, NEW r \in Registry, AccessStep(c, r)
      PROVE  UNCHANGED kycState
  BY <1>1 DEF AccessStep, GrantRole, RevokeRole, RenounceRole, AssignRoletoKYCGroup, kycVars
<1>2. ASSUME NEW c \in Staff, NEW r \in Registry, ListStep(c, r)
      PROVE  \E g \in Group, as \in SUBSET Reviewed :
               /\ GroupHolders(r, g) # {}
               /\ UNCHANGED <<accessVars, signatures, now>>
               /\ AddKYCAddresses(r, g, as) \/ RemoveKYCAddresses(r, g, as)
  BY <1>2 DEF ListStep, AddBatch, RemoveBatch
<1>3. ASSUME NEW approval \in signatures, AddKYCAddressViaSignature(approval)
      PROVE  GroupHolders(approval.registry, approval.group) # {}
  BY <1>3 DEF AddKYCAddressViaSignature
<1>4. ASSUME NEW approval \in Approvals, SignApproval(approval)
      PROVE  UNCHANGED kycState
  BY <1>4 DEF SignApproval, kycVars
<1>5. ASSUME NEW as \in SUBSET Reviewed, ReviewSanctions(as)
      PROVE  UNCHANGED kycState
  BY <1>5 DEF ReviewSanctions, SetSanctions
<1>6. Tick => UNCHANGED kycState
  BY DEF Tick, kycVars
<1> QED  BY <1>1, <1>2, <1>3, <1>4, <1>5, <1>6 DEF RegistryNext

(* While nobody holds a group's role, its list is fixed, whatever was      *)
(* signed before (KYCRegistry.addKYCAddressViaSignature looks the role up  *)
(* at delivery).                                                           *)
LEMMA OrphanStep ==
  ASSUME KYCTypeOK, RegistryNext, NEW r \in Registry, NEW g \in Group,
         GroupHolders(r, g) = {}
  PROVE  kycState'[<<r, g>>] = kycState[<<r, g>>]
<1>1. kycState \in [Registry \X Group -> SUBSET Address]
  BY DEF KYCTypeOK
<1>2. ASSUME NEW s \in Registry, NEW h \in Group, NEW as, GroupHolders(s, h) # {},
             AddKYCAddresses(s, h, as) \/ RemoveKYCAddresses(s, h, as)
      PROVE  kycState'[<<r, g>>] = kycState[<<r, g>>]
  <2>1. <<s, h>> # <<r, g>>
    BY <1>2
  <2> QED  BY <1>1, <1>2, <2>1 DEF AddKYCAddresses, RemoveKYCAddresses
<1>3. ASSUME NEW approval, GroupHolders(approval.registry, approval.group) # {},
             AddKYCAddressViaSignature(approval)
      PROVE  kycState'[<<r, g>>] = kycState[<<r, g>>]
  <2>1. <<approval.registry, approval.group>> # <<r, g>>
    BY <1>3
  <2> QED  BY <1>1, <1>3, <2>1 DEF AddKYCAddressViaSignature, AddKYCAddresses
<1> QED  BY <1>2, <1>3, ListChangesNeedAHolder

(* Types. *)
LEMMA RegistryInitType == RegistryInit => RegistryTypeOK
<1> SUFFICES ASSUME RegistryInit PROVE RegistryTypeOK
  OBVIOUS
<1>1. KYCTypeOK
  BY KYCAssumption, AddressAssumption DEF RegistryInit, KYCInit, KYCTypeOK
<1>2. holders \in [Registry \X Roles -> SUBSET Staff]
  BY RegistryAssumption DEF RegistryInit
<1>3. kycGroupRoles \in [Registry \X Group -> Roles]
  BY DEF RegistryInit, Roles
<1> QED  BY <1>1, <1>2, <1>3, TimeAssumption DEF RegistryInit, ClockInit, RegistryTypeOK

LEMMA RegistryStepType ==
  RegistryTypeOK /\ [RegistryNext]_registryVars => RegistryTypeOK'
<1> SUFFICES ASSUME RegistryTypeOK, [RegistryNext]_registryVars PROVE RegistryTypeOK'
  OBVIOUS
<1> USE DEF RegistryTypeOK
<1>1. ASSUME NEW c \in Staff, NEW r \in Registry, AccessStep(c, r)
      PROVE  RegistryTypeOK'
  <2>1. KYCTypeOK' /\ signatures' = signatures /\ now' = now
    BY <1>1 DEF AccessStep, GrantRole, RevokeRole, RenounceRole, AssignRoletoKYCGroup,
                KYCTypeOK, kycVars
  <2>2. holders' \in [Registry \X Roles -> SUBSET Staff]
    <3>1. ASSUME NEW role \in Roles, NEW a \in Staff, GrantRole(c, r, role, a)
          PROVE  holders' \in [Registry \X Roles -> SUBSET Staff]
      BY <3>1 DEF GrantRole
    <3>2. ASSUME NEW role \in Roles, NEW a \in Staff, RevokeRole(c, r, role, a)
          PROVE  holders' \in [Registry \X Roles -> SUBSET Staff]
      BY <3>2 DEF RevokeRole
    <3>3. ASSUME NEW role \in Roles, RenounceRole(c, r, role)
          PROVE  holders' \in [Registry \X Roles -> SUBSET Staff]
      BY <3>3 DEF RenounceRole
    <3> QED  BY <1>1, <3>1, <3>2, <3>3 DEF AccessStep, AssignRoletoKYCGroup
  <2>3. kycGroupRoles' \in [Registry \X Group -> Roles]
    BY <1>1 DEF AccessStep, GrantRole, RevokeRole, RenounceRole, AssignRoletoKYCGroup
  <2> QED  BY <2>1, <2>2, <2>3
<1>2. ASSUME NEW c \in Staff, NEW r \in Registry, ListStep(c, r)
      PROVE  RegistryTypeOK'
  <2>1. PICK g \in Group, as \in SUBSET Reviewed :
          AddBatch(c, r, g, as) \/ RemoveBatch(c, r, g, as)
    BY <1>2 DEF ListStep
  <2>2. as \in SUBSET Address
    BY KYCAssumption
  <2>3. CASE AddBatch(c, r, g, as)
    BY <2>2, <2>3 DEF AddBatch, AddKYCAddresses, KYCTypeOK, accessVars
  <2>4. CASE RemoveBatch(c, r, g, as)
    BY <2>4 DEF RemoveBatch, RemoveKYCAddresses, KYCTypeOK, accessVars
  <2> QED  BY <2>1, <2>3, <2>4
<1>3. ASSUME NEW approval \in Approvals, SignApproval(approval)
      PROVE  RegistryTypeOK'
  BY <1>3 DEF SignApproval, KYCTypeOK, kycVars, accessVars
<1>4. ASSUME NEW approval \in signatures, AddKYCAddressViaSignature(approval)
      PROVE  RegistryTypeOK'
  <2>1. approval \in Approvals
    OBVIOUS
  <2>2. approval.user \in Address
    BY <2>1, KYCAssumption DEF Approvals
  <2> QED  BY <1>4, <2>2 DEF AddKYCAddressViaSignature, AddKYCAddresses, KYCTypeOK, accessVars
<1>5. ASSUME NEW as \in SUBSET Reviewed, ReviewSanctions(as)
      PROVE  RegistryTypeOK'
  BY <1>5, KYCAssumption DEF ReviewSanctions, SetSanctions, KYCTypeOK, accessVars
<1>6. CASE Tick
  BY <1>6 DEF Tick, ClockTick, KYCTypeOK, kycVars, accessVars
<1>7. CASE UNCHANGED registryVars
  BY <1>7 DEF registryVars, KYCTypeOK, kycVars, accessVars
<1> QED  BY <1>1, <1>2, <1>3, <1>4, <1>5, <1>6, <1>7 DEF RegistryNext

(* Nobody comes to hold the role of an abandoned group.                    *)
LEMMA AbandonedStep ==
  ASSUME RegistryTypeOK, RegistryNext, NEW r \in Registry, NEW g \in Group, Abandoned(r, g)
  PROVE  Abandoned(r, g)'
<1>1. /\ holders \in [Registry \X Roles -> SUBSET Staff]
      /\ kycGroupRoles \in [Registry \X Group -> Roles]
      /\ kycGroupRoles[<<r, g>>] \in Roles
      /\ DefaultAdmin \in Roles /\ RegistryAdmin \in Roles
  BY DEF RegistryTypeOK, Roles
<1>2. ASSUME NEW c \in Staff, NEW s \in Registry, AccessStep(c, s)
      PROVE  Abandoned(r, g)'
  <2>1. ASSUME NEW role \in Roles, NEW a \in Staff,
               GrantRole(c, s, role, a) \/ RevokeRole(c, s, role, a)
        PROVE  Abandoned(r, g)'
    <3>1. s # r
      BY <2>1 DEF GrantRole, RevokeRole, Abandoned
    <3>2. \A other \in Roles : holders'[<<r, other>>] = holders[<<r, other>>]
      BY <1>1, <2>1, <3>1 DEF GrantRole, RevokeRole
    <3>3. kycGroupRoles' = kycGroupRoles
      BY <2>1 DEF GrantRole, RevokeRole
    <3> QED  BY <1>1, <3>2, <3>3 DEF Abandoned, GroupHolders
  <2>2. ASSUME NEW role \in Roles, RenounceRole(c, s, role)
        PROVE  Abandoned(r, g)'
    <3>1. \A other \in Roles : holders'[<<r, other>>] \subseteq holders[<<r, other>>]
      BY <1>1, <2>2 DEF RenounceRole
    <3>2. kycGroupRoles' = kycGroupRoles
      BY <2>2 DEF RenounceRole
    <3> QED  BY <1>1, <3>1, <3>2 DEF Abandoned, GroupHolders
  <2>3. ASSUME NEW h \in Group, NEW role \in Roles, AssignRoletoKYCGroup(c, s, h, role)
        PROVE  Abandoned(r, g)'
    <3>1. s # r
      BY <2>3 DEF AssignRoletoKYCGroup, Abandoned
    <3>2. kycGroupRoles'[<<r, g>>] = kycGroupRoles[<<r, g>>] /\ holders' = holders
      BY <1>1, <2>3, <3>1 DEF AssignRoletoKYCGroup
    <3> QED  BY <3>2 DEF Abandoned, GroupHolders
  <2> QED  BY <1>2, <2>1, <2>2, <2>3 DEF AccessStep
<1>3. CASE UNCHANGED accessVars
  BY <1>3 DEF accessVars, Abandoned, GroupHolders
<1> QED  BY <1>2, <1>3
         DEF RegistryNext, ListStep, AddBatch, RemoveBatch, SignApproval,
             AddKYCAddressViaSignature, ReviewSanctions, Tick

(* A step of a registry is one of the free changes tokens expect.          *)
LEMMA RegistryStepIsStatusStep ==
  ASSUME RegistryTypeOK, RegistryNext
  PROVE  KYCNext \/ UNCHANGED kycVars
<1>1. ASSUME NEW approval \in signatures, AddKYCAddressViaSignature(approval)
      PROVE  KYCNext
  <2>1. /\ approval.registry \in Registry
        /\ approval.group \in Group
        /\ {approval.user} \in SUBSET Reviewed
    BY DEF RegistryTypeOK, Approvals
  <2> QED  BY <1>1, <2>1 DEF AddKYCAddressViaSignature, KYCNext
<1>2. ASSUME NEW c \in Staff, NEW r \in Registry, ListStep(c, r)
      PROVE  KYCNext
  BY <1>2 DEF ListStep, AddBatch, RemoveBatch, KYCNext
<1>3. ASSUME NEW as \in SUBSET Reviewed, ReviewSanctions(as)
      PROVE  KYCNext
  BY <1>3 DEF ReviewSanctions, KYCNext
<1> QED  BY <1>1, <1>2, <1>3
         DEF RegistryNext, AccessStep, GrantRole, RevokeRole, RenounceRole,
             AssignRoletoKYCGroup, SignApproval, Tick

-----------------------------------------------------------------------------
(* The token's specification lets the lists change freely, so it covers    *)
(* the token beside real registries.                                       *)
LEMMA CheckedIsOUSG == CheckedSpec => OUSGSpec
<1>1. CheckedInit => OUSGWithKYCInit /\ RegistryTypeOK
  BY RegistryInitType DEF CheckedInit, OUSGWithKYCInit, RegistryInit
<1>2. RegistryTypeOK /\ [CheckedNext]_<<ousgVars, registryVars>> => RegistryTypeOK'
  BY RegistryStepType DEF CheckedNext
<1>3. RegistryTypeOK /\ [CheckedNext]_<<ousgVars, registryVars>>
        => [OUSGWithKYC]_<<ousgVars, kycVars>>
  BY RegistryStepIsStatusStep DEF CheckedNext, OUSGWithKYC, registryVars
<1> QED  BY <1>1, <1>2, <1>3, PTL DEF CheckedSpec, OUSGSpec

(* Also beside real registries the supply of OUSG is what is held, and an  *)
(* account whose entry is missing keeps its coins.                         *)
THEOREM CheckedSupply == CheckedSpec => []OUSGSupplyIsSum /\ OUSGFrozenStay
BY CheckedIsOUSG, OUSGSupplyCorrect, OUSGFreezeHolds

(* A list nobody has the role to change does not change: a signature of a  *)
(* former role holder, or for a former role, is worth nothing.             *)
THEOREM OrphansStayFrozen == CheckedSpec => OrphanGroupsAreFrozen
<1>1. CheckedInit => RegistryTypeOK
  BY RegistryInitType DEF CheckedInit
<1>2. RegistryTypeOK /\ [CheckedNext]_<<ousgVars, registryVars>> => RegistryTypeOK'
  BY RegistryStepType DEF CheckedNext
<1>3. RegistryTypeOK /\ [CheckedNext]_<<ousgVars, registryVars>>
        => [\A r \in Registry, g \in Group :
              GroupHolders(r, g) = {} => kycState'[<<r, g>>] = kycState[<<r, g>>]]_registryVars
  BY OrphanStep DEF CheckedNext, RegistryTypeOK, registryVars
<1> QED  BY <1>1, <1>2, <1>3, PTL DEF CheckedSpec, OrphanGroupsAreFrozen

(* A group whose role and whose registry's administrators have been given  *)
(* up stays without authority.                                             *)
THEOREM AbandonmentIsFinal == CheckedSpec => AbandonedForGood
<1>1. CheckedInit => RegistryTypeOK
  BY RegistryInitType DEF CheckedInit
<1>2. RegistryTypeOK /\ [CheckedNext]_<<ousgVars, registryVars>> => RegistryTypeOK'
  BY RegistryStepType DEF CheckedNext
<1>3. RegistryTypeOK /\ [CheckedNext]_<<ousgVars, registryVars>>
        => [\A r \in Registry, g \in Group : Abandoned(r, g) => Abandoned(r, g)']_registryVars
  BY AbandonedStep DEF CheckedNext, registryVars
<1> QED  BY <1>1, <1>2, <1>3, PTL DEF CheckedSpec, AbandonedForGood
=============================================================================
