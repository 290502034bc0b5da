CONSTANTS
  alice = alice
  bob = bob
  carol = carol
  r1 = r1
  Zero = zero
  Address = {alice, bob, carol, zero}
  Registry = {r1}
  Group = {1}
  Reviewed = {bob}
  Users = {alice, bob}
  RoleHolders <- MCRoles
  MaxUint = 2
  OUSGAmounts = {1}
  OUSGSpenders = {bob}
  OUSGApprovals = {1}
  MaxOUSG = 1
  OUSGSeizable = {alice, bob}
  Admin = alice
  Staff = {alice, carol}
  KYCRoles = {"KYC_ROLE"}
  Deadlines = {1}
  MaxSignatures = 1
  DeployTime = 1
  MaxTime = 2
SPECIFICATION CheckedSpec
PROPERTIES OUSGFrozenStay OUSGPausedStay OUSGIdleKeep OrphanGroupsAreFrozen AbandonedForGood
