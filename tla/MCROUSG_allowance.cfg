CONSTANTS
  alice = alice
  bob = bob
  carol = carol
  r1 = r1
  r2 = r2
  o1 = o1
  o2 = o2
  Zero = zero
  rOUSG = rOUSG
  Address = {alice, bob, rOUSG, zero}
  Registry = {r1, r2}
  Group = {1}
  Reviewed = {bob}
  Users = {alice, bob}
  RoleHolders <- MCRoles
  MaxUint = 3
  OUSGAmounts = {1}
  OUSGSpenders = {rOUSG}
  OUSGApprovals = {3}
  MaxOUSG = 1
  OUSGSeizable = {alice, rOUSG}
  ONE = 2
  MULT = 3
  Oracle = {o1}
  Prices = {0, 5}
  ROUSGAmounts = {2, 3}
  Spenders = {bob}
  ROUSGApprovals = {2}
  MaxAllowance = 2
  ShareAmounts = {1}
  MaxShares = 3
SPECIFICATION Spec
PROPERTIES AllowanceCovers SurplusNeverShrinks FrozenStay
