CONSTANTS
  alice = alice
  bob = bob
  carol = carol
  r1 = r1
  r2 = r2
  o1 = o1
  o2 = o2
  Zero = zero
  rOUSG = rOUSG
  Address = {alice, bob, rOUSG, zero}
  Registry = {r1}
  Group = {1}
  Reviewed = {bob}
  Users = {alice, bob}
  RoleHolders <- MCRoles
  MaxUint = 3
  OUSGAmounts = {1, 2}
  OUSGSpenders = {rOUSG}
  OUSGApprovals = {3}
  MaxOUSG = 3
  OUSGSeizable = {alice, bob}
  ONE = 2
  MULT = 3
  Oracle = {o1}
  Prices = {3, 5}
  ROUSGAmounts = {1, 2, 3, 5}
  Spenders = {bob}
  ROUSGApprovals = {}
  MaxAllowance = 0
  ShareAmounts = {1, 4}
  MaxShares = 9
SPECIFICATION Spec
INVARIANTS SharesAreSum Backed SupplyMatchesBalances FullExitLosesAtMostOneUnit ExitIsOpen
PROPERTIES ImplementsShareVault
