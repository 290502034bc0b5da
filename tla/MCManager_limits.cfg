CONSTANTS
  alice = alice
  treasury = treasury
  r1 = r1
  o1 = o1
  o2 = o2
  l1 = l1
  Zero = zero
  rOUSG = rOUSG
  manager = manager
  usdcReceiver = treasury
  Address = {alice, treasury, manager, rOUSG, zero}
  Registry = {r1}
  Group = {1}
  Reviewed = {alice}
  Users = {alice}
  RoleHolders <- MoneyRoles
  MaxUint = 99
  OUSGAmounts = {1}
  OUSGSpenders = {manager}
  OUSGApprovals = {99}
  MaxOUSG = 0
  OUSGSeizable = {}
  ONE = 2
  MULT = 3
  Oracle = {o1}
  Prices = {2, 5}
  ROUSGAmounts = {4}
  Spenders = {manager}
  ROUSGApprovals = {7}
  MaxAllowance = 0
  ShareAmounts = {}
  MaxShares = 9
  Limits = {4}
  Durations = {0}
  Requests = {4}
  MaxTime = 0
  decimalsMultiplier = 2
  MINIMUM_OUSG_PRICE = 2
  FEE_GRANULARITY = 4
  FEE_CAP = 3
  Rejects <- MCNoRejects
  FeeReceivers = {treasury, zero}
  Fees = {2}
  Minimums = {4}
  InitialMinimums <- Minimums424
  OUSGRedemptions = {3}
  ROUSGRedemptions = {7}
  USDCApprovals = {4}
  USDCTransfers = {4}
  USDCFunds <- Funds4
  BUIDLFunds = 4
SPECIFICATION ManagerSpec
INVARIANTS TokensInOrder RedemptionIsOpen

PROPERTY ServesOnlyTheCleared
