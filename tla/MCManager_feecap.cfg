CONSTANTS
  alice = alice
  treasury = treasury
  r1 = r1
  o1 = o1
  o2 = o2
  l1 = l1
  Zero = zero
  rOUSG = rOUSG
  manager = manager
  usdcReceiver = treasury
  Address = {alice, treasury, manager, rOUSG, zero}
  Registry = {r1}
  Group = {1}
  Reviewed = {}
  Users = {alice}
  RoleHolders <- MoneyRoles
  MaxUint = 99
  OUSGAmounts = {}
  OUSGSpenders = {manager}
  OUSGApprovals = {99}
  MaxOUSG = 0
  OUSGSeizable = {}
  ONE = 2
  MULT = 3
  Oracle = {o1, o2}
  Prices = {2, 3}
  ROUSGAmounts = {}
  Spenders = {manager}
  ROUSGApprovals = {}
  MaxAllowance = 0
  ShareAmounts = {}
  MaxShares = 0
  Limits = {8}
  Durations = {0}
  Requests = {4}
  MaxTime = 0
  decimalsMultiplier = 2
  MINIMUM_OUSG_PRICE = 2
  FEE_GRANULARITY = 4
  FEE_CAP = 2
  Rejects <- MCRejects
  FeeReceivers = {treasury, zero}
  Fees = {1, 3}
  Minimums = {4}
  InitialMinimums <- Minimums424
  OUSGRedemptions = {5}
  ROUSGRedemptions = {}
  USDCApprovals = {4}
  USDCTransfers = {4}
  USDCFunds <- Funds4
  BUIDLFunds = 5
SPECIFICATION ManagerSpec
INVARIANTS FeesBelowCap
