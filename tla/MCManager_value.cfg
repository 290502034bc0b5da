CONSTANTS
  alice = alice
  treasury = treasury
  r1 = r1
  o1 = o1
  o2 = o2
  l1 = l1
  Zero = zero
  rOUSG = rOUSG
  manager = manager
  usdcReceiver = treasury
  Address = {alice, treasury, manager, rOUSG, zero}
  Registry = {r1}
  Group = {1}
  Reviewed = {}
  Users = {alice}
  RoleHolders <- FeeRoles
  MaxUint = 99
  OUSGAmounts = {}
  OUSGSpenders = {manager}
  OUSGApprovals = {99}
  MaxOUSG = 0
  OUSGSeizable = {}
  ONE = 2
  MULT = 3
  Oracle = {o1}
  Prices = {3, 5}
  ROUSGAmounts = {}
  Spenders = {manager}
  ROUSGApprovals = {7}
  MaxAllowance = 0
  ShareAmounts = {}
  MaxShares = 0
  Limits = {20}
  Durations = {1}
  Requests = {5}
  MaxTime = 1
  decimalsMultiplier = 2
  MINIMUM_OUSG_PRICE = 2
  FEE_GRANULARITY = 4
  FEE_CAP = 2
  Rejects <- MCRejects
  FeeReceivers = {treasury}
  Fees = {1}
  Minimums = {}
  InitialMinimums <- Minimums424
  OUSGRedemptions = {2, 3, 5}
  ROUSGRedemptions = {3, 7}
  USDCApprovals = {5}
  USDCTransfers = {}
  USDCFunds <- Funds8
  BUIDLFunds = 8
SPECIFICATION ManagerSpec
PROPERTIES NobodyProfits EquityNeverFalls KeepsOnlyDust
