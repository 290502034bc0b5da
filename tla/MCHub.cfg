SPECIFICATION HubSpec
CONSTANTS
  alice = alice
  fund = fund
  zero = zero
  desk = desk
  Address = {zero, alice, hub, fund, desk}
  hub = hub
  assetRecipient = desk
  Zero = zero
  Registry = {"r1"}
  Group = {"g1"}
  Reviewed = {}
  Users = {alice}
  RoleHolders <- MCRoles
  MaxUint = 9
  OUSGAmounts = {}
  OUSGSpenders = {}
  OUSGApprovals = {9}
  MaxOUSG = 0
  OUSGSeizable = {}
  DeployTime = 2
  MaxTime = 3
  PRICE_BPS_DENOMINATOR = 10
  OPS_MAX_CHANGE_DIFF_BPS = 5
  PriceValues = {2}
  OraclePrices = {3}
  OracleAges = {1}
  PriceAges = {0, 1}
  TimestampDiffs = {1}
  MaxPriceId = 2
  CorrectedIds = {1}
  BPS_DENOMINATOR = 2
  TOKEN = 2
  decimalsMultiplier = 2
  TxHashes = {101}
  CollateralAmounts = {2}
  RedeemAmounts = {4}
  HubFees = {1}
  HubMinimums = {2}
  FeeRecipients = {desk}
  AssetSenders = {fund}
  Pausables = {"redemption"}
  Funds <- MCFunds
  MaxRequests = 1
  MaxOpen = 2
  MaxSettings = 1
INVARIANTS HubInOrder LatestIsNewest
PROPERTIES OpenRequestsAreKeptOrSettled UsersNeverGain
