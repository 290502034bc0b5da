SPECIFICATION SoundSpec
CONSTANTS
  DeployTime = 1
  MaxTime = 6
  MIN_PRICE_UPDATE_WINDOW = 2
  MAX_CL_WINDOW = 3
  BPS_DENOMINATOR = 10
  MAX_ABSOLUTE_DIFF_BPS = 3
  MAX_CHANGE_DIFF_BPS = 1
  InitialPrice = 10
  NewPrices = {0, 6, 7, 8, 9, 10, 11, 12, 13, 14, 16}
  Answers <- MCAnswers
  MaxRound = 3
  MIN_RATE_WINDOW = 2
  RATE_DENOMINATOR = 10
  RATE_DIFF_BPS = 2
  InitialRatePrice = 10
  NewRatePrices = {0, 6, 7, 8, 9, 10, 11, 12, 13, 14, 15, 16, 17}
  ONE = 10
  UNIT = 2
  DAY = 2
  Rates = {5, 10, 11, 15}
  StartPrices = {6, 41}
  Overrides <- MCOverrides
  MaxRanges = 3
  MaxEnd = 7
CHECK_DEADLOCK FALSE
INVARIANT MalfunctionIsIgnored
