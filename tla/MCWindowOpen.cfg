SPECIFICATION Spec
CONSTANTS
  RateScale = 2
  BpsDenom = 4
  MaxDailyIncreaseBps = 2
  MinUpdateInterval = 1
  Day = 5
  MaxU128 = 40
  Addr = {gov}
  NoAddr = NoAddr
  Rates <- MCRates
  StartTimes <- MCStartTimes
  MaxTime = 4
  Users = {u1}
  Amounts <- MCLargeAmounts
  Fees <- MCLargeFees
  Limits <- MCLargeLimits
  MaxAges <- MCOneMaxAge
  UserVfdusd = 10
  TreasuryVfdusd = 0
  OpenCustody = TRUE
PROPERTIES
  SurplusNeverFalls
  SwapCostBounded
