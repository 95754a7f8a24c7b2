SPECIFICATION HistorySpec
CONSTANTS
  RateScale = 2
  BpsDenom = 4
  MaxDailyIncreaseBps = 2
  MinUpdateInterval = 9
  Day = 3
  MaxU128 = 30
  Addr = {gov}
  NoAddr = NoAddr
  Rates <- MCRates
  StartTimes <- MCStartTimes
  MaxTime = 9
  Users = {u1}
  Amounts <- MCAmounts
  Fees <- MCFees
  Limits <- MCLimits
  MaxAges <- MCMaxAges
  UserVfdusd = 4
  TreasuryVfdusd = 0
  OpenCustody = FALSE
INVARIANTS
  VolumeIsExact
  AnyDayWithinTwiceLimit
