SPECIFICATION Spec
CONSTANTS
  RateScale = 2
  BpsDenom = 4
  MaxDailyIncreaseBps = 2
  MinUpdateInterval = 2
  Day = 5
  MaxU128 = 30
  Addr = {gov}
  NoAddr = NoAddr
  Rates <- MCRates
  StartTimes <- MCStartTimes
  MaxTime = 9
  Users = {u1, u2}
  Amounts <- MCAmounts
  Fees <- MCFees
  Limits <- MCLimits
  MaxAges <- MCMaxAges
  UserVfdusd = 3
  TreasuryVfdusd = 0
  OpenCustody = FALSE
SYMMETRY Symmetry
INVARIANTS
  TypeOK
  Redeemable
  StaleRateIsCurable
  HoldersAreNeverShort
PROPERTY SwapEventsMatch
