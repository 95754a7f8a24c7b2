SPECIFICATION TestSpec
CONSTANTS
  RateScale = 100
  BpsDenom = 200
  MaxDailyIncreaseBps = 4
  MinUpdateInterval = 4
  Day = 24
  MaxU128 = 2000000000
  Addr = {owner, bot, bot2, stranger, next_gov}
  NoAddr = NoAddr
  Owner = owner
  Bot = bot
  Bot2 = bot2
  Stranger = stranger
  NextGov = next_gov
  User = user
  MaxExtraCalls = 2
  Rates <- MCRates
  StartTimes <- MCStartTimes
  MaxTime = 40
  Users <- MCUsers
  Amounts <- MCNoAmounts
  Fees <- MCFees
  Limits <- MCLimits
  MaxAges <- MCMaxAges
  UserVfdusd = 10000000
  TreasuryVfdusd = 0
  OpenCustody = TRUE
INVARIANTS
  AsTested
  ErrorIffDisabled
