SPECIFICATION TxSpec
CONSTANTS
  RateScale = 2
  BpsDenom = 4
  MaxDailyIncreaseBps = 2
  MinUpdateInterval = 2
  Day = 3
  MaxU128 = 30
  Addr = {gov}
  NoAddr = NoAddr
  Rates <- MCRates
  StartTimes <- MCStartTimes
  MaxTime = 6
  Users = {u1}
  Amounts <- MCAmounts
  Fees <- MCFees
  Limits <- MCLimits
  MaxAges <- MCMaxAges
  UserVfdusd = 3
  TreasuryVfdusd = 0
  OpenCustody = FALSE
  Stranded <- MCStranded
INVARIANT BackedAtEveryMessage
PROPERTIES
  ImplementsAtomicWindow
  SwapsPassThrough
