SPECIFICATION HistorySpec
CONSTANTS
  RateScale = 1
  BpsDenom = 2
  MaxDailyIncreaseBps = 0
  MinUpdateInterval = 1
  Day = 2
  MaxU128 = 6
  Addr = {gov}
  NoAddr = NoAddr
  Users = {u1}
  Denoms = {uluna, uusd}
  Amounts <- MCAmounts
  Fees <- MCFees
  Limits <- MCLimits
  UserNative = 3
  StartTimes <- MCStartTimes
  MaxTime = 4
  OpenMint = {uusd}
INVARIANTS
  TypeOK
  AlwaysUnwrappable
  MetersAreExact
  AnyDayWithinTwiceLimit
PROPERTY ReserveKeepsTheFee
