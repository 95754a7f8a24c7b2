SPECIFICATION ServiceSpec
CONSTANTS
  RateScale = 2
  BpsDenom = 4
  MaxDailyIncreaseBps = 2
  MinUpdateInterval = 24
  Day = 100
  MaxU128 = 30
  Addr = {svc, gov}
  NoAddr = NoAddr
  Rates <- MCRates
  StartTimes <- MCStartTimes
  MaxTime = 44
  Service = svc
  BscRates <- MCRates
  Skews <- MCNoSkew
  PollInterval = 6
  TickTimeout = 1
  MaxSilence = 36
  MaxOracleAge = 36
  LcdLag = 0
  EventsStripped = TRUE
  MaxRestarts = 0
INVARIANT OneMissedTickIsHarmless
