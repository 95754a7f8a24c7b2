SPECIFICATION ServiceSpec
CONSTANTS
  RateScale = 2
  BpsDenom = 4
  MaxDailyIncreaseBps = 2
  MinUpdateInterval = 3
  Day = 5
  MaxU128 = 30
  Addr = {svc, rival}
  NoAddr = NoAddr
  Rates <- MCRates
  StartTimes <- MCStartTimes
  MaxTime = 7
  Service = svc
  BscRates <- MCRates
  Skews <- MCSkews
  PollInterval = 1
  TickTimeout = 1
  MaxSilence = 1
  MaxOracleAge = 4
  LcdLag = 1
  EventsStripped = FALSE
  MaxRestarts = 1
INVARIANTS
  ServiceTypeOK
  AgedRateIsPaged
  RateAgeBounded
PROPERTY SuccessIsDelivered
