SPECIFICATION FairTerraSpec
CONSTANTS
  RateScale = 2
  BpsDenom = 4
  MaxDailyIncreaseBps = 2
  MinUpdateInterval = 2
  Day = 5
  MaxU128 = 30
  Addr = {svc, rival}
  NoAddr = NoAddr
  Rates <- MCRates
  StartTimes <- MCStartTimes
  MaxTime = 3
  Service = svc
  BscRates <- MCRates
  Skews <- MCSkews
  PollInterval = 1
  TickTimeout = 1
  MaxSilence = 1
  MaxOracleAge = 4
  LcdLag = 1
  EventsStripped = FALSE
  MaxRestarts = 1
  OracleAddr = oracle
  OtherAddr = other
  GasPrice = 1
  NetworkMinPrice = 2
  ConfirmTimeout = 1
  ConfirmPoll = 2
  StateAttempts = 2
  Executions <- MCExecutions
CHECK_DEADLOCK FALSE
INVARIANTS
  TerraTypeOK
  OneTransactionPerTick
PROPERTIES
  ImplementsService
  RecordedOnProof
  TicksEnd
