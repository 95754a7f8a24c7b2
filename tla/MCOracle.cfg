SPECIFICATION HistorySpec
CONSTANTS
  RateScale = 2
  BpsDenom = 4
  MaxDailyIncreaseBps = 2
  MinUpdateInterval = 2
  Day = 5
  MaxU128 = 30
  Addr = {a1, a2, a3}
  NoAddr = NoAddr
  Rates <- MCRates
  StartTimes <- MCStartTimes
  MaxTime = 14
SYMMETRY Symmetry
INVARIANTS
  HistoryTypeOK
  HeartbeatAccepted
  WithinDailyCap
  ProposalIsCurrent
PROPERTY PriceMovesForward
