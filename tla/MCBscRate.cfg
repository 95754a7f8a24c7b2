SPECIFICATION FairBscSpec
CONSTANTS
  UrlCounts <- MCUrlCounts
  Confirmations = 2
  ReorgDepth = 1
  PoolLag = 1
  AgreeDenom = 4
  Divisor = 2
  Mantissas <- MCMantissas
  OtherRates <- MCOtherRates
  MaxU128 = 6
  MaxBlocks = 4
CHECK_DEADLOCK FALSE
INVARIANTS
  BscTypeOK
  RateIsFinal
PROPERTIES
  TwoOfThree
  ReadConcludes
  ReadsWindDown
