CONSTANTS
  Null = Null
  m1 = m1
  m2 = m2
  Timeframes <- MCTimeframes
  DefaultTimeframe = m1
  Width <- MCWidth
  DECISION_HISTORY = 2
  Horizon = 3
  MaxFaults = 1
SPECIFICATION FairSpec
CHECK_DEADLOCK FALSE
INVARIANTS
  MapsAreBounded
  ComparedOnce
  SameCandlesSameDecisions
PROPERTIES
  StampsAreConsumed
