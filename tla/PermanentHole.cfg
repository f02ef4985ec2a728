CONSTANTS
  Timeframes <- MCTimeframes
  Width <- MCWidth
  Default = "1m"
  Started = 2
  Horizon = 4
  MaxBuffered = 2
  DEFAULT_LIMIT = 3
  MaxSwitches = 0
  MaxFaults = 1
SPECIFICATION FairSpec
CHECK_DEADLOCK FALSE
PROPERTY GapsAreRepaired
