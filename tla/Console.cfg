CONSTANTS
  Junk = Junk
  EMA = EMA
  RSI = RSI
  Missing = Missing
  Budgets <- MCBudgets
  PERIODS <- MCPeriods
  INDICATOR_LOOKBACK = 6
  INDICATOR_WARMUP = 4
  Limit = 2
  Indicators = {"ema"}
  Timeframes = {"1m"}
  Blank = {""}
  TooLong = {"long"}
  MaxTreeDepth = 3
  MaxTreeNodes = 2
  MaxParams = 1
  Trim <- MCTrim
  Lower <- MCLower
  NumberOf <- MCNumberOf
  TextOf <- MCTextOf
  Names <- MCNames
  Rows <- MCRows
  MaxRows = 2
  DefaultTimeframe = "1m"
  FirstIndicator = "ema"
  Builtins = {EMA, RSI}
  ApiDocuments <- MCApiDocuments
  InitialTable <- MCInitialTable
SPECIFICATION Spec
CHECK_DEADLOCK FALSE
INVARIANTS
  StoredRulesRun
  ChecksSettle
  EditsStayOnTheirRow
  ControlShowsWhatRuns
  LinesDescribeTheirCandles
  LinesHaveNoHoles
PROPERTIES
  BlotterNeverGoesBack
