CONSTANTS
  btc = btc
  eth = eth
  Symbols <- MCSymbols
  Streamed <- MCStreamed
  Pow10 <- MCPow10
  Scale = 0
  MaxSafe = 100
  StartingBalance = 5
  Prices = {1, 2, 3}
  Books <- MCEmptyBooks
  MaxTrades = 3
  Modes = {"cpp"}
  Overlap = FALSE
  MaxFailures = 0
  MaxFills = 4
  MaxCrashes = 0
SPECIFICATION Spec
CHECK_DEADLOCK FALSE
PROPERTIES
  StoppedMeansStopped
