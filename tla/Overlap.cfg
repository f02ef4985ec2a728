CONSTANTS
  btc = btc
  eth = eth
  Symbols <- MCSymbols
  Streamed <- MCStreamed
  Pow10 <- MCPow10
  Scale = 0
  MaxSafe = 100
  StartingBalance = 5
  Prices = {1, 3}
  Books <- MCBooks
  MaxTrades = 3
  Modes = {"shadow"}
  Overlap = TRUE
  MaxFailures = 1
  MaxFills = 3
  MaxCrashes = 1
SPECIFICATION Spec
CHECK_DEADLOCK FALSE
INVARIANTS
  TradeLogComplete
  StoppedBookIsFlat
PROPERTIES
  StoppedMeansStopped
