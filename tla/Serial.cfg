CONSTANTS
  btc = btc
  eth = eth
  Symbols <- MCSymbols
  Streamed <- MCStreamed
  Pow10 <- MCPow10
  Scale = 0
  MaxSafe = 100
  StartingBalance = 5
  Prices = {1, 2, 3}
  Books <- MCBooks
  MaxTrades = 3
  Modes = {"node", "cpp"}
  Overlap = FALSE
  MaxFailures = 0
  MaxFills = 4
  MaxCrashes = 2
SPECIFICATION FairSpec
CHECK_DEADLOCK FALSE
INVARIANTS
  BooksAgree
  RestartNeverRefused
PROPERTIES
  IsDurableLedger
  StopReachesTables
