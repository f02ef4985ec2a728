CONSTANTS
  btc = btc
  eth = eth
  Symbols <- MCSymbols
  Streamed <- MCStreamed
  Pow10 <- MCPow10
  Scale = 0
  MaxSafe = 100
  StartingBalance = 5
  Prices = {1, 3}
  Books <- MCEmptyBooks
  MaxTrades = 2
  Modes = {"node"}
  Overlap = TRUE
  MaxFailures = 0
  MaxFills = 2
  MaxCrashes = 0
SPECIFICATION Spec
CHECK_DEADLOCK FALSE
INVARIANTS
  BooksAgree
