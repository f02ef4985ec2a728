CONSTANTS
  btc = btc
  eth = eth
  Symbols <- MCSymbols
  Pow10 <- MCPow10
  Texts <- MCTexts
  Scale = 2
  MaxSafe = 3
  StartingBalance = 7
  Prices = {0, 1, 3}
  Books <- MCBooks
  MaxTrades = 3
SPECIFICATION BrokerSpec
CHECK_DEADLOCK FALSE
INVARIANTS
  BrokerTypeOK
  CashNeverNegative
  CashBalances
  TradeIdsUnique
  MarksAreExact
  StoredAmountsAreStable
PROPERTIES
  EquityOnlyMovesWithPrices
