CONSTANTS
  Null = Null
  NaN = NaN
  Values = {0, 1, 2, 3, 4}
  Lines <- MCLines
  RsiKey = "rsi"
  Oversold = 1
  Overbought = 3
  Documents <- MCDocuments
  PriceFields = {"close"}
  MaxTreeDepth = 3
SPECIFICATION Spec
CHECK_DEADLOCK FALSE
INVARIANTS
  StrategiesTypeOK
  RulesDecideOnWhatIsKnown
  IdleTreeStaysCurrent
PROPERTIES
  BuiltinSignalsAreCrossings
  PlainRuleTradesItsLine
