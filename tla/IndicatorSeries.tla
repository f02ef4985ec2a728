-------------------------- MODULE IndicatorSeries --------------------------
(***************************************************************************)
(* The indicator functions (server/src/indicators) and the registry that   *)
(* runs them all over one window of candles.                               *)
(*                                                                         *)
(* The numbers are floating point and left out.  What is kept of a value   *)
(* is which candles of the table it was computed from: a value is the set  *)
(* of the rows it reads, or Missing (null).  That tells a line that is     *)
(* shifted, looks ahead, forgets a candle or keeps one too long from one   *)
(* that does not.                                                          *)
(***************************************************************************)
EXTENDS Integers, Sequences, FiniteSets

CONSTANTS
  Missing,
  PERIODS   \* name of a period -> candles

ASSUME PeriodsAssumption ==
  /\ PERIODS \in [{"SMA_FAST", "SMA_SLOW", "EMA_VERY_FAST", "EMA_MEDIUM", "EMA_FAST", "EMA_SLOW",
                    "RSI", "MACD_FAST", "MACD_SLOW", "MACD_SIGNAL", "BOLLINGER", "ATR",
                    "STOCHASTIC", "STOCHASTIC_SIGNAL", "WILLIAMS_R", "CCI", "ROC", "STDDEV",
                    "VWAP", "MFI", "CMF", "VOLUME_SMA", "HISTORICAL_VOLATILITY"} -> Nat \ {0}]
  /\ PERIODS.MACD_FAST < PERIODS.MACD_SLOW

-----------------------------------------------------------------------------
(***************************************************************************)
(* math.js                                                                 *)
(***************************************************************************)
nulls(length) == [i \in 1..length |-> Missing]

\* The candles that the values at some positions rest on.
Read(values, positions) == UNION { values[p] : p \in positions }

\* One value for each candle, from two series.
Both(a, b) ==
  [i \in DOMAIN a |-> IF a[i] = Missing \/ b[i] = Missing THEN Missing ELSE a[i] \cup b[i]]

firstIndex(values) ==
  CHOOSE i \in 1..(Len(values) + 1) :
    /\ i <= Len(values) => values[i] # Missing
    /\ \A j \in 1..(i - 1) : values[j] = Missing

\* mapDense: drop the leading nulls, compute on the rest, pad again.
dense(values)            == SubSeq(values, firstIndex(values), Len(values))
padded(values, computed) == nulls(firstIndex(values) - 1) \o computed

\* A smoothed average (ema, wilderSmooth): the mean of the first `period' values,
\* and from then on the previous average and one value more.
Smoothed(values, period) ==
  LET average[i \in period..Len(values)] ==
        IF i = period THEN Read(values, 1..period) ELSE average[i - 1] \cup values[i]
  IN  [i \in DOMAIN values |-> IF i < period THEN Missing ELSE average[i]]

\* The loops that look at the last `period' values of every candle.
Windowed(values, period) ==
  [i \in DOMAIN values |->
     IF i < period THEN Missing ELSE Read(values, (i - period + 1)..i)]

-----------------------------------------------------------------------------
(***************************************************************************)
(* trend.js, momentum.js, volatility.js                                    *)
(***************************************************************************)
\* A rolling sum: add the entering value, subtract the leaving one.
sma(values, period) ==
  LET windowSum[i \in period..Len(values)] ==
        IF i = period THEN 1..period ELSE (windowSum[i - 1] \cup {i}) \ {i - period}
  IN  [i \in DOMAIN values |-> IF i < period THEN Missing ELSE Read(values, windowSum[i])]

ema(values, period) == Smoothed(values, period)

\* n prices make n - 1 changes.
rsi(prices, period) ==
  LET change == [i \in 1..(Len(prices) - 1) |-> prices[i] \cup prices[i + 1]]
  IN  IF prices = <<>> THEN <<>> ELSE nulls(1) \o Smoothed(change, period)

macdLine(prices) == Both(ema(prices, PERIODS.MACD_FAST), ema(prices, PERIODS.MACD_SLOW))

macdSignal(prices) ==
  LET line == macdLine(prices) IN padded(line, ema(dense(line), PERIODS.MACD_SIGNAL))

williamsR(candles, period) == Windowed(candles, period)
cci(candles, period)       == Windowed(candles, period)
stdDev(prices, period)     == Windowed(prices, period)

roc(prices, period) ==
  [i \in DOMAIN prices |-> IF i <= period THEN Missing ELSE prices[i] \cup prices[i - period]]

stochasticK(candles) == Windowed(candles, PERIODS.STOCHASTIC)

stochasticD(candles) ==
  LET k == stochasticK(candles) IN padded(k, sma(dense(k), PERIODS.STOCHASTIC_SIGNAL))

trueRange(candles) ==
  [i \in DOMAIN candles |-> IF i = 1 THEN candles[i] ELSE candles[i] \cup candles[i - 1]]

atr(candles, period) == Smoothed(trueRange(candles), period)

\* sma for the middle, the deviation over the same window.
bollingerBands(prices, period) == Both(sma(prices, period), stdDev(prices, period))

historicalVolatility(prices, period) ==
  LET logReturns == [i \in DOMAIN prices |-> IF i = 1 THEN Missing ELSE prices[i - 1] \cup prices[i]]
  IN  [i \in DOMAIN prices |->
         IF i <= period THEN Missing
         ELSE IF \E w \in (i - period + 1)..i : logReturns[w] = Missing THEN Missing
         ELSE Read(logReturns, (i - period + 1)..i)]

-----------------------------------------------------------------------------
(***************************************************************************)
(* volume.js.  `traded' says which candles have a volume.                  *)
(***************************************************************************)
\* Totals that start with the window.
obv(candles)                      == Smoothed(candles, 1)
accumulationDistribution(candles) == Smoothed(candles, 1)

volumeSma(candles, period) == sma(candles, period)

\* Nothing to divide by in a window without volume.
PerVolume(candles, traded, period) ==
  [i \in DOMAIN candles |->
     IF i < period THEN Missing
     ELSE IF \A w \in (i - period + 1)..i : ~traded[w] THEN Missing
     ELSE Read(candles, (i - period + 1)..i)]

rollingVwap(candles, traded, period)      == PerVolume(candles, traded, period)
chaikinMoneyFlow(candles, traded, period) == PerVolume(candles, traded, period)

\* A flow needs the candle before.
mfi(candles, period) ==
  LET flow == [i \in DOMAIN candles |-> IF i = 1 THEN candles[i] ELSE candles[i - 1] \cup candles[i]]
  IN  [i \in DOMAIN candles |->
         IF i <= period THEN Missing ELSE Read(flow, (i - period + 1)..i)]

-----------------------------------------------------------------------------
(***************************************************************************)
(* registry.js: every line, under its wire name, over a window of rows.  A *)
(* row is [id, traded].                                                    *)
(***************************************************************************)
INDICATOR_KEYS ==
  {"sma20", "sma50", "ema9", "ema21", "ema20", "ema50", "rsi14",
   "macd", "macdSignal", "macdHistogram",
   "bbUpper", "bbMiddle", "bbLower", "bbBandwidth", "bbPercentB",
   "atr14", "stdDev20", "historicalVolatility20",
   "stochK", "stochD", "williamsR14", "cci20", "roc12",
   "obv", "vwap20", "mfi14", "adLine", "cmf20", "volumeSma20"}

computeIndicators(rows) ==
  LET closes == [i \in DOMAIN rows |-> {rows[i].id}]     \* toNumericCandles, closesOf
      traded == [i \in DOMAIN rows |-> rows[i].traded]
  IN  [key \in INDICATOR_KEYS |->
         CASE key = "sma20" -> sma(closes, PERIODS.SMA_FAST)
           [] key = "sma50" -> sma(closes, PERIODS.SMA_SLOW)
           [] key = "ema9"  -> ema(closes, PERIODS.EMA_VERY_FAST)
           [] key = "ema21" -> ema(closes, PERIODS.EMA_MEDIUM)
           [] key = "ema20" -> ema(closes, PERIODS.EMA_FAST)
           [] key = "ema50" -> ema(closes, PERIODS.EMA_SLOW)
           [] key = "rsi14" -> rsi(closes, PERIODS.RSI)
           [] key = "macd"  -> macdLine(closes)
           [] key = "macdSignal" -> macdSignal(closes)
           [] key = "macdHistogram" -> Both(macdLine(closes), macdSignal(closes))
           [] key = "bbMiddle" -> sma(closes, PERIODS.BOLLINGER)
           [] key \in {"bbUpper", "bbLower", "bbBandwidth", "bbPercentB"} ->
                bollingerBands(closes, PERIODS.BOLLINGER)
           [] key = "atr14" -> atr(closes, PERIODS.ATR)
           [] key = "stdDev20" -> stdDev(closes, PERIODS.STDDEV)
           [] key = "historicalVolatility20" ->
                historicalVolatility(closes, PERIODS.HISTORICAL_VOLATILITY)
           [] key = "stochK" -> stochasticK(closes)
           [] key = "stochD" -> stochasticD(closes)
           [] key = "williamsR14" -> williamsR(closes, PERIODS.WILLIAMS_R)
           [] key = "cci20" -> cci(closes, PERIODS.CCI)
           [] key = "roc12" -> roc(closes, PERIODS.ROC)
           [] key = "obv"    -> obv(closes)
           [] key = "adLine" -> accumulationDistribution(closes)
           [] key = "vwap20" -> rollingVwap(closes, traded, PERIODS.VWAP)
           [] key = "cmf20"  -> chaikinMoneyFlow(closes, traded, PERIODS.CMF)
           [] key = "mfi14"  -> mfi(closes, PERIODS.MFI)
           [] key = "volumeSma20" -> volumeSma(closes, PERIODS.VOLUME_SMA)]

\* The latest value of every line.
latest(rows) ==
  LET series == computeIndicators(rows)
  IN  [key \in INDICATOR_KEYS |-> IF rows = <<>> THEN Missing ELSE series[key][Len(rows)]]

-----------------------------------------------------------------------------
(***************************************************************************)
(* What the comments of those files promise of each line, from the first   *)
(* to the last row of a window that ends with row `to': the row with the   *)
(* first value, and the rows it describes.                                 *)
(***************************************************************************)
\* Lines over the last so many candles.
SPAN ==
  [sma20 |-> PERIODS.SMA_FAST, sma50 |-> PERIODS.SMA_SLOW,
   bbUpper |-> PERIODS.BOLLINGER, bbMiddle |-> PERIODS.BOLLINGER, bbLower |-> PERIODS.BOLLINGER,
   bbBandwidth |-> PERIODS.BOLLINGER, bbPercentB |-> PERIODS.BOLLINGER,
   stdDev20 |-> PERIODS.STDDEV, historicalVolatility20 |-> PERIODS.HISTORICAL_VOLATILITY + 1,
   stochK |-> PERIODS.STOCHASTIC, stochD |-> PERIODS.STOCHASTIC + PERIODS.STOCHASTIC_SIGNAL - 1,
   williamsR14 |-> PERIODS.WILLIAMS_R, cci20 |-> PERIODS.CCI, roc12 |-> PERIODS.ROC + 1,
   vwap20 |-> PERIODS.VWAP, cmf20 |-> PERIODS.CMF, mfi14 |-> PERIODS.MFI + 1,
   volumeSma20 |-> PERIODS.VOLUME_SMA]

\* Lines that carry an average or a total on from the start of the window: how
\* many candles before their first value.
WARM ==
  [ema9 |-> PERIODS.EMA_VERY_FAST, ema21 |-> PERIODS.EMA_MEDIUM, ema20 |-> PERIODS.EMA_FAST,
   ema50 |-> PERIODS.EMA_SLOW, rsi14 |-> PERIODS.RSI + 1, atr14 |-> PERIODS.ATR,
   macd |-> PERIODS.MACD_SLOW, macdSignal |-> PERIODS.MACD_SLOW + PERIODS.MACD_SIGNAL - 1,
   macdHistogram |-> PERIODS.MACD_SLOW + PERIODS.MACD_SIGNAL - 1, obv |-> 1, adLine |-> 1]

Needs(key) == IF key \in DOMAIN SPAN THEN SPAN[key] ELSE WARM[key]

Described(key, from, to) ==
  IF key = "roc12" THEN {to - PERIODS.ROC, to}
  ELSE IF key \in DOMAIN SPAN THEN (to - SPAN[key] + 1)..to ELSE from..to
=============================================================================
