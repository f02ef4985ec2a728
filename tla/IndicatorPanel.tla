--------------------------- MODULE IndicatorPanel ---------------------------
(***************************************************************************)
(* The indicator lines on one browser's chart: computed live for every     *)
(* closed candle by the indicator stage (server/src/indicatorEngine.js),   *)
(* served for history by GET /api/candles?indicators=true                  *)
(* (server/src/routes/candles.js), drawn by CandleChart.jsx and            *)
(* utils/chart/indicator.js.                                               *)
(*                                                                         *)
(* One series; its table is a sequence of rows without holes, and a candle *)
(* is its index.  A candle is drawn as soon as its indicators are computed; *)
(* candles that are lost or overtaken are ChartClient's subject.           *)
(***************************************************************************)
EXTENDS Session, IndicatorSeries, SequencesExt

CONSTANTS
  INDICATOR_LOOKBACK, INDICATOR_WARMUP,
  Limit     \* how many candles the browser asks for

\* The lookback lets every line have a value, and the warm-up "comfortably covers
\* the slowest indicator" (constants/indicators.js:13-22).
ASSUME WindowsAssumption ==
  /\ Limit \in Nat \ {0} /\ INDICATOR_LOOKBACK \in Nat /\ INDICATOR_WARMUP \in Nat
  /\ \A key \in INDICATOR_KEYS :
       Needs(key) <= INDICATOR_LOOKBACK /\ Needs(key) <= INDICATOR_WARMUP + 1

VARIABLES
  candles,   \* server: the table, for each row whether anything was traded
  handling,  \* server: candles whose window has not been read yet
  answer,    \* on its way: the last row of a history response, or 0
  seeded,    \* chart: the last row of the history on screen, or 0
  lines,     \* chart: the points of every line, [time, value]
  told       \* history: candle appended since -> the last row its window held,
             \* or 0 when the stage failed

panelVars == <<candles, handling, answer, seeded, lines, told>>

RowAt(i) == [id |-> i, traded |-> candles[i]]

\* SQL_SELECT_RECENT_CANDLES, when row `newest' was the last.
Recent(newest, limit) ==
  LET from == IF newest > limit THEN newest - limit ELSE 0
  IN  [i \in 1..(newest - from) |-> RowAt(from + i)]

\* The last `limit' of a list.
slice(s, limit) == IF Len(s) <= limit THEN s ELSE SubSeq(s, Len(s) - limit + 1, Len(s))

fetchLimit_NoWarmup(limit) == limit

fetchLimit(limit) == limit + INDICATOR_WARMUP

Response_TrimsTheCandlesOnly(newest) ==
  LET rows   == Recent(newest, fetchLimit(Limit))
      series == computeIndicators(rows)
  IN  [candles |-> slice(rows, Limit), series |-> series]

\* What the response says, when row `newest' was the last.
Response(newest) ==
  LET rows   == Recent(newest, fetchLimit(Limit))
      series == computeIndicators(rows)
  IN  [candles |-> slice(rows, Limit),
       series  |-> [key \in INDICATOR_KEYS |-> slice(series[key], Limit)]]

\* A point per candle that has a value; the others are dropped.
toSeriesData(rows, series) ==
  { [time |-> rows[i].id, value |-> series[i]] : i \in { j \in DOMAIN rows : series[j] # Missing } }

PanelInit ==
  /\ candles = [i \in 1..budget["history"] |-> TRUE]
  /\ handling = {} /\ answer = 0 /\ seeded = 0
  /\ lines = [key \in INDICATOR_KEYS |-> {}] /\ told = [c \in {} |-> 0]

-----------------------------------------------------------------------------
\* A candle closes, is stored and handed on.
CandleCloses(traded) ==
  /\ Spend("candles")
  /\ candles' = Append(candles, traded)
  /\ handling' = handling \cup {Len(candles) + 1}
  /\ UNCHANGED <<answer, seeded, lines, told>>

\* update throws for a candle older than the last one, before any line is touched.
\* A line that has no value gets no point, and none does when the stage failed.
appendCandle(c, newest) ==
  LET values == latest(Recent(newest, INDICATOR_LOOKBACK))
  IN  IF \E d \in {seeded} \cup DOMAIN told : c < d THEN UNCHANGED <<lines, told>>
      ELSE /\ lines' = [key \in INDICATOR_KEYS |->
                IF newest = 0 \/ values[key] = Missing THEN lines[key]
                ELSE { p \in lines[key] : p.time # c } \cup {[time |-> c, value |-> values[key]]}]
           /\ told' = [d \in DOMAIN told \cup {c} |-> IF d = c THEN newest ELSE told[d]]

\* calculateFor reads the table as it is by then, or fails; the candle goes on.
Enriched(c) ==
  /\ handling' = handling \ {c}
  /\ appendCandle(c, Len(candles)) \/ appendCandle(c, 0)
  /\ UNCHANGED <<budget, candles, answer, seeded>>

HistoryServed ==
  /\ Spend("candles")
  /\ answer = 0 /\ candles # <<>> /\ answer' = Len(candles)
  /\ UNCHANGED <<candles, handling, seeded, lines, told>>

\* setHistory replaces every line.
setHistory ==
  LET r == Response(answer)
  IN  /\ answer # 0 /\ answer' = 0
      /\ seeded' = answer /\ told' = [c \in {} |-> 0]
      /\ lines' = [key \in INDICATOR_KEYS |-> toSeriesData(r.candles, r.series[key])]
      /\ UNCHANGED <<budget, candles, handling>>

PanelNext ==
  \/ \E traded \in BOOLEAN : CandleCloses(traded)
  \/ \E c \in handling : Enriched(c)
  \/ HistoryServed \/ setHistory

-----------------------------------------------------------------------------
\* The first row of the window that the point of a candle was computed over.
WindowStart(c) ==
  IF c \in DOMAIN told /\ told[c] # 0 THEN Recent(c, INDICATOR_LOOKBACK)[1].id
  ELSE Recent(seeded, fetchLimit(Limit))[1].id

Late(c) == c \in DOMAIN told /\ told[c] > c

\* "result[i] always describes candle[i]" (indicators/trend.js:8): each point on
\* screen, from history or live, rests on exactly the candles its line is defined
\* over, up to its own and none after it, so that the two cannot disagree
\* (client/src/utils/api/candles.js:20); but the point of a candle whose window was
\* read after the next one was stored describes that one.  Averages and totals that
\* are carried on start with the window they were computed over.
LinesDescribeTheirCandles ==
  \A key \in INDICATOR_KEYS : \A p \in lines[key] :
    Late(p.time) \/ p.value = Described(key, WindowStart(p.time), p.time)

Quiet(c, key) == \A i \in (c - Needs(key) + 1)..c : ~candles[i]

\* A line has no holes on screen: each candle of the window that was asked for has
\* its point once the table holds enough candles before it, and so does each later
\* one unless the stage failed for it ("the whole visible range is populated",
\* constants/indicators.js:20).  The two lines that divide by the volume stop when
\* nothing was traded.
LinesHaveNoHoles ==
  \A key \in INDICATOR_KEYS :
    LET expected == { c \in 1..seeded : c > seeded - Limit }
                      \cup { c \in DOMAIN told : told[c] # 0 }
    IN  \A c \in { d \in expected : d >= Needs(key) } \ { p.time : p \in lines[key] } :
          key \in {"vwap20", "cmf20"} /\ (Late(c) \/ Quiet(c, key))
=============================================================================
