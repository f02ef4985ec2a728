---------------------------- MODULE ChartClient ----------------------------
(***************************************************************************)
(* The browser's chart: one WebSocket with reconnects (useCandleStream.js),*)
(* history over REST (useCandleHistory.js), the continuity check           *)
(* (useCandleContinuity.js) and the imperative chart (CandleChart.jsx),    *)
(* wired in App.jsx.  JavaScript runs one callback at a time, so each      *)
(* callback is an action.                                                  *)
(***************************************************************************)
EXTENDS EnrichedFeed, FiniteSetsExt

CONSTANTS
  DEFAULT_LIMIT, \* rows one history response holds
  MaxSwitches    \* bound: timeframes the user selects

ASSUME ClientAssumption ==
  /\ DEFAULT_LIMIT \in Nat \ {0}
  /\ "null" \notin Timeframes
  /\ MaxSwitches \in Nat

None == -1 \* no time, before every time

VARIABLES
  hasConnectedBefore,
  selected,  \* the selected timeframe, "null" until the server's list arrives
  request,   \* the history request not aborted: [tf, at, rows]
  chart,     \* points of the candlestick series: [bar, sealed], one per time
  lastTime,  \* lastTimeRef
  marker,    \* lastOpenTimeRef
  gapTimer,  \* a debounced refetch is pending
  threw,     \* history: candles the chart threw on
  failed,    \* history: a history request failed
  switches

screenVars == <<chart, lastTime, marker>>
clientVars == <<hasConnectedBefore, selected, request, screenVars, gapTimer, threw, failed, switches>>
vars       == <<feedVars, clientVars>>

NoRequest == [tf |-> "none", at |-> "none", rows |-> {}]

Request(tf) == [tf |-> tf, at |-> "sent", rows |-> {}]

Times     == { p.bar.t : p \in chart }
lastPoint == IF chart = {} THEN None ELSE Max(Times)

Init ==
  /\ FeedInit
  /\ hasConnectedBefore = FALSE /\ selected = "null"
  /\ request = Request(Default)
  /\ chart = {} /\ lastTime = None /\ marker = None
  /\ gapTimer = FALSE /\ threw = {}
  /\ failed = FALSE /\ switches = 0

-----------------------------------------------------------------------------
(* useTimeframes.js, useCandleHistory.js *)

interval == IF selected = "null" THEN Default ELSE selected

\* load: the newer request aborts the one in flight.
load(tf) == request' = Request(tf)

\* The list arrives; the default was loaded already.
TimeframesLoad ==
  /\ selected = "null" /\ selected' = Default
  /\ UNCHANGED <<feedVars, hasConnectedBefore, request, screenVars, gapTimer, threw, failed, switches>>

selectTimeframe(tf) ==
  /\ selected \notin {"null", tf} /\ switches < MaxSwitches
  /\ selected' = tf /\ switches' = switches + 1
  /\ load(tf)
  /\ UNCHANGED <<feedVars, hasConnectedBefore, screenVars, gapTimer, threw, failed>>

\* GET /api/candles reads the newest rows of one series.
RequestServed ==
  /\ request.at = "sent"
  /\ LET held == { b.t : b \in {c \in table : c.tf = request.tf} }
     IN  request' = [request EXCEPT !.at = "answered",
                       !.rows = { t \in held : Cardinality({u \in held : u > t}) < DEFAULT_LIMIT }]
  /\ UNCHANGED <<feedVars, hasConnectedBefore, selected, screenVars, gapTimer, threw, failed, switches>>

\* syncTo: the next live candle is compared with what is on screen now, and a
\* repair already queued is dropped.
syncTo(t) == marker' = t /\ gapTimer' = FALSE

setHistory(tf, rows) ==
  /\ chart' = { [bar |-> [tf |-> tf, t |-> t], sealed |-> TRUE] : t \in rows }
  /\ lastTime' = Max(rows)

\* The effect of a new history replaces every point; an empty one has none.
HistoryArrives ==
  /\ request.at = "answered" /\ request' = NoRequest
  /\ IF request.rows = {}
     THEN UNCHANGED <<screenVars, gapTimer>>
     ELSE setHistory(request.tf, request.rows) /\ syncTo(Max(request.rows))
  /\ UNCHANGED <<feedVars, hasConnectedBefore, selected, threw, failed, switches>>

\* An error or a timeout: shown, and not retried.
RequestFails ==
  /\ request # NoRequest /\ faults < MaxFaults
  /\ request' = NoRequest /\ failed' = TRUE /\ faults' = faults + 1
  /\ UNCHANGED <<tableVars, link, wire, hasConnectedBefore, selected, screenVars, gapTimer, threw,
                 switches>>

-----------------------------------------------------------------------------
(* useCandleStream.js *)

Opens ==
  /\ link = "none" /\ link' = "open"
  /\ hasConnectedBefore' = TRUE
  /\ IF hasConnectedBefore THEN load(interval) ELSE UNCHANGED request
  /\ UNCHANGED <<tableVars, wire, faults, selected, screenVars, gapTimer, threw, failed, switches>>

\* The connection breaks, or the server's heartbeat terminates it.
Drops ==
  /\ link = "open" /\ faults < MaxFaults
  /\ link' = "broken" /\ faults' = faults + 1
  /\ UNCHANGED <<tableVars, wire, clientVars>>

\* onclose: after a close frame everything sent was read, after a break anything.
Closes ==
  /\ link = "broken" \/ (link = "closing" /\ wire = <<>>)
  /\ link' = "none" /\ wire' = <<>>
  /\ UNCHANGED <<tableVars, faults, clientVars>>

-----------------------------------------------------------------------------
(* useCandleContinuity.js, CandleChart.jsx *)

classifyCandle(t, last, width) ==
  CASE last = None      -> "first"
    [] t = last         -> "duplicate"
    [] t < last         -> "stale"
    [] t = last + width -> "next"
    [] OTHER            -> "gap"

isDrawable_Always(order) == TRUE

isDrawable(order) == order # "stale"

\* A point replaces the one of the same time.
Drawn(b, sealed) == { p \in chart : p.bar.t # b.t } \cup { [bar |-> b, sealed |-> sealed] }

\* update() throws on a time before the last point: the candle is not drawn.
appendCandle(b) ==
  IF b.t < lastPoint
  THEN threw' = threw \cup {b} /\ UNCHANGED <<chart, lastTime>>
  ELSE chart' = Drawn(b, TRUE) /\ lastTime' = b.t /\ UNCHANGED threw

accept_NoTimer(b, order) == marker' = Max({b.t, marker}) /\ UNCHANGED gapTimer

accept(b, order) ==
  /\ marker' = Max({b.t, marker})
  /\ gapTimer' = (gapTimer \/ order = "gap")

handleCandle_EveryTimeframe(b) ==
  LET order == classifyCandle(b.t, marker, Width[interval])
  IN  IF isDrawable(order)
      THEN accept(b, order) /\ appendCandle(b)
      ELSE UNCHANGED <<screenVars, gapTimer, threw>>

handleCandle(b) ==
  LET order == classifyCandle(b.t, marker, Width[interval])
  IN  IF b.tf = selected /\ isDrawable(order)
      THEN accept(b, order) /\ appendCandle(b)
      ELSE UNCHANGED <<screenVars, gapTimer, threw>>

updateTick_Unguarded(b) ==
  /\ IF b.tf = selected
     THEN chart' = Drawn(b, FALSE) /\ lastTime' = b.t
     ELSE UNCHANGED <<chart, lastTime>>
  /\ UNCHANGED <<marker, gapTimer, threw>>

updateTick(b) ==
  /\ IF b.tf = selected /\ b.t >= lastTime
     THEN chart' = Drawn(b, FALSE) /\ lastTime' = b.t
     ELSE UNCHANGED <<chart, lastTime>>
  /\ UNCHANGED <<marker, gapTimer, threw>>

\* onmessage
Receive ==
  /\ wire # <<>> /\ wire' = Tail(wire)
  /\ LET message == Head(wire)
     IN  IF message.type = "candle" THEN handleCandle(message.bar) ELSE updateTick(message.bar)
  /\ UNCHANGED <<tableVars, link, faults, hasConnectedBefore, selected, request, failed, switches>>

\* The debounce is over: onGap refetches.
GapTimerFires ==
  /\ gapTimer /\ gapTimer' = FALSE
  /\ load(interval)
  /\ UNCHANGED <<feedVars, hasConnectedBefore, selected, screenVars, threw, failed, switches>>

-----------------------------------------------------------------------------
Server ==
  \/ BarsClose
  \/ \E h \in handling : Insert(h) \/ Enriched(h)
  \/ \E b \in Bars : Repair(b)
  \/ \E tf \in Timeframes : Tick(tf)

Browser ==
  \/ TimeframesLoad
  \/ \E tf \in Timeframes : selectTimeframe(tf)
  \/ RequestServed \/ HistoryArrives \/ RequestFails
  \/ Opens \/ Drops \/ Closes
  \/ Receive \/ GapTimerFires

Next == (Server /\ UNCHANGED clientVars) \/ Browser

Spec == Init /\ [][Next]_vars

\* The database, the backfill and the API answer; the browser handles messages,
\* notices that its socket has closed, and its timers fire.
Fairness ==
  /\ WF_vars((\E h \in handling : Insert(h) \/ Enriched(h)) /\ UNCHANGED clientVars)
  /\ WF_vars((\E b \in Bars : Repair(b)) /\ UNCHANGED clientVars)
  /\ WF_vars(RequestServed) /\ WF_vars(HistoryArrives)
  /\ WF_vars(Receive) /\ WF_vars(GapTimerFires)
  /\ WF_vars(Opens) /\ WF_vars(Closes)

FairSpec == Spec /\ Fairness

-----------------------------------------------------------------------------
\* The types of the state; the chart has one point per time.
ClientTypeOK ==
  /\ table \subseteq Bars /\ lost \subseteq Bars /\ repaired \subseteq table
  /\ handling \subseteq [bar : Bars, at : {"insert", "enrich"}]
  /\ link \in {"none", "open", "closing", "broken"} /\ Len(wire) <= MaxBuffered + 1
  /\ selected \in Timeframes \cup {"null"}
  /\ \A p \in chart : p.bar \in Bars /\ p.sealed \in BOOLEAN
  /\ \A p, q \in chart : p.bar.t = q.bar.t => p = q
  /\ gapTimer \in BOOLEAN /\ threw \subseteq Bars

Repairing == gapTimer \/ request # NoRequest

\* A bar missing on screen between the first point and the newest candle that
\* continuity accepted.
Hole(b) ==
  /\ b.tf = selected /\ chart # {}
  /\ Min(Times) < b.t /\ b.t <= marker
  /\ b.t \notin Times

\* The browser repairs every hole it sees: in the end one is left only where the
\* server stored the bar after a newer one, the chart threw on the candle, or a
\* request failed (useCandleStream.js:46-48).
HolesAreFilled ==
  <>[](\A b \in Bars : Hole(b) => b \in repaired \cup threw \/ failed)

\* A gap continuity notices is repaired, also when the server itself was late to
\* store the bar: "Notice a GAP and repair it with ONE debounced refetch"
\* (useCandleContinuity.js:21).
GapsAreRepaired ==
  \A b \in Bars : (gapTimer /\ Hole(b)) ~> (~Hole(b) \/ b \in threw \/ failed)

\* The types hold, and everything on screen is of the selected timeframe, unless
\* the history of the one just selected is still to come, or could not be had
\* (App.jsx:86-91).
OneTimeframe ==
  /\ ClientTypeOK
  /\ \/ \A p \in chart : p.bar.tf = interval
     \/ request # NoRequest
     \/ failed

\* What ticks are checked against is the newest point drawn, so a tick never
\* makes the chart throw, and continuity never believes in a candle newer than
\* what is on screen (CandleChart.jsx:58-60).
RefsFollowTheChart == lastTime = lastPoint /\ marker <= lastPoint

\* Out-of-order candles are dropped before they reach the chart; only one that a
\* tick of the next bar overtook still makes it throw (useCandleContinuity.js:16).
ContinuityGuardsChart ==
  [][\A b \in threw' \ threw : \E p \in chart : p.bar.t > b.t /\ ~p.sealed]_vars
=============================================================================
