------------------------ MODULE ChartClient_proofs ------------------------
(***************************************************************************)
(* What is on screen, for every number of timeframes and bars, every order *)
(* of messages, responses and timers, and every number of faults.          *)
(***************************************************************************)
EXTENDS ChartClient, TLAPS, WellFoundedInduction, FiniteSetTheorems

Message == [type : {"candle", "tick"}, bar : Bars]

\* What the induction needs to know of the server and of what is in flight.
FeedTyped ==
  /\ now \in 0..Horizon
  /\ table \subseteq Bars
  /\ handling \subseteq [bar : Bars, at : {"insert", "enrich"}]
  /\ wire \in Seq(Message)
  /\ request.rows \subseteq 0..Horizon
  /\ selected \in Timeframes \cup {"null"}

ScreenTyped ==
  /\ \A p \in chart : p.bar.t \in Int /\ p.sealed \in BOOLEAN
  /\ lastTime \in Int /\ marker \in Int

\* lastTime is the newest point, said without Max.
NewestIsLast ==
  /\ chart = {} => lastTime = None
  /\ chart # {} => \E p \in chart : p.bar.t = lastTime
  /\ \A p \in chart : p.bar.t <= lastTime

\* Whatever is drawn beyond the marker was drawn by a tick.
SealedAreKnown == \A p \in chart : p.sealed => p.bar.t <= marker

ScreenInv == ScreenTyped /\ NewestIsLast /\ SealedAreKnown /\ marker <= lastTime

ClientInv == FeedTyped /\ ScreenInv

-----------------------------------------------------------------------------
(* The newest of a set of times *)

LEMMA TimesAreBounded == \A b \in Bars : b.t \in 0..Horizon
BY DEF Bars

LEMMA MaxIs ==
  ASSUME NEW T \in SUBSET Int, NEW m \in T, \A u \in T : u <= m
  PROVE  Max(T) = m
<1>1. \A x \in T : (\A y \in T : x >= y) => x = m
  OBVIOUS
<1>2. m \in T /\ \A y \in T : m >= y
  OBVIOUS
<1> QED BY <1>1, <1>2 DEF Max

LEMMA MaxExists ==
  ASSUME NEW T \in SUBSET (0..Horizon), T # {}
  PROVE  Max(T) \in T /\ \A u \in T : u <= Max(T)
<1> DEFINE Left == { Horizon - t : t \in T }
<1>1. Left \subseteq Nat /\ Left # {}
  <2>1. \A t \in T : Horizon - t \in Nat
    BY FeedAssumption
  <2> QED BY <2>1
<1>2. PICK k \in Left : \A l \in Left : ~(<<l, k>> \in OpToRel(<, Nat))
  BY <1>1, NatLessThanWellFounded, WFMin
<1>3. \A l \in Left : ~(l < k)
  BY <1>1, <1>2 DEF OpToRel
<1>4. PICK m \in T : k = Horizon - m
  BY <1>2
<1>5. \A u \in T : u <= m
  <2> SUFFICES ASSUME NEW u \in T PROVE u <= m
    OBVIOUS
  <2>1. Horizon - u \in Left /\ ~(Horizon - u < k)
    BY <1>3
  <2> QED BY <2>1, <1>4, FeedAssumption
<1> QED BY <1>5, MaxIs

LEMMA LastPointIsNewest == ScreenTyped /\ NewestIsLast => lastTime = lastPoint
<1> SUFFICES ASSUME ScreenTyped, NewestIsLast PROVE lastTime = lastPoint
  OBVIOUS
<1>1. CASE chart = {}
  BY <1>1 DEF NewestIsLast, lastPoint
<1>2. CASE chart # {}
  <2>1. Times \subseteq Int
    BY DEF Times, ScreenTyped
  <2>2. lastTime \in Times /\ \A u \in Times : u <= lastTime
    BY <1>2 DEF NewestIsLast, Times
  <2> QED BY <1>2, <2>1, <2>2, MaxIs DEF lastPoint
<1> QED BY <1>1, <1>2

-----------------------------------------------------------------------------
(* What draws *)

LEMMA HistoryKeepsScreen ==
  ASSUME NEW tf, NEW rows \in SUBSET (0..Horizon), rows # {},
         setHistory(tf, rows), marker' = Max(rows)
  PROVE  ScreenInv'
<1>1. Max(rows) \in rows /\ \A u \in rows : u <= Max(rows)
  BY MaxExists
<1>2. chart' = { [bar |-> [tf |-> tf, t |-> t], sealed |-> TRUE] : t \in rows } /\ lastTime' = Max(rows)
  BY DEF setHistory
<1> DEFINE Point(t) == [bar |-> [tf |-> tf, t |-> t], sealed |-> TRUE]
<1>3. \A p \in chart' : p.bar.t \in Int /\ p.sealed = TRUE /\ p.bar.t \in rows
  <2> SUFFICES ASSUME NEW p \in chart'
               PROVE  p.bar.t \in Int /\ p.sealed = TRUE /\ p.bar.t \in rows
    OBVIOUS
  <2>1. PICK t \in rows : p = Point(t)
    BY <1>2
  <2>2. p.bar.t = t /\ p.sealed = TRUE
    BY <2>1
  <2>3. t \in Int
    BY FeedAssumption
  <2> QED BY <2>2, <2>3
<1>4. \E p \in chart' : p.bar.t = lastTime'
  <2>1. Point(Max(rows)) \in chart'
    BY <1>1, <1>2
  <2>2. Point(Max(rows)).bar.t = lastTime'
    BY <1>2
  <2> QED BY <2>1, <2>2
<1>5. lastTime' \in Int /\ marker' = lastTime'
  <2>1. Max(rows) \in 0..Horizon
    BY <1>1
  <2> QED BY <1>2, <2>1
<1>6. ScreenTyped'
  BY <1>3, <1>5 DEF ScreenTyped
<1>7. NewestIsLast' /\ SealedAreKnown'
  BY <1>1, <1>2, <1>3, <1>4 DEF NewestIsLast, SealedAreKnown
<1> QED BY <1>5, <1>6, <1>7 DEF ScreenInv

\* One point at the end, or in place of the last.
LEMMA DrawKeepsScreen ==
  ASSUME ScreenInv, NEW b, b.t \in Int, NEW sealed \in BOOLEAN, b.t >= lastTime,
         chart' = Drawn(b, sealed), lastTime' = b.t,
         marker' \in Int, marker <= marker', marker' <= b.t, sealed => marker' = b.t
  PROVE  ScreenInv'
<1>1. \A p \in chart' : \/ p = [bar |-> b, sealed |-> sealed]
                        \/ p \in chart
  BY DEF Drawn
<1>2. [bar |-> b, sealed |-> sealed] \in chart'
  BY DEF Drawn
<1>3. \A p \in chart : p.bar.t \in Int
  BY DEF ScreenInv, ScreenTyped
<1>4. ScreenTyped'
  BY <1>1 DEF ScreenInv, ScreenTyped
<1>5. NewestIsLast'
  BY <1>1, <1>2, <1>3 DEF ScreenInv, ScreenTyped, NewestIsLast
<1>6. SealedAreKnown'
  BY <1>1, <1>3 DEF ScreenInv, ScreenTyped, SealedAreKnown
<1> QED BY <1>4, <1>5, <1>6 DEF ScreenInv

\* accept keeps the newer of the marker and the candle.
LEMMA AcceptIsNewer ==
  ASSUME NEW b \in Bars, marker \in Int, NEW order, accept(b, order)
  PROVE  marker' \in Int /\ marker' = (IF b.t < marker THEN marker ELSE b.t)
<1>1. b.t \in Int
  BY TimesAreBounded
<1>2. CASE b.t < marker
  <2>1. Max({b.t, marker}) = marker
    BY <1>1, <1>2, MaxIs
  <2> QED BY <1>2, <2>1 DEF accept
<1>3. CASE ~(b.t < marker)
  <2>1. Max({b.t, marker}) = b.t
    BY <1>1, <1>3, MaxIs
  <2> QED BY <1>1, <1>3, <2>1 DEF accept
<1> QED BY <1>1, <1>2, <1>3

\* What continuity lets through is not before the marker.
LEMMA DrawableIsNotBefore ==
  ASSUME NEW t \in Nat, marker \in Int, NEW width \in Nat, isDrawable(classifyCandle(t, marker, width))
  PROVE  t >= marker
<1>1. t < marker => marker # None /\ t # marker
  BY DEF None
<1>2. t < marker => classifyCandle(t, marker, width) = "stale"
  BY <1>1 DEF classifyCandle
<1> QED BY <1>2 DEF isDrawable

LEMMA CandleKeepsScreen ==
  ASSUME ScreenInv, selected \in Timeframes \cup {"null"}, NEW b \in Bars, handleCandle(b)
  PROVE  /\ ScreenInv'
         /\ \A c \in threw' \ threw : \E p \in chart : p.bar.t > c.t /\ ~p.sealed
<1> DEFINE order == classifyCandle(b.t, marker, Width[interval])
<1>0. b.t \in Nat /\ marker \in Int /\ lastTime \in Int /\ lastTime = lastPoint
  BY TimesAreBounded, LastPointIsNewest DEF ScreenInv, ScreenTyped
<1>1. CASE b.tf = selected /\ isDrawable(order)
  <2>0. Width[interval] \in Nat
    BY FeedAssumption DEF interval
  <2>1. accept(b, order) /\ appendCandle(b) /\ b.t >= marker
    BY <1>0, <1>1, <2>0, DrawableIsNotBefore DEF handleCandle
  <2>2. marker' = b.t
    BY <1>0, <2>1, AcceptIsNewer
  <2>3. CASE b.t < lastPoint
    <3>1. threw' = threw \cup {b} /\ chart' = chart /\ lastTime' = lastTime
      BY <2>1, <2>3 DEF appendCandle
    <3>2. ScreenInv'
      BY <1>0, <2>1, <2>2, <2>3, <3>1, TimesAreBounded
      DEF ScreenInv, ScreenTyped, NewestIsLast, SealedAreKnown
    <3>3. chart # {}
      BY <1>0, <2>3 DEF ScreenInv, NewestIsLast, None
    <3>4. PICK p \in chart : p.bar.t = lastTime
      BY <3>3 DEF ScreenInv, NewestIsLast
    <3>5. p.bar.t > b.t /\ ~p.sealed
      BY <1>0, <2>1, <2>3, <3>4 DEF ScreenInv, ScreenTyped, SealedAreKnown
    <3> QED BY <3>1, <3>2, <3>4, <3>5
  <2>4. CASE ~(b.t < lastPoint)
    <3>1. threw' = threw /\ chart' = Drawn(b, TRUE) /\ lastTime' = b.t
      BY <2>1, <2>4 DEF appendCandle
    <3>2. b.t \in Int /\ marker <= marker' /\ marker' <= b.t /\ marker' \in Int /\ b.t >= lastTime
      BY <1>0, <2>1, <2>2, <2>4
    <3>3. ScreenInv'
      BY <2>2, <3>1, <3>2, DrawKeepsScreen
    <3> QED BY <3>1, <3>3
  <2> QED BY <2>3, <2>4
<1>2. CASE ~(b.tf = selected /\ isDrawable(order))
  <2>1. UNCHANGED <<screenVars, threw>>
    BY <1>2 DEF handleCandle
  <2> QED
    BY <2>1 DEF screenVars, ScreenInv, ScreenTyped, NewestIsLast, SealedAreKnown
<1> QED BY <1>1, <1>2

LEMMA TickKeepsScreen ==
  ASSUME ScreenInv, NEW b, b.t \in Int, updateTick(b)
  PROVE  ScreenInv' /\ threw' = threw
<1>0. marker' = marker /\ threw' = threw
  BY DEF updateTick
<1>1. CASE b.tf = selected /\ b.t >= lastTime
  <2>1. chart' = Drawn(b, FALSE) /\ lastTime' = b.t
    BY <1>1 DEF updateTick
  <2>2. marker' \in Int /\ marker <= marker' /\ marker' <= b.t
    BY <1>0, <1>1 DEF ScreenInv, ScreenTyped
  <2> QED BY <1>0, <1>1, <2>1, <2>2, DrawKeepsScreen
<1>2. CASE ~(b.tf = selected /\ b.t >= lastTime)
  BY <1>0, <1>2 DEF updateTick, ScreenInv, ScreenTyped, NewestIsLast, SealedAreKnown
<1> QED BY <1>1, <1>2

-----------------------------------------------------------------------------
(* The induction *)

LEMMA InitClient == Init => ClientInv
<1> SUFFICES ASSUME Init PROVE ClientInv
  OBVIOUS
<1>1. FeedTyped
  <2>1. /\ now = Started /\ table \subseteq Bars /\ handling = {} /\ wire = <<>>
        /\ request = Request(Default) /\ selected = "null"
    BY DEF Init, FeedInit
  <2>2. now \in 0..Horizon
    BY <2>1, FeedAssumption
  <2>3. request.rows = {}
    BY <2>1 DEF Request
  <2> QED BY <2>1, <2>2, <2>3 DEF FeedTyped
<1>2. ScreenInv
  <2>1. chart = {} /\ lastTime = None /\ marker = None
    BY DEF Init
  <2>2. None \in Int
    BY DEF None
  <2> QED BY <2>1, <2>2 DEF ScreenInv, ScreenTyped, NewestIsLast, SealedAreKnown
<1> QED BY <1>1, <1>2 DEF ClientInv

\* What is left of the clock after the bar that is forming is whole bars.
LEMMA MultipleHasNoRest ==
  ASSUME NEW w \in Nat \ {0}, NEW q \in Nat
  PROVE  (w * q) % w = 0
<1> DEFINE a == w * q
<1>1. a \in Nat
  OBVIOUS
<1> HIDE DEF a
<1>2. a \div w \in Int /\ a % w \in 0..(w - 1)
  BY <1>1
<1>3. PICK d \in Int, m \in 0..(w - 1) : d = a \div w /\ m = a % w
  BY <1>2
<1>4. w * d + m = a
  BY <1>1, <1>3
<1>5. m = w * (q - d)
  BY <1>3, <1>4 DEF a
<1>6. CASE q - d >= 1
  <2>1. w * (q - d) >= w
    BY <1>6
  <2> QED BY <1>5, <2>1
<1>7. CASE q - d = 0
  <2>1. w * (q - d) = 0
    BY <1>7
  <2> QED BY <1>3, <1>5, <2>1 DEF a
<1>8. CASE q - d <= -1
  <2>1. w * (q - d) <= -w
    BY <1>8
  <2> QED BY <1>5, <2>1
<1> QED BY <1>6, <1>7, <1>8

LEMMA FormingIsBar ==
  ASSUME now \in 0..Horizon, NEW tf \in Timeframes
  PROVE  Forming(tf) \in Bars
<1>1. now \in Nat /\ Horizon \in Nat /\ now <= Horizon /\ Width[tf] \in Nat \ {0}
  BY FeedAssumption
<1> PICK w \in Nat \ {0} : w = Width[tf]
  BY <1>1
<1>2. now % w \in Nat /\ now \div w \in Nat
  BY <1>1
<1>3. PICK q \in Nat, m \in Nat : q = now \div w /\ m = now % w
  BY <1>2
<1>4. w * q + m = now
  BY <1>1, <1>3
<1> DEFINE t == now - m
<1>5. t = w * q /\ t \in 0..Horizon
  <2>1. w * q \in Nat
    OBVIOUS
  <2> QED BY <1>1, <1>3, <1>4, <2>1
<1>6. t % w = 0
  <2>1. (w * q) % w = 0
    BY MultipleHasNoRest
  <2> QED BY <1>5, <2>1
<1>7. Forming(tf) = [tf |-> tf, t |-> t]
  BY <1>3 DEF Forming
<1> HIDE DEF t
<1> QED BY <1>5, <1>6, <1>7 DEF Bars

LEMMA SendKeepsWire ==
  ASSUME wire \in Seq(Message), NEW m \in Message, sendToClient(m)
  PROVE  wire' \in Seq(Message)
BY DEF sendToClient

LEMMA ServerKeepsFeed == ClientInv /\ Server /\ UNCHANGED clientVars => FeedTyped'
<1> SUFFICES ASSUME FeedTyped, Server, UNCHANGED clientVars PROVE FeedTyped'
  BY DEF ClientInv
<1> USE DEF FeedTyped
<1>1. request' = request /\ selected' = selected
  BY DEF clientVars
<1>2. CASE BarsClose
  <2>1. now' \in 0..Horizon
    BY <1>2, FeedAssumption DEF BarsClose
  <2>2. handling' \subseteq [bar : Bars, at : {"insert", "enrich"}]
    BY <1>2 DEF BarsClose
  <2> QED BY <1>1, <1>2, <2>1, <2>2 DEF BarsClose
<1>3. ASSUME NEW h \in handling, Insert(h) PROVE FeedTyped'
  BY <1>1, <1>3 DEF Insert, Stored
<1>4. ASSUME NEW h \in handling, Enriched(h) PROVE FeedTyped'
  <2>1. [type |-> "candle", bar |-> h.bar] \in Message
    BY DEF Message
  <2>2. wire' \in Seq(Message)
    BY <1>4, <2>1, SendKeepsWire DEF Enriched
  <2> QED BY <1>1, <1>4, <2>2 DEF Enriched
<1>5. ASSUME NEW b \in Bars, Repair(b) PROVE FeedTyped'
  BY <1>1, <1>5 DEF Repair, Stored
<1>6. ASSUME NEW tf \in Timeframes, Tick(tf) PROVE FeedTyped'
  <2>1. Forming(tf) \in Bars
    BY FormingIsBar
  <2>2. [type |-> "tick", bar |-> Forming(tf)] \in Message
    BY <2>1 DEF Message
  <2>3. wire' \in Seq(Message)
    BY <1>6, <2>2, SendKeepsWire DEF Tick
  <2> QED BY <1>1, <1>6, <2>3 DEF Tick, tableVars
<1> QED BY <1>2, <1>3, <1>4, <1>5, <1>6 DEF Server

LEMMA NextClient ==
  ASSUME ClientInv, [Next]_vars
  PROVE  /\ ClientInv'
         /\ \A c \in threw' \ threw : \E p \in chart : p.bar.t > c.t /\ ~p.sealed
<1> DEFINE Goal == /\ ClientInv'
                   /\ \A c \in threw' \ threw : \E p \in chart : p.bar.t > c.t /\ ~p.sealed
<1>1. ASSUME FeedTyped', UNCHANGED <<screenVars, threw>> PROVE Goal
  BY <1>1 DEF ClientInv, screenVars, ScreenInv, ScreenTyped, NewestIsLast, SealedAreKnown
<1>2. ASSUME UNCHANGED <<now, table, handling, wire>>, request'.rows = {},
             selected' \in Timeframes \cup {"null"}
      PROVE  FeedTyped'
  BY <1>2 DEF ClientInv, FeedTyped
<1>3. CASE Server /\ UNCHANGED clientVars
  BY <1>3, <1>1, ServerKeepsFeed DEF clientVars
<1>4. CASE TimeframesLoad
  <2>1. UNCHANGED <<now, table, handling, wire, request, screenVars, threw>> /\ selected' \in Timeframes
    BY <1>4, FeedAssumption DEF TimeframesLoad, feedVars, tableVars
  <2> QED BY <2>1, <1>1 DEF ClientInv, FeedTyped
<1>5. ASSUME NEW tf \in Timeframes, selectTimeframe(tf) PROVE Goal
  BY <1>5, <1>1, <1>2 DEF selectTimeframe, load, Request, feedVars, tableVars
<1>6. CASE RequestServed
  <2> DEFINE held == { b.t : b \in {c \in table : c.tf = request.tf} }
  <2>1. request'.rows \subseteq held
    BY <1>6 DEF RequestServed
  <2>2. held \subseteq 0..Horizon
    BY TimesAreBounded DEF ClientInv, FeedTyped
  <2>3. FeedTyped'
    BY <1>6, <2>1, <2>2 DEF RequestServed, ClientInv, FeedTyped, feedVars, tableVars
  <2> QED BY <1>6, <2>3, <1>1 DEF RequestServed
<1>7. CASE HistoryArrives
  <2>1. FeedTyped'
    BY <1>7, <1>2 DEF HistoryArrives, NoRequest, feedVars, tableVars, ClientInv, FeedTyped
  <2>2. CASE request.rows = {}
    BY <1>7, <2>1, <2>2, <1>1 DEF HistoryArrives
  <2>3. CASE request.rows # {}
    <3>1. /\ setHistory(request.tf, request.rows) /\ marker' = Max(request.rows)
          /\ threw' = threw
      BY <1>7, <2>3 DEF HistoryArrives, syncTo
    <3>2. ScreenInv'
      BY <2>3, <3>1, HistoryKeepsScreen DEF ClientInv, FeedTyped
    <3> QED BY <2>1, <3>1, <3>2 DEF ClientInv
  <2> QED BY <2>2, <2>3
<1>8. CASE RequestFails
  BY <1>8, <1>1, <1>2 DEF RequestFails, NoRequest, tableVars, ClientInv, FeedTyped
<1>9. CASE Opens
  BY <1>9, <1>1, <1>2
  DEF Opens, load, Request, tableVars, ClientInv, FeedTyped
<1>10. CASE Drops
  BY <1>10, <1>1 DEF Drops, tableVars, clientVars, ClientInv, FeedTyped
<1>11. CASE Closes
  BY <1>11, <1>1 DEF Closes, tableVars, clientVars, ClientInv, FeedTyped
<1>12. CASE Receive
  <2>1. Head(wire) \in Message /\ wire' \in Seq(Message)
    BY <1>12 DEF Receive, ClientInv, FeedTyped
  <2>2. FeedTyped'
    BY <1>12, <2>1 DEF Receive, tableVars, ClientInv, FeedTyped
  <2>3. CASE Head(wire).type = "candle"
    <3>1. Head(wire).bar \in Bars
      BY <2>1, <2>3 DEF Message
    <3>2. handleCandle(Head(wire).bar)
      BY <1>12, <2>3 DEF Receive
    <3>3. ScreenInv /\ selected \in Timeframes \cup {"null"}
      BY DEF ClientInv, FeedTyped
    <3> QED BY <2>2, <3>1, <3>2, <3>3, CandleKeepsScreen DEF ClientInv
  <2>4. CASE Head(wire).type # "candle"
    <3>1. Head(wire).bar \in Bars /\ Head(wire).bar.t \in Int
      BY <2>1, TimesAreBounded DEF Message
    <3>2. updateTick(Head(wire).bar)
      BY <1>12, <2>4 DEF Receive
    <3> QED BY <2>2, <3>1, <3>2, TickKeepsScreen DEF ClientInv
  <2> QED BY <2>3, <2>4
<1>13. CASE GapTimerFires
  BY <1>13, <1>1, <1>2 DEF GapTimerFires, load, Request, feedVars, tableVars, ClientInv, FeedTyped
<1>14. CASE UNCHANGED vars
  BY <1>14, <1>1 DEF vars, feedVars, tableVars, clientVars, ClientInv, FeedTyped
<1> QED
  BY <1>3, <1>4, <1>5, <1>6, <1>7, <1>8, <1>9, <1>10, <1>11, <1>12, <1>13, <1>14
  DEF Next, Browser

LEMMA ClientInvariant == Spec => []ClientInv
<1>1. ClientInv /\ [Next]_vars => ClientInv'
  BY NextClient
<1> QED BY <1>1, InitClient, PTL DEF Spec

-----------------------------------------------------------------------------
\* The ref that guards ticks is the newest point on screen, and continuity does
\* not believe in a candle newer than it (CandleChart.jsx:58-60).
THEOREM RefsFollow == Spec => []RefsFollowTheChart
<1>1. ClientInv => RefsFollowTheChart
  BY LastPointIsNewest DEF ClientInv, ScreenInv, RefsFollowTheChart
<1> QED BY <1>1, ClientInvariant, PTL

\* The chart throws on a candle only if a tick of a later bar is on screen: what
\* continuity lets through is never older than a sealed bar.
THEOREM OnlyTicksOvertake == Spec => ContinuityGuardsChart
<1>1. ClientInv /\ [Next]_vars =>
        [\A b \in threw' \ threw : \E p \in chart : p.bar.t > b.t /\ ~p.sealed]_vars
  BY NextClient
<1> QED BY <1>1, ClientInvariant, PTL DEF Spec, ContinuityGuardsChart

-----------------------------------------------------------------------------
(* One timeframe on screen *)

\* Every timeframe has a stored bar when the browser opens, as a finished
\* backfill leaves them.  Without it the effect of an empty history is skipped
\* (App.jsx:57) and the points of the timeframe before stay on screen.
HistoryEverywhere == \A tf \in Timeframes : Width[tf] <= Started

Offer ==
  /\ lost \subseteq Bars /\ repaired \subseteq table
  /\ link \in {"none", "open", "closing", "broken"} /\ Len(wire) <= MaxBuffered + 1
  /\ \A tf \in Timeframes : \E b \in table : b.tf = tf

\* What is asked for is what is selected, and a history is not empty.
Asked ==
  /\ request \in [tf : Timeframes \cup {"none"}, at : {"none", "sent", "answered"}, rows : SUBSET (0..Horizon)]
  /\ request # NoRequest => request.tf = interval
  /\ request.at = "answered" => request.rows # {}
  /\ \A t \in request.rows : [tf |-> request.tf, t |-> t] \in Bars

Points ==
  /\ \A p \in chart : p.bar \in Bars /\ p.sealed \in BOOLEAN
  /\ \A p, q \in chart : p.bar.t = q.bar.t => p = q
  /\ gapTimer \in BOOLEAN /\ threw \subseteq Bars

Coherent == (\A p \in chart : p.bar.tf = interval) \/ request # NoRequest \/ failed

OnScreen == Offer /\ Asked /\ Points /\ Coherent

LEMMA IntervalIsTimeframe == FeedTyped => interval \in Timeframes
BY FeedAssumption DEF FeedTyped, interval

LEMMA RequestIsOne == \A tf : Request(tf) # NoRequest /\ Request(tf).tf = tf
                               /\ Request(tf).at = "sent" /\ Request(tf).rows = {}
BY DEF Request, NoRequest

LEMMA LoadIsAsked ==
  ASSUME NEW tf \in Timeframes, load(tf), interval' = tf
  PROVE  Asked' /\ Coherent'
<1>1. request' # NoRequest /\ request'.tf = tf /\ request'.at = "sent" /\ request'.rows = {}
  BY RequestIsOne DEF load
<1>2. request' \in [tf : Timeframes \cup {"none"}, at : {"none", "sent", "answered"}, rows : SUBSET (0..Horizon)]
  BY DEF load, Request
<1> QED BY <1>1, <1>2 DEF Asked, Coherent

LEMMA InitOnScreen == ASSUME HistoryEverywhere PROVE Init => OnScreen
<1> SUFFICES ASSUME Init PROVE OnScreen
  OBVIOUS
<1>1. /\ table = { b \in Bars : ClosesAt(b) <= Started }
      /\ lost = {} /\ repaired = {} /\ link = "none" /\ wire = <<>>
  BY DEF Init, FeedInit
<1>2. ASSUME NEW tf \in Timeframes PROVE \E b \in table : b.tf = tf
  <2> DEFINE b == [tf |-> tf, t |-> 0]
  <2>1. Width[tf] \in Nat \ {0} /\ Width[tf] <= Started /\ Horizon \in Nat
    BY FeedAssumption DEF HistoryEverywhere
  <2>2. 0 % Width[tf] = 0
    <3>1. (Width[tf] * 0) % Width[tf] = 0
      BY <2>1, MultipleHasNoRest
    <3> QED BY <2>1, <3>1
  <2>3. b \in Bars
    BY <2>1, <2>2 DEF Bars
  <2>4. ClosesAt(b) <= Started
    BY <2>1 DEF ClosesAt
  <2> QED BY <1>1, <2>3, <2>4
<1>3. Offer
  BY <1>1, <1>2, FeedAssumption DEF Offer
<1>4. chart = {} /\ gapTimer = FALSE /\ threw = {} /\ request = Request(Default) /\ interval = Default
  BY DEF Init, interval
<1>5. request \in [tf : Timeframes \cup {"none"}, at : {"none", "sent", "answered"}, rows : SUBSET (0..Horizon)]
  BY <1>4, FeedAssumption DEF Request
<1>6. Asked /\ Points /\ Coherent
  BY <1>4, <1>5, RequestIsOne DEF Asked, Points, Coherent
<1> QED BY <1>3, <1>6 DEF OnScreen

LEMMA SendStaysBounded ==
  ASSUME wire \in Seq(Message), Offer, NEW m \in Message, sendToClient(m)
  PROVE  link' \in {"none", "open", "closing", "broken"} /\ Len(wire') <= MaxBuffered + 1
<1>1. MaxBuffered \in Nat /\ Len(wire) \in Nat
  BY FeedAssumption
<1>2. Len(Append(wire, m)) = Len(wire) + 1
  OBVIOUS
<1> QED BY <1>1, <1>2 DEF sendToClient, Offer

LEMMA ServerKeepsOffer ==
  ASSUME FeedTyped, Offer, Server, UNCHANGED clientVars
  PROVE  Offer'
<1>1. CASE BarsClose
  BY <1>1 DEF BarsClose, Offer
<1>2. ASSUME NEW h \in handling, Insert(h) PROVE Offer'
  <2>1. h.bar \in Bars
    BY DEF FeedTyped
  <2> QED BY <1>2, <2>1 DEF Insert, Stored, Offer
<1>3. ASSUME NEW h \in handling, Enriched(h) PROVE Offer'
  <2>1. [type |-> "candle", bar |-> h.bar] \in Message
    BY DEF Message, FeedTyped
  <2>2. link' \in {"none", "open", "closing", "broken"} /\ Len(wire') <= MaxBuffered + 1
    BY <1>3, <2>1, SendStaysBounded DEF Enriched, FeedTyped
  <2> QED BY <1>3, <2>2 DEF Enriched, Offer
<1>4. ASSUME NEW b \in Bars, Repair(b) PROVE Offer'
  BY <1>4 DEF Repair, Stored, Offer
<1>5. ASSUME NEW tf \in Timeframes, Tick(tf) PROVE Offer'
  <2>1. [type |-> "tick", bar |-> Forming(tf)] \in Message
    BY FormingIsBar DEF Message, FeedTyped
  <2>2. link' \in {"none", "open", "closing", "broken"} /\ Len(wire') <= MaxBuffered + 1
    BY <1>5, <2>1, SendStaysBounded DEF Tick, FeedTyped
  <2> QED BY <1>5, <2>2 DEF Tick, tableVars, Offer
<1> QED BY <1>1, <1>2, <1>3, <1>4, <1>5 DEF Server

\* The newest row of a table that is not empty is always served.
LEMMA ServedIsAsked ==
  ASSUME FeedTyped, Offer, Asked, RequestServed
  PROVE  Asked' /\ request # NoRequest /\ request' # NoRequest
<1> DEFINE held == { b.t : b \in {c \in table : c.tf = request.tf} }
           rows == { t \in held : Cardinality({u \in held : u > t}) < DEFAULT_LIMIT }
<1>1. request' = [request EXCEPT !.at = "answered", !.rows = rows] /\ request.at = "sent"
  BY DEF RequestServed
<1>2. request # NoRequest /\ request.tf = interval
  BY <1>1 DEF NoRequest, Asked
<1>3. request.tf \in Timeframes
  BY <1>2, IntervalIsTimeframe
<1>4. \A t \in held : [tf |-> request.tf, t |-> t] \in Bars
  BY DEF FeedTyped, Bars
<1>5. held \subseteq 0..Horizon
  BY TimesAreBounded DEF FeedTyped
<1>6. held # {}
  BY <1>3 DEF Offer
<1>7. rows # {}
  <2> HIDE DEF held
  <2>1. PICK m \in held : \A u \in held : u <= m
    BY <1>5, <1>6, MaxExists
  <2>2. \A u \in held : ~(u > m)
    <3>1. held \subseteq Int
      BY <1>5, FeedAssumption
    <3>2. m \in Int
      BY <3>1
    <3> QED BY <2>1, <3>1, <3>2
  <2>3. {u \in held : u > m} = {}
    BY <2>2
  <2>4. Cardinality({u \in held : u > m}) = 0
    BY <2>3, FS_EmptySet
  <2>5. 0 < DEFAULT_LIMIT
    BY ClientAssumption
  <2> QED BY <2>1, <2>4, <2>5
<1>8. interval' = interval
  BY DEF RequestServed, interval
<1>9. request'.tf = request.tf /\ request'.rows = rows /\ request'.at = "answered"
  BY <1>1 DEF Asked
<1>10. request' \in [tf : Timeframes \cup {"none"}, at : {"none", "sent", "answered"}, rows : SUBSET (0..Horizon)]
  BY <1>1, <1>5 DEF Asked
<1>11. request' # NoRequest
  BY <1>9 DEF NoRequest
<1> QED BY <1>2, <1>4, <1>7, <1>8, <1>9, <1>10, <1>11 DEF Asked

LEMMA DrawKeepsPoints ==
  ASSUME Points, NEW b \in Bars, NEW sealed \in BOOLEAN, chart' = Drawn(b, sealed),
         gapTimer' \in BOOLEAN, threw' = threw
  PROVE  Points'
<1> DEFINE new == [bar |-> b, sealed |-> sealed]
<1>1. \A p \in chart' : p = new \/ (p \in chart /\ p.bar.t # b.t)
  BY DEF Drawn
<1>2. new.bar = b /\ new.sealed \in BOOLEAN
  OBVIOUS
<1> HIDE DEF new
<1>3. \A p \in chart' : p.bar \in Bars /\ p.sealed \in BOOLEAN
  BY <1>1, <1>2 DEF Points
<1>4. \A p, q \in chart' : p.bar.t = q.bar.t => p = q
  BY <1>1, <1>2 DEF Points
<1> QED BY <1>3, <1>4 DEF Points

LEMMA CandleKeepsPoints ==
  ASSUME Points, NEW b \in Bars, handleCandle(b)
  PROVE  Points'
<1>1. \/ chart' = Drawn(b, TRUE) /\ threw' = threw /\ gapTimer' \in BOOLEAN
      \/ chart' = chart /\ threw' \subseteq Bars /\ gapTimer' \in BOOLEAN
  BY DEF handleCandle, accept, appendCandle, screenVars, Points
<1> QED BY <1>1, DrawKeepsPoints DEF Points

LEMMA TickKeepsPoints ==
  ASSUME Points, NEW b \in Bars, updateTick(b)
  PROVE  Points'
<1>1. (chart' = Drawn(b, FALSE) \/ chart' = chart) /\ UNCHANGED <<gapTimer, threw>>
  BY DEF updateTick
<1> QED BY <1>1, DrawKeepsPoints DEF Points

\* Only points of the selected timeframe are drawn.
LEMMA DrawKeepsOne ==
  ASSUME Coherent, Timeframes \cap {"null"} = {}, NEW b \in Bars, UNCHANGED <<selected, request, failed>>,
         handleCandle(b) \/ updateTick(b)
  PROVE  Coherent'
<1>1. interval' = interval
  BY DEF interval
<1>2. CASE chart' = chart
  BY <1>1, <1>2 DEF Coherent
<1>3. CASE chart' # chart
  <2>1. b.tf = selected
    BY <1>3 DEF handleCandle, updateTick, screenVars
  <2>2. PICK sealed \in BOOLEAN : chart' = Drawn(b, sealed)
    BY <1>3 DEF handleCandle, appendCandle, updateTick, screenVars
  <2>3. b.tf = interval
    BY <2>1 DEF Bars, interval
  <2>4. \A p \in chart' : p.bar = b \/ p \in chart
    BY <2>2 DEF Drawn
  <2> QED BY <1>1, <2>3, <2>4 DEF Coherent
<1> QED BY <1>2, <1>3

LEMMA NextOnScreen ==
  ASSUME ClientInv, OnScreen, [Next]_vars
  PROVE  OnScreen'
<1> USE DEF OnScreen
<1>0. FeedTyped /\ interval \in Timeframes
  BY IntervalIsTimeframe DEF ClientInv
<1>1. ASSUME UNCHANGED <<table, repaired, lost, link, wire>> PROVE Offer'
  BY <1>1 DEF Offer
<1>2. ASSUME UNCHANGED <<chart, gapTimer, threw>> PROVE Points'
  BY <1>2 DEF Points
<1>3. ASSUME UNCHANGED <<request, selected>> PROVE Asked' /\ interval' = interval
  BY <1>3 DEF Asked, interval
<1>4. ASSUME UNCHANGED <<chart, request, failed>>, interval' = interval PROVE Coherent'
  BY <1>4 DEF Coherent
<1>5. ASSUME request' = NoRequest PROVE Asked'
  BY <1>5 DEF Asked, NoRequest
<1>6. CASE Server /\ UNCHANGED clientVars
  <2>1. UNCHANGED <<chart, gapTimer, threw, request, selected, failed>>
    BY <1>6 DEF clientVars, screenVars
  <2>2. Offer'
    BY <1>0, <1>6, ServerKeepsOffer
  <2> QED BY <2>1, <2>2, <1>2, <1>3, <1>4
<1>7. CASE TimeframesLoad
  <2>1. /\ UNCHANGED <<table, repaired, lost, link, wire, chart, gapTimer, threw, request, failed>>
        /\ selected = "null" /\ selected' = Default
    BY <1>7 DEF TimeframesLoad, feedVars, tableVars, screenVars
  <2>2. interval' = interval
    BY <2>1, ClientAssumption, FeedAssumption DEF interval
  <2>3. Asked'
    BY <2>1, <2>2 DEF Asked
  <2> QED BY <2>1, <2>2, <2>3, <1>1, <1>2, <1>4
<1>8. ASSUME NEW tf \in Timeframes, selectTimeframe(tf) PROVE OnScreen'
  <2>1. /\ UNCHANGED <<table, repaired, lost, link, wire, chart, gapTimer, threw>>
        /\ selected' = tf /\ load(tf)
    BY <1>8 DEF selectTimeframe, feedVars, tableVars, screenVars
  <2>2. interval' = tf
    BY <2>1, ClientAssumption DEF interval
  <2>3. Asked' /\ Coherent'
    BY <2>1, <2>2, LoadIsAsked
  <2> QED BY <2>1, <2>3, <1>1, <1>2
<1>9. CASE RequestServed
  <2>1. UNCHANGED <<table, repaired, lost, link, wire, chart, gapTimer, threw, selected, failed>>
    BY <1>9 DEF RequestServed, feedVars, tableVars, screenVars
  <2>2. Asked' /\ request # NoRequest /\ request' # NoRequest
    BY <1>0, <1>9, ServedIsAsked
  <2>3. Coherent'
    BY <2>2 DEF Coherent
  <2> QED BY <2>1, <2>2, <2>3, <1>1, <1>2
<1>10. CASE HistoryArrives
  <2>1. /\ UNCHANGED <<table, repaired, lost, link, wire, threw, selected, failed>>
        /\ request.at = "answered" /\ request' = NoRequest
    BY <1>10 DEF HistoryArrives, feedVars, tableVars
  <2>2. request # NoRequest /\ request.rows # {} /\ request.tf = interval
    BY <2>1 DEF Asked, NoRequest
  <2>3. setHistory(request.tf, request.rows) /\ gapTimer' = FALSE
    BY <1>10, <2>2 DEF HistoryArrives, syncTo
  <2>4. chart' = { [bar |-> [tf |-> request.tf, t |-> t], sealed |-> TRUE] : t \in request.rows }
    BY <2>3 DEF setHistory
  <2>5. \A p \in chart' : /\ p.bar \in Bars /\ p.bar.tf = interval
                         /\ p = [bar |-> [tf |-> request.tf, t |-> p.bar.t], sealed |-> TRUE]
    BY <2>2, <2>4 DEF Asked
  <2>6. \A p \in chart' : p.sealed = TRUE
    BY <2>4
  <2>7. \A p, q \in chart' : p.bar.t = q.bar.t => p = q
    BY <2>5
  <2>8. Points'
    BY <2>1, <2>3, <2>5, <2>6, <2>7 DEF Points
  <2>9. interval' = interval
    BY <2>1 DEF interval
  <2>10. Coherent'
    BY <2>5, <2>9 DEF Coherent
  <2> QED BY <2>1, <2>8, <2>10, <1>1, <1>5
<1>11. CASE RequestFails
  <2>1. /\ UNCHANGED <<table, repaired, lost, link, wire, chart, gapTimer, threw>>
        /\ request' = NoRequest /\ failed' = TRUE
    BY <1>11 DEF RequestFails, tableVars, screenVars
  <2> QED BY <2>1, <1>1, <1>2, <1>5 DEF Coherent
<1>12. CASE Opens
  <2>1. /\ UNCHANGED <<table, repaired, lost, wire, chart, gapTimer, threw, selected, failed>>
        /\ link' = "open" /\ (load(interval) \/ request' = request)
    BY <1>12 DEF Opens, tableVars, screenVars
  <2>2. Offer'
    BY <2>1 DEF Offer
  <2>3. interval' = interval
    BY <2>1 DEF interval
  <2>4. Asked' /\ Coherent'
    BY <1>0, <2>1, <2>3, <1>3, <1>4, LoadIsAsked
  <2> QED BY <2>1, <2>2, <2>4, <1>2
<1>13. CASE Drops
  <2>1. /\ UNCHANGED <<table, repaired, lost, wire, chart, gapTimer, threw, selected, request, failed>>
        /\ link' = "broken"
    BY <1>13 DEF Drops, tableVars, clientVars, screenVars
  <2>2. Offer'
    BY <2>1 DEF Offer
  <2> QED BY <2>1, <2>2, <1>2, <1>3, <1>4
<1>14. CASE Closes
  <2>1. /\ UNCHANGED <<table, repaired, lost, chart, gapTimer, threw, selected, request, failed>>
        /\ link' = "none" /\ wire' = <<>>
    BY <1>14 DEF Closes, tableVars, clientVars, screenVars
  <2>2. Offer'
    BY <2>1, FeedAssumption DEF Offer
  <2> QED BY <2>1, <2>2, <1>2, <1>3, <1>4
<1>15. CASE Receive
  <2>1. /\ UNCHANGED <<table, repaired, lost, link, selected, request, failed>>
        /\ wire # <<>> /\ wire' = Tail(wire)
        /\ handleCandle(Head(wire).bar) \/ updateTick(Head(wire).bar)
    BY <1>15 DEF Receive, tableVars
  <2>2. Head(wire).bar \in Bars
    <3>1. Head(wire) \in Message
      BY <1>0, <2>1 DEF FeedTyped
    <3> QED BY <3>1 DEF Message
  <2>3. Len(wire') <= MaxBuffered + 1
    <3>1. Len(wire') = Len(wire) - 1 /\ Len(wire) \in Nat /\ MaxBuffered \in Nat
      BY <1>0, <2>1, FeedAssumption DEF FeedTyped
    <3> QED BY <3>1 DEF Offer
  <2>4. Offer'
    BY <2>1, <2>3 DEF Offer
  <2>5. Points'
    BY <2>1, <2>2, CandleKeepsPoints, TickKeepsPoints
  <2>6. Coherent'
    BY <2>1, <2>2, ClientAssumption, DrawKeepsOne
  <2> QED BY <2>1, <2>4, <2>5, <2>6, <1>3
<1>16. CASE GapTimerFires
  <2>1. /\ UNCHANGED <<table, repaired, lost, link, wire, chart, threw, selected, failed>>
        /\ gapTimer' = FALSE /\ load(interval)
    BY <1>16 DEF GapTimerFires, feedVars, tableVars, screenVars
  <2>2. interval' = interval
    BY <2>1 DEF interval
  <2>3. Asked' /\ Coherent'
    BY <1>0, <2>1, <2>2, LoadIsAsked
  <2>4. Points'
    BY <2>1 DEF Points
  <2> QED BY <2>1, <2>3, <2>4, <1>1
<1>17. CASE UNCHANGED vars
  <2>1. UNCHANGED <<table, repaired, lost, link, wire, chart, gapTimer, threw, selected, request, failed>>
    BY <1>17 DEF vars, feedVars, tableVars, clientVars, screenVars
  <2> QED BY <2>1, <1>1, <1>2, <1>3, <1>4
<1> QED
  BY <1>6, <1>7, <1>8, <1>9, <1>10, <1>11, <1>12, <1>13, <1>14, <1>15, <1>16, <1>17
  DEF Next, Browser

\* Once every timeframe has history, nothing but the selected timeframe is on
\* screen, unless its history is still to come or could not be had: a candle, a
\* tick or an answer of the timeframe before never gets drawn (App.jsx:86-91).
THEOREM OneTimeframeOnScreen ==
  ASSUME HistoryEverywhere
  PROVE  Spec => []OneTimeframe
<1>1. Init => ClientInv /\ OnScreen
  BY HistoryEverywhere, InitClient, InitOnScreen
<1>2. (ClientInv /\ OnScreen) /\ [Next]_vars => (ClientInv /\ OnScreen)'
  BY NextClient, NextOnScreen
<1>3. ClientInv /\ OnScreen => OneTimeframe
  BY DEF ClientInv, FeedTyped, OnScreen, Offer, Points, Coherent, OneTimeframe, ClientTypeOK
<1> QED BY <1>1, <1>2, <1>3, PTL DEF Spec
=============================================================================
