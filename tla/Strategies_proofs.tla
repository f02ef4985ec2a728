--------------------------- MODULE Strategies_proofs ---------------------------
(***************************************************************************)
(* The built-in strategies signal on crossings and on nothing else, for    *)
(* all values of the indicators and all thresholds; rule documents decide  *)
(* on what is known, and the crosses that no sibling hides stay current,   *)
(* for all documents the validator accepts.                                *)
(***************************************************************************)
EXTENDS Strategies, FiniteLemmas

\* A tracker of a built-in strategy is never behind the candles.
TrackersAreCurrent == strategy.name \in Builtins => side = was

IInv == StrategiesTypeOK /\ TrackersAreCurrent

-----------------------------------------------------------------------------
\* Feeding a tracker leaves a side, or what was there.
LEMMA UpdateType ==
  ASSUME NEW previous \in Side \cup {Null}, NEW a, NEW b
  PROVE  update(previous, a, b) \in Side \cup {Null}
BY DEF update, SideOf, Side

\* reset leaves every tracker empty.
LEMMA ResetType ==
  ASSUME NEW s
  PROVE  reset(s) \in [TrackersOf(s) -> Side \cup {Null}]
BY DEF reset

\* What a strategy is made of, by name.
LEMMA TrackersOfBuiltins ==
  ASSUME NEW s
  PROVE  /\ s.name \in {"ema", "macd"} => TrackersOf(s) = {"cross"}
         /\ s.name = "rsi" => TrackersOf(s) = {"oversold", "overbought"}
BY StrategiesAssumption DEF TrackersOf

\* Fed and Told are functions on the trackers of the running strategy.
LEMMA FedType ==
  ASSUME StrategiesTypeOK, NEW T, NEW c
  PROVE  /\ Fed(T, c) \in [TrackersOf(strategy) -> Side \cup {Null}]
         /\ Told(c) \in [TrackersOf(strategy) -> Side \cup {Null}]
<1>1. ASSUME NEW t \in TrackersOf(strategy)
      PROVE  Fed(T, c)[t] \in Side \cup {Null}
  BY <1>1, UpdateType DEF Fed, StrategiesTypeOK
<1>2. ASSUME NEW t \in TrackersOf(strategy)
      PROVE  Told(c)[t] \in Side \cup {Null}
  BY <1>2 DEF Told, StrategiesTypeOK, Side
<1>3. QED
  BY <1>1, <1>2 DEF Fed, Told

\* A tracker that is fed is told what the candle tells: nothing by a missing
\* value or by equality, else the side the first line is on.
LEMMA FedIsTold ==
  ASSUME NEW c, NEW T, NEW t \in TrackersOf(strategy) \cap T, side[t] = was[t]
  PROVE  Fed(T, c)[t] = Told(c)[t]
<1> DEFINE o == Observed(strategy, t, c)
<1> HIDE DEF o
<1>1. Fed(T, c)[t] = update(was[t], o[1], o[2])
  BY DEF Fed, o
<1>2. Told(c)[t] = IF o[1] \in Int /\ o[2] \in Int /\ o[1] > o[2] THEN "above"
                   ELSE IF o[1] \in Int /\ o[2] \in Int /\ o[1] < o[2] THEN "below" ELSE was[t]
  BY DEF Told, o
<1>3. CASE o[1] \in Int /\ o[2] \in Int
  BY <1>1, <1>2, <1>3 DEF update, Decisive, SideOf
<1>4. CASE ~(o[1] \in Int /\ o[2] \in Int)
  BY <1>1, <1>2, <1>4 DEF update, Decisive
<1>5. QED
  BY <1>3, <1>4

\* When all of them are, the two are the same function.
LEMMA FedAllIsTold ==
  ASSUME side = was, NEW c
  PROVE  Fed(TrackersOf(strategy), c) = Told(c)
<1>1. \A t \in TrackersOf(strategy) : Fed(TrackersOf(strategy), c)[t] = Told(c)[t]
  BY FedIsTold
<1>2. QED
  BY <1>1 DEF Fed, Told

\* A candle on which a required value is missing tells nothing.
LEMMA MissingTellsNothing ==
  ASSUME StrategiesTypeOK, strategy.name \in Builtins, NEW c, ~readIndicators(strategy, c)
  PROVE  Told(c) = was
<1>1. ASSUME NEW t \in TrackersOf(strategy)
      PROVE  ~(Observed(strategy, t, c)[1] \in Int /\ Observed(strategy, t, c)[2] \in Int)
  <2>1. CASE strategy.name = "rsi"
    BY <2>1, StrategiesAssumption DEF readIndicators, requiredIndicators, Observed
  <2>2. CASE strategy.name \in {"ema", "macd"}
    BY <2>2, StrategiesAssumption DEF readIndicators, requiredIndicators, Observed
  <2>3. QED
    BY <2>1, <2>2 DEF Builtins
<1>2. \A t \in TrackersOf(strategy) : Told(c)[t] = was[t]
  BY <1>1 DEF Told
<1>3. QED
  BY <1>2 DEF Told, StrategiesTypeOK

\* On a candle, a built-in strategy feeds all its trackers or learns nothing:
\* either way its trackers stay current.
LEMMA BuiltinStep ==
  ASSUME IInv, NEW c, lineOnCandle(c) \/ rsiOnCandle(c)
  PROVE  /\ strategy.name \in Builtins /\ strategy' = strategy
         /\ was' = Told(c) /\ side' = was'
         /\ signal' \in {"BUY", "SELL", Null}
<1>1. /\ strategy.name \in Builtins /\ strategy' = strategy /\ was' = Told(c)
      /\ signal' \in {"BUY", "SELL", Null}
  BY DEF lineOnCandle, rsiOnCandle, RsiSignal, Step, Builtins
<1>2. side = was
  BY <1>1 DEF IInv, TrackersAreCurrent
<1>3. CASE readIndicators(strategy, c)
  <2>1. side' = Fed(TrackersOf(strategy), c)
    BY <1>3, TrackersOfBuiltins DEF lineOnCandle, rsiOnCandle
  <2>2. QED
    BY <1>1, <1>2, <2>1, FedAllIsTold
<1>4. CASE ~readIndicators(strategy, c)
  <2>1. side' = side
    BY <1>4 DEF lineOnCandle, rsiOnCandle
  <2>2. QED
    BY <1>1, <1>2, <1>4, <2>1, MissingTellsNothing DEF IInv
<1>5. QED
  BY <1>1, <1>3, <1>4

-----------------------------------------------------------------------------
LEMMA InitIInv == Init => IInv
BY ResetType DEF Init, IInv, StrategiesTypeOK, TrackersAreCurrent

LEMMA NextIInv == IInv /\ [Next]_vars => IInv'
<1> SUFFICES ASSUME IInv, [Next]_vars PROVE IInv'
  OBVIOUS
<1>1. ASSUME NEW c \in Candles(strategy), lineOnCandle(c) \/ rsiOnCandle(c)
      PROVE  IInv'
  <2>1. was' \in [TrackersOf(strategy) -> Side \cup {Null}]
    BY <1>1, BuiltinStep, FedType DEF IInv
  <2>2. subscribed' \in BOOLEAN /\ hasPosition' \in BOOLEAN
    BY <1>1 DEF lineOnCandle, rsiOnCandle, Step, IInv, StrategiesTypeOK
  <2>3. QED
    BY <1>1, <2>1, <2>2, BuiltinStep DEF IInv, StrategiesTypeOK, TrackersAreCurrent
<1>2. ASSUME NEW c \in Candles(strategy), ruleOnCandle(c)
      PROVE  IInv'
  <2>1. /\ strategy' = strategy /\ strategy.name = "rule" /\ was' = Told(c)
        /\ \E T : side' = Fed(T, c)
        /\ signal' \in {"BUY", "SELL", Null}
        /\ subscribed' \in BOOLEAN /\ hasPosition' \in BOOLEAN
    BY <1>2 DEF ruleOnCandle, RuleSignal, Step, IInv, StrategiesTypeOK
  <2>2. QED
    BY <2>1, FedType DEF IInv, StrategiesTypeOK, TrackersAreCurrent, Builtins
<1>3. ASSUME NEW s \in Catalogue, startStrategy(s)
      PROVE  IInv'
  BY <1>3, ResetType DEF startStrategy, IInv, StrategiesTypeOK, TrackersAreCurrent
<1>4. CASE stopStrategy
  BY <1>4, ResetType DEF stopStrategy, IInv, StrategiesTypeOK, TrackersAreCurrent
<1>5. CASE UNCHANGED vars
  BY <1>5 DEF vars, IInv, StrategiesTypeOK, TrackersAreCurrent
<1>6. QED
  BY <1>1, <1>2, <1>3, <1>4, <1>5 DEF Next

\* StrategiesTypeOK holds of every execution: every tracker holds a side or
\* nothing, also those of a rule document of any shape.
THEOREM StrategiesTyping == Spec => []StrategiesTypeOK
<1>1. IInv => StrategiesTypeOK
  BY DEF IInv
<1>2. QED
  BY <1>1, InitIInv, NextIInv, PTL DEF Spec

-----------------------------------------------------------------------------
\* What the current tracker t reports on a candle is what the line did.
LEMMA CrossingIsTurning ==
  ASSUME NEW c, was' = Told(c),
         NEW t \in TrackersOf(strategy), side[t] = was[t], NEW to \in Side
  PROVE  Crossing(t, c, to) <=> Turned(t, to)
<1> DEFINE o == Observed(strategy, t, c)
<1> HIDE DEF o
<1>1. was'[t] = IF o[1] \in Int /\ o[2] \in Int /\ o[1] > o[2] THEN "above"
                ELSE IF o[1] \in Int /\ o[2] \in Int /\ o[1] < o[2] THEN "below" ELSE was[t]
  BY DEF Told, o
<1>2. Crossing(t, c, to) <=> Crosses(was[t], o[1], o[2], to)
  BY DEF Crossing, o
<1>3. to \in {"above", "below"}
  BY DEF Side
<1>4. CASE o[1] \in Int /\ o[2] \in Int
  BY <1>1, <1>2, <1>3, <1>4 DEF Crosses, Decisive, SideOf, Turned, Side
<1>5. CASE ~(o[1] \in Int /\ o[2] \in Int)
  BY <1>1, <1>2, <1>3, <1>5 DEF Crosses, Decisive, Turned, Side
<1>6. QED
  BY <1>4, <1>5

\* A line that did not move did not turn.
LEMMA StillIsNotTurning ==
  ASSUME NEW t, NEW to, was' = was
  PROVE  ~Turned(t, to)
BY DEF Turned

\* The thresholds are ordered, so RSI cannot fall through the lower one and rise
\* through the upper one on the same candle.
LEMMA NotBothThresholds ==
  ASSUME IInv, NEW c, was' = Told(c), strategy.name = "rsi"
  PROVE  ~(Turned("oversold", "below") /\ Turned("overbought", "above"))
<1> DEFINE rsi == c.indicators[RsiKey]
<1> HIDE DEF rsi
<1>0. /\ Observed(strategy, "oversold", c) = <<c.indicators[RsiKey], Oversold>>
      /\ Observed(strategy, "overbought", c) = <<c.indicators[RsiKey], Overbought>>
  BY StrategiesAssumption DEF Observed
<1>1. /\ "oversold" \in TrackersOf(strategy) /\ "overbought" \in TrackersOf(strategy)
      /\ Observed(strategy, "oversold", c) = <<rsi, Oversold>>
      /\ Observed(strategy, "overbought", c) = <<rsi, Overbought>>
  BY <1>0, TrackersOfBuiltins DEF rsi
<1>2. was'["oversold"] = IF rsi \in Int /\ Oversold \in Int /\ rsi > Oversold THEN "above"
        ELSE IF rsi \in Int /\ Oversold \in Int /\ rsi < Oversold THEN "below" ELSE was["oversold"]
  BY <1>1 DEF Told
<1>3. was'["overbought"] = IF rsi \in Int /\ Overbought \in Int /\ rsi > Overbought THEN "above"
        ELSE IF rsi \in Int /\ Overbought \in Int /\ rsi < Overbought THEN "below" ELSE was["overbought"]
  BY <1>1 DEF Told
<1>4. QED
  BY <1>2, <1>3, StrategiesAssumption DEF Turned, Side

\* Nothing turns when a strategy is started or stopped.
LEMMA ResetIsNotTurning ==
  ASSUME NEW t, NEW to \in Side, was' = reset(strategy), t \in TrackersOf(strategy)
  PROVE  ~Turned(t, to)
BY StrategiesAssumption DEF Turned, reset, Side

\* The two halves of the property, for one step.
Signalled == /\ (signal' = "BUY")  <=> BuiltinBuys
             /\ (signal' = "SELL") <=> BuiltinSells

LEMMA LineSignals ==
  ASSUME IInv, NEW c, lineOnCandle(c)
  PROVE  Signalled
<1>1. /\ strategy.name \in {"ema", "macd"} /\ strategy.name # "rsi"
      /\ "cross" \in TrackersOf(strategy)
  BY TrackersOfBuiltins DEF lineOnCandle
<1>2. side = was /\ was' = Told(c)
  BY <1>1, BuiltinStep DEF IInv, TrackersAreCurrent, Builtins
<1>3. CASE readIndicators(strategy, c)
  <2>1. signal' = IF Turned("cross", "above") THEN "BUY"
                  ELSE IF Turned("cross", "below") THEN "SELL" ELSE Null
    BY <1>1, <1>2, <1>3, CrossingIsTurning DEF lineOnCandle, Side
  <2>2. ~(Turned("cross", "above") /\ Turned("cross", "below"))
    BY DEF Turned
  <2>3. QED
    BY <1>1, <2>1, <2>2, StrategiesAssumption DEF Signalled, BuiltinBuys, BuiltinSells
<1>4. CASE ~readIndicators(strategy, c)
  BY <1>1, <1>2, <1>4, MissingTellsNothing, StillIsNotTurning, StrategiesAssumption
  DEF lineOnCandle, Signalled, BuiltinBuys, BuiltinSells, IInv, Builtins
<1>5. QED
  BY <1>3, <1>4

LEMMA RsiSignals ==
  ASSUME IInv, NEW c, rsiOnCandle(c)
  PROVE  Signalled
<1>1. /\ strategy.name = "rsi"
      /\ "oversold" \in TrackersOf(strategy) /\ "overbought" \in TrackersOf(strategy)
  BY TrackersOfBuiltins DEF rsiOnCandle
<1>2. side = was /\ was' = Told(c)
  BY <1>1, BuiltinStep DEF IInv, TrackersAreCurrent, Builtins
<1>3. CASE readIndicators(strategy, c)
  <2>1. signal' = IF Turned("oversold", "below") THEN "BUY"
                  ELSE IF Turned("overbought", "above") THEN "SELL" ELSE Null
    BY <1>1, <1>2, <1>3, CrossingIsTurning DEF rsiOnCandle, RsiSignal, Side
  <2>2. QED
    BY <1>1, <1>2, <2>1, NotBothThresholds, StrategiesAssumption
    DEF Signalled, BuiltinBuys, BuiltinSells
<1>4. CASE ~readIndicators(strategy, c)
  BY <1>1, <1>2, <1>4, MissingTellsNothing, StillIsNotTurning, StrategiesAssumption
  DEF rsiOnCandle, Signalled, BuiltinBuys, BuiltinSells, IInv, Builtins
<1>5. QED
  BY <1>3, <1>4

LEMMA ResetSignals ==
  ASSUME strategy.name \in Builtins, was' = reset(strategy), signal' = Null
  PROVE  Signalled
BY TrackersOfBuiltins, ResetIsNotTurning, StrategiesAssumption
DEF Signalled, BuiltinBuys, BuiltinSells, Builtins, Side

\* BuiltinSignalsAreCrossings holds of every execution: whatever the indicators
\* do, a built-in strategy signals exactly the crossings of its line.
THEOREM SignalsAreCrossings == Spec => BuiltinSignalsAreCrossings
<1>1. ASSUME IInv, [Next]_vars, strategy.name \in Builtins, strategy' = strategy, vars' # vars
      PROVE  Signalled
  <2>1. CASE \E c \in Candles(strategy) : lineOnCandle(c)
    BY <1>1, <2>1, LineSignals
  <2>2. CASE \E c \in Candles(strategy) : rsiOnCandle(c)
    BY <1>1, <2>2, RsiSignals
  <2>3. ASSUME NEW c \in Candles(strategy), ruleOnCandle(c)
        PROVE  FALSE
    BY <1>1, <2>3 DEF ruleOnCandle, Builtins
  <2>4. CASE \E s \in Catalogue : startStrategy(s)
    BY <1>1, <2>4, ResetSignals DEF startStrategy
  <2>5. CASE stopStrategy
    BY <1>1, <2>5, ResetSignals DEF stopStrategy
  <2>6. QED
    BY <1>1, <2>1, <2>2, <2>3, <2>4, <2>5 DEF Next
<1>2. IInv /\ [Next]_vars =>
        [strategy.name \in Builtins /\ strategy' = strategy
           => /\ (signal' = "BUY")  <=> BuiltinBuys
              /\ (signal' = "SELL") <=> BuiltinSells]_vars
  BY <1>1 DEF Signalled
<1>3. QED
  BY <1>2, InitIInv, NextIInv, PTL DEF Spec, BuiltinSignalsAreCrossings

-----------------------------------------------------------------------------
(***************************************************************************)
(* Rule documents as trees.                                                *)
(***************************************************************************)
Nodes(d) == DOMAIN d.tree
Lists(d) == Nodes(d) \ Leaves(d)

IsRule(d) ==
  /\ {"entry", "exit"} \subseteq Nodes(d)
  /\ \A p \in Lists(d) : /\ d.tree[p].kind \in {"all", "any", "not"}
                         /\ d.tree[p].kids \in Seq(Nodes(d)) \ {<<>>}
  /\ \E depth \in [Nodes(d) -> 1..MaxTreeDepth] :
       \A p \in Lists(d) : \A i \in DOMAIN d.tree[p].kids :
         depth[d.tree[p].kids[i]] = depth[p] + 1

Below(d, p) == IF p \in Leaves(d) THEN {} ELSE { d.tree[p].kids[i] : i \in DOMAIN d.tree[p].kids }

\* The document of a running rule is one the validator accepted.
LEMMA RunningIsRule ==
  ASSUME strategy \in Catalogue, strategy.name = "rule"
  PROVE  IsRule(DocumentOf(strategy))
<1>1. PICK k \in DOMAIN Documents : strategy = Started("rule", k)
  BY DEF Catalogue, Started, Builtins
<1>2. DocumentOf(strategy) = Documents[k]
  BY <1>1 DEF DocumentOf, Started
<1>3. IsRule(Documents[k])
  BY DocumentsAssumption DEF IsRule, Nodes, Lists
<1>4. QED
  BY <1>2, <1>3

LEMMA KidsOf ==
  ASSUME NEW d, IsRule(d), NEW p \in Lists(d)
  PROVE  /\ d.tree[p].kind \in {"all", "any", "not"}
         /\ \A i \in DOMAIN d.tree[p].kids : d.tree[p].kids[i] \in Below(d, p)
         /\ 1 \in DOMAIN d.tree[p].kids
         /\ \A q \in Below(d, p) : \E i \in DOMAIN d.tree[p].kids : q = d.tree[p].kids[i]
<1>1. d.tree[p].kind \in {"all", "any", "not"} /\ d.tree[p].kids \in Seq(Nodes(d)) \ {<<>>}
  BY DEF IsRule
<1>2. Below(d, p) = { d.tree[p].kids[i] : i \in DOMAIN d.tree[p].kids }
  BY DEF Below, Lists
<1>3. QED
  BY <1>1, <1>2

LEMMA BelowIsIn ==
  ASSUME NEW d, IsRule(d), NEW p \in Nodes(d)
  PROVE  Below(d, p) \subseteq Nodes(d)
<1>1. CASE p \in Leaves(d)
  BY <1>1 DEF Below
<1>2. CASE p \in Lists(d)
  <2>1. d.tree[p].kids \in Seq(Nodes(d))
    BY <1>2 DEF IsRule
  <2>2. Below(d, p) = { d.tree[p].kids[i] : i \in DOMAIN d.tree[p].kids }
    BY <1>2 DEF Below, Lists
  <2>3. QED
    BY <2>1, <2>2
<1>3. QED
  BY <1>1, <1>2 DEF Lists

\* A node lies one deeper than the one it is below.
LEMMA Deeper ==
  ASSUME NEW d, IsRule(d)
  PROVE  \E depth \in [Nodes(d) -> Nat] :
           /\ \A p \in Nodes(d) : depth[p] <= MaxTreeDepth
           /\ \A p \in Nodes(d) : \A q \in Below(d, p) : q \in Nodes(d) /\ depth[q] = depth[p] + 1
<1>1. PICK depth \in [Nodes(d) -> 1..MaxTreeDepth] :
        \A p \in Lists(d) : \A i \in DOMAIN d.tree[p].kids :
          depth[d.tree[p].kids[i]] = depth[p] + 1
  BY DEF IsRule
<1>2. depth \in [Nodes(d) -> Nat] /\ \A p \in Nodes(d) : depth[p] <= MaxTreeDepth
  BY StrategiesAssumption
<1>3. ASSUME NEW p \in Nodes(d), NEW q \in Below(d, p)
      PROVE  q \in Nodes(d) /\ depth[q] = depth[p] + 1
  <2>1. p \in Lists(d)
    BY DEF Below, Lists
  <2>2. PICK i \in DOMAIN d.tree[p].kids : q = d.tree[p].kids[i]
    BY <2>1, KidsOf
  <2>3. QED
    BY <1>1, <2>1, <2>2, BelowIsIn
<1>4. QED
  BY <1>2, <1>3

\* Of some nodes there is a lowest, and a highest.
LEMMA LowestNode ==
  ASSUME NEW d, IsRule(d), NEW B \in SUBSET Nodes(d), B # {}
  PROVE  \E p \in B : Below(d, p) \cap B = {}
<1>1. PICK depth \in [Nodes(d) -> Nat] :
        /\ \A p \in Nodes(d) : depth[p] <= MaxTreeDepth
        /\ \A p \in Nodes(d) : \A q \in Below(d, p) : q \in Nodes(d) /\ depth[q] = depth[p] + 1
  BY Deeper
<1> DEFINE H == { MaxTreeDepth - depth[p] : p \in B }
<1>2. PICK h \in H : \A m \in H : h <= m
  <2>1. H \in SUBSET Nat /\ H # {}
    BY <1>1, StrategiesAssumption
  <2> HIDE DEF H
  <2>2. QED
    BY <2>1, LeastNumber
<1>3. PICK p \in B : h = MaxTreeDepth - depth[p]
  BY <1>2
<1>4. ASSUME NEW q \in Below(d, p), q \in B PROVE FALSE
  <2>1. h <= MaxTreeDepth - depth[q]
    BY <1>2, <1>4
  <2>2. depth[q] = depth[p] + 1 /\ depth[p] \in Nat
    BY <1>1
  <2>3. QED
    BY <1>3, <2>1, <2>2, StrategiesAssumption
<1>5. QED
  BY <1>4

LEMMA HighestNode ==
  ASSUME NEW d, IsRule(d), NEW B \in SUBSET Nodes(d), B # {}
  PROVE  \E p \in B : \A q \in B : p \notin Below(d, q)
<1>1. PICK depth \in [Nodes(d) -> Nat] :
        /\ \A p \in Nodes(d) : depth[p] <= MaxTreeDepth
        /\ \A p \in Nodes(d) : \A q \in Below(d, p) : q \in Nodes(d) /\ depth[q] = depth[p] + 1
  BY Deeper
<1> DEFINE H == { depth[p] : p \in B }
<1>2. PICK h \in H : \A m \in H : h <= m
  <2>1. H \in SUBSET Nat /\ H # {}
    OBVIOUS
  <2> HIDE DEF H
  <2>2. QED
    BY <2>1, LeastNumber
<1>3. PICK p \in B : h = depth[p]
  BY <1>2
<1>4. ASSUME NEW q \in B, p \in Below(d, q) PROVE FALSE
  <2>1. h <= depth[q]
    BY <1>2
  <2>2. depth[p] = depth[q] + 1 /\ depth[q] \in Nat
    BY <1>1, <1>4
  <2>3. QED
    BY <1>3, <2>1, <2>2
<1>5. QED
  BY <1>4

\* So what is computed from below upwards is a recursion that ends.
LooksBelow(d, V, step) ==
  /\ step \in [Nodes(d) -> [[Nodes(d) -> V] -> V]]
  /\ \A p \in Nodes(d) : \A f, g \in [Nodes(d) -> V] :
       (\A q \in Below(d, p) : f[q] = g[q]) => step[p][f] = step[p][g]

HasSolution(d, V, step) == \E f \in [Nodes(d) -> V] : \A p \in Nodes(d) : f[p] = step[p][f]

LEMMA UpwardsRecursion ==
  ASSUME NEW d, IsRule(d), NEW V, V # {}, NEW step, LooksBelow(d, V, step)
  PROVE  HasSolution(d, V, step)
<1> DEFINE R == [p \in Nodes(d) |-> Below(d, p)]
<1>1. R \in [Nodes(d) -> SUBSET Nodes(d)] /\ \A p \in Nodes(d) : R[p] = Below(d, p)
  BY BelowIsIn
<1> HIDE DEF R
<1>2. \A S \in SUBSET Nodes(d) : S # {} => \E p \in S : R[p] \cap S = {}
  <2>1. SUFFICES ASSUME NEW S \in SUBSET Nodes(d), S # {} PROVE \E p \in S : R[p] \cap S = {}
    OBVIOUS
  <2>2. PICK p \in S : Below(d, p) \cap S = {}
    BY <2>1, LowestNode
  <2>3. QED
    BY <1>1, <2>2
<1>3. \A p \in Nodes(d) : \A f, g \in [Nodes(d) -> V] :
        (\A q \in R[p] : f[q] = g[q]) => step[p][f] = step[p][g]
  <2>1. SUFFICES ASSUME NEW p \in Nodes(d), NEW f \in [Nodes(d) -> V], NEW g \in [Nodes(d) -> V],
                        \A q \in R[p] : f[q] = g[q]
                 PROVE  step[p][f] = step[p][g]
    BY Zenon
  <2>2. \A q \in Below(d, p) : f[q] = g[q]
    BY <1>1, <2>1
  <2>3. \A h, k \in [Nodes(d) -> V] :
          (\A q \in Below(d, p) : h[q] = k[q]) => step[p][h] = step[p][k]
    BY DEF LooksBelow
  <2>4. QED
    BY <2>2, <2>3, Zenon
<1>4. IsRecursion(Nodes(d), V, R, step)
  BY <1>1, <1>2, <1>3 DEF IsRecursion, LooksBelow
<1>5. QED
  BY <1>4, RecursionExists DEF HasSolution

-----------------------------------------------------------------------------
(* Three-valued verdicts *)

Verdict == {"true", "false", "unknown"}

VerdictAt(d, s, c, f, p) ==
  LET n == d.tree[p]
      below == { f[n.kids[i]] : i \in DOMAIN n.kids }
  IN  CASE n.kind = "all" -> compileAll(below)
        [] n.kind = "any" -> compileAny(below)
        [] n.kind = "not" -> compileNot(f[n.kids[1]])
        [] OTHER          -> LeafVerdict(d, s, c, p)

IsVerdict(f, d, s, c) == f = [p \in Nodes(d) |-> VerdictAt(d, s, c, f, p)]

LEMMA VerdictIsChosen ==
  ASSUME NEW d, NEW s, NEW c
  PROVE  compileCondition(d, s, c) = CHOOSE f : IsVerdict(f, d, s, c)
BY DEF compileCondition, IsVerdict, VerdictAt, Nodes

LEMMA VerdictType ==
  ASSUME NEW d, NEW s, NEW c, NEW f, NEW p
  PROVE  VerdictAt(d, s, c, f, p) \in Verdict
<1>1. LeafVerdict(d, s, c, p) \in Verdict
  BY DEF LeafVerdict, Bool, Verdict
<1>2. /\ \A b : compileAll(b) \in Verdict
      /\ \A b : compileAny(b) \in Verdict
      /\ \A v : compileNot(v) \in Verdict
  BY DEF compileAll, compileAny, compileNot, Verdict
<1>3. QED
  BY <1>1, <1>2 DEF VerdictAt

LEMMA VerdictIsLocal ==
  ASSUME NEW d, IsRule(d), NEW s, NEW c, NEW f, NEW g, NEW p \in Nodes(d),
         \A q \in Below(d, p) : f[q] = g[q]
  PROVE  VerdictAt(d, s, c, f, p) = VerdictAt(d, s, c, g, p)
<1>1. CASE p \in Leaves(d)
  BY <1>1 DEF VerdictAt, Leaves
<1>2. CASE p \in Lists(d)
  <2> DEFINE n == d.tree[p]
  <2>1. \A i \in DOMAIN n.kids : f[n.kids[i]] = g[n.kids[i]]
    BY <1>2, KidsOf
  <2>2. { f[n.kids[i]] : i \in DOMAIN n.kids } = { g[n.kids[i]] : i \in DOMAIN n.kids }
    BY <2>1
  <2>3. f[n.kids[1]] = g[n.kids[1]] /\ n.kind \in {"all", "any", "not"}
    BY <1>2, <2>1, KidsOf
  <2>4. QED
    BY <2>2, <2>3 DEF VerdictAt
<1>3. QED
  BY <1>1, <1>2 DEF Lists

LEMMA VerdictExists ==
  ASSUME NEW d, IsRule(d), NEW s, NEW c
  PROVE  \E f : IsVerdict(f, d, s, c)
<1> DEFINE step == [p \in Nodes(d) |-> [f \in [Nodes(d) -> Verdict] |-> VerdictAt(d, s, c, f, p)]]
<1>1. /\ step \in [Nodes(d) -> [[Nodes(d) -> Verdict] -> Verdict]]
      /\ \A p \in Nodes(d) : \A f \in [Nodes(d) -> Verdict] : step[p][f] = VerdictAt(d, s, c, f, p)
  BY VerdictType
<1> HIDE DEF step
<1>2. \A p \in Nodes(d) : \A f, g \in [Nodes(d) -> Verdict] :
        (\A q \in Below(d, p) : f[q] = g[q]) => step[p][f] = step[p][g]
  <2>1. SUFFICES ASSUME NEW p \in Nodes(d),
                        NEW f \in [Nodes(d) -> Verdict], NEW g \in [Nodes(d) -> Verdict],
                        \A q \in Below(d, p) : f[q] = g[q]
                 PROVE  step[p][f] = step[p][g]
    BY Zenon
  <2>2. VerdictAt(d, s, c, f, p) = VerdictAt(d, s, c, g, p)
    BY <2>1, VerdictIsLocal
  <2>3. QED
    BY <1>1, <2>2, Zenon
<1>3. Verdict # {} /\ LooksBelow(d, Verdict, step)
  BY <1>1, <1>2 DEF Verdict, LooksBelow
<1>4. PICK f \in [Nodes(d) -> Verdict] : \A p \in Nodes(d) : f[p] = step[p][f]
  <2>1. HasSolution(d, Verdict, step)
    BY <1>3, UpwardsRecursion
  <2>2. QED
    BY <2>1 DEF HasSolution
<1>5. \A p \in Nodes(d) : f[p] = VerdictAt(d, s, c, f, p)
  BY <1>1, <1>4
<1>6. f = [p \in Nodes(d) |-> VerdictAt(d, s, c, f, p)]
  BY <1>5
<1>7. QED
  BY <1>6 DEF IsVerdict

\* What compile.js makes of a document, node by node.
LEMMA VerdictUnfolds ==
  ASSUME NEW d, IsRule(d), NEW s, NEW c
  PROVE  /\ compileCondition(d, s, c) \in [Nodes(d) -> Verdict]
         /\ \A p \in Nodes(d) :
              compileCondition(d, s, c)[p] = VerdictAt(d, s, c, compileCondition(d, s, c), p)
<1> DEFINE f == compileCondition(d, s, c)
<1>1. IsVerdict(f, d, s, c)
  BY VerdictExists, VerdictIsChosen
<1> HIDE DEF f
<1> DEFINE Value(p) == VerdictAt(d, s, c, f, p)
<1>2. f = [p \in Nodes(d) |-> Value(p)]
  BY <1>1 DEF IsVerdict
<1>3. \A p \in Nodes(d) : Value(p) \in Verdict
  BY VerdictType
<1> HIDE DEF Value
<1>4. f \in [Nodes(d) -> Verdict] /\ \A p \in Nodes(d) : f[p] = Value(p)
  BY <1>2, <1>3
<1>5. QED
  BY <1>4 DEF f, Value

\* The same for a list: by its kind, from what is below it.
ComesFrom(d, v, p, below) ==
  /\ d.tree[p].kind = "all" => v[p] = compileAll(below)
  /\ d.tree[p].kind = "any" => v[p] = compileAny(below)
  /\ d.tree[p].kind = "not" => v[p] = compileNot(v[d.tree[p].kids[1]])

LEMMA VerdictByKind ==
  ASSUME NEW d, IsRule(d), NEW s, NEW c, NEW v, v = compileCondition(d, s, c),
         NEW p \in Lists(d)
  PROVE  ComesFrom(d, v, p, { v[q] : q \in Below(d, p) })
<1> DEFINE n == d.tree[p]
<1>1. p \in Nodes(d) /\ v[p] = VerdictAt(d, s, c, v, p)
  BY VerdictUnfolds DEF Lists
<1>2. { v[n.kids[i]] : i \in DOMAIN n.kids } = { v[q] : q \in Below(d, p) }
  BY KidsOf
<1>3. VerdictAt(d, s, c, v, p) =
        LET below == { v[q] : q \in Below(d, p) }
        IN  CASE n.kind = "all" -> compileAll(below)
              [] n.kind = "any" -> compileAny(below)
              [] n.kind = "not" -> compileNot(v[n.kids[1]])
              [] OTHER          -> LeafVerdict(d, s, c, p)
  BY <1>2 DEF VerdictAt
<1>4. QED
  BY <1>1, <1>3 DEF ComesFrom

-----------------------------------------------------------------------------
(* Plain logic on the leaves *)

HoldsAt(d, leaf, f, p) ==
  LET n == d.tree[p]
  IN  CASE n.kind = "all" -> \A i \in DOMAIN n.kids : f[n.kids[i]]
        [] n.kind = "any" -> \E i \in DOMAIN n.kids : f[n.kids[i]]
        [] n.kind = "not" -> ~f[n.kids[1]]
        [] OTHER          -> leaf[p]

IsHolding(f, d, leaf) == f = [p \in Nodes(d) |-> HoldsAt(d, leaf, f, p)]

LEMMA HoldingIsChosen ==
  ASSUME NEW d, NEW leaf
  PROVE  Holds(d, leaf) = CHOOSE f : IsHolding(f, d, leaf)
BY DEF Holds, IsHolding, HoldsAt, Nodes

LEMMA HoldingOfLeaf ==
  ASSUME NEW d, NEW leaf, NEW f, NEW p \in Leaves(d)
  PROVE  HoldsAt(d, leaf, f, p) = leaf[p]
BY DEF HoldsAt, Leaves

Follows(d, f, p, x) ==
  /\ d.tree[p].kind = "all" => x = \A q \in Below(d, p) : f[q]
  /\ d.tree[p].kind = "any" => x = \E q \in Below(d, p) : f[q]
  /\ d.tree[p].kind = "not" => x = ~f[d.tree[p].kids[1]]

LEMMA HoldingOfList ==
  ASSUME NEW d, IsRule(d), NEW leaf, NEW f, NEW p \in Lists(d)
  PROVE  Follows(d, f, p, HoldsAt(d, leaf, f, p))
<1> DEFINE n == d.tree[p]
<1>1. /\ \A i \in DOMAIN n.kids : n.kids[i] \in Below(d, p)
      /\ \A q \in Below(d, p) : \E i \in DOMAIN n.kids : q = n.kids[i]
  BY KidsOf
<1>2. (\A i \in DOMAIN n.kids : f[n.kids[i]]) = \A q \in Below(d, p) : f[q]
  BY <1>1, Zenon
<1>3. (\E i \in DOMAIN n.kids : f[n.kids[i]]) = \E q \in Below(d, p) : f[q]
  BY <1>1, Zenon
<1>4. /\ n.kind = "all" => HoldsAt(d, leaf, f, p) = \A i \in DOMAIN n.kids : f[n.kids[i]]
      /\ n.kind = "any" => HoldsAt(d, leaf, f, p) = \E i \in DOMAIN n.kids : f[n.kids[i]]
      /\ n.kind = "not" => HoldsAt(d, leaf, f, p) = ~f[n.kids[1]]
  BY DEF HoldsAt
<1>5. QED
  BY <1>2, <1>3, <1>4, Zenon DEF Follows

LEMMA HoldingType ==
  ASSUME NEW d, IsRule(d), NEW leaf \in [Leaves(d) -> BOOLEAN], NEW f, NEW p \in Nodes(d)
  PROVE  HoldsAt(d, leaf, f, p) \in BOOLEAN
<1>1. CASE p \in Leaves(d)
  <2>1. HoldsAt(d, leaf, f, p) = leaf[p]
    BY <1>1, HoldingOfLeaf
  <2>2. leaf[p] \in BOOLEAN
    BY <1>1
  <2>3. QED
    BY <2>1, <2>2, Zenon
<1>2. CASE p \in Lists(d)
  <2>0. Follows(d, f, p, HoldsAt(d, leaf, f, p))
    BY <1>2, HoldingOfList
  <2>1. d.tree[p].kind \in {"all", "any", "not"}
    BY <1>2, KidsOf
  <2>2. CASE d.tree[p].kind = "all"
    <3>1. HoldsAt(d, leaf, f, p) = \A q \in Below(d, p) : f[q]
      BY <2>0, <2>2, Zenon DEF Follows
    <3>2. QED
      BY <3>1, Zenon
  <2>3. CASE d.tree[p].kind = "any"
    <3>1. HoldsAt(d, leaf, f, p) = \E q \in Below(d, p) : f[q]
      BY <2>0, <2>3, Zenon DEF Follows
    <3>2. QED
      BY <3>1, Zenon
  <2>4. CASE d.tree[p].kind = "not"
    <3>1. HoldsAt(d, leaf, f, p) = ~f[d.tree[p].kids[1]]
      BY <2>0, <2>4, Zenon DEF Follows
    <3>2. QED
      BY <3>1, Zenon
  <2>5. QED
    BY <2>1, <2>2, <2>3, <2>4
<1>3. QED
  BY <1>1, <1>2 DEF Lists

LEMMA HoldingIsLocal ==
  ASSUME NEW d, IsRule(d), NEW leaf, NEW f, NEW g, NEW p \in Nodes(d),
         \A q \in Below(d, p) : f[q] = g[q]
  PROVE  HoldsAt(d, leaf, f, p) = HoldsAt(d, leaf, g, p)
<1>1. CASE p \in Leaves(d)
  BY <1>1, HoldingOfLeaf
<1>2. CASE p \in Lists(d)
  <2>0. Follows(d, f, p, HoldsAt(d, leaf, f, p)) /\ Follows(d, g, p, HoldsAt(d, leaf, g, p))
    BY <1>2, HoldingOfList
  <2>1. d.tree[p].kind \in {"all", "any", "not"} /\ d.tree[p].kids[1] \in Below(d, p)
    BY <1>2, KidsOf
  <2>2. CASE d.tree[p].kind = "all"
    <3>1. /\ HoldsAt(d, leaf, f, p) = \A q \in Below(d, p) : f[q]
          /\ HoldsAt(d, leaf, g, p) = \A q \in Below(d, p) : g[q]
      BY <2>0, <2>2, Zenon DEF Follows
    <3>2. QED
      BY <3>1, Zenon
  <2>3. CASE d.tree[p].kind = "any"
    <3>1. /\ HoldsAt(d, leaf, f, p) = \E q \in Below(d, p) : f[q]
          /\ HoldsAt(d, leaf, g, p) = \E q \in Below(d, p) : g[q]
      BY <2>0, <2>3, Zenon DEF Follows
    <3>2. QED
      BY <3>1, Zenon
  <2>4. CASE d.tree[p].kind = "not"
    <3> DEFINE q == d.tree[p].kids[1]
               a == f[q]
               b == g[q]
               x == HoldsAt(d, leaf, f, p)
               y == HoldsAt(d, leaf, g, p)
    <3>1. x = (~a) /\ y = (~b)
      BY <2>0, <2>4, Zenon DEF Follows
    <3>2. q \in Below(d, p)
      BY <2>1
    <3> HIDE DEF q
    <3>3. a = b
      BY <3>2
    <3> HIDE DEF a, b, x, y
    <3>4. x = y
      BY <3>1, <3>3
    <3>5. QED
      BY <3>4 DEF x, y
  <2>5. QED
    BY <2>1, <2>2, <2>3, <2>4
<1>3. QED
  BY <1>1, <1>2 DEF Lists

LEMMA HoldingExists ==
  ASSUME NEW d, IsRule(d), NEW leaf \in [Leaves(d) -> BOOLEAN]
  PROVE  \E f : IsHolding(f, d, leaf)
<1> DEFINE step == [p \in Nodes(d) |-> [f \in [Nodes(d) -> BOOLEAN] |-> HoldsAt(d, leaf, f, p)]]
<1>1. /\ step \in [Nodes(d) -> [[Nodes(d) -> BOOLEAN] -> BOOLEAN]]
      /\ \A p \in Nodes(d) : \A f \in [Nodes(d) -> BOOLEAN] : step[p][f] = HoldsAt(d, leaf, f, p)
  BY HoldingType
<1> HIDE DEF step
<1>2. \A p \in Nodes(d) : \A f, g \in [Nodes(d) -> BOOLEAN] :
        (\A q \in Below(d, p) : f[q] = g[q]) => step[p][f] = step[p][g]
  <2>1. SUFFICES ASSUME NEW p \in Nodes(d),
                        NEW f \in [Nodes(d) -> BOOLEAN], NEW g \in [Nodes(d) -> BOOLEAN],
                        \A q \in Below(d, p) : f[q] = g[q]
                 PROVE  step[p][f] = step[p][g]
    BY Zenon
  <2>2. HoldsAt(d, leaf, f, p) = HoldsAt(d, leaf, g, p)
    BY <2>1, HoldingIsLocal
  <2>3. QED
    BY <1>1, <2>2, Zenon
<1>3. BOOLEAN # {} /\ LooksBelow(d, BOOLEAN, step)
  BY <1>1, <1>2 DEF LooksBelow
<1>4. PICK f \in [Nodes(d) -> BOOLEAN] : \A p \in Nodes(d) : f[p] = step[p][f]
  <2>1. HasSolution(d, BOOLEAN, step)
    BY <1>3, UpwardsRecursion
  <2>2. QED
    BY <2>1 DEF HasSolution
<1>5. \A p \in Nodes(d) : f[p] = HoldsAt(d, leaf, f, p)
  BY <1>1, <1>4
<1>6. f = [p \in Nodes(d) |-> HoldsAt(d, leaf, f, p)]
  BY <1>5
<1>7. QED
  BY <1>6 DEF IsHolding

LEMMA HoldingUnfolds ==
  ASSUME NEW d, IsRule(d), NEW leaf \in [Leaves(d) -> BOOLEAN]
  PROVE  /\ Holds(d, leaf) \in [Nodes(d) -> BOOLEAN]
         /\ \A p \in Nodes(d) : Holds(d, leaf)[p] = HoldsAt(d, leaf, Holds(d, leaf), p)
<1> DEFINE f == Holds(d, leaf)
<1>1. IsHolding(f, d, leaf)
  BY HoldingExists, HoldingIsChosen
<1> HIDE DEF f
<1> DEFINE Value(p) == HoldsAt(d, leaf, f, p)
<1>2. f = [p \in Nodes(d) |-> Value(p)]
  BY <1>1 DEF IsHolding
<1>3. \A p \in Nodes(d) : Value(p) \in BOOLEAN
  BY HoldingType
<1> HIDE DEF Value
<1>4. f \in [Nodes(d) -> BOOLEAN] /\ \A p \in Nodes(d) : f[p] = Value(p)
  BY <1>2, <1>3
<1>5. QED
  BY <1>4 DEF f, Value

-----------------------------------------------------------------------------
(* What is known *)

\* When every leaf is known, every node is.
LEMMA KnownLeavesDecide ==
  ASSUME NEW d, IsRule(d), NEW s, NEW c, NEW v, v = compileCondition(d, s, c),
         \A p \in Leaves(d) : v[p] # "unknown"
  PROVE  \A p \in Nodes(d) : v[p] # "unknown"
<1> DEFINE B == { p \in Nodes(d) : v[p] = "unknown" }
<1>1. SUFFICES ASSUME B # {} PROVE FALSE
  OBVIOUS
<1>2. PICK p \in B : Below(d, p) \cap B = {}
  <2>1. B \in SUBSET Nodes(d)
    OBVIOUS
  <2> HIDE DEF B
  <2>2. QED
    BY <1>1, <2>1, LowestNode
<1>3. p \in Lists(d) /\ d.tree[p].kind \in {"all", "any", "not"}
  BY <1>2, KidsOf DEF Lists
<1>4. \A q \in Below(d, p) : v[q] # "unknown"
  BY <1>2, BelowIsIn
<1> DEFINE below == { v[q] : q \in Below(d, p) }
<1>5. "unknown" \notin below
  BY <1>4
<1>6. ComesFrom(d, v, p, below) /\ d.tree[p].kids[1] \in Below(d, p)
  BY <1>3, VerdictByKind, KidsOf
<1>7. v[p] = "unknown"
  BY <1>2
<1> HIDE DEF below, B
<1>8. QED
  BY <1>3, <1>4, <1>5, <1>6, <1>7 DEF ComesFrom, compileAll, compileAny, compileNot

\* A verdict that is known is what plain logic makes of any leaves that agree
\* with the known ones.
LEMMA KnownVerdictHolds ==
  ASSUME NEW d, IsRule(d), NEW s, NEW c, NEW v, v = compileCondition(d, s, c),
         NEW leaf \in [Leaves(d) -> BOOLEAN],
         \A p \in Leaves(d) : v[p] # "unknown" => v[p] = Bool(leaf[p])
  PROVE  \A p \in Nodes(d) : v[p] # "unknown" => v[p] = Bool(Holds(d, leaf)[p])
<1> DEFINE h == Holds(d, leaf)
           B == { p \in Nodes(d) : v[p] # "unknown" /\ v[p] # Bool(h[p]) }
<1>1. SUFFICES ASSUME B # {} PROVE FALSE
  OBVIOUS
<1>2. PICK p \in B : Below(d, p) \cap B = {}
  <2>1. B \in SUBSET Nodes(d)
    OBVIOUS
  <2> HIDE DEF B
  <2>2. QED
    BY <1>1, <2>1, LowestNode
<1>3. /\ p \in Nodes(d) /\ v[p] # "unknown" /\ v[p] # Bool(h[p])
      /\ \A q \in Below(d, p) : v[q] # "unknown" => v[q] = Bool(h[q])
  BY <1>2, BelowIsIn
<1>4. h \in [Nodes(d) -> BOOLEAN] /\ h[p] = HoldsAt(d, leaf, h, p)
  BY <1>3, HoldingUnfolds
<1>5. v \in [Nodes(d) -> Verdict]
  BY VerdictUnfolds
<1> HIDE DEF h, B
<1>6. \A q \in Below(d, p) : /\ v[q] \in Verdict /\ h[q] \in BOOLEAN
                             /\ v[q] = "true" => h[q]
                             /\ v[q] = "false" => ~h[q]
  <2>1. SUFFICES ASSUME NEW q \in Below(d, p)
                 PROVE  /\ v[q] \in Verdict /\ h[q] \in BOOLEAN
                        /\ v[q] = "true" => h[q]
                        /\ v[q] = "false" => ~h[q]
    BY Zenon
  <2>2. v[q] \in Verdict /\ h[q] \in BOOLEAN /\ (v[q] # "unknown" => v[q] = Bool(h[q]))
    BY <1>3, <1>4, <1>5, BelowIsIn
  <2>3. QED
    BY <2>2 DEF Bool
<1>7. CASE p \in Leaves(d)
  <2>1. h[p] = leaf[p]
    BY <1>4, <1>7, HoldingOfLeaf
  <2>2. v[p] = Bool(leaf[p])
    BY <1>3, <1>7
  <2>3. QED
    BY <1>3, <2>1, <2>2
<1>8. CASE p \in Lists(d)
  <2> DEFINE below == { v[q] : q \in Below(d, p) }
  <2>1. /\ d.tree[p].kind \in {"all", "any", "not"} /\ d.tree[p].kids[1] \in Below(d, p)
        /\ ComesFrom(d, v, p, below)
    BY <1>8, KidsOf, VerdictByKind
  <2>2. /\ \A x \in below : \E q \in Below(d, p) : x = v[q]
        /\ \A q \in Below(d, p) : v[q] \in below
    OBVIOUS
  <2> HIDE DEF below
  <2>7. Follows(d, h, p, h[p])
    BY <1>4, <1>8, HoldingOfList
  <2>3. CASE d.tree[p].kind = "all"
    <3>1. h[p] = \A q \in Below(d, p) : h[q]
      BY <2>7, <2>3, Zenon DEF Follows
    <3>2. v[p] = compileAll(below)
      BY <2>1, <2>3 DEF ComesFrom
    <3>3. CASE v[p] = "true"
      <4>1. "false" \notin below /\ "unknown" \notin below
        BY <3>2, <3>3 DEF compileAll
      <4>2. \A q \in Below(d, p) : v[q] = "true"
        BY <1>6, <2>2, <4>1 DEF Verdict
      <4>3. \A q \in Below(d, p) : h[q]
        BY <1>6, <4>2, Zenon
      <4>4. h[p]
        BY <3>1, <4>3, Zenon
      <4>5. QED
        BY <1>3, <3>3, <4>4 DEF Bool
    <3>4. CASE v[p] = "false"
      <4>1. "false" \in below
        BY <3>2, <3>4 DEF compileAll
      <4>2. PICK q \in Below(d, p) : v[q] = "false"
        BY <2>2, <4>1
      <4>3. ~h[q]
        BY <1>6, <4>2, Zenon
      <4>4. ~h[p]
        BY <3>1, <4>3, Zenon
      <4>5. QED
        BY <1>3, <3>4, <4>4 DEF Bool
    <3>5. QED
      BY <1>3, <1>5, <3>3, <3>4 DEF Verdict
  <2>4. CASE d.tree[p].kind = "any"
    <3>1. h[p] = \E q \in Below(d, p) : h[q]
      BY <2>7, <2>4, Zenon DEF Follows
    <3>2. v[p] = compileAny(below)
      BY <2>1, <2>4 DEF ComesFrom
    <3>3. CASE v[p] = "false"
      <4>1. "true" \notin below /\ "unknown" \notin below
        BY <3>2, <3>3 DEF compileAny
      <4>2. \A q \in Below(d, p) : v[q] = "false"
        BY <1>6, <2>2, <4>1 DEF Verdict
      <4>3. \A q \in Below(d, p) : ~h[q]
        BY <1>6, <4>2, Zenon
      <4>4. ~h[p]
        BY <3>1, <4>3, Zenon
      <4>5. QED
        BY <1>3, <3>3, <4>4 DEF Bool
    <3>4. CASE v[p] = "true"
      <4>1. "true" \in below
        BY <3>2, <3>4 DEF compileAny
      <4>2. PICK q \in Below(d, p) : v[q] = "true"
        BY <2>2, <4>1
      <4>3. h[q]
        BY <1>6, <4>2, Zenon
      <4>4. h[p]
        BY <3>1, <4>3, Zenon
      <4>5. QED
        BY <1>3, <3>4, <4>4 DEF Bool
    <3>5. QED
      BY <1>3, <1>5, <3>3, <3>4 DEF Verdict
  <2>5. CASE d.tree[p].kind = "not"
    <3> DEFINE q == d.tree[p].kids[1]
    <3>1. q \in Below(d, p) /\ v[p] = compileNot(v[q])
      BY <2>1, <2>5 DEF ComesFrom
    <3>2. h[p] = ~h[q]
      BY <2>7, <2>5, Zenon DEF Follows
    <3>3. v[q] # "unknown" /\ v[q] \in Verdict
      BY <1>3, <1>6, <3>1 DEF compileNot
    <3> HIDE DEF q
    <3>4. CASE v[q] = "true"
      <4>1. h[q]
        BY <1>6, <3>1, <3>4, Zenon
      <4>2. ~h[p]
        BY <3>2, <4>1, Zenon
      <4>3. QED
        BY <1>3, <3>1, <3>4, <4>2 DEF Bool, compileNot
    <3>5. CASE v[q] = "false"
      <4>1. ~h[q]
        BY <1>6, <3>1, <3>5, Zenon
      <4>2. h[p]
        BY <3>2, <4>1, Zenon
      <4>3. QED
        BY <1>3, <3>1, <3>5, <4>2 DEF Bool, compileNot
    <3>6. QED
      BY <3>3, <3>4, <3>5 DEF Verdict
  <2>6. QED
    BY <2>1, <2>3, <2>4, <2>5
<1>9. QED
  BY <1>3, <1>7, <1>8 DEF Lists

\* RulesDecideOnWhatIsKnown holds of every execution: a rule never acts on a
\* value that is missing, whatever its tree (compile.js:49-80).
THEOREM KnownDecides == Spec => []RulesDecideOnWhatIsKnown
<1>1. StrategiesTypeOK => RulesDecideOnWhatIsKnown
  <2> SUFFICES ASSUME StrategiesTypeOK, strategy.name = "rule", NEW c
               PROVE  LET d       == DocumentOf(strategy)
                          verdict == compileCondition(d, side, c)
                          unknown == { p \in Leaves(d) : verdict[p] = "unknown" }
                          filled(T) == [p \in Leaves(d) |-> p \in T \/ verdict[p] = "true"]
                      IN  \A root \in {"entry", "exit"} :
                            /\ unknown = {} => verdict[root] # "unknown"
                            /\ verdict[root] # "unknown" =>
                                 \A T \in SUBSET unknown : Bool(Holds(d, filled(T))[root]) = verdict[root]
    BY DEF RulesDecideOnWhatIsKnown
  <2> DEFINE d == DocumentOf(strategy)
             verdict == compileCondition(d, side, c)
             unknown == { p \in Leaves(d) : verdict[p] = "unknown" }
             filled(T) == [p \in Leaves(d) |-> p \in T \/ verdict[p] = "true"]
  <2>1. IsRule(d)
    BY RunningIsRule DEF StrategiesTypeOK
  <2>2. {"entry", "exit"} \subseteq Nodes(d)
    BY <2>1 DEF IsRule
  <2>3. verdict \in [Nodes(d) -> Verdict] /\ Leaves(d) \subseteq Nodes(d)
    BY <2>1, VerdictUnfolds DEF Leaves, Nodes
  <2>4. ASSUME unknown = {} PROVE \A p \in Nodes(d) : verdict[p] # "unknown"
    <3>1. \A p \in Leaves(d) : verdict[p] # "unknown"
      BY <2>4
    <3> HIDE DEF d, verdict
    <3>2. verdict = compileCondition(d, side, c)
      BY DEF verdict
    <3>3. QED
      BY <2>1, <3>1, <3>2, KnownLeavesDecide
  <2>5. ASSUME NEW T \in SUBSET unknown
        PROVE  \A p \in Nodes(d) : verdict[p] # "unknown" => verdict[p] = Bool(Holds(d, filled(T))[p])
    <3> DEFINE leaf == filled(T)
    <3>1. leaf \in [Leaves(d) -> BOOLEAN]
      <4>1. \A p \in Leaves(d) : (p \in T \/ verdict[p] = "true") \in BOOLEAN
        BY Zenon
      <4>2. QED
        BY <4>1
    <3>2. ASSUME NEW p \in Leaves(d), verdict[p] # "unknown" PROVE verdict[p] = Bool(leaf[p])
      <4>1. p \notin T
        BY <3>2
      <4>2. leaf[p] = (verdict[p] = "true")
        BY <4>1
      <4>3. verdict[p] \in {"true", "false"}
        BY <2>3, <3>2 DEF Verdict
      <4>4. QED
        BY <4>2, <4>3 DEF Bool
    <3>3. verdict = compileCondition(d, side, c)
      OBVIOUS
    <3> HIDE DEF d, verdict, leaf
    <3>4. \A p \in Nodes(d) : verdict[p] # "unknown" => verdict[p] = Bool(Holds(d, leaf)[p])
      BY <2>1, <3>1, <3>2, <3>3, KnownVerdictHolds
    <3>5. QED
      BY <3>4 DEF leaf
  <2>6. QED
    BY <2>2, <2>4, <2>5
<1>2. QED
  BY <1>1, StrategiesTyping, PTL

-----------------------------------------------------------------------------
(***************************************************************************)
(* The trackers of a rule.  A node is evaluated when it is a root, or when *)
(* the list above it is and no earlier sibling settled the list; a cross   *)
(* that is first wherever it hangs is evaluated on every candle.           *)
(***************************************************************************)
Roots == {"entry", "exit"}

\* The lists that reach p, given the verdicts of its earlier siblings.
Reaching(d, verdict, p) ==
  { q \in Lists(d) : \E i \in DOMAIN d.tree[q].kids :
      /\ d.tree[q].kids[i] = p
      /\ \A j \in 1..(i - 1) : ~Settled(d.tree[q].kind, verdict[d.tree[q].kids[j]]) }

\* The lists that p is the first child of.
Leading(d, p) == { q \in Lists(d) : d.tree[q].kids[1] = p }

\* A marking of the nodes that starts at the roots and follows arrows downwards.
Marks(f, d, arrows) ==
  f = [p \in Nodes(d) |-> p \in Roots \/ \E q \in arrows[p] : f[q]]

LEMMA MarkingExists ==
  ASSUME NEW d, NEW arrows \in [Nodes(d) -> SUBSET Nodes(d)]
  PROVE  \E f : Marks(f, d, arrows)
<1> DEFINE L == Roots \cap Nodes(d)
<1>1. PICK T : Spread(T, Nodes(d), L, arrows)
  BY SpreadExists
<1> DEFINE f == [p \in Nodes(d) |-> p \in T]
<1>2. ASSUME NEW p \in Nodes(d) PROVE f[p] = (p \in Roots \/ \E q \in arrows[p] : f[q])
  <2>1. p \in T <=> p \in L \/ \E q \in T : q \in arrows[p]
    BY <1>1 DEF Spread
  <2>2. T \subseteq Nodes(d) /\ arrows[p] \subseteq Nodes(d)
    BY <1>1 DEF Spread
  <2>3. p \in T <=> p \in Roots \/ \E q \in arrows[p] : q \in T
    BY <2>1
  <2>4. \A q \in Nodes(d) : f[q] = (q \in T)
    OBVIOUS
  <2>5. \A q \in arrows[p] : f[q] <=> q \in T
    BY <2>2, <2>4
  <2>6. f[p] = (p \in T)
    BY <2>4
  <2> HIDE DEF f
  <2>7. (p \in T) <=> (p \in Roots \/ \E q \in arrows[p] : f[q])
    BY <2>3, <2>5, Zenon
  <2>8. QED
    BY <2>6, <2>7
<1>3. f = [p \in Nodes(d) |-> p \in Roots \/ \E q \in arrows[p] : f[q]]
  BY <1>2, Zenon
<1>4. QED
  BY <1>3 DEF Marks

\* What a marking marks, as a set.
LEMMA MarkingUnfolds ==
  ASSUME NEW d, NEW arrows, NEW f, Marks(f, d, arrows), NEW p \in Nodes(d)
  PROVE  f[p] <=> p \in Roots \/ \E q \in arrows[p] : f[q]
<1> DEFINE Value(x) == x \in Roots \/ \E q \in arrows[x] : f[q]
<1>1. f = [x \in Nodes(d) |-> Value(x)]
  BY DEF Marks
<1> HIDE DEF Value
<1>2. f[p] = Value(p)
  BY <1>1
<1>3. QED
  BY <1>2, Zenon DEF Value

LEMMA EvaluatedIsMarked ==
  ASSUME NEW d, NEW verdict
  PROVE  \E f, arrows :
           /\ Marks(f, d, arrows)
           /\ \A p \in Nodes(d) : arrows[p] = Reaching(d, verdict, p)
           /\ Evaluated(d, verdict) = { p \in Nodes(d) : f[p] }
<1> DEFINE arrows == [p \in Nodes(d) |-> Reaching(d, verdict, p)]
           Visits(f) == f = [p \in Nodes(d) |->
                               \/ p \in {"entry", "exit"}
                               \/ \E q \in DOMAIN d.tree \ Leaves(d) :
                                    LET n == d.tree[q]
                                    IN  \E i \in DOMAIN n.kids :
                                          /\ n.kids[i] = p /\ f[q]
                                          /\ \A j \in 1..(i - 1) : ~Settled(n.kind, verdict[n.kids[j]])]
           f == CHOOSE g : Visits(g)
<1>1. Evaluated(d, verdict) = { p \in Nodes(d) : f[p] }
  BY DEF Evaluated, Nodes
<1>2. /\ arrows \in [Nodes(d) -> SUBSET Nodes(d)]
      /\ \A p \in Nodes(d) : arrows[p] = Reaching(d, verdict, p)
  BY DEF Reaching, Lists
<1> HIDE DEF arrows
<1>3. ASSUME NEW g PROVE Visits(g) <=> Marks(g, d, arrows)
  <2> DEFINE A(p) == \/ p \in {"entry", "exit"}
                     \/ \E q \in DOMAIN d.tree \ Leaves(d) :
                          LET n == d.tree[q]
                          IN  \E i \in DOMAIN n.kids :
                                /\ n.kids[i] = p /\ g[q]
                                /\ \A j \in 1..(i - 1) : ~Settled(n.kind, verdict[n.kids[j]])
             B(p) == p \in Roots \/ \E q \in arrows[p] : g[q]
  <2>1. ASSUME NEW p \in Nodes(d) PROVE A(p) = B(p)
    <3>1. B(p) = (p \in Roots \/ \E q \in Reaching(d, verdict, p) : g[q])
      BY <1>2
    <3>2. (\E q \in Reaching(d, verdict, p) : g[q])
            = \E q \in Lists(d) : \E i \in DOMAIN d.tree[q].kids :
                /\ d.tree[q].kids[i] = p /\ g[q]
                /\ \A j \in 1..(i - 1) : ~Settled(d.tree[q].kind, verdict[d.tree[q].kids[j]])
      BY Zenon DEF Reaching
    <3>3. QED
      BY <3>1, <3>2, Zenon DEF Roots, Lists, Nodes
  <2>2. [p \in Nodes(d) |-> A(p)] = [p \in Nodes(d) |-> B(p)]
    <3> HIDE DEF A, B
    <3>1. QED
      BY <2>1
  <2>3. Visits(g) <=> g = [p \in Nodes(d) |-> A(p)]
    OBVIOUS
  <2>4. Marks(g, d, arrows) <=> g = [p \in Nodes(d) |-> B(p)]
    BY DEF Marks
  <2> HIDE DEF A, B, Visits
  <2>5. QED
    BY <2>2, <2>3, <2>4
<1>4. PICK g : Marks(g, d, arrows)
  BY <1>2, MarkingExists
<1>5. Visits(g)
  BY <1>3, <1>4
<1> HIDE DEF Visits
<1>6. Visits(f)
  BY <1>5
<1>7. Marks(f, d, arrows)
  BY <1>3, <1>6
<1> HIDE DEF f
<1>8. QED
  BY <1>1, <1>2, <1>7

LEMMA UnhiddenIsMarked ==
  ASSUME NEW d
  PROVE  \E f, arrows :
           /\ Marks(f, d, arrows)
           /\ \A p \in Nodes(d) : arrows[p] = Leading(d, p)
           /\ Unhidden(d) = { p \in CrossPaths(d) : f[p] }
<1> DEFINE arrows == [p \in Nodes(d) |-> Leading(d, p)]
           Opens(f) == f = [p \in Nodes(d) |->
                              \/ p \in {"entry", "exit"}
                              \/ \E q \in DOMAIN d.tree \ Leaves(d) : d.tree[q].kids[1] = p /\ f[q]]
           f == CHOOSE g : Opens(g)
<1>1. Unhidden(d) = { p \in CrossPaths(d) : f[p] }
  BY DEF Unhidden, Nodes
<1>2. /\ arrows \in [Nodes(d) -> SUBSET Nodes(d)]
      /\ \A p \in Nodes(d) : arrows[p] = Leading(d, p)
  BY DEF Leading, Lists
<1> HIDE DEF arrows
<1>3. ASSUME NEW g PROVE Opens(g) <=> Marks(g, d, arrows)
  <2> DEFINE A(p) == \/ p \in {"entry", "exit"}
                     \/ \E q \in DOMAIN d.tree \ Leaves(d) : d.tree[q].kids[1] = p /\ g[q]
             B(p) == p \in Roots \/ \E q \in arrows[p] : g[q]
  <2>1. ASSUME NEW p \in Nodes(d) PROVE A(p) = B(p)
    <3>1. B(p) = (p \in Roots \/ \E q \in Leading(d, p) : g[q])
      BY <1>2
    <3>2. (\E q \in Leading(d, p) : g[q]) = \E q \in Lists(d) : d.tree[q].kids[1] = p /\ g[q]
      BY Zenon DEF Leading
    <3>3. QED
      BY <3>1, <3>2, Zenon DEF Roots, Lists, Nodes
  <2>2. [p \in Nodes(d) |-> A(p)] = [p \in Nodes(d) |-> B(p)]
    <3> HIDE DEF A, B
    <3>1. QED
      BY <2>1
  <2>3. Opens(g) <=> g = [p \in Nodes(d) |-> A(p)]
    OBVIOUS
  <2>4. Marks(g, d, arrows) <=> g = [p \in Nodes(d) |-> B(p)]
    BY DEF Marks
  <2> HIDE DEF A, B, Opens
  <2>5. QED
    BY <2>2, <2>3, <2>4
<1>4. PICK g : Marks(g, d, arrows)
  BY <1>2, MarkingExists
<1>5. Opens(g)
  BY <1>3, <1>4
<1> HIDE DEF Opens
<1>6. Opens(f)
  BY <1>5
<1>7. Marks(f, d, arrows)
  BY <1>3, <1>6
<1> HIDE DEF f
<1>8. QED
  BY <1>1, <1>2, <1>7

\* Whatever the verdicts, no sibling keeps a candle from a first child.
LEMMA UnhiddenIsEvaluated ==
  ASSUME NEW d, IsRule(d), NEW verdict
  PROVE  Unhidden(d) \subseteq Evaluated(d, verdict)
<1>1. PICK f, up : /\ Marks(f, d, up)
                   /\ \A p \in Nodes(d) : up[p] = Leading(d, p)
                   /\ Unhidden(d) = { p \in CrossPaths(d) : f[p] }
  BY UnhiddenIsMarked
<1>2. PICK g, on : /\ Marks(g, d, on)
                   /\ \A p \in Nodes(d) : on[p] = Reaching(d, verdict, p)
                   /\ Evaluated(d, verdict) = { p \in Nodes(d) : g[p] }
  BY EvaluatedIsMarked
<1> DEFINE B == { p \in Nodes(d) : f[p] /\ ~g[p] }
<1>3. ASSUME B # {} PROVE FALSE
  <2>1. PICK p \in B : \A q \in B : p \notin Below(d, q)
    <3>1. B \in SUBSET Nodes(d)
      OBVIOUS
    <3> HIDE DEF B
    <3>2. QED
      BY <1>3, <3>1, HighestNode
  <2>2. p \in Nodes(d) /\ f[p] /\ ~g[p]
    BY <2>1
  <2>3. ~(p \in Roots \/ \E q \in Reaching(d, verdict, p) : g[q])
    BY <1>2, <2>2, MarkingUnfolds
  <2>4. \E q \in Leading(d, p) : f[q]
    BY <1>1, <2>2, <2>3, MarkingUnfolds
  <2>5. PICK q \in Leading(d, p) : f[q]
    BY <2>4
  <2>6. q \in Lists(d) /\ q \in Nodes(d) /\ d.tree[q].kids[1] = p
    BY DEF Leading, Lists
  <2>7. p \in Below(d, q) /\ 1 \in DOMAIN d.tree[q].kids
    BY <2>6, KidsOf
  <2>8. q \in Reaching(d, verdict, p)
    BY <2>6, <2>7 DEF Reaching
  <2>9. ~g[q]
    BY <2>3, <2>8, Zenon
  <2>10. q \in B
    BY <2>5, <2>6, <2>9
  <2>11. QED
    BY <2>1, <2>7, <2>10
<1>4. CrossPaths(d) \subseteq Nodes(d)
  BY DEF CrossPaths, Nodes
<1>5. QED
  BY <1>1, <1>2, <1>3, <1>4

\* The roots are never hidden.
LEMMA RootIsUnhidden ==
  ASSUME NEW d, NEW p \in CrossPaths(d) \cap Roots
  PROVE  p \in Unhidden(d)
<1>1. PICK f, up : Marks(f, d, up) /\ Unhidden(d) = { q \in CrossPaths(d) : f[q] }
  BY UnhiddenIsMarked
<1>2. p \in Nodes(d)
  BY DEF CrossPaths, Nodes
<1>3. f[p]
  BY <1>1, <1>2, MarkingUnfolds
<1>4. QED
  BY <1>1, <1>3

LEMMA TrackersOfRule ==
  ASSUME strategy.name = "rule"
  PROVE  TrackersOf(strategy) = CrossPaths(DocumentOf(strategy))
BY StrategiesAssumption DEF TrackersOf

LEMMA UnhiddenIsTracked ==
  ASSUME NEW s, s.name = "rule", NEW p \in Unhidden(DocumentOf(s))
  PROVE  p \in TrackersOf(s)
<1>1. Unhidden(DocumentOf(s)) \subseteq CrossPaths(DocumentOf(s))
  BY DEF Unhidden
<1>2. TrackersOf(s) = CrossPaths(DocumentOf(s))
  BY StrategiesAssumption DEF TrackersOf
<1>3. QED
  BY <1>1, <1>2

LEMMA InitIdle == Init => IdleTreeStaysCurrent
BY DEF Init, IdleTreeStaysCurrent

LEMMA NextIdle == IInv /\ IdleTreeStaysCurrent /\ [Next]_vars => IdleTreeStaysCurrent'
<1> SUFFICES ASSUME IInv, IdleTreeStaysCurrent, [Next]_vars PROVE IdleTreeStaysCurrent'
  OBVIOUS
<1>1. ASSUME NEW c \in Candles(strategy), lineOnCandle(c) \/ rsiOnCandle(c)
      PROVE  IdleTreeStaysCurrent'
  BY <1>1, BuiltinStep DEF IdleTreeStaysCurrent, Builtins
<1>2. ASSUME NEW c \in Candles(strategy), ruleOnCandle(c)
      PROVE  IdleTreeStaysCurrent'
  <2> DEFINE d == DocumentOf(strategy)
             verdict == compileCondition(d, side, c)
             T == Evaluated(d, verdict)
  <2>1. /\ strategy' = strategy /\ strategy.name = "rule"
        /\ was' = Told(c) /\ side' = Fed(T, c)
    BY <1>2 DEF ruleOnCandle, Step
  <2>2. IsRule(d)
    BY <2>1, RunningIsRule DEF IInv, StrategiesTypeOK
  <2> HIDE DEF verdict
  <2>3. ASSUME NEW p \in Unhidden(d) PROVE Fed(T, c)[p] = Told(c)[p]
    <3>1. p \in T /\ p \in TrackersOf(strategy)
      BY <2>1, <2>2, UnhiddenIsEvaluated, UnhiddenIsTracked
    <3>2. side[p] = was[p]
      BY <2>1 DEF IdleTreeStaysCurrent
    <3> HIDE DEF T
    <3>3. QED
      BY <3>1, <3>2, FedIsTold
  <2>4. DocumentOf(strategy)' = d
    BY <2>1 DEF DocumentOf
  <2>5. QED
    BY <2>1, <2>3, <2>4 DEF IdleTreeStaysCurrent
<1>3. ASSUME NEW s \in Catalogue, startStrategy(s)
      PROVE  IdleTreeStaysCurrent'
  BY <1>3 DEF startStrategy, IdleTreeStaysCurrent
<1>4. CASE stopStrategy
  BY <1>4 DEF stopStrategy, IdleTreeStaysCurrent
<1>5. CASE UNCHANGED vars
  BY <1>5 DEF vars, IdleTreeStaysCurrent
<1>6. QED
  BY <1>1, <1>2, <1>3, <1>4, <1>5 DEF Next

\* IdleTreeStaysCurrent holds of every execution: a cross that no sibling hides
\* has seen every candle, also while its tree could not act (RuleStrategy.js:33-41).
THEOREM IdleTreesStayCurrent == Spec => []IdleTreeStaysCurrent
BY InitIInv, NextIInv, InitIdle, NextIdle, PTL DEF Spec

-----------------------------------------------------------------------------
(* A crossover written as a document *)

\* The verdict of a root that is a plain cross is "true" when its line turned.
LEMMA PlainCrossTurns ==
  ASSUME IInv, IdleTreeStaysCurrent, strategy.name = "rule", NEW c, was' = Told(c),
         NEW root \in Roots, NEW to \in Side,
         NEW d, d = DocumentOf(strategy), IsPlainCross(d, root, to)
  PROVE  /\ root \in TrackersOf(strategy)
         /\ compileCondition(d, side, c)[root] = "true" <=> Turned(root, to)
<1>1. IsRule(d) /\ root \in Nodes(d)
  <2>1. IsRule(d)
    BY RunningIsRule DEF IInv, StrategiesTypeOK
  <2>2. QED
    BY <2>1 DEF IsRule, Roots
<1>2. root \in CrossPaths(d) /\ root \in TrackersOf(strategy) /\ side[root] = was[root]
  <2>1. root \in CrossPaths(d)
    BY <1>1 DEF CrossPaths, IsPlainCross, Nodes
  <2>2. QED
    BY <2>1, RootIsUnhidden, TrackersOfRule DEF IdleTreeStaysCurrent
<1> DEFINE a == Left(d, root, c)
           b == Right(d, root, c)
<1>3. compileCondition(d, side, c)[root] = LeafVerdict(d, side, c, root)
  BY <1>1, VerdictUnfolds DEF VerdictAt, IsPlainCross
<1>4. LeafVerdict(d, side, c, root)
        = IF Null \in {a, b} THEN "unknown" ELSE Bool(Crosses(side[root], a, b, to))
  BY DEF LeafVerdict, IsPlainCross
<1>5. Observed(strategy, root, c) = <<a, b>>
  BY StrategiesAssumption DEF Observed
<1> HIDE DEF a, b
<1>6. Crossing(root, c, to) <=> Crosses(side[root], a, b, to)
  BY <1>5 DEF Crossing
<1>7. Crossing(root, c, to) <=> Turned(root, to)
  BY <1>2, CrossingIsTurning
<1>8. Null \in {a, b} => ~Crosses(side[root], a, b, to)
  BY StrategiesAssumption DEF Crosses, Decisive
<1>9. QED
  BY <1>2, <1>3, <1>4, <1>6, <1>7, <1>8 DEF Bool

PlainSignalled ==
  /\ (signal' = "BUY")  <=> (~hasPosition /\ Turned("entry", "above"))
  /\ (signal' = "SELL") <=> (hasPosition /\ Turned("exit", "below"))

IsCrossover(d) == IsPlainCross(d, "entry", "above") /\ IsPlainCross(d, "exit", "below")

LEMMA PlainResets ==
  ASSUME IInv, strategy.name = "rule", IsCrossover(DocumentOf(strategy)),
         was' = reset(strategy), signal' = Null
  PROVE  PlainSignalled
<1> DEFINE d == DocumentOf(strategy)
<1>1. IsRule(d)
  BY RunningIsRule DEF IInv, StrategiesTypeOK
<1>2. "entry" \in TrackersOf(strategy) /\ "exit" \in TrackersOf(strategy)
  BY <1>1, TrackersOfRule DEF IsRule, Nodes, CrossPaths, IsCrossover, IsPlainCross
<1>3. ~Turned("entry", "above") /\ ~Turned("exit", "below")
  BY <1>2, ResetIsNotTurning DEF Side
<1>4. QED
  BY <1>3, StrategiesAssumption DEF PlainSignalled

LEMMA PlainRuleSignals ==
  ASSUME IInv, IdleTreeStaysCurrent, NEW c, ruleOnCandle(c), IsCrossover(DocumentOf(strategy))
  PROVE  PlainSignalled
<1> DEFINE d == DocumentOf(strategy)
           verdict == compileCondition(d, side, c)
<1>1. strategy.name = "rule" /\ was' = Told(c) /\ signal' = RuleSignal(verdict)
  BY DEF ruleOnCandle, Step
<1>2. /\ verdict["entry"] = "true" <=> Turned("entry", "above")
      /\ verdict["exit"] = "true" <=> Turned("exit", "below")
  BY <1>1, PlainCrossTurns DEF IsCrossover, Roots, Side
<1>3. hasPosition \in BOOLEAN
  BY DEF IInv, StrategiesTypeOK
<1> HIDE DEF verdict
<1>4. QED
  BY <1>1, <1>2, <1>3, StrategiesAssumption DEF RuleSignal, PlainSignalled

\* PlainRuleTradesItsLine holds of every execution: a crossover written as a
\* document signals what the built-in strategy on the same line does.
THEOREM PlainRuleIsItsLine == Spec => PlainRuleTradesItsLine
<1>1. ASSUME IInv, IdleTreeStaysCurrent, [Next]_vars, vars' # vars,
             strategy.name = "rule", strategy' = strategy, IsCrossover(DocumentOf(strategy))
      PROVE  PlainSignalled
  <2>1. ASSUME NEW c \in Candles(strategy), lineOnCandle(c) \/ rsiOnCandle(c)
        PROVE  FALSE
    BY <1>1, <2>1 DEF lineOnCandle, rsiOnCandle
  <2>2. CASE \E c \in Candles(strategy) : ruleOnCandle(c)
    BY <1>1, <2>2, PlainRuleSignals
  <2>3. CASE \E s \in Catalogue : startStrategy(s)
    BY <1>1, <2>3, PlainResets DEF startStrategy
  <2>4. CASE stopStrategy
    BY <1>1, <2>4, PlainResets DEF stopStrategy
  <2>5. QED
    BY <1>1, <2>1, <2>2, <2>3, <2>4 DEF Next
<1>2. IInv /\ IdleTreeStaysCurrent /\ [Next]_vars =>
        [LET d == DocumentOf(strategy)
         IN  strategy.name = "rule" /\ strategy' = strategy
               /\ IsPlainCross(d, "entry", "above") /\ IsPlainCross(d, "exit", "below")
             => /\ (signal' = "BUY")  <=> (~hasPosition /\ Turned("entry", "above"))
                /\ (signal' = "SELL") <=> (hasPosition /\ Turned("exit", "below"))]_vars
  BY <1>1 DEF PlainSignalled, IsCrossover
<1>3. QED
  BY <1>2, InitIInv, NextIInv, InitIdle, NextIdle, PTL DEF Spec, PlainRuleTradesItsLine
=============================================================================
