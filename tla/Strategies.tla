----------------------------- MODULE Strategies -----------------------------
(***************************************************************************)
(* What decides to trade (server/src/strategies): the built-in strategies  *)
(* and the compiled rule documents, all made of cross trackers             *)
(* (server/src/utils/strategies/cross.js), the one piece of state that a   *)
(* strategy keeps from candle to candle.                                   *)
(*                                                                         *)
(* A document is [tree |-> [paths -> nodes], params |-> [names -> Int]],   *)
(* a node being named by its path as in compile.js; its roots are "entry"  *)
(* and "exit".                                                             *)
(***************************************************************************)
EXTENDS Integers, Sequences

CONSTANTS
  Null,        \* null: nothing observed, or nothing known
  NaN,         \* a reading that is no finite number
  Values,      \* the numbers that indicators and prices take
  Lines,       \* "ema" and "macd": the keys of their fast and slow line
  RsiKey,      \* the key RSIStrategy reads
  Oversold, Overbought,
  Documents,   \* the rule documents that pass validation, a sequence
  PriceFields,
  MaxTreeDepth \* MAX_TREE_DEPTH

Builtins == {"ema", "macd", "rsi"}
Side     == {"above", "below"}

ASSUME StrategiesAssumption ==
  /\ Values \subseteq Int /\ Null \notin Int \cup Side /\ NaN \notin Int \cup {Null}
  /\ Oversold \in Int /\ Overbought \in Int /\ Oversold < Overbought
  /\ DOMAIN Lines = {"ema", "macd"} /\ Null \notin {"BUY", "SELL"}
  /\ MaxTreeDepth \in Nat

VARIABLES
  strategy,    \* the running one: its name, and the index of its document
  subscribed,  \* onCandle is attached
  side,        \* previousAbove of every tracker
  signal,      \* what the last candle, start or stop left: "BUY", "SELL" or Null
  hasPosition, \* what the broker answers
  was          \* history: per tracker, the side of the last decisive candle

vars == <<strategy, subscribed, side, signal, hasPosition, was>>

DocumentOf(s) == Documents[s.document]
CrossPaths(d) == { p \in DOMAIN d.tree : d.tree[p].kind = "cross" }
TrackersOf(s) ==
  CASE s.name = "rsi"           -> {"oversold", "overbought"}
    [] s.name \in DOMAIN Lines  -> {"cross"}
    [] OTHER                    -> CrossPaths(DocumentOf(s))

Started(name, d) == [name |-> name, document |-> d]
Catalogue == { Started(name, 0) : name \in Builtins }
               \cup { Started("rule", d) : d \in DOMAIN Documents }

-----------------------------------------------------------------------------
(***************************************************************************)
(* createCrossTracker: update(a, b) moves the side, unless a value is      *)
(* missing or the two are equal, and tells the direction of a crossing.    *)
(***************************************************************************)
Decisive_TouchIsASide(a, b) == a \in Int /\ b \in Int

Decisive(a, b) == a \in Int /\ b \in Int /\ a # b

SideOf(a, b) == IF a > b THEN "above" ELSE "below"

update(previous, a, b) == IF Decisive(a, b) THEN SideOf(a, b) ELSE previous

Crosses(previous, a, b, to) ==
  /\ Decisive(a, b) /\ SideOf(a, b) = to
  /\ previous \in Side \ {to}

-----------------------------------------------------------------------------
(***************************************************************************)
(* compile.js: the operands of a leaf, and three-valued verdicts.          *)
(***************************************************************************)
numeric(v) == IF v \in Int THEN v ELSE Null

compileOperand(operand, d, c) ==
  CASE operand.kind = "indicator" -> numeric(c.indicators[operand.value])
    [] operand.kind = "price"     -> numeric(c.price[operand.value])
    [] operand.kind = "param"     -> d.params[operand.value]
    [] operand.kind = "const"     -> operand.value

Left(d, p, c)  == compileOperand(d.tree[p].left, d, c)
Right(d, p, c) == compileOperand(d.tree[p].right, d, c)

COMPARATORS(op, a, b) ==
  \/ op = ">"  /\ a > b
  \/ op = "<"  /\ a < b
  \/ op = ">=" /\ a >= b
  \/ op = "<=" /\ a <= b
  \/ op = "==" /\ a = b
  \/ op = "!=" /\ a # b

Leaves(d) == { p \in DOMAIN d.tree : d.tree[p].kind \in {"compare", "cross"} }

\* What validate.js leaves of a document: both trees, lists that are not empty,
\* and no more than MAX_TREE_DEPTH conditions below one another.
ASSUME DocumentsAssumption ==
  \A k \in DOMAIN Documents :
    LET d     == Documents[k]
        lists == DOMAIN d.tree \ Leaves(d)
    IN  /\ {"entry", "exit"} \subseteq DOMAIN d.tree
        /\ \A p \in lists : /\ d.tree[p].kind \in {"all", "any", "not"}
                           /\ d.tree[p].kids \in Seq(DOMAIN d.tree) \ {<<>>}
        /\ \E depth \in [DOMAIN d.tree -> 1..MaxTreeDepth] :
             \A p \in lists : \A i \in DOMAIN d.tree[p].kids :
               depth[d.tree[p].kids[i]] = depth[p] + 1

Bool(b) == IF b THEN "true" ELSE "false"

\* compileCompare and compileCross, on the trackers as the candle finds them.
LeafVerdict(d, s, c, p) ==
  LET a == Left(d, p, c)
      b == Right(d, p, c)
  IN  IF Null \in {a, b} THEN "unknown"
      ELSE IF d.tree[p].kind = "compare" THEN Bool(COMPARATORS(d.tree[p].op, a, b))
      ELSE Bool(Crosses(s[p], a, b, d.tree[p].op))

compileAll(verdicts) ==
  IF "false" \in verdicts THEN "false" ELSE IF "unknown" \in verdicts THEN "unknown" ELSE "true"

compileAny(verdicts) ==
  IF "true" \in verdicts THEN "true" ELSE IF "unknown" \in verdicts THEN "unknown" ELSE "false"

compileNot_NegatesNull(v) == IF v = "true" THEN "false" ELSE "true"

compileNot(v) == IF v = "unknown" THEN "unknown" ELSE IF v = "true" THEN "false" ELSE "true"

compileCondition(d, s, c) ==
  LET verdict[p \in DOMAIN d.tree] ==
        LET n == d.tree[p]
            below == { verdict[n.kids[i]] : i \in DOMAIN n.kids }
        IN  CASE n.kind = "all" -> compileAll(below)
              [] n.kind = "any" -> compileAny(below)
              [] n.kind = "not" -> compileNot(verdict[n.kids[1]])
              [] OTHER          -> LeafVerdict(d, s, c, p)
  IN  verdict

\* The loops of compileAll and compileAny return at the first child that settles
\* the verdict: the children after it are not evaluated on this candle.
Settled(kind, v) == (kind = "all" /\ v = "false") \/ (kind = "any" /\ v = "true")

Evaluated(d, verdict) ==
  LET visited[p \in DOMAIN d.tree] ==
        \/ p \in {"entry", "exit"}
        \/ \E q \in DOMAIN d.tree \ Leaves(d) :
             LET n == d.tree[q]
             IN  \E i \in DOMAIN n.kids :
                   /\ n.kids[i] = p /\ visited[q]
                   /\ \A j \in 1..(i - 1) : ~Settled(n.kind, verdict[n.kids[j]])
  IN  { p \in DOMAIN d.tree : visited[p] }

-----------------------------------------------------------------------------
(***************************************************************************)
(* One candle.                                                             *)
(***************************************************************************)
OperandKeys(d) ==
  { o.value : o \in { x \in { d.tree[p].left : p \in Leaves(d) } \cup { d.tree[p].right : p \in Leaves(d) } :
                        x.kind = "indicator" } }

requiredIndicators(s) ==
  CASE s.name = "rsi"          -> {RsiKey}
    [] s.name \in DOMAIN Lines -> {Lines[s.name][1], Lines[s.name][2]}
    [] OTHER                   -> OperandKeys(DocumentOf(s))

\* Every required value may be missing (warming up, or all of them when the
\* indicator stage failed); the prices of a closed candle are numbers.
Candles(s) ==
  [indicators : [requiredIndicators(s) -> Values \cup {Null, NaN}],
   price      : [IF s.name = "rule" THEN PriceFields ELSE {} -> Values]]

readIndicators(s, c) == \A key \in requiredIndicators(s) : c.indicators[key] \in Int

Observed(s, t, c) ==
  CASE s.name = "rsi"          -> <<c.indicators[RsiKey], IF t = "oversold" THEN Oversold ELSE Overbought>>
    [] s.name \in DOMAIN Lines -> <<c.indicators[Lines[s.name][1]], c.indicators[Lines[s.name][2]]>>
    [] OTHER                   -> <<Left(DocumentOf(s), t, c), Right(DocumentOf(s), t, c)>>

Fed(trackers, c) ==
  [t \in TrackersOf(strategy) |->
     LET o == Observed(strategy, t, c)
     IN  IF t \in trackers THEN update(side[t], o[1], o[2]) ELSE side[t]]

\* History: the side every candle tells, whether or not a tracker was fed it.
Told(c) ==
  [t \in TrackersOf(strategy) |->
     LET o == Observed(strategy, t, c)
     IN  IF o[1] \in Int /\ o[2] \in Int /\ o[1] > o[2] THEN "above"
         ELSE IF o[1] \in Int /\ o[2] \in Int /\ o[1] < o[2] THEN "below" ELSE was[t]]

Crossing(t, c, to) ==
  Crosses(side[t], Observed(strategy, t, c)[1], Observed(strategy, t, c)[2], to)

\* The position changes with fills, rejections, liquidations and the C++ engine.
Step(c) ==
  /\ subscribed
  /\ was' = Told(c)
  /\ hasPosition' \in BOOLEAN
  /\ UNCHANGED <<strategy, subscribed>>

\* EMAStrategy.onCandle, MACDStrategy.onCandle.
lineOnCandle(c) ==
  /\ strategy.name \in {"ema", "macd"}
  /\ Step(c)
  /\ IF readIndicators(strategy, c)
     THEN /\ side' = Fed({"cross"}, c)
          /\ signal' = IF Crossing("cross", c, "above") THEN "BUY"
                       ELSE IF Crossing("cross", c, "below") THEN "SELL" ELSE Null
     ELSE side' = side /\ signal' = Null

RsiSignal(c) == IF Crossing("oversold", c, "below") THEN "BUY"
                ELSE IF Crossing("overbought", c, "above") THEN "SELL" ELSE Null

rsiOnCandle_FeedsTheFirstOnly(c) ==
  /\ strategy.name = "rsi"
  /\ Step(c)
  /\ IF readIndicators(strategy, c)
     THEN /\ side' = Fed(IF RsiSignal(c) = "BUY" THEN {"oversold"} ELSE {"oversold", "overbought"}, c)
          /\ signal' = RsiSignal(c)
     ELSE side' = side /\ signal' = Null

\* RSIStrategy.onCandle: both trackers see every candle.
rsiOnCandle(c) ==
  /\ strategy.name = "rsi"
  /\ Step(c)
  /\ IF readIndicators(strategy, c)
     THEN side' = Fed({"oversold", "overbought"}, c) /\ signal' = RsiSignal(c)
     ELSE side' = side /\ signal' = Null

RuleSignal(verdict) == IF hasPosition THEN IF verdict["exit"] = "true" THEN "SELL" ELSE Null
                       ELSE IF verdict["entry"] = "true" THEN "BUY" ELSE Null

ruleOnCandle_SkipsTheIdleTree(c) ==
  /\ strategy.name = "rule"
  /\ Step(c)
  /\ LET d       == DocumentOf(strategy)
         verdict == compileCondition(d, side, c)
         idle    == IF hasPosition THEN "entry" ELSE "exit"
     IN  /\ side' = Fed(Evaluated(d, verdict) \ {idle}, c)
         /\ signal' = RuleSignal(verdict)

\* RuleStrategy.onCandle: both trees are evaluated, one of them may act.
ruleOnCandle(c) ==
  /\ strategy.name = "rule"
  /\ Step(c)
  /\ LET d       == DocumentOf(strategy)
         verdict == compileCondition(d, side, c)
     IN  /\ side' = Fed(Evaluated(d, verdict), c)
         /\ signal' = RuleSignal(verdict)

reset(s) == [t \in TrackersOf(s) |-> Null]

startStrategy_KeepsTrackers(s) ==
  /\ strategy' = s /\ subscribed' = TRUE
  /\ was' = reset(s) /\ signal' = Null
  /\ UNCHANGED <<side, hasPosition>>

\* createStrategy and startStrategy: new trackers, whatever ran before.
startStrategy(s) ==
  /\ strategy' = s /\ subscribed' = TRUE
  /\ side' = reset(s) /\ was' = reset(s) /\ signal' = Null
  /\ UNCHANGED hasPosition

\* stopStrategy: unsubscribe and reset; the liquidation is StrategyRunner's.
stopStrategy ==
  /\ subscribed' = FALSE
  /\ side' = reset(strategy) /\ was' = reset(strategy) /\ signal' = Null
  /\ hasPosition' \in {hasPosition, FALSE}
  /\ UNCHANGED strategy

Init ==
  /\ strategy \in Catalogue /\ subscribed = TRUE
  /\ side = reset(strategy) /\ was = reset(strategy) /\ signal = Null
  /\ hasPosition \in BOOLEAN

Next ==
  \/ \E c \in Candles(strategy) : lineOnCandle(c) \/ rsiOnCandle(c) \/ ruleOnCandle(c)
  \/ \E s \in Catalogue : startStrategy(s)
  \/ stopStrategy

Spec == Init /\ [][Next]_vars

-----------------------------------------------------------------------------
\* A tracker holds a side or nothing, for exactly the crosses of the running
\* strategy, and a signal is one of the three things a strategy may return.
StrategiesTypeOK ==
  /\ strategy \in Catalogue
  /\ side \in [TrackersOf(strategy) -> Side \cup {Null}]
  /\ was \in [TrackersOf(strategy) -> Side \cup {Null}]
  /\ signal \in {"BUY", "SELL", Null}
  /\ subscribed \in BOOLEAN /\ hasPosition \in BOOLEAN

\* The line of tracker t went from one side to the other since the last candle
\* that told, whatever lay in between: missing values, equality, other candles.
Turned(t, to) == was[t] \in Side \ {to} /\ was'[t] = to

BuiltinBuys  == IF strategy.name = "rsi" THEN Turned("oversold", "below") ELSE Turned("cross", "above")
BuiltinSells == IF strategy.name = "rsi" THEN Turned("overbought", "above") ELSE Turned("cross", "below")

\* A built-in strategy signals on a crossing and on nothing else: no crossing is
\* missed, none is made up by a warm-up, a touch, a restart or the other
\* threshold, so that there is one signal per excursion (RSIStrategy.js:23-30).
BuiltinSignalsAreCrossings ==
  [][strategy.name \in Builtins /\ strategy' = strategy
       => /\ (signal' = "BUY")  <=> BuiltinBuys
          /\ (signal' = "SELL") <=> BuiltinSells]_vars

-----------------------------------------------------------------------------
\* What a tree says when all its leaves are known: plain Boolean logic.
Holds(d, leaf) ==
  LET holds[p \in DOMAIN d.tree] ==
        LET n == d.tree[p]
        IN  CASE n.kind = "all" -> \A i \in DOMAIN n.kids : holds[n.kids[i]]
              [] n.kind = "any" -> \E i \in DOMAIN n.kids : holds[n.kids[i]]
              [] n.kind = "not" -> ~holds[n.kids[1]]
              [] OTHER          -> leaf[p]
  IN  holds

\* Whatever the next candle brings, a rule acts only on what is known: a verdict
\* other than "unknown" is the one every completion of the unknown leaves gives,
\* and it is given when no leaf is unknown (compile.js:49-80).
RulesDecideOnWhatIsKnown ==
  strategy.name = "rule" =>
    \A c \in Candles(strategy) :
      LET d       == DocumentOf(strategy)
          verdict == compileCondition(d, side, c)
          unknown == { p \in Leaves(d) : verdict[p] = "unknown" }
          filled(T) == [p \in Leaves(d) |-> p \in T \/ verdict[p] = "true"]
      IN  \A root \in {"entry", "exit"} :
            /\ unknown = {} => verdict[root] # "unknown"
            /\ verdict[root] # "unknown" =>
                 \A T \in SUBSET unknown : Bool(Holds(d, filled(T))[root]) = verdict[root]

\* The crosses no earlier sibling can hide from a candle.
Unhidden(d) ==
  LET open[p \in DOMAIN d.tree] ==
        \/ p \in {"entry", "exit"}
        \/ \E q \in DOMAIN d.tree \ Leaves(d) : d.tree[q].kids[1] = p /\ open[q]
  IN  { p \in CrossPaths(d) : open[p] }

\* A cross that is reached on every candle has the side of the last decisive
\* one, whether or not its tree could act on it (RuleStrategy.js:33-37).
IdleTreeStaysCurrent ==
  strategy.name = "rule" => \A p \in Unhidden(DocumentOf(strategy)) : side[p] = was[p]

IsPlainCross(d, p, op) ==
  /\ d.tree[p].kind = "cross" /\ d.tree[p].op = op
  /\ d.tree[p].left.kind = "indicator" /\ d.tree[p].right.kind = "indicator"

\* A document that writes a crossover out, one cross per tree, trades as the
\* built-in strategy on the same line does: the position only mutes a signal.
PlainRuleTradesItsLine ==
  [][LET d == DocumentOf(strategy)
     IN  strategy.name = "rule" /\ strategy' = strategy
           /\ IsPlainCross(d, "entry", "above") /\ IsPlainCross(d, "exit", "below")
         => /\ (signal' = "BUY")  <=> (~hasPosition /\ Turned("entry", "above"))
            /\ (signal' = "SELL") <=> (hasPosition /\ Turned("exit", "below"))]_vars
=============================================================================
