---------------------------- MODULE EngineBridge ----------------------------
(***************************************************************************)
(* Two engines decide about the same candles: the JavaScript strategy, and *)
(* the C++ process behind two one-way ZeroMQ sockets                       *)
(* (server/src/engineBridge.js, engine/src/ExecutionEngine.cpp).  A shared *)
(* ledger pairs their decisions by the open time of the candle             *)
(* (server/src/utils/engine/compare.js).                                   *)
(*                                                                         *)
(* The engine always runs the EMA crossover, and so does the runner until  *)
(* somebody starts another strategy; a candle is reduced to the side on    *)
(* which its fast line is, Null when a value is missing or they are equal. *)
(***************************************************************************)
EXTENDS Integers, Sequences, SequencesExt, Functions

CONSTANTS
  Null,
  Timeframes,       \* what the enriched stream carries
  DefaultTimeframe, \* what a built-in strategy trades
  Width,            \* length of a bar of each timeframe
  DECISION_HISTORY,
  Horizon,          \* bound: open times are below it
  MaxFaults         \* bound on failures, exits, stops and swaps

ASSUME BridgeAssumption ==
  /\ DefaultTimeframe \in Timeframes
  /\ Width \in [Timeframes -> Nat \ {0}] /\ Width[DefaultTimeframe] = 1
  /\ DECISION_HISTORY \in Nat \ {0} /\ Horizon \in Nat /\ MaxFaults \in Nat
  /\ Null \notin {"above", "below", "BUY", "SELL", "HOLD"}

Side   == {"above", "below"}
Action == {"BUY", "SELL", "HOLD"}
Times  == 0..(Horizon - 1)

VARIABLES
  next,       \* per timeframe, the open time of its next bar
  subscribed, \* the runner listens to the stream
  strategy,   \* what it runs: [timeframe, crossover]
  nodeSide,   \* previousAbove of EMAStrategy.js
  attached,   \* the bridge listens, its sockets are open
  engine,     \* "up" or "down"
  cross,      \* CrossTracker of EMAStrategy.h: [hasPrevious, previousAbove]
  outbound,   \* frames pushed and not yet handled by the engine
  inbound,    \* answers not yet read by Node
  pushedAtUs, \* the keys of the map of push times, in insertion order
  decisions,  \* the ledger, in insertion order
  judged,     \* history: the comparisons made, in order
  decidedIn,  \* history: per open time, the timeframe of the last JavaScript decision
  lost,       \* history: open times of frames and answers that got lost
  mixed,      \* history: a candle of another timeframe was pushed
  skewed,     \* history: only one of the two saw a candle, a restart or a swap
  faults

nodeVars   == <<subscribed, strategy, nodeSide>>
bridgeVars == <<attached, pushedAtUs>>
engineVars == <<engine, cross>>
vars == <<next, nodeVars, bridgeVars, engineVars, outbound, inbound, decisions,
          judged, decidedIn, lost, mixed, skewed, faults>>

-----------------------------------------------------------------------------
(***************************************************************************)
(* compare.js: a ledger keyed by open time, trimmed to DECISION_HISTORY.   *)
(***************************************************************************)
Newest(s) == IF Len(s) > DECISION_HISTORY THEN Tail(s) ELSE s

Has(ledger, t) == \E i \in DOMAIN ledger : ledger[i].openTime = t

entryFor(ledger, t) ==
  IF Has(ledger, t) THEN ledger
  ELSE Newest(Append(ledger, [openTime |-> t, node |-> Null, cpp |-> Null, compared |-> FALSE]))

Pairs_AtEveryAnswer(e) == e.node # Null /\ e.cpp # Null

Pairs(e) == ~e.compared /\ e.node # Null /\ e.cpp # Null

\* recordNodeDecision, recordCppDecision: the decision of one engine goes into
\* the entry, and whichever of the two comes second compares.  (tf is history: the
\* timeframe of the JavaScript decision.)
record(ledger, t, who, action, tf) ==
  LET found == entryFor(ledger, t)
      i     == CHOOSE j \in DOMAIN found : found[j].openTime = t
      entry == [found[i] EXCEPT ![who] = action]
  IN  [ledger  |-> [found EXCEPT ![i] = [entry EXCEPT !.compared = @ \/ Pairs(entry)]],
       verdict |-> IF Pairs(entry)
                   THEN <<[openTime |-> t, timeframe |-> tf, agreed |-> entry.node = entry.cpp]>>
                   ELSE <<>>]

-----------------------------------------------------------------------------
(***************************************************************************)
(* The two implementations of the crossover.                               *)
(***************************************************************************)
Signal(to) == IF to = "above" THEN "BUY" ELSE "SELL"

nodeDecides(told) == IF told \in Side /\ nodeSide \in Side \ {told} THEN Signal(told) ELSE "HOLD"

\* A rule, or another built-in, may decide anything.
Crossover  == [timeframe |-> DefaultTimeframe, crossover |-> TRUE]
Strategies == {Crossover} \cup [timeframe : Timeframes, crossover : {FALSE}]

nodeDecisions(told) == IF strategy.crossover THEN {nodeDecides(told)} ELSE Action

NoCross == [hasPrevious |-> FALSE, previousAbove |-> FALSE]

cppDecides_FirstIsACross(told) ==
  IF told \in Side /\ (told = "above") # cross.previousAbove THEN Signal(told) ELSE "HOLD"

cppDecides(told) ==
  IF told \in Side /\ cross.hasPrevious /\ (told = "above") # cross.previousAbove
  THEN Signal(told) ELSE "HOLD"

cppAdvances(told) ==
  IF told \in Side THEN [hasPrevious |-> TRUE, previousAbove |-> told = "above"] ELSE cross

-----------------------------------------------------------------------------
Init ==
  /\ next = [tf \in Timeframes |-> 0]
  /\ subscribed = TRUE /\ strategy = Crossover /\ nodeSide = Null
  /\ attached = TRUE /\ pushedAtUs = <<>>
  /\ engine = "up" /\ cross = NoCross
  /\ outbound = <<>> /\ inbound = <<>> /\ decisions = <<>>
  /\ judged = <<>> /\ decidedIn = [t \in Times |-> Null]
  /\ lost = {} /\ mixed = FALSE /\ skewed = FALSE /\ faults = 0

\* A bar closes no earlier than the base bars it spans; bars that close together
\* are emitted in any order.
Closes(tf) ==
  /\ next[tf] + Width[tf] <= Horizon
  /\ next[tf] + Width[tf] <= next[DefaultTimeframe] + 1
  /\ next' = [next EXCEPT ![tf] = @ + Width[tf]]

\* onCandle of the runner: a bar of another timeframe than its strategy's is not
\* its candle.
nodeOnCandle(tf, told) ==
  IF tf = strategy.timeframe /\ subscribed
  THEN /\ \E action \in nodeDecisions(told) :
            LET r == record(decisions, next[tf], "node", action, tf)
            IN  decisions' = r.ledger /\ judged' = judged \o r.verdict
       /\ nodeSide' = IF strategy.crossover /\ told \in Side THEN told ELSE nodeSide
       /\ decidedIn' = [decidedIn EXCEPT ![next[tf]] = tf]
  ELSE UNCHANGED <<decisions, judged, nodeSide, decidedIn>>

Stamped_NeverTrims(keys, t) == IF Contains(keys, t) THEN keys ELSE Append(keys, t)

Stamped(keys, t) == IF Contains(keys, t) THEN keys ELSE Newest(Append(keys, t))

\* onCandle of the bridge: stamp, then send every candle of every timeframe.
bridgeOnCandle(tf, told) ==
  IF ~attached THEN UNCHANGED <<pushedAtUs, outbound, lost, mixed, skewed, faults>>
  ELSE
    /\ pushedAtUs' = Stamped(pushedAtUs, next[tf])
    /\ mixed' = (mixed \/ tf # DefaultTimeframe)
    /\ \/ outbound' = Append(outbound, [openTime |-> next[tf], told |-> told])
          /\ UNCHANGED <<lost, skewed, faults>>
       \/ faults < MaxFaults /\ faults' = faults + 1  \* send timed out or threw
          /\ lost' = lost \cup {next[tf]} /\ skewed' = TRUE /\ UNCHANGED outbound

\* One emission of the enriched stream runs both listeners, the runner first.
Candle(tf, told) ==
  /\ Closes(tf)
  /\ nodeOnCandle(tf, told)
  /\ bridgeOnCandle(tf, told)
  /\ UNCHANGED <<subscribed, strategy, attached, engineVars, inbound>>

\* handleFrame: one frame in, one answer out unless the send times out.
handleFrame ==
  /\ engine = "up" /\ outbound # <<>>
  /\ LET frame == Head(outbound)
     IN  /\ cross' = cppAdvances(frame.told)
         /\ \/ inbound' = Append(inbound, [openTime |-> frame.openTime, action |-> cppDecides(frame.told)])
               /\ UNCHANGED <<lost, faults>>
            \/ faults < MaxFaults /\ faults' = faults + 1
               /\ lost' = lost \cup {frame.openTime} /\ UNCHANGED inbound
  /\ outbound' = Tail(outbound)
  /\ UNCHANGED <<next, nodeVars, bridgeVars, engine, decisions, judged, decidedIn, mixed, skewed>>

consumed_Nothing(t) == pushedAtUs

consumed(t) ==
  IF ~Contains(pushedAtUs, t) THEN pushedAtUs
  ELSE RemoveAt(pushedAtUs, CHOOSE i \in DOMAIN pushedAtUs : pushedAtUs[i] = t)

\* onSignal: consume the stamp, record and compare.  What the runner then
\* executes is StrategyRunner's onEngineSignal.
onSignal ==
  /\ attached /\ inbound # <<>>
  /\ LET signal == Head(inbound)
         r      == record(decisions, signal.openTime, "cpp", signal.action, decidedIn[signal.openTime])
     IN  /\ pushedAtUs' = consumed(signal.openTime)
         /\ decisions' = r.ledger /\ judged' = judged \o r.verdict
  /\ inbound' = Tail(inbound)
  /\ UNCHANGED <<next, nodeVars, attached, engineVars, outbound, decidedIn, lost, mixed, skewed, faults>>

OpenTimes(s) == [i \in DOMAIN s |-> s[i].openTime]

TimesOf(s) == Range(OpenTimes(s))

\* The engine dies, with what it had received and what it had not yet delivered.
engineExits ==
  /\ engine = "up" /\ faults < MaxFaults
  /\ engine' = "down" /\ faults' = faults + 1
  /\ \E n \in 0..Len(outbound), m \in 0..Len(inbound) :
       /\ outbound' = SubSeq(outbound, n + 1, Len(outbound))
       /\ inbound' = SubSeq(inbound, 1, m)
       /\ lost' = lost \cup TimesOf(SubSeq(outbound, 1, n))
                       \cup TimesOf(SubSeq(inbound, m + 1, Len(inbound)))
  /\ UNCHANGED <<next, nodeVars, bridgeVars, cross, decisions, judged, decidedIn, mixed, skewed>>

\* With ENGINE_AUTOSTART=false somebody starts it again: the sockets reconnect.
engineRestarts ==
  /\ engine = "down" /\ attached
  /\ engine' = "up" /\ cross' = NoCross /\ skewed' = TRUE
  /\ UNCHANGED <<next, nodeVars, bridgeVars, outbound, inbound, decisions, judged, decidedIn, lost, mixed, faults>>

\* startStrategy and stopStrategy of the runner change and reset the JavaScript side
\* only; what is started may trade another timeframe.
swapStrategy ==
  /\ faults < MaxFaults /\ faults' = faults + 1
  /\ \/ subscribed' = TRUE /\ strategy' \in Strategies
     \/ subscribed' = FALSE /\ UNCHANGED strategy
  /\ nodeSide' = Null /\ skewed' = TRUE
  /\ UNCHANGED <<next, bridgeVars, engineVars, outbound, inbound, decisions, judged, decidedIn,
                 lost, mixed>>

\* stopEngineBridge: the sockets linger for nothing, the map is cleared.
stopEngineBridge ==
  /\ attached /\ attached' = FALSE
  /\ pushedAtUs' = <<>> /\ outbound' = <<>> /\ inbound' = <<>>
  /\ lost' = lost \cup TimesOf(outbound) \cup TimesOf(inbound)
  /\ engine' = "down"
  /\ UNCHANGED <<next, nodeVars, cross, decisions, judged, decidedIn, mixed, skewed, faults>>

Next ==
  \/ \E tf \in Timeframes, told \in Side \cup {Null} : Candle(tf, told)
  \/ handleFrame \/ onSignal
  \/ engineExits \/ engineRestarts \/ swapStrategy \/ stopEngineBridge

Spec == Init /\ [][Next]_vars

\* The engine's loop and Node's read loop both run for as long as they live.
FairSpec == Spec /\ WF_vars(handleFrame) /\ WF_vars(onSignal)

-----------------------------------------------------------------------------
\* The types of the bridge's state.
BridgeTypeOK ==
  /\ next \in [Timeframes -> 0..Horizon]
  /\ strategy \in Strategies /\ nodeSide \in Side \cup {Null}
  /\ cross \in [hasPrevious : BOOLEAN, previousAbove : BOOLEAN]
  /\ outbound \in Seq([openTime : Times, told : Side \cup {Null}])
  /\ inbound \in Seq([openTime : Times, action : Action])
  /\ pushedAtUs \in Seq(Times)
  /\ decisions \in Seq([openTime : Times, node : Action \cup {Null}, cpp : Action \cup {Null},
                        compared : BOOLEAN])
  /\ judged \in Seq([openTime : Times, timeframe : Timeframes \cup {Null}, agreed : BOOLEAN])
  /\ decidedIn \in [Times -> Timeframes \cup {Null}]

\* The types hold, and neither map grows with the life of the process, whether or
\* not the engine ever answers, nor holds two entries of one open time
\* (engineBridge.js:218-222, compare.js:26-32).
MapsAreBounded ==
  /\ BridgeTypeOK
  /\ Len(decisions) <= DECISION_HISTORY /\ IsInjective(OpenTimes(decisions))
  /\ Len(pushedAtUs) <= DECISION_HISTORY /\ IsInjective(pushedAtUs)

\* A decision of the JavaScript strategy is compared at most once, however late the
\* other comes, whatever was trimmed in between and whatever strategy was started
\* ("only once per candle", compare.js:47).  The ledger knows candles by their open
\* time alone: an open time is compared twice only if the strategy decided about it
\* in two timeframes, when a rule of another one was started and the bar of the
\* first was trimmed by then.
BarsOf(s) == [i \in DOMAIN s |-> <<s[i].openTime, s[i].timeframe>>]

ComparedOnce == IsInjective(BarsOf(judged))

Divergences == { i \in DOMAIN judged : ~judged[i].agreed }

\* Engines that saw the same candles from the same start never disagree,
\* whatever answers were lost or late (EMAStrategy.h:17-20).
SameCandlesSameDecisions == ~skewed /\ ~mixed => Divergences = {}

\* The same without sparing the candles of other timeframes: "identical
\* semantics, so the two engines cannot disagree about what a cross is"
\* (Strategy.h:85).
EnginesCannotDisagree == ~skewed => Divergences = {}

\* As long as the engine lives, a stamp is consumed unless its frame or its answer
\* was lost ("consumed here so the map cannot grow", engineBridge.js:146).
StampsAreConsumed ==
  \A t \in Times : Contains(pushedAtUs, t)
                     ~> (~Contains(pushedAtUs, t) \/ t \in lost \/ engine = "down")
=============================================================================
