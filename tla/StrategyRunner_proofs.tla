----------------------- MODULE StrategyRunner_proofs -----------------------
(***************************************************************************)
(* Theorems about the strategy runner, for every set of symbols, every     *)
(* starting state of the tables, overlapping handlers, refused writes and  *)
(* any number of crashes.                                                  *)
(***************************************************************************)
EXTENDS StrategyRunner, PaperBroker_proofs

(***************************************************************************)
(* Stop means stop, as long as JavaScript is the path that trades: after   *)
(* stopStrategy no fill happens until startStrategy or a new process       *)
(* (strategyRunner.js:197-219), unless the stop was answered while the     *)
(* process was booting.  The invariant behind it: a halted runner is       *)
(* unsubscribed, and a stop that is known while booting is an early one.   *)
(***************************************************************************)
HaltedIsUnsubscribed ==
  /\ mode \in Modes
  /\ halted /\ ~early => ~running
  /\ halted /\ phase = "booting" => early
  /\ phase \in {"down", "exited", "refused"} => ~halted

ModeOfJavaScript == Modes \subseteq {"node", "shadow"}

LEMMA InitHalted == Init => HaltedIsUnsubscribed
BY DEF Init, HaltedIsUnsubscribed

LEMMA NextHalted == HaltedIsUnsubscribed /\ [Next]_vars => HaltedIsUnsubscribed'
<1> SUFFICES ASSUME HaltedIsUnsubscribed, [Next]_vars
             PROVE  HaltedIsUnsubscribed'
  OBVIOUS
<1> USE DEF HaltedIsUnsubscribed
<1>1. CASE Candles
  BY <1>1 DEF Candles, onCandle
<1>2. CASE EngineSignals
  BY <1>2 DEF EngineSignals, onEngineSignal
<1>3. CASE startStrategy
  BY <1>3 DEF startStrategy, MayRequest
<1>4. CASE stopStrategy
  BY <1>4 DEF stopStrategy, unsubscribeNow, MayRequest
<1>5. CASE Liquidation
  BY <1>5 DEF Liquidation, LiquidateNext
<1>6. ASSUME NEW t \in tasks, WriteLands(t) \/ WriteFails(t)
      PROVE  HaltedIsUnsubscribed'
  BY <1>6 DEF WriteLands, WriteFails, history
<1>7. CASE Crash
  BY <1>7 DEF Crash
<1>8. CASE stopStrategyRunner
  BY <1>8 DEF stopStrategyRunner
<1>9. CASE poolEnds
  BY <1>9 DEF poolEnds, history
<1>10. CASE exits
  BY <1>10 DEF exits
<1>11. CASE startStrategyRunner
  BY <1>11 DEF startStrategyRunner, history
<1>12. CASE restores
  BY <1>12 DEF restores, history
<1>13. CASE UNCHANGED vars
  BY <1>13 DEF vars, runnerVars
<1>14. QED
  BY <1>1, <1>2, <1>3, <1>4, <1>5, <1>6, <1>7, <1>8, <1>9, <1>10, <1>11, <1>12, <1>13
  DEF Next

\* Where JavaScript trades, nothing fills between a stop and the next start
\* (strategyRunner.js:198-219), when the stop found the process booted.
THEOREM StopHolds == ASSUME ModeOfJavaScript PROVE Spec => StoppedMeansStopped
<1>1. HaltedIsUnsubscribed /\ [Next]_vars
        => [halted /\ ~early /\ liquidating = {} => fills' = fills]_vars
  <2> SUFFICES ASSUME HaltedIsUnsubscribed, [Next]_vars, halted, ~early, liquidating = {}
               PROVE  fills' = fills
    OBVIOUS
  <2>1. ~running /\ ~ENGINE_TRADES
    BY DEF HaltedIsUnsubscribed, ENGINE_TRADES, ModeOfJavaScript
  <2>2. CASE Candles
    BY <2>1, <2>2 DEF Candles, onCandle
  <2>3. CASE EngineSignals
    BY <2>1, <2>3 DEF EngineSignals, onEngineSignal
  <2>4. CASE startStrategy \/ stopStrategy
    BY <2>4 DEF startStrategy, stopStrategy
  <2>5. CASE Liquidation
    BY <2>5 DEF Liquidation, LiquidateNext, CloseNext
  <2>6. ASSUME NEW t \in tasks, WriteLands(t) \/ WriteFails(t)
        PROVE  fills' = fills
    BY <2>6 DEF WriteLands, WriteFails, history
  <2>7. CASE Crash \/ startStrategyRunner \/ restores
    BY <2>7 DEF Crash, startStrategyRunner, restores, history
  <2>8. CASE stopStrategyRunner \/ poolEnds \/ exits
    BY <2>8 DEF stopStrategyRunner, poolEnds, exits, history
  <2>9. CASE UNCHANGED vars
    BY <2>9 DEF vars, runnerVars
  <2>10. QED
    BY <2>2, <2>3, <2>4, <2>5, <2>6, <2>7, <2>8, <2>9 DEF Next
<1>2. QED
  BY InitHalted, NextHalted, <1>1, PTL DEF Spec, StoppedMeansStopped

-----------------------------------------------------------------------------
(***************************************************************************)
(* The books of the running process and the tables keep their types, and a *)
(* write is of a position that holds at least one unit, or of a trade.     *)
(***************************************************************************)
Holding == {pos \in Position : pos.quantity >= MIN_QUANTITY}

Origins == {"node", "engine", "stop"}

SaveWrites  == [op : {"save"}, symbol : Symbols, row : Holding, by : Origins, fill : Nat]
CloseWrites == [op : {"close"}, symbol : Symbols, row : Trade, by : Origins, fill : Nat]
Writes      == SaveWrites \cup CloseWrites

TablesTyped ==
  /\ rows \in [Symbols -> Position]
  /\ \A s \in Symbols : rows[s] = Flat \/ rows[s].quantity >= MIN_QUANTITY
  /\ log \in Seq(Trade)
  /\ serial \in Nat

TasksTyped ==
  /\ IsFiniteSet(tasks)
  /\ \A t \in tasks : t \in Seq(Writes) /\ t # <<>>
  /\ closing \in Seq(CloseWrites)
  /\ fills \in Nat /\ failures \in Nat

RunnerTyped == Typed /\ TablesTyped /\ TasksTyped

LEMMA InitRunnerTyped == Init => RunnerTyped
<1> SUFFICES ASSUME Init PROVE RunnerTyped
  OBVIOUS
<1>1. Typed
  <2>1. /\ cash = StartingBalance /\ positions = [s \in Symbols |-> Flat]
        /\ trades = <<>> /\ nextTradeId = 1 /\ marks = [s \in Symbols |-> 0] /\ liquidating = {}
    BY DEF Init, newBroker
  <2>2. positions \in [Symbols -> Position] /\ \A s \in Symbols : positions[s] = Flat
    BY <2>1, FlatCostsNothing
  <2>3. cash \in Nat /\ trades \in Seq(Trade) /\ marks \in [Symbols -> Nat]
    BY <2>1, BrokerAssumption
  <2>4. QED
    BY <2>1, <2>2, <2>3 DEF Typed, BrokerTypeOK, CashNeverNegative
<1>2. TablesTyped
  <2>1. PICK b \in Books :
          /\ rows = b.positions /\ log = b.trades
          /\ serial \in {1} \cup {log[i].id + 1 : i \in DOMAIN log}
    BY DEF Init
  <2>2. /\ rows \in [Symbols -> Position] /\ log \in Seq(Trade)
        /\ \A s \in Symbols : rows[s] = Flat \/ rows[s].quantity >= MIN_QUANTITY
    BY <2>1, BooksAssumption
  <2>3. \A i \in DOMAIN log : log[i].id \in Nat
    <3>1. \A i \in DOMAIN log : log[i] \in Trade
      BY <2>2
    <3>2. QED
      BY <3>1 DEF Trade
  <2>4. serial \in Nat
    BY <2>1, <2>3
  <2>5. QED
    BY <2>2, <2>4 DEF TablesTyped
<1>3. TasksTyped
  BY FS_EmptySet DEF Init, TasksTyped
<1>4. QED
  BY <1>1, <1>2, <1>3 DEF RunnerTyped

\* What a step does to the broker: one of its methods, or a new life.
LEMMA RunnerMovesBroker ==
  [Next]_vars => [BrokerNext]_brokerVars \/ Crash \/ startStrategyRunner \/ restores
<1> SUFFICES ASSUME [Next]_vars, ~Crash, ~startStrategyRunner, ~restores
             PROVE  [BrokerNext]_brokerVars
  OBVIOUS
<1>1. ASSUME NEW signal \in {BUY, SELL}, NEW s \in Streamed, NEW p \in Prices, NEW by,
             executeSignal(signal, s, p, by)
      PROVE  BrokerNext
  BY <1>1, RunnerAssumption DEF executeSignal, BrokerNext
<1>2. CASE Candles
  <2>1. PICK s \in Streamed, p \in Prices, decision \in {HOLD, BUY, SELL} : onCandle(s, p, decision)
    BY <1>2 DEF Candles
  <2>2. s \in Symbols
    BY RunnerAssumption
  <2>3. \/ decision \in {BUY, SELL} /\ executeSignal(decision, s, p, "node")
        \/ mark(s, p)
    BY <2>1 DEF onCandle
  <2>4. QED
    BY <1>1, <2>2, <2>3 DEF BrokerNext
<1>3. CASE EngineSignals
  BY <1>1, <1>3 DEF EngineSignals, onEngineSignal
<1>4. CASE stopStrategy
  BY <1>4 DEF stopStrategy, BrokerNext
<1>5. CASE Liquidation
  BY <1>5 DEF Liquidation, LiquidateNext, BrokerNext
<1>6. CASE UNCHANGED brokerVars
  BY <1>6
<1>7. startStrategy \/ stopStrategyRunner \/ poolEnds \/ exits => UNCHANGED brokerVars
  BY DEF startStrategy, stopStrategyRunner, poolEnds, exits
<1>8. \A t \in tasks : WriteLands(t) \/ WriteFails(t) => UNCHANGED brokerVars
  BY DEF WriteLands, WriteFails
<1>9. QED
  BY <1>2, <1>3, <1>4, <1>5, <1>6, <1>7, <1>8 DEF Next, vars

-----------------------------------------------------------------------------
(***************************************************************************)
(* What a fill writes: a BUY the row of what it opened, a SELL or one step *)
(* of a liquidation the trade it recorded.                                 *)
(***************************************************************************)
Opens(s, p, by) ==
  /\ p \in Nat \ {0} /\ BuyFills(s, p)
  /\ positions[s] = Flat
  /\ SaveOf(s, by) \in SaveWrites

Closes(s, p, by) ==
  /\ p \in Nat \ {0} /\ closeLong(s, p)
  /\ positions[s] \in Holding
  /\ positions' = [positions EXCEPT ![s] = Flat]
  /\ CloseOf(s, by) \in CloseWrites
  /\ CloseOf(s, by).row = TradeOf(s, p)

LEMMA HoldingIsNotFlat == \A pos \in Holding : pos # Flat
BY DEF Holding, Position, Flat, MIN_QUANTITY

LEMMA HeldOrFlat ==
  ASSUME Typed, NEW s \in Symbols
  PROVE  /\ positions[s] \in Position
         /\ hasPosition(s) => positions[s] \in Holding
         /\ ~hasPosition(s) => positions[s] = Flat
<1>1. positions[s] \in Position /\ (positions[s] = Flat \/ positions[s].quantity >= MIN_QUANTITY)
  BY DEF Typed, BrokerTypeOK
<1>2. positions[s].quantity \in Nat
  BY <1>1 DEF Position
<1>3. positions[s] # Flat => positions[s].quantity >= 1 /\ positions[s].quantity > 0
  BY <1>1, <1>2 DEF MIN_QUANTITY
<1>4. positions[s] = Flat => positions[s].quantity = 0
  BY DEF Flat
<1>5. QED
  BY <1>1, <1>2, <1>3, <1>4 DEF hasPosition, Holding, MIN_QUANTITY

LEMMA BuyOpens ==
  ASSUME RunnerTyped, NEW s \in Symbols, NEW p \in Nat, NEW by \in Origins, BuyFills(s, p)
  PROVE  Opens(s, p, by)
<1>1. p > 0 /\ ~hasPosition(s)
  BY DEF BuyFills, CanOpen
<1>2. positions[s] = Flat
  BY <1>1, HeldOrFlat DEF RunnerTyped
<1> DEFINE q == affordableUnits(cash, p)
<1>3. q \in Nat /\ q >= MIN_QUANTITY
  BY AffordableType DEF RunnerTyped, Typed, BrokerTypeOK, CashNeverNegative, BuyFills, CanOpen
<1>4. positions'[s] = [quantity |-> q, entryPrice |-> p]
  BY DEF BuyFills, openLong, RunnerTyped, Typed, BrokerTypeOK
<1> HIDE DEF q
<1>5. positions'[s] \in Holding
  BY <1>3, <1>4 DEF Holding, Position
<1>6. SaveOf(s, by) \in SaveWrites
  BY <1>5 DEF SaveOf, SaveWrites, RunnerTyped, TasksTyped
<1>7. QED
  BY <1>1, <1>2, <1>6 DEF Opens

LEMMA CloseCloses ==
  ASSUME RunnerTyped, NEW s \in Symbols, NEW p \in Nat, NEW by \in Origins,
         p > 0, hasPosition(s), closeLong(s, p)
  PROVE  Closes(s, p, by)
<1>1. positions[s] \in Holding
  BY HeldOrFlat DEF RunnerTyped
<1>2. /\ positions' = [positions EXCEPT ![s] = Flat]
      /\ trades' = Append(trades, TradeOf(s, p)) /\ TradeOf(s, p) \in Trade
  BY CloseTyped DEF closeLong, RunnerTyped
<1>3. trades \in Seq(Trade)
  BY DEF RunnerTyped, Typed, BrokerTypeOK
<1> DEFINE sold == TradeOf(s, p)
<1> HIDE DEF sold
<1>4. Last(Append(trades, sold)) = sold
  BY <1>3 DEF Last
<1>5. Last(trades') = TradeOf(s, p)
  BY <1>2, <1>4 DEF sold
<1>6. CloseOf(s, by) \in CloseWrites /\ CloseOf(s, by).row = TradeOf(s, p)
  BY <1>2, <1>5 DEF CloseOf, CloseWrites, RunnerTyped, TasksTyped
<1>7. QED
  BY <1>1, <1>2, <1>6 DEF Closes

\* executeSignal fills and leaves one write in flight, or leaves the books alone.
LEMMA SignalFills ==
  ASSUME RunnerTyped, NEW signal \in {BUY, SELL}, NEW s \in Symbols, NEW p \in Prices,
         NEW by \in Origins, executeSignal(signal, s, p, by)
  PROVE  \/ UNCHANGED <<books, tasks, fills>>
         \/ /\ Opens(s, p, by) /\ fills' = fills + 1
            /\ tasks' = tasks \cup {<<SaveOf(s, by)>>}
         \/ /\ Closes(s, p, by) /\ fills' = fills + 1
            /\ tasks' = tasks \cup {<<CloseOf(s, by)>>}
<1>1. p \in Nat
  BY BrokerAssumption
<1>2. positions \in [Symbols -> Position]
  BY DEF RunnerTyped, Typed, BrokerTypeOK
<1>3. CASE UNCHANGED books
  BY <1>3 DEF executeSignal, books
<1>4. CASE BuyFills(s, p)
  <2>1. Opens(s, p, by)
    BY <1>1, <1>4, BuyOpens
  <2>2. positions'[s] \in Holding
    BY <2>1 DEF Opens, SaveOf, SaveWrites
  <2>3. positions'[s] # Flat /\ positions' # positions
    BY <2>1, <2>2, HoldingIsNotFlat DEF Opens
  <2>4. QED
    BY <2>1, <2>3 DEF executeSignal
<1>5. CASE SellFills(s, p)
  <2>1. Closes(s, p, by)
    BY <1>1, <1>5, CloseCloses DEF SellFills
  <2>2. positions'[s] = Flat /\ positions' # positions
    BY <2>1, <1>2, HoldingIsNotFlat DEF Closes
  <2>3. QED
    BY <2>1, <2>2 DEF executeSignal
<1>6. QED
  BY <1>3, <1>4, <1>5 DEF executeSignal, executeOrder

-----------------------------------------------------------------------------
(***************************************************************************)
(* Where the process is when it liquidates, what an end of its life leaves *)
(* behind, and what a broker holds before its books are restored.          *)
(***************************************************************************)
RunnerShape ==
  /\ phase \in {"booting", "ready", "stopping", "ending", "exited", "down", "refused"}
  /\ liquidating # {} => phase \in {"ready", "stopping"}
  /\ liquidating = {} => closing = <<>>
  /\ \A s \in liquidating : positions[s] \in Holding
  /\ phase \in {"booting", "exited", "down", "refused"} => tasks = {}
  /\ phase = "booting" => \A s \in Symbols : positions[s] = Flat

\* One step of a liquidation: it fills at the mark, or there is none.
LEMMA LiquidationFills ==
  ASSUME RunnerTyped, RunnerShape, NEW s \in Symbols, LiquidateNext(s)
  PROVE  \/ UNCHANGED <<books, fills>> /\ marks[s] = 0 /\ positions' = positions
         \/ /\ Closes(s, marks[s], "stop") /\ fills' = fills + 1
            /\ positions' # positions
<1>1. CloseNext(s) /\ s \in liquidating
  BY DEF LiquidateNext, CloseNext
<1>2. positions[s] \in Holding /\ positions \in [Symbols -> Position] /\ marks[s] \in Nat
  BY <1>1 DEF RunnerShape, RunnerTyped, Typed, BrokerTypeOK
<1>3. CASE marks[s] = 0 /\ UNCHANGED books
  BY <1>3 DEF LiquidateNext, books
<1>4. CASE marks[s] > 0 /\ closeLong(s, marks[s])
  <2>1. hasPosition(s)
    BY <1>2 DEF hasPosition, Holding, Position, MIN_QUANTITY
  <2>2. Closes(s, marks[s], "stop")
    BY <1>2, <1>4, <2>1, CloseCloses DEF Origins
  <2>3. positions'[s] = Flat /\ positions' # positions
    BY <2>2, <1>2, HoldingIsNotFlat DEF Closes
  <2>4. QED
    BY <2>2, <2>3 DEF LiquidateNext
<1>5. QED
  BY <1>1, <1>3, <1>4 DEF CloseNext

LEMMA LiquidationQueue ==
  ASSUME NEW s, LiquidateNext(s)
  PROVE  LET queue == IF positions' # positions THEN Append(closing, CloseOf(s, "stop"))
                                                ELSE closing
         IN  /\ liquidating' = {} => closing' = <<>>
             /\ liquidating' # {} => closing' = queue /\ tasks' = tasks
             /\ liquidating' = {} /\ queue = <<>> => tasks' = tasks
             /\ liquidating' = {} /\ queue # <<>> => tasks' = tasks \cup {queue}
BY DEF LiquidateNext

LEMMA InitShape == Init => RunnerShape
BY DEF Init, newBroker, RunnerShape

LEMMA NextShape == RunnerTyped /\ RunnerShape /\ [Next]_vars => RunnerShape'
<1> SUFFICES ASSUME RunnerTyped, RunnerShape, [Next]_vars
             PROVE  RunnerShape'
  OBVIOUS
<1>1. CASE Candles
  BY <1>1 DEF Candles, onCandle, MayArrive, RunnerShape, executeSignal, executeOrder, mark
<1>2. CASE EngineSignals
  BY <1>2 DEF EngineSignals, onEngineSignal, MayArrive, RunnerShape, executeSignal, executeOrder
<1>3. CASE startStrategy
  BY <1>3 DEF startStrategy, MayRequest, RunnerShape, brokerVars
<1>4. CASE stopStrategy
  <2>1. /\ phase' \in {"booting", "ready", "stopping"} /\ closing = <<>> /\ closing' = closing
        /\ tasks' = tasks /\ phase' = phase /\ positions' = positions
        /\ liquidating' = {s \in Symbols : hasPosition(s)}
    BY <1>4 DEF stopStrategy, MayRequest, closeAllPositions, RunnerShape, books
  <2>2. \A s \in liquidating' : positions'[s] \in Holding
    BY <2>1, HeldOrFlat DEF RunnerTyped
  <2>3. phase = "booting" => liquidating' = {}
    BY <2>1 DEF RunnerShape, hasPosition, Flat
  <2>4. QED
    BY <2>1, <2>2, <2>3 DEF RunnerShape
<1>5. ASSUME NEW s \in Symbols, LiquidateNext(s)
      PROVE  RunnerShape'
  <2>1. /\ liquidating' = liquidating \ {s} /\ s \in liquidating
        /\ phase' = phase /\ phase \in {"ready", "stopping"}
    BY <1>5 DEF LiquidateNext, CloseNext, RunnerShape
  <2>2. positions \in [Symbols -> Position] /\ liquidating \subseteq Symbols
    BY DEF RunnerTyped, Typed, BrokerTypeOK
  <2>3. \A r \in liquidating' : positions'[r] = positions[r]
    <3>1. CASE positions' = positions
      BY <3>1
    <3>2. CASE Closes(s, marks[s], "stop")
      BY <2>1, <2>2, <3>2 DEF Closes
    <3>3. QED
      BY <1>5, <3>1, <3>2, LiquidationFills
  <2>4. liquidating' = {} => closing' = <<>>
    BY <1>5, LiquidationQueue
  <2>5. QED
    BY <2>1, <2>3, <2>4 DEF RunnerShape
<1>6. ASSUME NEW t \in tasks, WriteLands(t) \/ WriteFails(t)
      PROVE  RunnerShape'
  BY <1>6 DEF WriteLands, WriteFails, RunnerShape, brokerVars
<1>7. CASE stopStrategyRunner
  BY <1>7 DEF stopStrategyRunner, RunnerShape, brokerVars
<1>8. CASE poolEnds
  BY <1>8 DEF poolEnds, RunnerShape, brokerVars
<1>9. CASE exits
  BY <1>9 DEF exits, RunnerShape, brokerVars
<1>10. CASE Crash
  BY <1>10 DEF Crash, RunnerShape
<1>11. CASE startStrategyRunner
  BY <1>11 DEF startStrategyRunner, Blank, newBroker, RunnerShape
<1>12. CASE restores
  BY <1>12 DEF restores, RunnerShape
<1>13. CASE UNCHANGED vars
  BY <1>13 DEF vars, brokerVars, runnerVars, RunnerShape
<1>14. QED
  BY <1>1, <1>2, <1>3, <1>4, <1>5, <1>6, <1>7, <1>8, <1>9, <1>10, <1>11, <1>12, <1>13
  DEF Next, Liquidation

-----------------------------------------------------------------------------
(***************************************************************************)
(* The types are kept.                                                     *)
(***************************************************************************)
LEMMA BlankTyped == RunnerTyped /\ (Crash \/ startStrategyRunner) => Typed'
<1> SUFFICES ASSUME RunnerTyped, Crash \/ startStrategyRunner PROVE Typed'
  OBVIOUS
<1>1. /\ cash' = StartingBalance /\ positions' = [s \in Symbols |-> Flat]
      /\ trades' = <<>> /\ nextTradeId' = 1 /\ marks' = [s \in Symbols |-> 0]
      /\ liquidating' = liquidating
  BY DEF Crash, startStrategyRunner, Blank, newBroker
<1>2. Flat \in Position
  BY FlatCostsNothing
<1>3. positions' \in [Symbols -> Position] /\ \A s \in Symbols : positions'[s] = Flat
  BY <1>1, <1>2
<1>4. cash' \in Nat /\ trades' \in Seq(Trade) /\ marks' \in [Symbols -> Nat]
  BY <1>1, BrokerAssumption
<1>5. liquidating' \subseteq Symbols
  BY <1>1 DEF RunnerTyped, Typed, BrokerTypeOK
<1>6. QED
  BY <1>1, <1>3, <1>4, <1>5 DEF Typed, BrokerTypeOK, CashNeverNegative

LEMMA RestoredTyped == RunnerTyped /\ restores => Typed'
<1> SUFFICES ASSUME RunnerTyped, restores PROVE Typed'
  OBVIOUS
<1>1. CASE UNCHANGED brokerVars
  BY <1>1 DEF brokerVars, RunnerTyped, Typed, BrokerTypeOK, CashNeverNegative
<1>2. CASE RestoredCash(rows, log) >= 0
  <2>1. /\ cash' = RestoredCash(rows, log) /\ positions' = rows /\ trades' = log
        /\ nextTradeId' \in {1} \cup {log[i].id + 1 : i \in DOMAIN log}
        /\ marks' = marks /\ liquidating' = liquidating
    BY <1>2 DEF restores
  <2>2. /\ rows \in [Symbols -> Position] /\ log \in Seq(Trade)
        /\ \A s \in Symbols : rows[s] = Flat \/ rows[s].quantity >= MIN_QUANTITY
    BY DEF RunnerTyped, TablesTyped
  <2>3. cash' \in Nat
    BY <1>2, <2>1, <2>2, RestoredCashType
  <2>4. nextTradeId' \in Nat \ {0}
    <3>1. \A i \in DOMAIN log : log[i] \in Trade
      BY <2>2
    <3>2. \A i \in DOMAIN log : log[i].id \in Nat
      BY <3>1 DEF Trade
    <3>3. QED
      BY <2>1, <3>2
  <2>5. marks' \in [Symbols -> Nat] /\ liquidating' \subseteq Symbols
    BY <2>1 DEF RunnerTyped, Typed, BrokerTypeOK
  <2>6. QED
    BY <2>1, <2>2, <2>3, <2>4, <2>5 DEF Typed, BrokerTypeOK, CashNeverNegative
<1>3. QED
  BY <1>1, <1>2 DEF restores, books, brokerVars

\* What a statement that takes effect does to the tables.
LEMMA AppliedEffect ==
  ASSUME TablesTyped, NEW w \in Writes, Applied(w)
  PROVE  /\ TablesTyped'
         /\ w \in SaveWrites =>
              /\ log' = log
              /\ rows' = IF rows[w.symbol] = Flat THEN [rows EXCEPT ![w.symbol] = w.row] ELSE rows
         /\ w \in CloseWrites =>
              /\ rows' = [rows EXCEPT ![w.symbol] = Flat]
              /\ [w.row EXCEPT !.id = serial] \in Trade
              /\ log' = Append(log, [w.row EXCEPT !.id = serial])
<1>1. CASE w \in SaveWrites
  <2>1. w.op = "save" /\ w.symbol \in Symbols /\ w.row \in Holding /\ w \notin CloseWrites
    BY <1>1 DEF SaveWrites, CloseWrites
  <2>2. /\ log' = log /\ serial' = serial
        /\ rows' = IF rows[w.symbol] = Flat THEN [rows EXCEPT ![w.symbol] = w.row] ELSE rows
    BY <2>1 DEF Applied, Inserted
  <2>3. QED
    BY <2>1, <2>2 DEF TablesTyped, Holding
<1>2. CASE w \in CloseWrites
  <2>1. w.op = "close" /\ w.symbol \in Symbols /\ w.row \in Trade /\ w \notin SaveWrites
    BY <1>2 DEF SaveWrites, CloseWrites
  <2>2. /\ log' = Append(log, [w.row EXCEPT !.id = serial])
        /\ serial' = serial + 1
        /\ rows' = [rows EXCEPT ![w.symbol] = Flat]
    BY <2>1 DEF Applied, Deleted
  <2>3. [w.row EXCEPT !.id = serial] \in Trade
    BY <2>1 DEF Trade, TablesTyped
  <2>4. Flat \in Position
    BY FlatCostsNothing
  <2>5. QED
    BY <2>1, <2>2, <2>3, <2>4 DEF TablesTyped
<1>3. QED
  BY <1>1, <1>2 DEF Writes

LEMMA TaskHead ==
  ASSUME TasksTyped, NEW t \in tasks
  PROVE  /\ t \in Seq(Writes) /\ Len(t) \in Nat \ {0} /\ DOMAIN t = 1..Len(t)
         /\ Head(t) = t[1] /\ Head(t) \in Writes
         /\ Tail(t) \in Seq(Writes) /\ Len(Tail(t)) = Len(t) - 1
         /\ DOMAIN Tail(t) = 1..(Len(t) - 1)
         /\ \A i \in 1..(Len(t) - 1) : Tail(t)[i] = t[i + 1]
<1>1. t \in Seq(Writes) /\ t # <<>>
  BY DEF TasksTyped
<1> HIDE DEF Writes
<1>2. QED
  BY <1>1

LEMMA NextTables == RunnerTyped /\ [Next]_vars => TablesTyped'
<1> SUFFICES ASSUME RunnerTyped, [Next]_vars
             PROVE  TablesTyped'
  OBVIOUS
<1>1. TablesTyped /\ TasksTyped
  BY DEF RunnerTyped
<1>2. CASE UNCHANGED tables
  BY <1>1, <1>2 DEF tables, TablesTyped
<1>3. ASSUME NEW t \in tasks, WriteLands(t) \/ WriteFails(t)
      PROVE  TablesTyped'
  <2>1. CASE Applied(Head(t))
    BY <1>1, <2>1, TaskHead, AppliedEffect
  <2>2. CASE RolledBack(Head(t))
    BY <1>1, <2>2 DEF RolledBack, TablesTyped
  <2>3. QED
    BY <1>3, <2>1, <2>2 DEF WriteLands, WriteFails
<1>4. CASE Crash
  <2> DEFINE closes == {t \in tasks : Head(t).op = "close"}
  <2>1. Cardinality(closes) \in Nat
    BY <1>1, FS_Subset, FS_CardinalityType DEF TasksTyped
  <2>2. PICK n \in 0..Cardinality(closes) : serial' = serial + n
    BY <1>4 DEF Crash
  <2>3. serial' \in Nat
    BY <1>1, <2>1, <2>2 DEF TablesTyped
  <2>4. rows' = rows /\ log' = log
    BY <1>4 DEF Crash
  <2>5. QED
    BY <1>1, <2>3, <2>4 DEF TablesTyped
<1>5. QED
  BY <1>2, <1>3, <1>4
  DEF Next, Candles, EngineSignals, Liquidation, onCandle, onEngineSignal, startStrategy,
      stopStrategy, LiquidateNext, stopStrategyRunner, poolEnds, exits, startStrategyRunner,
      restores, vars, runnerVars, tables

LEMMA WriteInTasks ==
  ASSUME TasksTyped, NEW w \in Writes, tasks' = tasks \cup {<<w>>},
         closing' = closing, fills' = fills + 1, failures' = failures
  PROVE  TasksTyped'
<1>1. <<w>> \in Seq(Writes) /\ <<w>> # <<>>
  OBVIOUS
<1>2. IsFiniteSet(tasks')
  BY FS_AddElement DEF TasksTyped
<1>3. \A t \in tasks' : t \in Seq(Writes) /\ t # <<>>
  BY <1>1 DEF TasksTyped
<1>4. closing' \in Seq(CloseWrites) /\ fills' \in Nat /\ failures' \in Nat
  BY DEF TasksTyped
<1>5. QED
  BY <1>2, <1>3, <1>4 DEF TasksTyped

LEMMA SignalTasks ==
  ASSUME RunnerTyped, NEW signal \in {BUY, SELL}, NEW s \in Streamed, NEW p \in Prices,
         NEW by \in Origins, executeSignal(signal, s, p, by),
         closing' = closing, failures' = failures
  PROVE  TasksTyped'
<1>1. TasksTyped /\ s \in Symbols
  BY RunnerAssumption DEF RunnerTyped
<1>2. \/ UNCHANGED <<books, tasks, fills>>
      \/ /\ Opens(s, p, by) /\ fills' = fills + 1
         /\ tasks' = tasks \cup {<<SaveOf(s, by)>>}
      \/ /\ Closes(s, p, by) /\ fills' = fills + 1
         /\ tasks' = tasks \cup {<<CloseOf(s, by)>>}
  BY <1>1, SignalFills
<1>3. CASE UNCHANGED <<books, tasks, fills>>
  BY <1>1, <1>3 DEF TasksTyped
<1>4. CASE Opens(s, p, by) /\ fills' = fills + 1 /\ tasks' = tasks \cup {<<SaveOf(s, by)>>}
  BY <1>1, <1>4, WriteInTasks DEF Opens, Writes
<1>5. CASE Closes(s, p, by) /\ fills' = fills + 1 /\ tasks' = tasks \cup {<<CloseOf(s, by)>>}
  BY <1>1, <1>5, WriteInTasks DEF Closes, Writes
<1>6. QED
  BY <1>2, <1>3, <1>4, <1>5

LEMMA NextTasks == RunnerTyped /\ RunnerShape /\ [Next]_vars => TasksTyped'
<1> SUFFICES ASSUME RunnerTyped, RunnerShape, [Next]_vars
             PROVE  TasksTyped'
  OBVIOUS
<1>1. TasksTyped
  BY DEF RunnerTyped
<1>2. CASE UNCHANGED <<closing, tasks, fills, failures>>
  BY <1>1, <1>2 DEF TasksTyped
<1>3. CASE Candles
  <2>1. PICK s \in Streamed, p \in Prices, decision \in {HOLD, BUY, SELL} : onCandle(s, p, decision)
    BY <1>3 DEF Candles
  <2>2. CASE decision \in {BUY, SELL} /\ executeSignal(decision, s, p, "node")
    BY <2>1, <2>2, SignalTasks DEF onCandle, Origins
  <2>3. CASE UNCHANGED <<tasks, fills>>
    BY <1>2, <2>1, <2>3 DEF onCandle
  <2>4. QED
    BY <2>1, <2>2, <2>3 DEF onCandle
<1>4. CASE EngineSignals
  BY <1>4, SignalTasks DEF EngineSignals, onEngineSignal, Origins
<1>5. ASSUME NEW s \in Symbols, LiquidateNext(s)
      PROVE  TasksTyped'
  <2> DEFINE queue == IF positions' # positions THEN Append(closing, CloseOf(s, "stop"))
                                                ELSE closing
  <2>1. queue \in Seq(CloseWrites) /\ fills' \in Nat
    <3>1. CASE positions' = positions
      BY <1>1, <1>5, <3>1 DEF TasksTyped, LiquidateNext
    <3>2. CASE Closes(s, marks[s], "stop") /\ fills' = fills + 1
      BY <1>1, <3>2 DEF TasksTyped, Closes
    <3>3. QED
      BY <1>5, <3>1, <3>2, LiquidationFills
  <2>2. /\ liquidating' = {} => closing' = <<>>
        /\ liquidating' # {} => closing' = queue /\ tasks' = tasks
        /\ liquidating' = {} /\ queue = <<>> => tasks' = tasks
        /\ liquidating' = {} /\ queue # <<>> => tasks' = tasks \cup {queue}
    BY <1>5, LiquidationQueue
  <2> HIDE DEF queue
  <2>3. failures' = failures /\ closing' \in Seq(CloseWrites)
    <3>1. failures' = failures
      BY <1>5 DEF LiquidateNext
    <3>2. closing' = <<>> \/ closing' = queue
      BY <2>2
    <3>3. <<>> \in Seq(CloseWrites)
      OBVIOUS
    <3> HIDE DEF CloseWrites
    <3>4. closing' \in Seq(CloseWrites)
      BY <2>1, <3>2, <3>3 DEF queue
    <3>5. QED
      BY <3>1, <3>4
  <2>4. queue \in Seq(Writes)
    BY <2>1 DEF Writes
  <2>5. IsFiniteSet(tasks')
    BY <1>1, <2>2, FS_AddElement DEF TasksTyped
  <2>6. \A t \in tasks' : t \in Seq(Writes) /\ t # <<>>
    BY <1>1, <2>2, <2>4 DEF TasksTyped
  <2>7. QED
    BY <1>1, <2>1, <2>3, <2>5, <2>6 DEF TasksTyped
<1>6. ASSUME NEW t \in tasks, WriteLands(t) \/ WriteFails(t)
      PROVE  TasksTyped'
  <2> DEFINE rest == Tail(t)
  <2>1. \/ tasks' = tasks \ {t}
        \/ tasks' = (tasks \ {t}) \cup {rest} /\ Len(t) > 1
    <3>1. CASE WriteLands(t) /\ Len(t) > 1
      BY <3>1 DEF WriteLands
    <3>2. CASE WriteLands(t) /\ ~(Len(t) > 1)
      BY <3>2 DEF WriteLands
    <3>3. CASE WriteFails(t)
      BY <3>3 DEF WriteFails
    <3>4. QED
      BY <1>6, <3>1, <3>2, <3>3
  <2>2. rest \in Seq(Writes) /\ (Len(t) > 1 => rest # <<>>)
    <3>1. Len(t) \in Nat /\ rest \in Seq(Writes) /\ Len(rest) = Len(t) - 1
      BY <1>1, TaskHead
    <3> HIDE DEF rest
    <3>2. QED
      BY <3>1
  <2> HIDE DEF rest
  <2>3. IsFiniteSet(tasks')
    <3>1. IsFiniteSet(tasks \ {t})
      BY <1>1, FS_RemoveElement DEF TasksTyped
    <3>2. IsFiniteSet((tasks \ {t}) \cup {rest})
      BY <3>1, FS_AddElement
    <3>3. QED
      BY <2>1, <3>1, <3>2
  <2>4. fills' = fills /\ failures' \in Nat /\ closing' = closing
    BY <1>1, <1>6 DEF WriteLands, WriteFails, TasksTyped, history
  <2>5. QED
    BY <1>1, <2>1, <2>2, <2>3, <2>4 DEF TasksTyped
<1>7. CASE Crash
  BY <1>1, <1>7, FS_EmptySet DEF Crash, TasksTyped
<1>8. QED
  BY <1>2, <1>3, <1>4, <1>5, <1>6, <1>7
  DEF Next, Liquidation, startStrategy, stopStrategy, stopStrategyRunner, poolEnds, exits,
      startStrategyRunner, restores, vars, runnerVars, history

\* The inductive invariant the theorems below start from.
RunnerInv == RunnerTyped /\ RunnerShape

LEMMA InitRunnerInv == Init => RunnerInv
BY InitRunnerTyped, InitShape DEF RunnerInv

LEMMA NextRunnerInv == RunnerInv /\ [Next]_vars => RunnerInv'
<1> SUFFICES ASSUME RunnerInv, [Next]_vars PROVE RunnerInv'
  OBVIOUS
<1>1. RunnerTyped /\ RunnerShape /\ Typed
  BY DEF RunnerInv, RunnerTyped
<1>2. Typed'
  BY <1>1, RunnerMovesBroker, NextTyped, BlankTyped, RestoredTyped
<1>3. QED
  BY <1>1, <1>2, NextTables, NextTasks, NextShape DEF RunnerInv, RunnerTyped

(***************************************************************************)
(* Whatever handlers overlap, writes fail and processes die, the broker of *)
(* every life keeps its types and is never overdrawn, and the tables hold  *)
(* positions of at least one unit and well-formed trades                   *)
(* (strategyRunner.js, persistence.js).                                    *)
(***************************************************************************)
THEOREM RunnerTyping == Spec => [](BrokerTypeOK /\ CashNeverNegative /\ TablesTyped)
<1>1. RunnerInv => BrokerTypeOK /\ CashNeverNegative /\ TablesTyped
  BY DEF RunnerInv, RunnerTyped, Typed
<1>2. QED
  BY InitRunnerInv, NextRunnerInv, <1>1, PTL DEF Spec

-----------------------------------------------------------------------------
(***************************************************************************)
(* After a stop, what is still open is what no price was ever seen for     *)
(* (closeAllPositions, PaperBroker.js:121-141).  While the liquidation     *)
(* runs this is true of the symbols it has visited; afterwards no candle   *)
(* and, while JavaScript is the path that trades, no signal changes it.  A *)
(* stop answered while the process boots visits nothing.                   *)
(***************************************************************************)
VisitedIsFlat ==
  halted /\ ~early => \A s \in Symbols \ liquidating : positions[s] # Flat => marks[s] = 0

LEMMA NextVisited ==
  ASSUME ModeOfJavaScript, RunnerInv, HaltedIsUnsubscribed, VisitedIsFlat, [Next]_vars
  PROVE  VisitedIsFlat'
<1> USE DEF VisitedIsFlat
<1>1. RunnerTyped /\ RunnerShape /\ Typed
  BY DEF RunnerInv, RunnerTyped
<1>2. CASE UNCHANGED <<halted, early, liquidating, positions, marks>>
  BY <1>2
<1>3. CASE halted' = FALSE
  BY <1>3
<1>4. CASE Candles
  BY <1>4 DEF Candles, onCandle, HaltedIsUnsubscribed
<1>5. CASE EngineSignals
  BY <1>5 DEF EngineSignals, onEngineSignal, ENGINE_TRADES, HaltedIsUnsubscribed, ModeOfJavaScript
<1>6. CASE stopStrategy
  <2>1. /\ positions' = positions /\ liquidating' = {s \in Symbols : hasPosition(s)}
    BY <1>6 DEF stopStrategy, closeAllPositions, books
  <2>2. QED
    BY <1>1, <2>1, HeldOrFlat
<1>7. ASSUME NEW s \in Symbols, LiquidateNext(s)
      PROVE  VisitedIsFlat'
  <2>1. liquidating' = liquidating \ {s} /\ marks' = marks /\ UNCHANGED <<halted, early>>
    BY <1>7 DEF LiquidateNext, CloseNext
  <2>2. positions \in [Symbols -> Position]
    BY <1>1 DEF Typed, BrokerTypeOK
  <2>3. CASE marks[s] = 0 /\ positions' = positions
    BY <2>1, <2>3
  <2>4. CASE Closes(s, marks[s], "stop")
    BY <2>1, <2>2, <2>4 DEF Closes
  <2>5. QED
    BY <1>1, <1>7, <2>3, <2>4, LiquidationFills
<1>8. ASSUME NEW t \in tasks, WriteLands(t) \/ WriteFails(t)
      PROVE  VisitedIsFlat'
  BY <1>2, <1>8 DEF WriteLands, WriteFails, brokerVars, history
<1>9. CASE Crash
  BY <1>3, <1>9 DEF Crash
<1>10. CASE startStrategyRunner \/ restores
  <2>1. ~halted' \/ early'
    BY <1>10 DEF startStrategyRunner, restores, history, HaltedIsUnsubscribed
  <2>2. QED
    BY <2>1
<1>11. CASE stopStrategyRunner \/ poolEnds
  BY <1>2, <1>11 DEF stopStrategyRunner, poolEnds, brokerVars, history
<1>12. CASE startStrategy \/ exits
  BY <1>3, <1>12 DEF startStrategy, exits
<1>13. CASE UNCHANGED vars
  BY <1>2, <1>13 DEF vars, brokerVars, runnerVars
<1>14. QED
  BY <1>4, <1>5, <1>6, <1>7, <1>8, <1>9, <1>10, <1>11, <1>12, <1>13
  DEF Next, Liquidation

\* Where JavaScript trades, a stop that has ended leaves the book flat
\* (strategyRunner.js:204-219, PaperBroker.js:126), when it found the process booted.
THEOREM StopLiquidates == ASSUME ModeOfJavaScript PROVE Spec => []StoppedBookIsFlat
<1>1. Init => VisitedIsFlat
  BY DEF Init, VisitedIsFlat
<1>2. RunnerInv /\ HaltedIsUnsubscribed /\ VisitedIsFlat /\ [Next]_vars => VisitedIsFlat'
  BY NextVisited
<1>3. VisitedIsFlat => StoppedBookIsFlat
  BY DEF VisitedIsFlat, StoppedBookIsFlat
<1>4. QED
  BY InitRunnerInv, NextRunnerInv, InitHalted, NextHalted, <1>1, <1>2, <1>3, PTL DEF Spec

-----------------------------------------------------------------------------
(***************************************************************************)
(* The writes in flight.  A queue is what one handler has still to write;  *)
(* the number of its fill tells every write from every other, so a write   *)
(* that lands leaves the others in flight.                                 *)
(***************************************************************************)
Queues == (tasks \cup {closing}) \ {<<>>}

Pending == {w \in Writes : \E q \in Queues : \E i \in DOMAIN q : q[i] = w}

OneWritePerFill ==
  /\ closing \notin tasks
  /\ \A q \in Queues : \A i \in DOMAIN q : q[i].fill < fills
  /\ \A q, r \in Queues : \A i \in DOMAIN q, j \in DOMAIN r :
       q[i].fill = r[j].fill => q = r /\ i = j

LEMMA QueueType ==
  ASSUME RunnerTyped, NEW q \in Queues
  PROVE  /\ q \in Seq(Writes) /\ Len(q) \in Nat \ {0} /\ DOMAIN q = 1..Len(q)
         /\ \A i \in DOMAIN q : q[i] \in Writes /\ q[i].fill \in Nat /\ q[i] \in Pending
<1>1. q \in Seq(Writes) /\ q # <<>>
  BY DEF RunnerTyped, TasksTyped, Queues, Writes
<1>2. \A w \in Writes : w.fill \in Nat
  BY DEF Writes, SaveWrites, CloseWrites
<1> HIDE DEF Writes, Queues
<1>3. Len(q) \in Nat \ {0} /\ DOMAIN q = 1..Len(q) /\ \A i \in DOMAIN q : q[i] \in Writes
  BY <1>1
<1>4. QED
  BY <1>1, <1>2, <1>3 DEF Pending

LEMMA PendingFills ==
  ASSUME RunnerTyped, OneWritePerFill, NEW w \in Pending
  PROVE  w \in Writes /\ w.fill < fills
BY DEF Pending, OneWritePerFill

\* A handler that fills is one more queue, of one write.
LEMMA QueueStarts ==
  ASSUME RunnerTyped, OneWritePerFill, NEW w \in Writes, w.fill = fills,
         closing = <<>>, closing' = <<>>, tasks' = tasks \cup {<<w>>}, fills' = fills + 1
  PROVE  OneWritePerFill' /\ Pending' = Pending \cup {w} /\ w \notin Pending
<1>1. Queues' = Queues \cup {<<w>>}
  BY DEF Queues
<1>2. <<w>> # <<>> /\ DOMAIN <<w>> = {1} /\ <<w>>[1] = w
  OBVIOUS
<1>3. fills \in Nat /\ \A q \in Queues : \A i \in DOMAIN q : q[i].fill \in Nat /\ q[i].fill < fills
  BY QueueType DEF RunnerTyped, TasksTyped, OneWritePerFill
<1>4. closing' \notin tasks'
  BY <1>2 DEF OneWritePerFill
<1> DEFINE one == <<w>>
<1> HIDE DEF one
<1>5. Queues' = Queues \cup {one} /\ DOMAIN one = {1} /\ one[1] = w
  BY <1>1, <1>2 DEF one
<1>6. \A q \in Queues' : \A i \in DOMAIN q : q[i].fill < fills'
  BY <1>3, <1>5
<1>7. \A q, r \in Queues' : \A i \in DOMAIN q, j \in DOMAIN r :
        q[i].fill = r[j].fill => q = r /\ i = j
  BY <1>3, <1>5 DEF OneWritePerFill
<1>8. Pending' = Pending \cup {w}
  BY <1>5 DEF Pending
<1>9. w \notin Pending
  BY <1>3, PendingFills
<1>10. QED
  BY <1>4, <1>6, <1>7, <1>8, <1>9 DEF OneWritePerFill

\* The first write of a queue lands, and the others stay in flight.
LEMMA QueueShortens ==
  ASSUME RunnerTyped, OneWritePerFill, NEW t \in tasks,
         tasks' = (tasks \ {t}) \cup (IF Len(t) > 1 THEN {Tail(t)} ELSE {}),
         closing' = closing, fills' = fills
  PROVE  /\ OneWritePerFill' /\ Pending' = Pending \ {t[1]}
         /\ t[1] \in Pending /\ t[1] \in Writes
<1> DEFINE rest == Tail(t)
<1>1. /\ Len(t) \in Nat \ {0} /\ DOMAIN t = 1..Len(t) /\ t \in Queues
      /\ Len(rest) = Len(t) - 1 /\ DOMAIN rest = 1..(Len(t) - 1)
      /\ \A i \in 1..(Len(t) - 1) : rest[i] = t[i + 1]
  BY TaskHead DEF RunnerTyped, TasksTyped, Queues
<1>2. t[1] \in Pending /\ t[1] \in Writes
  BY <1>1, QueueType
<1>3. t # closing
  BY DEF OneWritePerFill
<1> HIDE DEF rest
<1>4. rest # <<>> <=> Len(t) > 1
  <2>1. rest \in Seq(Writes)
    BY TaskHead DEF RunnerTyped, rest
  <2>2. QED
    BY <1>1, <2>1
<1>5. Queues' = (Queues \ {t}) \cup (IF Len(t) > 1 THEN {rest} ELSE {})
  <2>1. CASE Len(t) > 1
    BY <2>1, <1>3, <1>4 DEF Queues, rest
  <2>2. CASE ~(Len(t) > 1)
    BY <2>2, <1>3 DEF Queues
  <2>3. QED
    BY <2>1, <2>2
<1>6. \A q \in Queues' : q \in Queues \ {t} \/ (q = rest /\ Len(t) > 1)
  BY <1>5
<1>7. \A q \in Queues \ {t} : \A i \in DOMAIN q, j \in DOMAIN t : q[i].fill # t[j].fill
  BY <1>1 DEF OneWritePerFill
<1>8. \A i, j \in DOMAIN t : t[i].fill = t[j].fill => i = j
  BY <1>1 DEF OneWritePerFill
<1>9. \A i \in DOMAIN rest : i + 1 \in DOMAIN t /\ rest[i] = t[i + 1] /\ i + 1 # 1
  BY <1>1
<1>10. \A q \in Queues' : \A i \in DOMAIN q : q[i].fill < fills'
  BY <1>1, <1>6, <1>9 DEF OneWritePerFill
<1>11. \A q, r \in Queues' : \A i \in DOMAIN q, j \in DOMAIN r :
         q[i].fill = r[j].fill => q = r /\ i = j
  <2> SUFFICES ASSUME NEW q \in Queues', NEW r \in Queues',
                      NEW i \in DOMAIN q, NEW j \in DOMAIN r, q[i].fill = r[j].fill
               PROVE  q = r /\ i = j
    OBVIOUS
  <2>1. CASE q \in Queues \ {t} /\ r \in Queues \ {t}
    BY <2>1 DEF OneWritePerFill
  <2>2. CASE q = rest /\ r \in Queues \ {t}
    BY <2>2, <1>7, <1>9
  <2>3. CASE q \in Queues \ {t} /\ r = rest
    BY <2>3, <1>7, <1>9
  <2>4. CASE q = rest /\ r = rest
    <3>1. i + 1 = j + 1 /\ i \in Int /\ j \in Int
      BY <2>4, <1>1, <1>8, <1>9
    <3>2. QED
      BY <2>4, <3>1
  <2>5. QED
    BY <1>6, <2>1, <2>2, <2>3, <2>4
<1>12. closing' \notin tasks'
  <2>1. CASE closing = <<>>
    BY <2>1, <1>4 DEF OneWritePerFill, rest
  <2>2. CASE closing # <<>>
    <3>1. closing \in Queues \ {t}
      BY <2>2, <1>3 DEF Queues
    <3>2. 1 \in DOMAIN closing
      BY <3>1, QueueType
    <3>3. Len(t) > 1 => rest # closing
      <4> SUFFICES ASSUME Len(t) > 1, rest = closing PROVE FALSE
        OBVIOUS
      <4>1. 1 \in DOMAIN rest /\ closing[1] = rest[1]
        BY <1>1
      <4>2. QED
        BY <4>1, <3>1, <3>2, <1>7, <1>9
    <3>4. QED
      BY <3>3 DEF OneWritePerFill, rest
  <2>3. QED
    BY <2>1, <2>2
<1>13. Pending' = Pending \ {t[1]}
  <2>1. ASSUME NEW w \in Pending'
        PROVE  w \in Pending \ {t[1]}
    <3>1. PICK q \in Queues' : \E i \in DOMAIN q : q[i] = w
      BY <2>1 DEF Pending
    <3>2. PICK i \in DOMAIN q : q[i] = w
      BY <3>1
    <3>3. w \in Writes
      BY <2>1 DEF Pending
    <3>4. CASE q \in Queues \ {t}
      BY <3>2, <3>3, <3>4, <1>1, <1>7 DEF Pending
    <3>5. CASE q = rest
      <4>1. i + 1 \in DOMAIN t /\ t[i + 1] = w /\ i + 1 # 1
        BY <3>2, <3>5, <1>9
      <4>2. w # t[1]
        BY <4>1, <1>1, <1>8
      <4>3. QED
        BY <4>1, <4>2, <3>3, <1>1 DEF Pending
    <3>6. QED
      BY <3>4, <3>5, <1>6
  <2>2. ASSUME NEW w \in Pending \ {t[1]}
        PROVE  w \in Pending'
    <3>1. PICK q \in Queues : \E i \in DOMAIN q : q[i] = w
      BY <2>2 DEF Pending
    <3>2. PICK i \in DOMAIN q : q[i] = w
      BY <3>1
    <3>3. w \in Writes /\ w # t[1]
      BY <2>2 DEF Pending
    <3>4. CASE q # t
      <4>1. q \in Queues'
        BY <3>4, <1>5
      <4>2. QED
        BY <4>1, <3>2, <3>3 DEF Pending
    <3>5. CASE q = t
      <4>1. i \in 1..Len(t) /\ i # 1
        BY <3>2, <3>3, <3>5, <1>1
      <4>2. i - 1 \in 1..(Len(t) - 1) /\ Len(t) > 1 /\ rest[i - 1] = t[(i - 1) + 1] /\ (i - 1) + 1 = i
        BY <4>1, <1>1
      <4>3. rest \in Queues' /\ i - 1 \in DOMAIN rest /\ rest[i - 1] = w
        BY <4>2, <3>2, <3>5, <1>1, <1>5
      <4>4. QED
        BY <4>3, <3>3 DEF Pending
    <3>6. QED
      BY <3>4, <3>5
  <2>3. QED
    BY <2>1, <2>2
<1>14. QED
  BY <1>2, <1>10, <1>11, <1>12, <1>13 DEF OneWritePerFill

\* A handler whose write throws makes none of its later ones.
LEMMA QueueDropped ==
  ASSUME RunnerTyped, OneWritePerFill, NEW t \in tasks, tasks' = tasks \ {t},
         closing' = closing, fills' = fills
  PROVE  OneWritePerFill' /\ Pending' \subseteq Pending
<1>1. Queues' \subseteq Queues
  BY DEF Queues
<1>2. QED
  BY <1>1 DEF OneWritePerFill, Pending

LEMMA NothingInFlight == tasks = {} /\ closing = <<>> => Queues = {} /\ Pending = {}
BY DEF Queues, Pending

\* An iteration of the liquidation that finds no price queues nothing.
LEMMA QueueMoves ==
  ASSUME RunnerTyped, OneWritePerFill, fills' = fills,
         \/ closing' = closing /\ tasks' = tasks
         \/ closing' = <<>> /\ tasks' = tasks /\ closing = <<>>
         \/ closing' = <<>> /\ tasks' = tasks \cup {closing} /\ closing # <<>>
  PROVE  OneWritePerFill' /\ Pending' = Pending
<1>1. Queues' = Queues
  BY DEF Queues
<1>2. \A t \in tasks : t # <<>>
  BY DEF RunnerTyped, TasksTyped
<1>3. closing' \notin tasks'
  BY <1>2 DEF OneWritePerFill
<1>4. QED
  BY <1>1, <1>3 DEF OneWritePerFill, Pending

\* One that fills queues its write after the others.
LEMMA QueueGrows ==
  ASSUME RunnerTyped, OneWritePerFill, NEW w \in CloseWrites, w.fill = fills, fills' = fills + 1,
         \/ closing' = Append(closing, w) /\ tasks' = tasks
         \/ closing' = <<>> /\ tasks' = tasks \cup {Append(closing, w)}
  PROVE  OneWritePerFill' /\ Pending' = Pending \cup {w} /\ w \notin Pending
<1> DEFINE queue == Append(closing, w)
           n     == Len(closing) + 1
<1>1. /\ closing \in Seq(CloseWrites) /\ Len(closing) \in Nat /\ DOMAIN closing = 1..Len(closing)
      /\ queue \in Seq(CloseWrites) /\ Len(queue) = n /\ DOMAIN queue = 1..n
      /\ queue[n] = w /\ \A i \in 1..Len(closing) : queue[i] = closing[i]
  <2>1. closing \in Seq(CloseWrites)
    BY DEF RunnerTyped, TasksTyped
  <2> HIDE DEF CloseWrites
  <2>2. QED
    BY <2>1
<1>2. queue # <<>> /\ n \in Nat \ {0} /\ n \notin DOMAIN closing
  <2> HIDE DEF queue
  <2>1. QED
    BY <1>1
<1>3. w \in Writes /\ fills \in Nat
  BY DEF Writes, RunnerTyped, TasksTyped
<1>4. \A q \in Queues : \A i \in DOMAIN q : q[i].fill \in Nat /\ q[i].fill < fills
  BY QueueType DEF OneWritePerFill
<1>5. \A t \in tasks : t # <<>> /\ t \in Queues
  BY DEF RunnerTyped, TasksTyped, Queues
<1> HIDE DEF queue, n
<1>6. queue \notin tasks
  <2>1. \A t \in tasks : n \in DOMAIN t => t[n].fill < fills
    BY <1>4, <1>5
  <2>2. n \in DOMAIN queue /\ queue[n].fill = fills
    BY <1>1, <1>2
  <2>3. QED
    BY <2>1, <2>2, <1>3
<1>7. closing' \notin tasks'
  <2>1. \/ closing' = queue /\ tasks' = tasks
        \/ closing' = <<>> /\ tasks' = tasks \cup {queue}
    BY DEF queue
  <2>2. QED
    BY <2>1, <1>2, <1>5, <1>6
<1>8. Queues' = (Queues \ {closing}) \cup {queue}
  BY <1>2, <1>5 DEF Queues, OneWritePerFill, queue
<1>9. \A i \in DOMAIN queue :
        (i = n /\ queue[i] = w) \/ (i \in DOMAIN closing /\ queue[i] = closing[i] /\ closing \in Queues)
  <2> SUFFICES ASSUME NEW i \in DOMAIN queue, i # n
               PROVE  i \in DOMAIN closing /\ queue[i] = closing[i] /\ closing \in Queues
    BY <1>1
  <2>1. i \in 1..Len(closing)
    BY <1>1 DEF n
  <2>2. closing # <<>>
    BY <2>1
  <2>3. QED
    BY <2>1, <2>2, <1>1 DEF Queues
<1>10. \A q \in Queues' : \A i \in DOMAIN q : q[i].fill < fills'
  <2> SUFFICES ASSUME NEW q \in Queues', NEW i \in DOMAIN q PROVE q[i].fill < fills'
    OBVIOUS
  <2>1. CASE q \in Queues
    BY <2>1, <1>3, <1>4
  <2>2. CASE q = queue
    BY <2>2, <1>3, <1>4, <1>9
  <2>3. QED
    BY <1>8, <2>1, <2>2
<1>11. \A q, r \in Queues' : \A i \in DOMAIN q, j \in DOMAIN r :
         q[i].fill = r[j].fill => q = r /\ i = j
  <2> SUFFICES ASSUME NEW q \in Queues', NEW r \in Queues',
                      NEW i \in DOMAIN q, NEW j \in DOMAIN r, q[i].fill = r[j].fill
               PROVE  q = r /\ i = j
    OBVIOUS
  <2>1. CASE q \in Queues \ {closing} /\ r \in Queues \ {closing}
    BY <2>1 DEF OneWritePerFill
  <2>2. \A u \in Queues \ {closing} : \A k \in DOMAIN queue, l \in DOMAIN u : queue[k].fill # u[l].fill
    BY <1>3, <1>4, <1>9 DEF OneWritePerFill
  <2>3. CASE q = queue /\ r = queue
    BY <2>3, <1>3, <1>4, <1>9 DEF OneWritePerFill
  <2>4. QED
    BY <1>8, <2>1, <2>2, <2>3
<1>12. Pending' = Pending \cup {w}
  <2>1. ASSUME NEW v \in Pending'
        PROVE  v \in Pending \cup {w}
    <3>1. v \in Writes /\ \E q \in Queues' : \E i \in DOMAIN q : q[i] = v
      BY <2>1 DEF Pending
    <3>2. PICK q \in Queues' : \E i \in DOMAIN q : q[i] = v
      BY <3>1
    <3>3. PICK i \in DOMAIN q : q[i] = v
      BY <3>2
    <3>4. CASE q \in Queues
      BY <3>1, <3>3, <3>4 DEF Pending
    <3>5. CASE q = queue
      BY <3>1, <3>3, <3>5, <1>9 DEF Pending
    <3>6. QED
      BY <1>8, <3>4, <3>5
  <2>2. w \in Pending'
    BY <1>1, <1>2, <1>3, <1>8 DEF Pending
  <2>3. ASSUME NEW v \in Pending
        PROVE  v \in Pending'
    <3>1. v \in Writes /\ \E q \in Queues : \E i \in DOMAIN q : q[i] = v
      BY <2>3 DEF Pending
    <3>2. PICK q \in Queues : \E i \in DOMAIN q : q[i] = v
      BY <3>1
    <3>3. PICK i \in DOMAIN q : q[i] = v
      BY <3>2
    <3>4. CASE q # closing
      BY <3>1, <3>3, <3>4, <1>8 DEF Pending
    <3>5. CASE q = closing
      <4>1. i \in DOMAIN queue /\ queue[i] = v
        BY <3>3, <3>5, <1>1 DEF n
      <4>2. QED
        BY <4>1, <3>1, <1>8 DEF Pending
    <3>6. QED
      BY <3>4, <3>5
  <2>4. QED
    BY <2>1, <2>2, <2>3
<1>13. w \notin Pending
  BY <1>3, <1>4, PendingFills
<1>14. QED
  BY <1>7, <1>10, <1>11, <1>12, <1>13 DEF OneWritePerFill

-----------------------------------------------------------------------------
(***************************************************************************)
(* Every step of the runner, as what it does to books, tables and writes   *)
(* in flight.                                                              *)
(***************************************************************************)
Alive == phase \notin {"booting", "down", "refused"}

\* Handlers may overlap, or this one found no write in flight.
Exclusive == Overlap \/ Pending = {}

\* Nothing that matters to money changes.
Idles ==
  /\ UNCHANGED <<books, rows, log, failures>> /\ Pending' = Pending
  /\ Alive' <=> Alive
  /\ (Up' <=> Up) \/ Pending = {}
  /\ liquidating' \subseteq liquidating \/ Exclusive

Starts(w) ==
  /\ UNCHANGED <<rows, log, failures>> /\ Alive /\ Alive' /\ Up /\ Up'
  /\ w \notin Pending /\ Pending' = Pending \cup {w}

Bought ==
  \E s \in Streamed, p \in Prices, by \in Origins :
    Opens(s, p, by) /\ Starts(SaveOf(s, by)) /\ Exclusive /\ liquidating' = {}

Sold ==
  \E s \in Symbols, p \in Nat, by \in Origins :
    /\ Closes(s, p, by) /\ Starts(CloseOf(s, by))
    /\ liquidating' \subseteq liquidating \ {s}
    /\ \/ s \in liquidating /\ p = marks[s]
       \/ s \in Streamed /\ p \in Prices /\ Exclusive

Landed ==
  /\ UNCHANGED <<books, failures, liquidating, phase>>
  /\ \E w \in Pending : Applied(w) /\ Pending' = Pending \ {w}

Failed == failures' = failures + 1 /\ failures < MaxFailures /\ Pending' \subseteq Pending

Died ==
  /\ UNCHANGED <<rows, log, failures>> /\ ~Alive' /\ phase' \in {"booting", "down"}
  /\ Pending' = {}

Resumed ==
  /\ UNCHANGED <<rows, log, failures>> /\ Alive' /\ ~Up /\ Up'
  /\ RestoredCash(rows, log) >= 0
  /\ cash' = RestoredCash(rows, log) /\ positions' = rows /\ trades' = log
  /\ Pending = {} /\ Pending' = {}

Refused ==
  /\ UNCHANGED <<rows, log, failures>> /\ ~Alive' /\ ~Up /\ ~Up'
  /\ ~(RestoredCash(rows, log) >= 0) /\ Pending = {} /\ Pending' = {}

StepKind == Idles \/ Bought \/ Sold \/ Landed \/ Failed \/ Died \/ Resumed \/ Refused

RunnerQueues == RunnerInv /\ OneWritePerFill

LEMMA SignalKind ==
  ASSUME RunnerQueues, NEW signal \in {BUY, SELL}, NEW s \in Streamed, NEW p \in Prices,
         NEW by \in Origins, executeSignal(signal, s, p, by),
         closing = <<>>, liquidating = {}, phase = "ready",
         Overlap \/ tasks = {}, UNCHANGED <<closing, phase, rows, log, failures>>
  PROVE  OneWritePerFill' /\ (Idles \/ Bought \/ Sold)
<1>1. RunnerTyped /\ RunnerShape /\ OneWritePerFill /\ s \in Symbols
  BY RunnerAssumption DEF RunnerQueues, RunnerInv
<1>2. Alive /\ Alive' /\ Up /\ Up' /\ liquidating' = {} /\ Exclusive
  BY NothingInFlight DEF Alive, Up, Exclusive, executeSignal, executeOrder
<1>3. CASE UNCHANGED <<books, tasks, fills>>
  <2>1. OneWritePerFill' /\ Pending' = Pending
    BY <1>1, <1>3, QueueMoves
  <2>2. QED
    BY <2>1, <1>2, <1>3 DEF Idles
<1>4. CASE Opens(s, p, by) /\ fills' = fills + 1 /\ tasks' = tasks \cup {<<SaveOf(s, by)>>}
  <2>1. SaveOf(s, by) \in Writes /\ SaveOf(s, by).fill = fills
    BY <1>4 DEF Opens, Writes, SaveOf
  <2>2. OneWritePerFill' /\ Starts(SaveOf(s, by))
    BY <1>1, <1>2, <1>4, <2>1, QueueStarts DEF Starts
  <2>3. QED
    BY <1>1, <1>2, <1>4, <2>2 DEF Bought
<1>5. CASE Closes(s, p, by) /\ fills' = fills + 1 /\ tasks' = tasks \cup {<<CloseOf(s, by)>>}
  <2>1. CloseOf(s, by) \in Writes /\ CloseOf(s, by).fill = fills
    BY <1>5 DEF Closes, Writes, CloseOf
  <2>2. OneWritePerFill' /\ Starts(CloseOf(s, by))
    BY <1>1, <1>2, <1>5, <2>1, QueueStarts DEF Starts
  <2>3. p \in Nat
    BY <1>5 DEF Closes
  <2>4. QED
    BY <1>1, <1>2, <1>5, <2>2, <2>3 DEF Sold
<1>6. QED
  BY <1>1, <1>3, <1>4, <1>5, SignalFills

LEMMA LiquidationKind ==
  ASSUME RunnerQueues, NEW s \in Symbols, LiquidateNext(s)
  PROVE  OneWritePerFill' /\ (Idles \/ Sold)
<1>1. RunnerTyped /\ RunnerShape /\ OneWritePerFill
  BY DEF RunnerQueues, RunnerInv
<1>2. /\ s \in liquidating /\ liquidating' = liquidating \ {s}
      /\ UNCHANGED <<phase, rows, log, failures>>
  BY DEF LiquidateNext, CloseNext, tables
<1>3. Alive /\ Alive' /\ Up /\ Up' /\ marks[s] \in Nat
  BY <1>1, <1>2 DEF RunnerShape, Alive, Up, RunnerTyped, Typed, BrokerTypeOK
<1> DEFINE queue == IF positions' # positions THEN Append(closing, CloseOf(s, "stop"))
                                              ELSE closing
<1>4. /\ liquidating' = {} => closing' = <<>>
      /\ liquidating' # {} => closing' = queue /\ tasks' = tasks
      /\ liquidating' = {} /\ queue = <<>> => tasks' = tasks
      /\ liquidating' = {} /\ queue # <<>> => tasks' = tasks \cup {queue}
  BY LiquidationQueue
<1>5. CASE UNCHANGED <<books, fills>> /\ positions' = positions
  <2>1. OneWritePerFill' /\ Pending' = Pending
    BY <1>1, <1>4, <1>5, QueueMoves
  <2>2. QED
    BY <2>1, <1>2, <1>3, <1>5 DEF Idles
<1>6. CASE Closes(s, marks[s], "stop") /\ fills' = fills + 1 /\ positions' # positions
  <2> DEFINE w == CloseOf(s, "stop")
  <2>1. w \in CloseWrites /\ w.fill = fills
    BY <1>6 DEF Closes, CloseOf
  <2>2. queue = Append(closing, w)
    BY <1>6
  <2>3. closing \in Seq(CloseWrites) /\ Len(Append(closing, w)) = Len(closing) + 1 /\ Len(closing) \in Nat
    <3>1. closing \in Seq(CloseWrites)
      BY <1>1 DEF RunnerTyped, TasksTyped
    <3> HIDE DEF w, CloseWrites
    <3>2. QED
      BY <3>1, <2>1
  <2> HIDE DEF queue, w
  <2>4. queue # <<>>
    BY <2>2, <2>3
  <2>5. \/ closing' = Append(closing, w) /\ tasks' = tasks
        \/ closing' = <<>> /\ tasks' = tasks \cup {Append(closing, w)}
    BY <1>4, <2>2, <2>4
  <2>6. OneWritePerFill' /\ Pending' = Pending \cup {w} /\ w \notin Pending
    BY <1>1, <1>6, <2>1, <2>5, QueueGrows
  <2>7. Starts(w)
    BY <1>2, <1>3, <2>6 DEF Starts
  <2>8. QED
    BY <1>2, <1>3, <1>6, <2>6, <2>7 DEF Sold, w, Origins
<1>7. QED
  BY <1>1, <1>5, <1>6, LiquidationFills

LEMMA NextKind == RunnerQueues /\ [Next]_vars => OneWritePerFill' /\ StepKind
<1> SUFFICES ASSUME RunnerQueues, [Next]_vars
             PROVE  OneWritePerFill' /\ StepKind
  OBVIOUS
<1> USE DEF StepKind
<1>1. RunnerTyped /\ RunnerShape /\ OneWritePerFill /\ TasksTyped
  BY DEF RunnerQueues, RunnerInv, RunnerTyped
<1>2. ASSUME UNCHANGED <<books, rows, log, failures, closing, tasks, fills>>, Alive' <=> Alive,
             (Up' <=> Up) \/ Pending = {}, liquidating' \subseteq liquidating \/ Exclusive
      PROVE  OneWritePerFill' /\ Idles
  BY <1>1, <1>2, QueueMoves DEF Idles
<1>3. CASE Candles
  <2>1. PICK s \in Streamed, p \in Prices, decision \in {HOLD, BUY, SELL} : onCandle(s, p, decision)
    BY <1>3 DEF Candles
  <2>2. /\ UNCHANGED <<closing, phase, rows, log, failures>> /\ closing = <<>> /\ phase = "ready"
        /\ liquidating = {} /\ (Overlap \/ tasks = {})
    BY <1>1, <2>1 DEF onCandle, MayArrive, RunnerShape, tables
  <2>3. CASE decision \in {BUY, SELL} /\ executeSignal(decision, s, p, "node")
    BY <2>2, <2>3, SignalKind DEF Origins
  <2>4. CASE mark(s, p) /\ UNCHANGED <<tasks, fills>>
    BY <1>2, <2>2, <2>4 DEF mark, Alive, Up
  <2>5. QED
    BY <2>1, <2>3, <2>4 DEF onCandle
<1>4. CASE EngineSignals
  <2>1. PICK s \in Streamed, p \in Prices, action \in {BUY, SELL} : onEngineSignal(s, p, action)
    BY <1>4 DEF EngineSignals
  <2>2. /\ UNCHANGED <<closing, phase, rows, log, failures>> /\ closing = <<>> /\ phase = "ready"
        /\ liquidating = {} /\ (Overlap \/ tasks = {})
    BY <1>1, <2>1 DEF onEngineSignal, MayArrive, RunnerShape, tables
  <2>3. QED
    BY <2>1, <2>2, SignalKind DEF onEngineSignal, Origins
<1>5. CASE startStrategy \/ stopStrategy
  <2>1. Exclusive
    BY <1>1, <1>5, NothingInFlight
    DEF startStrategy, stopStrategy, MayRequest, RunnerShape, Exclusive
  <2>2. QED
    BY <1>2, <1>5, <2>1
    DEF startStrategy, stopStrategy, closeAllPositions, brokerVars, books, tables, Alive, Up
<1>6. CASE Liquidation
  BY <1>6, LiquidationKind DEF Liquidation
<1>7. ASSUME NEW t \in tasks, WriteLands(t)
      PROVE  OneWritePerFill' /\ Landed
  <2>1. /\ tasks' = (tasks \ {t}) \cup (IF Len(t) > 1 THEN {Tail(t)} ELSE {})
        /\ UNCHANGED <<books, failures, liquidating, closing, fills, phase>>
    BY <1>7 DEF WriteLands, brokerVars, books, history
  <2>2. /\ OneWritePerFill' /\ Pending' = Pending \ {t[1]} /\ t[1] \in Pending
    BY <1>1, <2>1, QueueShortens
  <2>3. Applied(t[1])
    BY <1>1, <1>7, TaskHead DEF WriteLands
  <2>4. QED
    BY <2>1, <2>2, <2>3 DEF Landed
<1>8. ASSUME NEW t \in tasks, WriteFails(t)
      PROVE  OneWritePerFill' /\ Failed
  BY <1>1, <1>8, QueueDropped DEF WriteFails, Failed
<1>9. CASE stopStrategyRunner \/ poolEnds \/ exits
  <2>1. CASE exits
    <3>1. Pending = {}
      BY <1>1, <2>1, NothingInFlight DEF exits, RunnerShape
    <3>2. QED
      BY <1>2, <2>1, <3>1 DEF exits, brokerVars, books, tables, Alive
  <2>2. CASE stopStrategyRunner \/ poolEnds
    BY <1>2, <2>2 DEF stopStrategyRunner, poolEnds, brokerVars, books, tables, history, Alive, Up
  <2>3. QED
    BY <1>9, <2>1, <2>2
<1>10. CASE Crash
  <2>1. tasks' = {} /\ closing' = <<>> /\ phase' = "down" /\ UNCHANGED <<rows, log, failures>>
    BY <1>1, <1>10 DEF Crash, RunnerShape
  <2>2. Queues' = {} /\ Pending' = {}
    BY <2>1 DEF Queues, Pending
  <2>3. QED
    BY <2>1, <2>2 DEF OneWritePerFill, Died, Alive
<1>11. CASE startStrategyRunner \/ restores
  <2>1. tasks = {} /\ closing = <<>>
    BY <1>1, <1>11 DEF startStrategyRunner, restores, RunnerShape
  <2>2. UNCHANGED <<rows, log, failures, closing, tasks, fills>>
    BY <1>11 DEF startStrategyRunner, restores, tables, history
  <2>3. OneWritePerFill' /\ Pending' = Pending /\ Pending = {}
    BY <1>1, <2>1, <2>2, QueueMoves, NothingInFlight
  <2>4. CASE startStrategyRunner
    BY <2>2, <2>3, <2>4 DEF startStrategyRunner, Died, Alive
  <2>5. CASE restores /\ RestoredCash(rows, log) >= 0
    BY <2>2, <2>3, <2>5 DEF restores, Resumed, Alive, Up
  <2>6. CASE restores /\ ~(RestoredCash(rows, log) >= 0)
    BY <2>2, <2>3, <2>6 DEF restores, Refused, Alive, Up
  <2>7. QED
    BY <1>11, <2>3, <2>4, <2>5, <2>6
<1>12. CASE UNCHANGED vars
  BY <1>2, <1>12 DEF vars, brokerVars, books, runnerVars, Alive, Up
<1>13. QED
  BY <1>3, <1>4, <1>5, <1>6, <1>7, <1>8, <1>9, <1>10, <1>11, <1>12 DEF Next

LEMMA InitQueues == Init => RunnerQueues /\ Pending = {}
<1> SUFFICES ASSUME Init PROVE RunnerQueues /\ Pending = {}
  OBVIOUS
<1>1. tasks = {} /\ closing = <<>>
  BY DEF Init
<1>2. Queues = {} /\ Pending = {}
  BY <1>1, NothingInFlight
<1>3. QED
  BY <1>1, <1>2, InitRunnerInv DEF RunnerQueues, OneWritePerFill

LEMMA NextQueues == RunnerQueues /\ [Next]_vars => RunnerQueues'
BY NextKind, NextRunnerInv DEF RunnerQueues

-----------------------------------------------------------------------------
(***************************************************************************)
(* The trades table never misses a trade for good: what the broker has     *)
(* realized is what the table has plus the pnl of the writes in flight,    *)
(* however handlers overlap and wherever a crash cuts them off, until a    *)
(* statement throws (persistence.js:36).                                   *)
(***************************************************************************)
PnlIn(w) == IF w.op = "close" THEN w.row.pnl ELSE 0

Owes(ws) == [w \in ws |-> PnlIn(w)]

OwedBy(ws) == SumFunction(Owes(ws))

LogCatchesUp ==
  /\ IsFiniteSet(Pending)
  /\ Alive /\ failures = 0 => realizedPnlOf(trades) = realizedPnlOf(log) + OwedBy(Pending)

LEMMA WriteOwes ==
  ASSUME NEW w \in Writes
  PROVE  /\ PnlIn(w) \in Int
         /\ w \in SaveWrites => PnlIn(w) = 0
         /\ w \in CloseWrites => PnlIn(w) = w.row.pnl /\ w.row \in Trade
<1>1. \A t \in Trade : t.pnl \in Int
  BY DEF Trade
<1>2. w \in SaveWrites => w.op = "save"
  BY DEF SaveWrites
<1>3. w \in CloseWrites => w.op = "close" /\ w.row \in Trade
  BY DEF CloseWrites
<1>4. QED
  BY <1>1, <1>2, <1>3 DEF Writes, PnlIn

LEMMA OneMoreOwed ==
  ASSUME NEW ws \in SUBSET Writes, IsFiniteSet(ws), NEW w \in Writes, w \notin ws
  PROVE  /\ OwedBy(ws) \in Int
         /\ IsFiniteSet(ws \cup {w})
         /\ OwedBy(ws \cup {w}) = OwedBy(ws) + PnlIn(w)
<1>1. IsFiniteSet(ws \cup {w})
  BY FS_AddElement
<1>2. /\ Summable(Owes(ws)) /\ DOMAIN Owes(ws) = ws
      /\ Summable(Owes(ws \cup {w})) /\ DOMAIN Owes(ws \cup {w}) = ws \cup {w}
      /\ \A v \in ws : Owes(ws \cup {w})[v] = Owes(ws)[v]
      /\ Owes(ws \cup {w})[w] = PnlIn(w)
  BY <1>1, WriteOwes DEF Owes, Summable
<1>3. SumFunction(Owes(ws \cup {w})) = SumFunction(Owes(ws)) + Owes(ws \cup {w})[w]
  BY <1>2, SumExtends
<1>4. QED
  BY <1>1, <1>2, <1>3, SumType DEF OwedBy

LEMMA NothingOwed == OwedBy({}) = 0
BY SumOfNothing DEF OwedBy, Owes

LEMMA PnlLogged ==
  ASSUME NEW ts \in Seq(Trade), NEW t \in Trade, NEW n
  PROVE  [t EXCEPT !.id = n].pnl = t.pnl
BY DEF Trade

LEMMA NextCatchesUp == RunnerQueues /\ LogCatchesUp /\ [Next]_vars => LogCatchesUp'
<1> SUFFICES ASSUME RunnerQueues, LogCatchesUp, [Next]_vars
             PROVE  LogCatchesUp'
  OBVIOUS
<1>1. /\ IsFiniteSet(Pending) /\ Pending \in SUBSET Writes
      /\ trades \in Seq(Trade) /\ log \in Seq(Trade) /\ failures \in Nat /\ TablesTyped
  BY DEF LogCatchesUp, Pending, RunnerQueues, RunnerInv, RunnerTyped, Typed, BrokerTypeOK,
         TablesTyped, TasksTyped
<1>2. realizedPnlOf(trades) \in Int /\ realizedPnlOf(log) \in Int
  BY <1>1, RealizedType
<1>3. CASE Idles
  BY <1>3 DEF Idles, LogCatchesUp, books
<1>4. CASE Bought
  <2>1. PICK s \in Streamed, p \in Prices, by \in Origins : Opens(s, p, by) /\ Starts(SaveOf(s, by))
    BY <1>4 DEF Bought
  <2>2. trades' = trades /\ SaveOf(s, by) \in SaveWrites
    BY <2>1 DEF Opens, BuyFills, openLong
  <2> DEFINE w == SaveOf(s, by)
  <2>3. w \in Writes /\ PnlIn(w) = 0
    BY <2>2, WriteOwes DEF Writes
  <2> HIDE DEF w
  <2>4. w \notin Pending /\ Pending' = Pending \cup {w} /\ Alive /\ UNCHANGED <<log, failures>>
    BY <2>1 DEF Starts, w
  <2>5. IsFiniteSet(Pending') /\ OwedBy(Pending') = OwedBy(Pending) /\ OwedBy(Pending) \in Int
    <3>1. /\ OwedBy(Pending) \in Int /\ IsFiniteSet(Pending \cup {w})
          /\ OwedBy(Pending \cup {w}) = OwedBy(Pending) + PnlIn(w)
      BY <1>1, <2>3, <2>4, OneMoreOwed
    <3>2. QED
      BY <2>3, <2>4, <3>1
  <2>6. QED
    BY <2>2, <2>4, <2>5 DEF LogCatchesUp
<1>5. CASE Sold
  <2>1. PICK s \in Symbols, p \in Nat, by \in Origins : Closes(s, p, by) /\ Starts(CloseOf(s, by))
    BY <1>5 DEF Sold
  <2>2. closeLong(s, p) /\ CloseOf(s, by) \in CloseWrites /\ CloseOf(s, by).row = TradeOf(s, p)
    BY <2>1 DEF Closes
  <2>3. trades' = Append(trades, TradeOf(s, p)) /\ TradeOf(s, p) \in Trade
    BY <2>2, CloseTyped DEF RunnerQueues, RunnerInv, RunnerTyped
  <2> DEFINE w == CloseOf(s, by)
             sold == TradeOf(s, p)
  <2>4. w \in Writes /\ PnlIn(w) = sold.pnl
    BY <2>2, WriteOwes DEF Writes
  <2> HIDE DEF w, sold
  <2>5. w \notin Pending /\ Pending' = Pending \cup {w} /\ Alive /\ UNCHANGED <<log, failures>>
    BY <2>1 DEF Starts, w
  <2>6. IsFiniteSet(Pending') /\ OwedBy(Pending') = OwedBy(Pending) + sold.pnl /\ OwedBy(Pending) \in Int
    BY <1>1, <2>4, <2>5, OneMoreOwed
  <2>7. realizedPnlOf(trades') = realizedPnlOf(trades) + sold.pnl /\ sold.pnl \in Int
    BY <1>1, <2>3, RealizedAppends DEF sold, Trade
  <2>8. QED
    BY <1>2, <2>5, <2>6, <2>7 DEF LogCatchesUp
<1>6. CASE Landed
  <2>1. /\ trades' = trades /\ failures' = failures /\ (Alive <=> Alive')
    BY <1>6 DEF Landed, books, Alive
  <2>2. PICK w \in Pending : Applied(w) /\ Pending' = Pending \ {w}
    BY <1>6 DEF Landed
  <2>3. w \in Writes /\ Pending' \in SUBSET Writes /\ w \notin Pending' /\ Pending = Pending' \cup {w}
    BY <1>1, <2>2
  <2>4. IsFiniteSet(Pending')
    BY <1>1, <2>2, FS_Subset
  <2>5. OwedBy(Pending) = OwedBy(Pending') + PnlIn(w) /\ OwedBy(Pending') \in Int
    BY <2>3, <2>4, OneMoreOwed
  <2>6. realizedPnlOf(log') = realizedPnlOf(log) + PnlIn(w)
    <3>1. CASE w \in SaveWrites
      <4>1. PnlIn(w) = 0
        BY <3>1, <2>3, WriteOwes
      <4>2. log' = log
        BY <3>1, <1>1, <2>2, <2>3, AppliedEffect
      <4>3. QED
        BY <1>2, <4>1, <4>2
    <3>2. CASE w \in CloseWrites
      <4> DEFINE t == [w.row EXCEPT !.id = serial]
      <4>1. t \in Trade /\ log' = Append(log, t)
        BY <3>2, <1>1, <2>2, <2>3, AppliedEffect
      <4>2. t.pnl = PnlIn(w)
        BY <3>2, <1>1, <2>3, WriteOwes, PnlLogged
      <4> HIDE DEF t
      <4>3. QED
        BY <4>1, <4>2, <1>1, RealizedAppends
    <3>3. QED
      BY <3>1, <3>2, <2>3 DEF Writes
  <2>7. PnlIn(w) \in Int
    BY <2>3, WriteOwes
  <2>8. QED
    BY <1>2, <2>1, <2>4, <2>5, <2>6, <2>7 DEF LogCatchesUp
<1>7. CASE Failed
  BY <1>1, <1>7, FS_Subset DEF Failed, LogCatchesUp
<1>8. CASE Died
  BY <1>8, FS_EmptySet DEF Died, LogCatchesUp
<1>9. CASE Resumed
  <2>1. trades' = log /\ log' = log /\ Pending' = {}
    BY <1>9 DEF Resumed
  <2>2. QED
    BY <1>2, <2>1, FS_EmptySet, NothingOwed DEF LogCatchesUp
<1>10. CASE Refused
  BY <1>10, FS_EmptySet DEF Refused, LogCatchesUp
<1>11. QED
  BY <1>3, <1>4, <1>5, <1>6, <1>7, <1>8, <1>9, <1>10, NextKind DEF StepKind

\* However writes overlap and crashes cut them off: when none is outstanding and no
\* statement has thrown, the trades table has realized what the broker has
\* (persistence.js:36-62).
THEOREM LogMissesNoTrade == Spec => []TradeLogComplete
<1>1. Init => LogCatchesUp
  <2> SUFFICES ASSUME Init PROVE LogCatchesUp
    OBVIOUS
  <2>1. Pending = {} /\ ~Alive
    BY InitQueues DEF Init, Alive
  <2>2. QED
    BY <2>1, FS_EmptySet DEF LogCatchesUp
<1>2. RunnerQueues /\ LogCatchesUp => TradeLogComplete
  <2> SUFFICES ASSUME RunnerQueues, LogCatchesUp, Quiet, failures = 0
               PROVE  realizedPnlOf(log) = realizedPnlOf(trades)
    BY DEF TradeLogComplete
  <2>1. tasks = {} /\ closing = <<>> /\ Alive /\ log \in Seq(Trade)
    BY DEF Quiet, Up, Alive, RunnerQueues, RunnerInv, RunnerShape, RunnerTyped, TablesTyped
  <2>2. Pending = {}
    BY <2>1, NothingInFlight
  <2>3. QED
    BY <2>1, <2>2, NothingOwed, RealizedType DEF LogCatchesUp
<1>3. QED
  BY InitQueues, NextQueues, NextCatchesUp, <1>1, <1>2, PTL DEF Spec

-----------------------------------------------------------------------------
(***************************************************************************)
(* Handlers one at a time, no statement refused: the tables are then the   *)
(* books but for the writes in flight, at most one for every symbol.  A    *)
(* write of a position is alone in flight; the writes of a liquidation may *)
(* be many, and whichever of them a crash cuts off, what the tables hold   *)
(* can be resumed.                                                         *)
(***************************************************************************)
Serialized == ~Overlap /\ MaxFailures = 0

\* What a write in flight says of its symbol.
Awaited(w) ==
  /\ w \in SaveWrites => rows[w.symbol] = Flat /\ positions[w.symbol] = w.row
  /\ w \in CloseWrites =>
       /\ positions[w.symbol] = Flat
       /\ w.row.exitPrice \in Nat
       /\ w.row.pnl = (w.row.exitPrice - rows[w.symbol].entryPrice) * rows[w.symbol].quantity

Untouched(s) == \A w \in Pending : w.symbol # s

WritesApart ==
  /\ \A v, w \in Pending : v.symbol = w.symbol => v = w
  /\ \A w \in Pending : w.symbol \notin liquidating
  /\ \A w \in Pending : w \in SaveWrites => Pending = {w} /\ liquidating = {}
  /\ ~Alive => Pending = {}

TablesFollow ==
  /\ Alive => \A s \in Symbols : Untouched(s) => rows[s] = positions[s]
  /\ \A w \in Pending : Awaited(w)

NoneRefused ==
  /\ failures = 0 /\ phase # "refused"
  /\ RestoredCash(rows, log) >= 0
  /\ Alive => CashBalances

SerialInv == WritesApart /\ TablesFollow /\ NoneRefused

LEMMA SavesDiffer == \A w \in Writes : ~(w \in SaveWrites /\ w \in CloseWrites)
<1>1. \A w \in SaveWrites : w.op = "save"
  BY DEF SaveWrites
<1>2. \A w \in CloseWrites : w.op = "close"
  BY DEF CloseWrites
<1>3. QED
  BY <1>1, <1>2

LEMMA NextApart ==
  ASSUME Serialized, RunnerQueues, SerialInv, [Next]_vars
  PROVE  WritesApart'
<1>1. failures = 0 /\ WritesApart
  BY DEF SerialInv, NoneRefused
<1>2. ~Failed
  BY <1>1 DEF Failed, Serialized
<1>3. CASE Idles
  BY <1>1, <1>3 DEF Idles, WritesApart, Exclusive, Serialized
<1>4. CASE Bought
  <2>1. PICK s \in Streamed, p \in Prices, by \in Origins :
          Opens(s, p, by) /\ Starts(SaveOf(s, by)) /\ Exclusive /\ liquidating' = {}
    BY <1>4 DEF Bought
  <2>2. Pending = {} /\ Pending' = {SaveOf(s, by)} /\ liquidating' = {} /\ Alive'
    BY <2>1 DEF Exclusive, Serialized, Starts
  <2>3. QED
    BY <2>2 DEF WritesApart
<1>5. CASE Sold
  <2>1. PICK s \in Symbols, p \in Nat, by \in Origins :
          /\ Closes(s, p, by) /\ Starts(CloseOf(s, by))
          /\ liquidating' \subseteq liquidating \ {s}
          /\ \/ s \in liquidating /\ p = marks[s]
             \/ s \in Streamed /\ p \in Prices /\ Exclusive
    BY <1>5 DEF Sold
  <2> DEFINE w == CloseOf(s, by)
  <2>2. w \in CloseWrites /\ w \notin SaveWrites /\ w.symbol = s
    BY <2>1, SavesDiffer DEF Closes, Writes, CloseOf
  <2> HIDE DEF w
  <2>3. Pending' = Pending \cup {w} /\ Alive'
    BY <2>1 DEF Starts, w
  <2>4. Untouched(s)
    BY <1>1, <2>1 DEF WritesApart, Exclusive, Serialized, Untouched
  <2>5. \A v \in Pending : v \notin SaveWrites
    BY <1>1, <2>1 DEF WritesApart, Exclusive, Serialized
  <2>6. \A u, v \in Pending' : u.symbol = v.symbol => u = v
    BY <1>1, <2>2, <2>3, <2>4 DEF WritesApart, Untouched
  <2>7. \A v \in Pending' : v.symbol \notin liquidating'
    BY <1>1, <2>1, <2>2, <2>3 DEF WritesApart
  <2>8. QED
    BY <2>2, <2>3, <2>5, <2>6, <2>7 DEF WritesApart
<1>6. CASE Landed
  <2>1. PICK w \in Pending : Pending' = Pending \ {w}
    BY <1>6 DEF Landed
  <2>2. liquidating' = liquidating /\ (Alive' <=> Alive)
    BY <1>6 DEF Landed, Alive
  <2>3. QED
    BY <1>1, <2>1, <2>2 DEF WritesApart
<1>7. CASE Died \/ Resumed \/ Refused
  <2>1. Pending' = {}
    BY <1>7 DEF Died, Resumed, Refused
  <2>2. QED
    BY <2>1 DEF WritesApart
<1>8. QED
  BY <1>2, <1>3, <1>4, <1>5, <1>6, <1>7, NextKind DEF StepKind

LEMMA NextFollow ==
  ASSUME Serialized, RunnerQueues, SerialInv, [Next]_vars
  PROVE  TablesFollow'
<1>1. failures = 0 /\ WritesApart /\ TablesFollow /\ Typed /\ TablesTyped
  BY DEF SerialInv, NoneRefused, RunnerQueues, RunnerInv, RunnerTyped
<1>2. ~Failed
  BY <1>1 DEF Failed, Serialized
<1>3. CASE Idles
  BY <1>1, <1>3 DEF Idles, TablesFollow, Untouched, Awaited, books
<1>4. CASE Bought
  <2>1. PICK s \in Streamed, p \in Prices, by \in Origins :
          Opens(s, p, by) /\ Starts(SaveOf(s, by)) /\ Exclusive /\ liquidating' = {}
    BY <1>4 DEF Bought
  <2>w. PICK w \in SaveWrites : w = SaveOf(s, by)
    BY <2>1 DEF Opens
  <2>2. /\ w \in SaveWrites /\ w \notin CloseWrites /\ w.symbol = s
        /\ w.row = positions'[s] /\ positions[s] = Flat
    BY <2>1, <2>w, SavesDiffer DEF Opens, Writes, SaveOf
  <2>3. Pending = {} /\ Pending' = {w} /\ rows' = rows /\ Alive
    BY <2>1, <2>w DEF Exclusive, Serialized, Starts
  <2>4. rows = positions
    BY <1>1, <2>3 DEF TablesFollow, Untouched, Typed, BrokerTypeOK, TablesTyped
  <2>5. \A r \in Symbols \ {s} : positions'[r] = positions[r]
    BY <1>1, <2>1 DEF Opens, BuyFills, openLong, Typed, BrokerTypeOK
  <2>6. \A r \in Symbols : Untouched(r)' => rows'[r] = positions'[r]
    BY <2>2, <2>3, <2>4, <2>5 DEF Untouched
  <2>7. Awaited(w)'
    BY <2>2, <2>3, <2>4 DEF Awaited
  <2>8. QED
    BY <2>3, <2>6, <2>7 DEF TablesFollow
<1>5. CASE Sold
  <2>1. PICK s \in Symbols, p \in Nat, by \in Origins :
          /\ Closes(s, p, by) /\ Starts(CloseOf(s, by))
          /\ liquidating' \subseteq liquidating \ {s}
          /\ \/ s \in liquidating /\ p = marks[s]
             \/ s \in Streamed /\ p \in Prices /\ Exclusive
    BY <1>5 DEF Sold
  <2>w. PICK w \in CloseWrites : w = CloseOf(s, by)
    BY <2>1 DEF Closes
  <2>2. /\ w \in CloseWrites /\ w \notin SaveWrites /\ w.symbol = s
        /\ w.row = TradeOf(s, p)
        /\ positions' = [positions EXCEPT ![s] = Flat]
    BY <2>1, <2>w, SavesDiffer DEF Closes, Writes, CloseOf
  <2>3. w.row.exitPrice = p /\ w.row.pnl = (p - positions[s].entryPrice) * positions[s].quantity
    BY <2>2 DEF TradeOf, pnlOf
  <2>4. Pending' = Pending \cup {w} /\ rows' = rows /\ Alive
    BY <2>1, <2>w DEF Starts
  <2>5. rows[s] = positions[s]
    <3>1. Untouched(s)
      BY <1>1, <2>1 DEF WritesApart, Exclusive, Serialized, Untouched
    <3>2. QED
      BY <1>1, <2>4, <3>1 DEF TablesFollow
  <2>6. /\ positions'[s] = Flat
        /\ \A r \in Symbols \ {s} : positions'[r] = positions[r]
    BY <1>1, <2>2 DEF Typed, BrokerTypeOK
  <2>7. \A r \in Symbols : Untouched(r)' => rows'[r] = positions'[r]
    BY <1>1, <2>2, <2>4, <2>6 DEF Untouched, TablesFollow
  <2>8. Awaited(w)'
    BY <2>2, <2>3, <2>4, <2>5, <2>6 DEF Awaited
  <2>9. ASSUME NEW v \in Pending
        PROVE  Awaited(v)'
    <3>1. v.symbol \in Symbols /\ v.symbol # s
      <4>1. v.symbol \in Symbols
        BY DEF Pending, Writes, SaveWrites, CloseWrites
      <4>2. v.symbol # s
        BY <1>1, <2>1 DEF WritesApart, Exclusive, Serialized
      <4>3. QED
        BY <4>1, <4>2
    <3>2. positions'[v.symbol] = positions[v.symbol]
      BY <2>6, <3>1
    <3>3. QED
      BY <1>1, <2>4, <3>2 DEF TablesFollow, Awaited
  <2>10. QED
    BY <2>4, <2>7, <2>8, <2>9 DEF TablesFollow
<1>6. CASE Landed
  <2>1. positions' = positions /\ (Alive' <=> Alive)
    BY <1>6 DEF Landed, Alive, books
  <2>2. PICK w \in Pending : Applied(w) /\ Pending' = Pending \ {w}
    BY <1>6 DEF Landed
  <2>3. w \in Writes /\ w.symbol \in Symbols
    BY DEF Pending, Writes, SaveWrites, CloseWrites
  <2>4. /\ rows'[w.symbol] = positions[w.symbol]
        /\ \A r \in Symbols \ {w.symbol} : rows'[r] = rows[r]
    <3>1. Awaited(w) /\ rows \in [Symbols -> Position]
      BY <1>1 DEF TablesFollow, TablesTyped
    <3>2. CASE w \in SaveWrites
      <4>1. rows' = [rows EXCEPT ![w.symbol] = w.row]
        BY <3>1, <3>2, <2>2, <2>3, <1>1, AppliedEffect DEF Awaited
      <4>2. QED
        BY <3>1, <3>2, <4>1, <2>3 DEF Awaited
    <3>3. CASE w \in CloseWrites
      <4>1. rows' = [rows EXCEPT ![w.symbol] = Flat]
        BY <3>3, <2>2, <2>3, <1>1, AppliedEffect
      <4>2. QED
        BY <3>1, <3>3, <4>1, <2>3 DEF Awaited
    <3>4. QED
      BY <3>2, <3>3, <2>3 DEF Writes
  <2>5. ASSUME NEW v \in Pending'
        PROVE  Awaited(v)'
    <3>1. v \in Pending /\ v.symbol # w.symbol
      BY <1>1, <2>2 DEF WritesApart
    <3>2. v.symbol \in Symbols
      BY <3>1 DEF Pending, Writes, SaveWrites, CloseWrites
    <3>3. rows'[v.symbol] = rows[v.symbol]
      BY <2>4, <3>1, <3>2
    <3>4. QED
      BY <1>1, <2>1, <3>1, <3>3 DEF TablesFollow, Awaited
  <2>6. \A r \in Symbols : Alive /\ Untouched(r)' => rows'[r] = positions'[r]
    BY <1>1, <2>1, <2>2, <2>4 DEF Untouched, TablesFollow
  <2>7. QED
    BY <2>1, <2>5, <2>6 DEF TablesFollow
<1>7. CASE Died \/ Refused
  <2>1. Pending' = {} /\ ~Alive'
    BY <1>7 DEF Died, Refused
  <2>2. QED
    BY <2>1 DEF TablesFollow
<1>8. CASE Resumed
  <2>1. Pending' = {} /\ rows' = positions'
    BY <1>8 DEF Resumed
  <2>2. QED
    BY <2>1 DEF TablesFollow
<1>9. QED
  BY <1>2, <1>3, <1>4, <1>5, <1>6, <1>7, <1>8, NextKind DEF StepKind

\* Only a restart that finds less than nothing to resume is refused.
LEMMA RefusalIsEarned ==
  ASSUME [Next]_vars, phase # "refused", phase' = "refused"
  PROVE  ~(RestoredCash(rows, log) >= 0)
<1>1. ASSUME NEW t \in tasks, WriteLands(t) \/ WriteFails(t)
      PROVE  phase' = phase
  BY <1>1 DEF WriteLands, WriteFails
<1>2. CASE Candles \/ EngineSignals \/ Liquidation \/ UNCHANGED vars
  BY <1>2 DEF Candles, onCandle, EngineSignals, onEngineSignal, Liquidation, LiquidateNext,
              vars, runnerVars
<1>3. CASE startStrategy \/ stopStrategy \/ stopStrategyRunner \/ poolEnds \/ exits \/ Crash
  BY <1>3 DEF startStrategy, stopStrategy, stopStrategyRunner, poolEnds, exits, Crash
<1>4. CASE startStrategyRunner \/ restores
  BY <1>4 DEF startStrategyRunner, restores
<1>5. QED
  BY <1>1, <1>2, <1>3, <1>4 DEF Next

\* With nothing in flight the tables would restore exactly what the process holds.
LEMMA QuietRestores ==
  ASSUME RunnerQueues, LogCatchesUp, SerialInv, Alive, Pending = {}
  PROVE  /\ rows = positions /\ realizedPnlOf(log) = realizedPnlOf(trades)
         /\ RestoredCash(rows, log) = cash
<1>1. /\ rows \in [Symbols -> Position] /\ positions \in [Symbols -> Position]
      /\ log \in Seq(Trade)
  BY DEF RunnerQueues, RunnerInv, RunnerTyped, Typed, BrokerTypeOK, TablesTyped
<1>2. \A s \in Symbols : rows[s] = positions[s]
  BY DEF SerialInv, TablesFollow, Untouched
<1>3. rows = positions
  BY <1>1, <1>2
<1>4. realizedPnlOf(trades) = realizedPnlOf(log) + 0
  BY NothingOwed DEF LogCatchesUp, SerialInv, NoneRefused
<1>5. realizedPnlOf(log) = realizedPnlOf(trades)
  BY <1>1, <1>4, RealizedType
<1>6. QED
  BY <1>3, <1>5 DEF SerialInv, NoneRefused, CashBalances, RestoredCash

LEMMA NextResumable ==
  ASSUME Serialized, RunnerQueues, LogCatchesUp, SerialInv, [Next]_vars
  PROVE  NoneRefused'
<1>1. /\ failures = 0 /\ WritesApart /\ TablesFollow /\ Typed /\ TablesTyped
      /\ phase # "refused" /\ RestoredCash(rows, log) >= 0 /\ (Alive => CashBalances)
  BY DEF SerialInv, NoneRefused, RunnerQueues, RunnerInv, RunnerTyped
<1>2. ~Failed /\ ~Refused
  BY <1>1 DEF Failed, Refused, Serialized
<1>3. phase' # "refused"
  BY <1>1, RefusalIsEarned
<1>4. CASE Idles
  BY <1>1, <1>3, <1>4 DEF Idles, NoneRefused, CashBalances, books
<1>5. CASE Bought
  <2>1. PICK s \in Streamed, p \in Prices, by \in Origins : BuyFills(s, p) /\ Starts(SaveOf(s, by))
    BY <1>5 DEF Bought, Opens
  <2>2. UNCHANGED <<rows, log, failures>> /\ CashBalances /\ s \in Symbols /\ p \in Nat
    BY <1>1, <2>1, RunnerAssumption, BrokerAssumption DEF Starts
  <2>3. CashBalances'
    BY <1>1, <2>1, <2>2, OpenBalances
  <2>4. QED
    BY <1>1, <1>3, <2>2, <2>3 DEF NoneRefused
<1>6. CASE Sold
  <2>1. PICK s \in Symbols, p \in Nat, by \in Origins : closeLong(s, p) /\ Starts(CloseOf(s, by))
    BY <1>6 DEF Sold, Closes
  <2>2. UNCHANGED <<rows, log, failures>> /\ CashBalances
    BY <1>1, <2>1 DEF Starts
  <2>3. CashBalances'
    BY <1>1, <2>1, <2>2, CloseBalances
  <2>4. QED
    BY <1>1, <1>3, <2>2, <2>3 DEF NoneRefused
<1>7. CASE Landed
  <2>1. UNCHANGED books /\ failures' = failures /\ (Alive' <=> Alive)
    BY <1>7 DEF Landed, Alive
  <2>2. PICK w \in Pending : Applied(w) /\ Pending' = Pending \ {w}
    BY <1>7 DEF Landed
  <2>3. w \in Writes /\ w.symbol \in Symbols
    BY DEF Pending, Writes, SaveWrites, CloseWrites
  <2>4. Alive' => CashBalances'
    BY <1>1, <2>1 DEF CashBalances, books
  <2>5. CASE w \in SaveWrites
    <3>1. Pending = {w} /\ Pending' = {} /\ Alive /\ Alive'
      BY <1>1, <2>1, <2>2, <2>5 DEF WritesApart
    <3>2. LogCatchesUp' /\ TablesFollow' /\ TablesTyped' /\ Typed'
      BY NextCatchesUp, NextFollow, NextRunnerInv DEF RunnerQueues, RunnerInv, RunnerTyped
    <3>3. rows' = positions'
      BY <3>1, <3>2 DEF TablesFollow, Untouched, TablesTyped, Typed, BrokerTypeOK
    <3>4. realizedPnlOf(trades') = realizedPnlOf(log') + 0 /\ realizedPnlOf(log') \in Int
      BY <1>1, <2>1, <3>1, <3>2, NothingOwed, RealizedType DEF LogCatchesUp, TablesTyped
    <3>5. realizedPnlOf(log') = realizedPnlOf(trades')
      BY <3>4
    <3>6. RestoredCash(rows', log') = cash'
      BY <2>4, <3>1, <3>3, <3>5 DEF CashBalances, RestoredCash
    <3>7. cash' >= 0
      BY <3>2 DEF Typed, CashNeverNegative
    <3>8. QED
      BY <1>1, <1>3, <2>1, <2>4, <3>6, <3>7 DEF NoneRefused
  <2>6. CASE w \in CloseWrites
    <3> DEFINE sym  == w.symbol
               t    == [w.row EXCEPT !.id = serial]
               cost == rows[sym].entryPrice * rows[sym].quantity
               got  == w.row.exitPrice * rows[sym].quantity
    <3>1. rows' = [rows EXCEPT ![sym] = Flat] /\ t \in Trade /\ log' = Append(log, t)
      BY <1>1, <2>2, <2>3, <2>6, AppliedEffect
    <3>2. /\ w.row.exitPrice \in Nat
          /\ w.row.pnl = (w.row.exitPrice - rows[sym].entryPrice) * rows[sym].quantity
      BY <1>1, <2>6 DEF TablesFollow, Awaited
    <3>3. t.pnl = w.row.pnl
      BY <1>1, <2>6, <2>3, WriteOwes, PnlLogged
    <3>4. rows[sym] \in Position /\ rows \in [Symbols -> Position] /\ log \in Seq(Trade)
      BY <1>1, <2>3 DEF TablesTyped
    <3>5. rows[sym].entryPrice \in Nat /\ rows[sym].quantity \in Nat
      BY <3>4 DEF Position
    <3>6. cost \in Nat /\ got \in Nat /\ got = cost + t.pnl
      <4> HIDE DEF t
      <4>1. cost \in Nat /\ got \in Nat
        BY <3>2, <3>5
      <4>2. w.row.exitPrice \in Int /\ rows[sym].entryPrice \in Int /\ rows[sym].quantity \in Int
        BY <3>2, <3>5
      <4>3. got = cost + (w.row.exitPrice - rows[sym].entryPrice) * rows[sym].quantity
        BY <4>2, CloseCancels
      <4>4. QED
        BY <4>1, <4>3, <3>2, <3>3
    <3>7. costBasisOf(rows') = costBasisOf(rows) + (0 - cost)
      BY <2>3, <3>1, <3>4, CostBasisChanges, FlatCostsNothing
    <3>8. t.pnl \in Int
      BY <3>1 DEF Trade
    <3> HIDE DEF t, cost, got
    <3>9. realizedPnlOf(log') = realizedPnlOf(log) + t.pnl
      BY <3>1, <3>4, RealizedAppends
    <3>10. costBasisOf(rows) \in Int /\ realizedPnlOf(log) \in Int /\ StartingBalance \in Int
      BY <3>4, CostBasisType, RealizedType, BrokerAssumption
    <3>11. RestoredCash(rows', log') = RestoredCash(rows, log) + got
      BY <3>6, <3>7, <3>8, <3>9, <3>10 DEF RestoredCash
    <3>12. RestoredCash(rows, log) \in Int
      BY <3>4, RestoredCashType
    <3>13. QED
      BY <1>1, <1>3, <2>1, <2>4, <3>6, <3>11, <3>12 DEF NoneRefused
  <2>7. QED
    BY <2>3, <2>5, <2>6 DEF Writes
<1>8. CASE Died
  BY <1>1, <1>3, <1>8 DEF Died, NoneRefused
<1>9. CASE Resumed
  BY <1>1, <1>3, <1>9 DEF Resumed, NoneRefused, CashBalances
<1>10. QED
  BY <1>2, <1>4, <1>5, <1>6, <1>7, <1>8, <1>9, NextKind DEF StepKind

LEMMA InitSerial == Init => LogCatchesUp /\ SerialInv
<1> SUFFICES ASSUME Init PROVE LogCatchesUp /\ SerialInv
  OBVIOUS
<1>1. Pending = {} /\ failures = 0 /\ phase = "booting" /\ ~Alive
  BY InitQueues DEF Init, Alive
<1>2. RestoredCash(rows, log) >= 0
  BY DEF Init
<1>3. LogCatchesUp
  BY <1>1, FS_EmptySet DEF LogCatchesUp
<1>4. QED
  BY <1>1, <1>2, <1>3 DEF SerialInv, WritesApart, TablesFollow, NoneRefused, Alive

LEMMA NextSerial ==
  ASSUME Serialized
  PROVE  RunnerQueues /\ LogCatchesUp /\ SerialInv /\ [Next]_vars => SerialInv'
BY NextApart, NextFollow, NextResumable DEF SerialInv

(***************************************************************************)
(* With one handler at a time and a database that answers, the tables are  *)
(* the books whenever no write is outstanding and after a clean exit       *)
(* (PaperBroker.js:157, persistence.js:36), and every restart resumes      *)
(* (PaperBroker.js:173).                                                   *)
(***************************************************************************)
THEOREM TablesAreTheBooks == ASSUME Serialized PROVE Spec => []BooksAgree
<1>1. RunnerQueues /\ LogCatchesUp /\ SerialInv => BooksAgree
  <2> SUFFICES ASSUME RunnerQueues, LogCatchesUp, SerialInv, Quiet
               PROVE  rows = positions /\ realizedPnlOf(log) = realizedPnlOf(trades)
    BY DEF BooksAgree
  <2>1. tasks = {} /\ closing = <<>> /\ Alive
    BY DEF Quiet, Up, Alive, RunnerQueues, RunnerInv, RunnerShape
  <2>2. QED
    BY <2>1, NothingInFlight, QuietRestores
<1>2. QED
  BY InitQueues, NextQueues, NextCatchesUp, InitSerial, NextSerial, <1>1, PTL DEF Spec

\* With one handler at a time and a database that answers, the books a crash leaves
\* in the tables are never refused at the restart (PaperBroker.js:173).
THEOREM RestartResumes == ASSUME Serialized PROVE Spec => []RestartNeverRefused
<1>1. SerialInv => RestartNeverRefused
  BY DEF SerialInv, NoneRefused, RestartNeverRefused
<1>2. QED
  BY InitQueues, NextQueues, NextCatchesUp, InitSerial, NextSerial, <1>1, PTL DEF Spec

-----------------------------------------------------------------------------
(***************************************************************************)
(* Candles carry one symbol, as they do in the server (SYMBOL): then at    *)
(* most one write is in flight, and broker and tables together are a       *)
(* durable ledger.  A fill is a fill of the ledger, a statement that takes *)
(* effect makes the ledger durable, a crash falls back on the copy, and    *)
(* every other step, a restart too, changes neither.                       *)
(***************************************************************************)
OneStream == \A s, r \in Streamed : s = r

MarksAreStreamed ==
  \A s \in Symbols : marks[s] # 0 => s \in Streamed /\ marks[s] \in Prices

WritesAreStreamed == \A w \in Pending : w.symbol \in Streamed

LEMMA MarkedIsStreamed ==
  ASSUME RunnerTyped, MarksAreStreamed, NEW s \in Streamed, NEW p \in Prices,
         marks' = Marked(s, p)
  PROVE  MarksAreStreamed'
<1>1. marks \in [Symbols -> Nat] /\ s \in Symbols
  BY RunnerAssumption DEF RunnerTyped, Typed, BrokerTypeOK
<1>2. \A r \in Symbols : marks'[r] = marks[r] \/ (r = s /\ marks'[r] = p)
  BY <1>1 DEF Marked
<1>3. QED
  BY <1>2 DEF MarksAreStreamed

LEMMA NextMarks == RunnerTyped /\ MarksAreStreamed /\ [Next]_vars => MarksAreStreamed'
<1> SUFFICES ASSUME RunnerTyped, MarksAreStreamed, [Next]_vars
             PROVE  MarksAreStreamed'
  OBVIOUS
<1>1. CASE marks' = marks
  BY <1>1 DEF MarksAreStreamed
<1>2. CASE Blank
  BY <1>2 DEF Blank, newBroker, MarksAreStreamed
<1>3. CASE Candles
  <2>1. PICK s \in Streamed, p \in Prices, decision \in {HOLD, BUY, SELL} : onCandle(s, p, decision)
    BY <1>3 DEF Candles
  <2>2. marks' = Marked(s, p)
    BY <2>1 DEF onCandle, executeSignal, executeOrder, mark
  <2>3. QED
    BY <2>2, MarkedIsStreamed
<1>4. CASE EngineSignals
  <2>1. PICK s \in Streamed, p \in Prices, action \in {BUY, SELL} : onEngineSignal(s, p, action)
    BY <1>4 DEF EngineSignals
  <2>2. marks' = Marked(s, p)
    BY <2>1 DEF onEngineSignal, executeSignal, executeOrder
  <2>3. QED
    BY <2>2, MarkedIsStreamed
<1>5. CASE startStrategy \/ stopStrategy \/ Liquidation
  <2>1. marks' = marks
    BY <1>5 DEF startStrategy, stopStrategy, closeAllPositions, Liquidation, LiquidateNext, CloseNext,
                brokerVars
  <2>2. QED
    BY <2>1, <1>1
<1>6. ASSUME NEW t \in tasks, WriteLands(t) \/ WriteFails(t)
      PROVE  MarksAreStreamed'
  <2>1. marks' = marks
    BY <1>6 DEF WriteLands, WriteFails, brokerVars
  <2>2. QED
    BY <2>1, <1>1
<1>7. CASE stopStrategyRunner \/ poolEnds \/ exits \/ UNCHANGED vars
  <2>1. marks' = marks
    BY <1>7 DEF stopStrategyRunner, poolEnds, exits, vars, brokerVars
  <2>2. QED
    BY <2>1, <1>1
<1>8. CASE Crash
  BY <1>2, <1>8 DEF Crash
<1>9. CASE startStrategyRunner \/ restores
  BY <1>1, <1>2, <1>9 DEF startStrategyRunner, restores
<1>10. QED
  BY <1>3, <1>4, <1>5, <1>6, <1>7, <1>8, <1>9 DEF Next

LEMMA NextStreamed ==
  ASSUME Serialized, RunnerQueues, SerialInv, MarksAreStreamed, WritesAreStreamed, [Next]_vars
  PROVE  WritesAreStreamed'
<1>1. CASE Bought
  <2>1. PICK s \in Streamed, by \in Origins : Starts(SaveOf(s, by))
    BY <1>1 DEF Bought
  <2>2. Pending' = Pending \cup {SaveOf(s, by)} /\ SaveOf(s, by).symbol = s
    BY <2>1 DEF Starts, SaveOf
  <2>3. QED
    BY <2>2 DEF WritesAreStreamed
<1>2. CASE Sold
  <2>1. PICK s \in Symbols, p \in Nat, by \in Origins :
          /\ Closes(s, p, by) /\ Starts(CloseOf(s, by))
          /\ \/ s \in liquidating /\ p = marks[s]
             \/ s \in Streamed /\ p \in Prices /\ Exclusive
    BY <1>2 DEF Sold
  <2>2. Pending' = Pending \cup {CloseOf(s, by)} /\ CloseOf(s, by).symbol = s
    BY <2>1 DEF Starts, CloseOf
  <2>3. s \in Streamed
    BY <2>1 DEF MarksAreStreamed, Closes
  <2>4. QED
    BY <2>2, <2>3 DEF WritesAreStreamed
<1>3. CASE Idles \/ Landed
  BY <1>3 DEF Idles, Landed, WritesAreStreamed
<1>4. CASE Failed \/ Died \/ Resumed \/ Refused
  BY <1>4 DEF Failed, Died, Resumed, Refused, WritesAreStreamed
<1>5. QED
  BY <1>1, <1>2, <1>3, <1>4, NextKind DEF StepKind

LEMMA OneInFlight ==
  ASSUME OneStream, SerialInv, WritesAreStreamed, NEW w \in Pending
  PROVE  Pending = {w}
BY DEF OneStream, SerialInv, WritesApart, WritesAreStreamed

\* The units a buyer can afford are no more than the scaled cash.
LEMMA UnitsCost ==
  ASSUME NEW p \in Nat, p > 0, NEW q \in Nat, NEW c \in Nat, p * q <= c
  PROVE  q <= c
<1>1. p * q = q + (p - 1) * q
  OBVIOUS
<1>2. (p - 1) * q >= 0
  OBVIOUS
<1> DEFINE a == p * q
           b == (p - 1) * q
<1>3. a \in Nat /\ b \in Nat
  OBVIOUS
<1>4. a = q + b /\ b >= 0 /\ a <= c
  BY <1>1, <1>2
<1> HIDE DEF a, b
<1>5. QED
  BY <1>3, <1>4

DurableInv == RunnerQueues /\ LogCatchesUp /\ SerialInv /\ MarksAreStreamed /\ WritesAreStreamed

\* With nothing in flight both ledgers are the same.
LEMMA QuietIsSaved ==
  ASSUME DurableInv, Pending = {}
  PROVE  LiveLedger = SavedLedger
<1>1. CASE Up
  <2>1. Alive
    BY <1>1 DEF Up, Alive
  <2>2. rows = positions /\ RestoredCash(rows, log) = cash
    BY <2>1, QuietRestores DEF DurableInv
  <2>3. QED
    BY <1>1, <2>2 DEF LiveLedger, SavedLedger
<1>2. CASE ~Up
  BY <1>2 DEF LiveLedger
<1>3. QED
  BY <1>1, <1>2

LEMMA BoughtIsFill == ASSUME Serialized, DurableInv, Bought PROVE Ledger!Fill
<1>1. PICK s \in Streamed, p \in Prices, by \in Origins :
        Opens(s, p, by) /\ Starts(SaveOf(s, by)) /\ Exclusive
  BY DEF Bought
<1>2. Pending = {} /\ Up /\ Up' /\ rows' = rows /\ log' = log /\ s \in Symbols /\ p \in Nat /\ p > 0
  BY <1>1, RunnerAssumption, BrokerAssumption DEF Exclusive, Serialized, Starts, Opens
<1>3. LiveLedger = SavedLedger /\ SavedLedger' = SavedLedger
  BY <1>2, QuietIsSaved DEF SavedLedger
<1>4. /\ LiveLedger = [cash |-> cash, held |-> positions]
      /\ LiveLedger' = [cash |-> cash', held |-> positions']
  BY <1>2 DEF LiveLedger
<1> DEFINE q == affordableUnits(cash, p)
<1>5. cash \in Nat
  BY DEF DurableInv, RunnerQueues, RunnerInv, RunnerTyped, Typed, BrokerTypeOK, CashNeverNegative
<1>6. q \in Nat /\ q >= 1 /\ p * q <= cash
  BY <1>1, <1>2, <1>5, AffordableType DEF Opens, BuyFills, CanOpen, MIN_QUANTITY, notional
<1>7. /\ positions[s] = Flat /\ cash' = cash - p * q
      /\ positions' = [positions EXCEPT ![s] = [quantity |-> q, entryPrice |-> p]]
  BY <1>1 DEF Opens, BuyFills, openLong, notional
<1> HIDE DEF q
<1>8. q \in 1..cash
  BY <1>2, <1>5, <1>6, UnitsCost
<1>9. Ledger!Buy(s)
  BY <1>2, <1>3, <1>4, <1>6, <1>7, <1>8 DEF Ledger!Buy, Ledger!NoHolding, Flat
<1>10. QED
  BY <1>2, <1>3, <1>9 DEF Ledger!Fill

LEMMA SoldIsFill == ASSUME Serialized, OneStream, DurableInv, Sold PROVE Ledger!Fill
<1>1. PICK s \in Symbols, p \in Nat, by \in Origins :
        /\ Closes(s, p, by) /\ Starts(CloseOf(s, by))
        /\ \/ s \in liquidating /\ p = marks[s]
           \/ s \in Streamed /\ p \in Prices /\ Exclusive
  BY DEF Sold
<1>2. s \in Streamed /\ p \in Prices /\ p > 0
  BY <1>1 DEF DurableInv, MarksAreStreamed, Closes
<1>3. Pending = {}
  <2>1. ASSUME NEW w \in Pending PROVE FALSE
    <3>1. s \in liquidating
      BY <1>1 DEF Exclusive, Serialized
    <3>2. w.symbol = s
      BY <1>2 DEF OneStream, DurableInv, WritesAreStreamed
    <3>3. QED
      BY <3>1, <3>2 DEF DurableInv, SerialInv, WritesApart
  <2>2. QED
    BY <2>1
<1>4. Up /\ Up' /\ rows' = rows /\ log' = log
  BY <1>1 DEF Starts
<1>5. LiveLedger = SavedLedger /\ SavedLedger' = SavedLedger
  BY <1>3, <1>4, QuietIsSaved DEF SavedLedger
<1>6. /\ LiveLedger = [cash |-> cash, held |-> positions]
      /\ LiveLedger' = [cash |-> cash', held |-> positions']
  BY <1>4 DEF LiveLedger
<1>7. /\ positions[s] \in Holding /\ cash' = cash + p * positions[s].quantity
      /\ positions' = [positions EXCEPT ![s] = Flat]
  BY <1>1 DEF Closes, closeLong, notional
<1>8. positions[s] # Flat
  BY <1>7, HoldingIsNotFlat
<1>9. Ledger!Sell(s)
  BY <1>2, <1>5, <1>6, <1>7, <1>8 DEF Ledger!Sell, Ledger!NoHolding, Flat
<1>10. QED
  BY <1>5, <1>9 DEF Ledger!Fill

LEMMA NextIsLedger ==
  ASSUME Serialized, OneStream
  PROVE  DurableInv /\ DurableInv' /\ [Next]_vars
           => [Ledger!Fill \/ Ledger!Save \/ Ledger!Crash]_(Ledger!ledgerVars)
<1> SUFFICES ASSUME DurableInv, DurableInv', [Next]_vars
             PROVE  \/ Ledger!Fill \/ Ledger!Save \/ Ledger!Crash
                    \/ LiveLedger' = LiveLedger /\ SavedLedger' = SavedLedger
  BY DEF Ledger!ledgerVars
<1>1. CASE Idles
  <2>1. SavedLedger' = SavedLedger /\ cash' = cash /\ positions' = positions /\ Pending' = Pending
    BY <1>1 DEF Idles, SavedLedger, books
  <2>2. CASE Up' <=> Up
    BY <2>1, <2>2 DEF LiveLedger
  <2>3. CASE Pending = {} /\ ~Up'
    BY <2>1, <2>3, QuietIsSaved DEF LiveLedger
  <2>4. CASE Pending = {} /\ Up' /\ ~Up
    <3>1. Alive'
      BY <2>4 DEF Up, Alive
    <3>2. Alive
      BY <1>1, <3>1 DEF Idles
    <3>3. rows = positions /\ RestoredCash(rows, log) = cash
      BY <2>4, <3>2, QuietRestores DEF DurableInv
    <3>4. QED
      BY <2>1, <2>4, <3>3 DEF LiveLedger, SavedLedger
  <2>5. QED
    BY <1>1, <2>2, <2>3, <2>4 DEF Idles
<1>2. CASE Bought
  BY <1>2, BoughtIsFill
<1>3. CASE Sold
  BY <1>3, SoldIsFill
<1>4. CASE Landed
  <2>1. PICK w \in Pending : Applied(w) /\ Pending' = Pending \ {w}
    BY <1>4 DEF Landed
  <2>2. Pending = {w} /\ Pending' = {} /\ Alive /\ Alive' /\ (Up <=> Up')
    <3>1. Pending = {w}
      BY OneInFlight DEF DurableInv
    <3>2. Alive
      BY <3>1 DEF DurableInv, SerialInv, WritesApart
    <3>3. phase' = phase
      BY <1>4 DEF Landed
    <3>4. QED
      BY <2>1, <3>1, <3>2, <3>3 DEF Alive, Up
  <2>3. cash' = cash /\ positions' = positions
    BY <1>4 DEF Landed, books
  <2>4. CASE Up
    <3>1. LiveLedger' = LiveLedger
      BY <2>2, <2>3, <2>4 DEF LiveLedger
    <3>2. rows' = positions' /\ RestoredCash(rows', log') = cash'
      <4>1. (DurableInv /\ Alive /\ Pending = {} => rows = positions /\ RestoredCash(rows, log) = cash)'
        BY QuietRestores, PTL DEF DurableInv
      <4>2. QED
        BY <4>1, <2>2
    <3>3. SavedLedger' = LiveLedger'
      BY <2>2, <2>4, <3>2 DEF SavedLedger, LiveLedger
    <3>4. QED
      BY <3>1, <3>3 DEF Ledger!Save
  <2>5. CASE ~Up
    <3>1. phase \in {"exited"}
      BY <2>2, <2>5 DEF Up, Alive, DurableInv, RunnerQueues, RunnerInv, RunnerShape
    <3>2. tasks = {} /\ closing = <<>>
      BY <3>1 DEF DurableInv, RunnerQueues, RunnerInv, RunnerShape
    <3>3. QED
      BY <2>2, <3>2, NothingInFlight
  <2>6. QED
    BY <2>4, <2>5
<1>5. CASE Failed
  BY <1>5 DEF Failed, Serialized, DurableInv, SerialInv, NoneRefused
<1>6. CASE Died
  <2>1. SavedLedger' = SavedLedger /\ ~Up'
    BY <1>6 DEF Died, SavedLedger, Up
  <2>2. QED
    BY <2>1 DEF LiveLedger, Ledger!Crash
<1>7. CASE Resumed
  <2>1. SavedLedger' = SavedLedger /\ LiveLedger = SavedLedger
    BY <1>7 DEF Resumed, SavedLedger, LiveLedger
  <2>2. LiveLedger' = SavedLedger'
    BY <1>7 DEF Resumed, SavedLedger, LiveLedger
  <2>3. QED
    BY <2>1, <2>2
<1>8. CASE Refused
  BY <1>8 DEF Refused, SavedLedger, LiveLedger
<1>9. QED
  BY <1>1, <1>2, <1>3, <1>4, <1>5, <1>6, <1>7, <1>8, NextKind DEF StepKind, DurableInv

\* Runner, broker and tables together implement the ledger the operator is promised:
\* what a trade did survives, whole, as soon as its write is acknowledged.
THEOREM RunnerIsDurable == ASSUME Serialized, OneStream PROVE Spec => IsDurableLedger
<1>1. Init => DurableInv
  <2> SUFFICES ASSUME Init PROVE DurableInv
    OBVIOUS
  <2>1. MarksAreStreamed
    BY DEF Init, newBroker, MarksAreStreamed
  <2>2. QED
    BY <2>1, InitQueues, InitSerial DEF DurableInv, WritesAreStreamed
<1>2. DurableInv /\ [Next]_vars => DurableInv'
  <2>1. DurableInv => RunnerTyped
    BY DEF DurableInv, RunnerQueues, RunnerInv
  <2>2. QED
    BY <2>1, NextQueues, NextCatchesUp, NextSerial, NextMarks, NextStreamed DEF DurableInv
<1>3. Init => Ledger!Init
  <2> SUFFICES ASSUME Init PROVE Ledger!Init
    OBVIOUS
  <2>1. LiveLedger = SavedLedger /\ LiveLedger.cash = RestoredCash(rows, log)
    BY DEF Init, LiveLedger, SavedLedger, Up
  <2>2. RestoredCash(rows, log) >= 0
    BY DEF Init
  <2>3. QED
    BY <2>1, <2>2 DEF Ledger!Init
<1>4. QED
  BY <1>1, <1>2, <1>3, NextIsLedger, PTL DEF Spec, IsDurableLedger, Ledger!Spec

=============================================================================
