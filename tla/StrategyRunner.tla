--------------------------- MODULE StrategyRunner ---------------------------
(***************************************************************************)
(* The strategy runner around the broker (server/src/strategyRunner.js)    *)
(* with the tables that are the durable record of its books                *)
(* (server/src/utils/broker/persistence.js).                               *)
(*                                                                         *)
(* A fill is synchronous; its persistence is awaited.  Between the two the *)
(* event loop runs other handlers, and each statement sent to the pool may *)
(* land in any order with respect to those of other handlers.  A task is   *)
(* one handler that is awaiting: the writes it has still to make, in       *)
(* order, the first of them sent.                                          *)
(***************************************************************************)
EXTENDS PaperBroker, SequencesExt

CONSTANTS
  Modes,      \* what EXECUTION_MODE may be at boot: "node", "shadow", "cpp"
  Streamed,   \* the symbols candles carry: {SYMBOL}
  Overlap,    \* TRUE: a handler may start while another awaits its write
  MaxFills,    \* bound on fills, over every life of the process
  MaxFailures, \* bound on statements that throw
  MaxCrashes   \* bound on crashes and shutdowns

ASSUME RunnerAssumption ==
  /\ Modes \subseteq {"node", "shadow", "cpp"}
  /\ Streamed \subseteq Symbols
  /\ Overlap \in BOOLEAN
  /\ MaxFills \in Nat /\ MaxFailures \in Nat /\ MaxCrashes \in Nat

HOLD == "HOLD"

VARIABLES
  mode,     \* EXECUTION_MODE of this life of the process
  phase,    \* "booting" while the tables are read (the API answers, no candle flows);
            \* "ready"; a shutdown goes through "stopping" (unsubscribed, the API still
            \* answers) and "ending" (pool.end) to "exited"; "down" after a crash;
            \* "refused" when restore threw
  running,  \* subscribed to the enriched stream
  closing,  \* the writes of the liquidation that is being collected
  tasks,    \* the handlers awaiting a write
  rows,     \* table positions: [Symbols -> Position], Flat where there is no row
  log,      \* table trades, oldest first
  serial,   \* next value of the sequence behind trades.id
  halted,   \* history: the operator's last request was a stop
  early,    \* history: that stop was answered while the process was booting
  fills,    \* history: fills of every life
  failures, \* history: statements that threw
  crashes   \* history: crashes and shutdowns

tables     == <<rows, log, serial>>
history    == <<halted, early, fills, failures, crashes>>
runnerVars == <<mode, phase, running, closing, tasks, rows, log, serial,
                halted, early, fills, failures, crashes>>
vars       == <<brokerVars, runnerVars>>

executes      == mode # "cpp"  \* the JavaScript path may reach the broker
ENGINE_TRADES == mode = "cpp"  \* the C++ path may

-----------------------------------------------------------------------------
(***************************************************************************)
(* The writes of persist(): a row of positions, or one transaction that    *)
(* deletes the row and records the trade.                                  *)
(***************************************************************************)
SaveOf(s, by)  == [op |-> "save",  symbol |-> s, row |-> positions'[s], by |-> by, fill |-> fills]
CloseOf(s, by) == [op |-> "close", symbol |-> s, row |-> Last(trades'), by |-> by, fill |-> fills]

\* INSERT ... ON CONFLICT (symbol) DO NOTHING.
Inserted(s, row) == IF rows[s] = Flat THEN [rows EXCEPT ![s] = row] ELSE rows

\* DELETE FROM positions WHERE symbol = $1.
Deleted_Nothing(s) == rows

Deleted(s) == [rows EXCEPT ![s] = Flat]

Applied_KeepsNoTrade(w) ==
  /\ rows' = IF w.op = "save" THEN Inserted(w.symbol, w.row) ELSE Deleted(w.symbol)
  /\ UNCHANGED <<log, serial>>

Applied(w) ==
  IF w.op = "save"
  THEN rows' = Inserted(w.symbol, w.row) /\ UNCHANGED <<log, serial>>
  ELSE /\ rows' = Deleted(w.symbol)
       /\ log' = Append(log, [w.row EXCEPT !.id = serial])
       /\ serial' = serial + 1

\* A transaction that does not commit still consumes a value of the sequence.
RolledBack(w) ==
  /\ UNCHANGED <<rows, log>>
  /\ serial' \in IF w.op = "close" THEN {serial, serial + 1} ELSE {serial}

-----------------------------------------------------------------------------
\* new PaperBroker(): the account before its books are read.
newBroker == [cash |-> StartingBalance, positions |-> [s \in Symbols |-> Flat], trades |-> <<>>,
              nextTradeId |-> 1, marks |-> [s \in Symbols |-> 0]]

\* The first process boots on tables an earlier one left.
Init ==
  /\ cash = newBroker.cash /\ positions = newBroker.positions /\ trades = newBroker.trades
  /\ nextTradeId = newBroker.nextTradeId /\ marks = newBroker.marks /\ liquidating = {}
  /\ mode \in Modes /\ phase = "booting" /\ running = FALSE
  /\ closing = <<>> /\ tasks = {}
  /\ \E b \in Books :
       /\ RestoredCash(b.positions, b.trades) >= 0
       /\ rows = b.positions /\ log = b.trades
       /\ serial \in {1} \cup {log[i].id + 1 : i \in DOMAIN log} /\ IsNextTradeId(serial, log)
  /\ halted = FALSE /\ early = FALSE /\ fills = 0 /\ failures = 0 /\ crashes = 0

\* The event loop may run a new handler.
MayArrive ==
  /\ phase = "ready" /\ liquidating = {}
  /\ Overlap \/ tasks = {}

\* executeSignal: fill synchronously, then await the write of what was filled.
executeSignal(signal, s, p, by) ==
  /\ fills < MaxFills
  /\ executeOrder(signal, p, s)
  /\ IF positions' = positions
     THEN UNCHANGED <<tasks, fills>>
     ELSE /\ fills' = fills + 1
          /\ tasks' = tasks \cup
               { << IF positions'[s] = Flat THEN CloseOf(s, by) ELSE SaveOf(s, by) >> }

\* onCandle: mark, decide, and execute only if this path is the trading one.
onCandle(s, p, decision) ==
  /\ MayArrive /\ running
  /\ IF decision # HOLD /\ executes
     THEN executeSignal(decision, s, p, "node")
     ELSE mark(s, p) /\ UNCHANGED <<tasks, fills>>
  /\ UNCHANGED <<mode, phase, running, closing, tables, halted, early, failures, crashes>>

\* onSignal of the engine bridge: attached for the life of the process,
\* whether or not the strategy is running.  readLoop awaits each signal before
\* it takes the next, so signals of the engine never overlap each other.
onEngineSignal(s, p, action) ==
  /\ MayArrive /\ ENGINE_TRADES
  /\ \A t \in tasks : Head(t).by # "engine"
  /\ executeSignal(action, s, p, "engine")
  /\ UNCHANGED <<mode, phase, running, closing, tables, halted, early, failures, crashes>>

\* The API answers requests from before the boot (index.js:19) until the server has closed.
MayRequest ==
  /\ phase \in {"booting", "ready", "stopping"} /\ liquidating = {}
  /\ Overlap \/ tasks = {}

\* createStrategy throwing changes nothing; after stopStrategyRunner there is no
\* stream left to subscribe to.
startStrategy ==
  /\ MayRequest
  /\ running' = (phase # "stopping") /\ halted' = FALSE /\ early' = FALSE
  /\ UNCHANGED <<brokerVars, mode, phase, closing, tasks, tables, fills, failures, crashes>>

\* stopStrategy: unsubscribe, then liquidate in memory; the loop is CloseNext.  A
\* process that is booting has nothing to unsubscribe yet, and an empty broker.
unsubscribeNow_Keeps == UNCHANGED running  \* mutant: the subscription is kept

unsubscribeNow == running' = FALSE

stopStrategy ==
  /\ MayRequest
  /\ unsubscribeNow /\ halted' = TRUE /\ early' = (phase = "booting")
  /\ closeAllPositions
  /\ UNCHANGED <<mode, phase, closing, tasks, tables, fills, failures, crashes>>

\* One iteration of closeAllPositions; after the last one the handler awaits
\* its writes one by one.
LiquidateNext(s) ==
  /\ CloseNext(s)
  /\ LET filled == positions' # positions
         queue  == IF filled THEN Append(closing, CloseOf(s, "stop")) ELSE closing
         ended  == liquidating' = {}
     IN  /\ fills' = IF filled THEN fills + 1 ELSE fills
         /\ closing' = IF ended THEN <<>> ELSE queue
         /\ tasks' = IF ended /\ queue # <<>> THEN tasks \cup {queue} ELSE tasks
  /\ UNCHANGED <<mode, phase, running, tables, halted, early, failures, crashes>>

\* The pool answers a handler; it sends its next write or ends.
WriteLands(t) ==
  /\ liquidating = {}
  /\ Applied(Head(t))
  /\ tasks' = (tasks \ {t}) \cup (IF Len(t) > 1 THEN {Tail(t)} ELSE {})
  /\ UNCHANGED <<brokerVars, mode, phase, running, closing, history>>

\* A write that throws ends the handler, and its later writes are never made.
\* If only the answer was lost, the statement has taken effect all the same.
WriteFails(t) ==
  /\ failures < MaxFailures /\ failures' = failures + 1
  /\ liquidating = {}
  /\ RolledBack(Head(t)) \/ Applied(Head(t))
  /\ tasks' = tasks \ {t}
  /\ UNCHANGED <<brokerVars, mode, phase, running, closing, halted, early, fills, crashes>>

\* shutdown (index.js): the engine bridge is awaited, with the signal it was
\* executing, then the runner unsubscribes.
stopStrategyRunner ==
  /\ phase = "ready" /\ crashes < MaxCrashes /\ liquidating = {}
  /\ \A t \in tasks : Head(t).by # "engine"
  /\ phase' = "stopping" /\ crashes' = crashes + 1
  /\ running' = FALSE
  /\ UNCHANGED <<brokerVars, mode, closing, tasks, tables, halted, early, fills, failures>>

\* The server has closed, so every request was answered; handlers of candles are
\* not awaited, but their one statement was sent and the pool lets it finish.
poolEnds_Exits ==
  /\ phase = "stopping" /\ liquidating = {}
  /\ phase' = "ending" /\ tasks' = {}
  /\ UNCHANGED <<brokerVars, mode, running, closing, tables, history>>

poolEnds ==
  /\ phase = "stopping" /\ liquidating = {}
  /\ \A t \in tasks : Head(t).by # "stop"
  /\ phase' = "ending"
  /\ UNCHANGED <<brokerVars, mode, running, closing, tasks, tables, history>>

\* A clean exit; memory is kept to be compared with the tables.
exits ==
  /\ phase = "ending" /\ tasks = {}
  /\ phase' = "exited" /\ halted' = FALSE /\ early' = FALSE
  /\ UNCHANGED <<brokerVars, mode, running, closing, tasks, tables, fills, failures, crashes>>

\* The memory of a process that has not restored anything yet.
Blank ==
  /\ cash' = newBroker.cash /\ positions' = newBroker.positions /\ trades' = newBroker.trades
  /\ nextTradeId' = newBroker.nextTradeId /\ marks' = newBroker.marks

\* The process dies (while it boots, a signal is enough, or a table that cannot be
\* read: index.js:98), or the shutdown takes too long (forceExit): memory and every
\* write not yet applied are gone.
Crash ==
  /\ phase \in {"booting", "ready", "stopping", "ending"} /\ liquidating = {}
  /\ LET unplanned == phase \in {"booting", "ready"}
     IN  /\ unplanned => crashes < MaxCrashes
         /\ crashes' = IF unplanned THEN crashes + 1 ELSE crashes
  /\ phase' = "down"
  /\ running' = FALSE /\ halted' = FALSE /\ early' = FALSE
  /\ tasks' = {}
  /\ \E n \in 0 .. Cardinality({t \in tasks : Head(t).op = "close"}) : serial' = serial + n
  /\ Blank
  /\ UNCHANGED <<mode, liquidating, closing, rows, log, fills, failures>>

\* startStrategyRunner up to its await (strategyRunner.js:163-167): the candle source is
\* known and the broker is new when the first request can arrive.
startStrategyRunner ==
  /\ phase \in {"down", "exited"}
  /\ phase' = "booting" /\ mode' \in Modes
  /\ Blank
  /\ UNCHANGED <<running, liquidating, closing, tasks, tables, history>>

\* The rest of it: restore the books that were read, then subscribe, whatever was
\* requested meanwhile (subscribe returns early if a start has subscribed already).
restores ==
  /\ phase = "booting" /\ liquidating = {}
  /\ IF RestoredCash(rows, log) >= 0
     THEN /\ phase' = "ready" /\ running' = TRUE
          /\ cash' = RestoredCash(rows, log)
          /\ positions' = rows /\ trades' = log
          /\ nextTradeId' \in {1} \cup {log[i].id + 1 : i \in DOMAIN log}
          /\ IsNextTradeId(nextTradeId', log)
          /\ UNCHANGED history
     ELSE /\ phase' = "refused" /\ running' = FALSE /\ halted' = FALSE /\ early' = FALSE
          /\ UNCHANGED <<books, fills, failures, crashes>>
  /\ UNCHANGED <<mode, marks, liquidating, closing, tasks, tables>>

Candles ==
  \E s \in Streamed, p \in Prices, decision \in {HOLD, BUY, SELL} : onCandle(s, p, decision)
EngineSignals ==
  \E s \in Streamed, p \in Prices, action \in {BUY, SELL} : onEngineSignal(s, p, action)
Liquidation == \E s \in Symbols : LiquidateNext(s)

Next ==
  \/ Candles
  \/ EngineSignals
  \/ startStrategy \/ stopStrategy
  \/ Liquidation
  \/ \E t \in tasks : WriteLands(t)
  \/ \E t \in tasks : WriteFails(t)
  \/ stopStrategyRunner \/ poolEnds \/ exits
  \/ Crash \/ startStrategyRunner \/ restores

Spec == Init /\ [][Next]_vars

\* Synchronous code runs to its end, and the database answers.
Fairness == WF_vars(Liquidation) /\ WF_vars(\E t \in tasks : WriteLands(t))

FairSpec == Spec /\ Fairness

-----------------------------------------------------------------------------
Up    == phase \in {"ready", "stopping", "ending"}
Quiet == (Up \/ phase = "exited") /\ tasks = {} /\ liquidating = {}

\* When no write is outstanding, and when the process has exited cleanly, the
\* tables hold the broker's books: its open positions, and trades that realized
\* what it realized (PaperBroker.js:157); a shutdown loses no fill.
BooksAgree == Quiet => rows = positions /\ realizedPnlOf(log) = realizedPnlOf(trades)

\* However writes overlap and crashes cut them off, the trades table misses no
\* trade the broker knows, until a statement throws: only the positions table
\* can disagree with memory (closePosition, persistence.js:36).
TradeLogComplete == Quiet /\ failures = 0 => realizedPnlOf(log) = realizedPnlOf(trades)

\* A restart always finds books it can resume (PaperBroker.js:173).
RestartNeverRefused == phase # "refused"

\* After a stop the account does not trade until it is started again
\* (strategyRunner.js:197); the liquidation itself is not trading.  A stop answered
\* while the process boots is excepted: restores() subscribes all the same.
StoppedMeansStopped == [][halted /\ ~early /\ liquidating = {} => fills' = fills]_vars

\* After a stop, what is still open is what no price was ever seen for; a stop
\* answered while the process boots closes nothing of what is restored after it.
StoppedBookIsFlat ==
  Up /\ halted /\ ~early /\ liquidating = {}
    => \A s \in Symbols : positions[s] # Flat => marks[s] = 0

\* A stop reaches the tables: the rows of every symbol it liquidated go, unless
\* the operator starts again or the process dies first.
StopReachesTables ==
  \A s \in Symbols :
    (halted /\ ~early /\ positions[s] = Flat) ~> (rows[s] = Flat \/ ~halted)

\* What the tables would restore, and what the process holds (or would hold).
SavedLedger == [cash |-> RestoredCash(rows, log), held |-> rows]
LiveLedger  == IF Up THEN [cash |-> cash, held |-> positions] ELSE SavedLedger

Ledger == INSTANCE DurableLedger WITH live <- LiveLedger, saved <- SavedLedger

\* While handlers do not overlap and writes are not refused, broker and tables
\* together are a durable ledger: a crash loses at most the fill being written.
IsDurableLedger == Ledger!Spec
=============================================================================
