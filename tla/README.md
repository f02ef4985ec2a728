# Verification of trading_infra

TLA+ models of the trading_infra server, of the C++ engine beside it and of the
browser's chart and panels, with TLC configurations that check them on small instances and
proofs that TLAPS checks for every value of the constants. Every definition is
read off the source; `PROJECT.json` maps it to its lines.

    tlc -workers 4 -config Serial.cfg MCStrategyRunner.tla     # one run
    tlapm PaperBroker_proofs.tla                               # one set of proofs

## 1. The system

A Node server ingests klines of one symbol in several timeframes from the
exchange's WebSocket, stores closed candles in PostgreSQL, enriches them with
indicators, trades them with one strategy on a paper account, and broadcasts
them to browsers. Everything in the server runs on one event loop: concurrency
is what other handlers do while one awaits the database or the exchange.

    exchange --ws--> ingest --raw stream--> indicatorEngine --enriched--> strategyRunner --> PaperBroker
       |               |          |                              |             |  ^             |
       |             INSERT    continuity                     broadcast     signals|         positions,
      REST             |          |                              |             |  |          trades
       |               v          v                              v             v  |
       +--------> backfill --> candles <-- retention, audit    browser     engineBridge <--ZeroMQ--> C++ engine

| component | state | operations | talks to |
|---|---|---|---|
| exact money (`utils/broker/money.js`) | none: scaled BigInts | parse, format, affordable units, notional | everything that handles amounts |
| paper broker (`PaperBroker.js`, `utils/broker/*`) | cash, positions, marks, trades, next trade id | `mark`, `executeOrder`, `closeAllPositions`, `restore` | the runner calls it synchronously |
| strategy runner (`strategyRunner.js`) | the strategy, whether it is subscribed, the broker | candle handler, `executeSignal`, start, stop, boot | enriched stream in; awaits persistence; the bridge calls `executeSignal` |
| persistence (`utils/broker/persistence.js`) | tables `positions`, `trades` | insert on BUY, delete + trade in one transaction on SELL, load | the pool; statements of two handlers are not ordered |
| ingest (`ingest.js`, `utils/ingest/*`) | socket, stale timer, reconnect timer | connect, message, close, stale check, stop | inserts, then emits on the raw stream; ticks are emitted without a row |
| backfill (`backfill.js`, `utils/backfill/*`) | the lock `running` | scan (two reads), plan, fetch, insert, prune; sweep over timeframes | triggered by (re)connect, by the continuity watch, by the audit; emits nothing |
| continuity watch (`continuity.js`) | newest open time and repair timer per series | classify, arm, fire | raw stream in, backfill out |
| retention (`retention.js`) | caps per timeframe | prune one series, prune above a cap | called by ingest, backfill and audit |
| audit (`audit.js`, `utils/audit/*`) | the sweep in progress | prune, scan, repair, cross-check | database, exchange, backfill |
| indicator stage (`indicatorEngine.js`, `indicators/*`) | none between candles | read the window, compute, re-emit | raw stream in, enriched stream out |
| strategies (`strategies/*`, rule documents) | `previousAbove` of each tracker | `onCandle`, `reset`, start, stop | the runner |
| engine bridge (`engineBridge.js`, `utils/engine/*`) | push times, decision ledger, two sockets | push a candle, read an answer, compare, stop | enriched stream in, runner out |
| C++ engine (`engine/src`) | cross tracker, latency samples | one frame in, one answer out | ZeroMQ |
| broadcast (`broadcast.js`, `utils/broadcast/*`) | clients and their liveness | send with a backpressure limit, heartbeat rounds | WebSocket |
| REST (`app.js`, `routes/*`) | saved strategies (table) | candles, account, strategy control, CRUD, audit, health | pool, runner |
| lifecycle (`index.js`) | timers, servers | ordered boot and shutdown | all |
| browser: streams and chart (`useCandleStream`, `useCandleHistory`, `useCandleContinuity`, `CandleChart`) | socket, one request in flight, the marker and timer of the continuity check, the series on screen | reconnect, refetch, classify, draw | broadcast, `GET /candles` |
| rule documents (`utils/strategies/dsl/validate.js`, `strategies/dsl/compile.js`) | none | validate, compile | the routes, the runner |
| browser: account, control, builder (`useAccount`, `useStrategyControl`, `useStrategyBuilder`) | the trades on screen, the status on screen, the draft being edited | refetch; start, stop; edit, check, save, load, delete, start | REST, broadcast |

What is hard here, and hard to test:

- a fill is synchronous and its write is awaited, so the writes of two fills
  overlap; what the next process restores is whatever the tables then hold;
- cash is never stored: it is derived from positions and trades, so a row too
  many or too few is money;
- inserts of two candles complete in either order, and the backfill, the live
  stream, the audit and retention all write the same series;
- messages are lost in reconnects and half-open sockets, repair triggers are
  dropped when another series is being repaired, a process may die anywhere;
- trackers compare with the previous candle: any candle missed, repeated, of
  another timeframe or with a missing value may make or hide a crossing;
- two engines must decide alike although frames and answers are lost;
- the browser applies a history response that was read before candles it has
  already drawn, and ticks overtake the candle before them;
- a rule is validated by one walk over its tree and compiled by another, and its
  editor keeps a third shape of it;
- a line is computed from lines that are computed from candles, live over one
  window and for history over another, and each may be shifted by one candle;
- every request of a panel may be refused, half done, or done and never answered.

What makes each part correct: money is exact at rest and never drifts; the
account is never overdrawn and trading conserves equity; broker and tables are
one durable ledger; a stop is a stop; the candle table has no forming bar, no
hole that stays and never loses what its cap has room for; strategies signal
crossings and nothing else; the engines agree on what both saw and the maps that
pair them are bounded; the chart shows one timeframe, in order, without holes, and
each point of a line rests on the candles its indicator is defined on; what is
saved can run; an edit goes to the row it was opened from; the screen shows what
the server has, or had when it was last asked.
`PROJECT.json` lists under "hazards" where in the code each may go wrong.

## 2. The modules

| module | models | composed with |
|---|---|---|
| `Money` | amounts as integers, decimal texts as sign, whole part, fraction and number of digits | |
| `MoneyColumn` | amounts written to a NUMERIC column and read back | `Money` |
| `PaperBroker` | the broker; also a specification of its own (`BrokerSpec`) | extends `MoneyColumn` |
| `DurableLedger` | abstract: a ledger in memory and a durable copy | |
| `StrategyRunner` | runner, persistence, tables, signals of the bridge in cpp mode, stop, shutdown, crash, boot | extends `PaperBroker`, implements `DurableLedger` |
| `CandleSeries` | planning: gaps, ranges, chunks, DELETEs, as operators on sets of bars | |
| `CandleRepair` | ingest, backfill, continuity watch, retention and audit on one event loop | `CandleSeries` |
| `Strategies` | the built-in strategies and compiled rule documents | |
| `RuleDocuments` | documents of any shape: what `validate.js` accepts, what `compile.js` makes of one | |
| `EngineBridge` | bridge, decision ledger and C++ engine | |
| `EnrichedFeed` | what one browser is offered: candles after the indicator stage, ticks, the table behind REST, and its socket | |
| `ChartClient` | the browser's connection, history, continuity check and series | extends `EnrichedFeed` |
| `Session` | the budget of events that the parts of a browser session share | |
| `IndicatorSeries` | every indicator of the registry, as the candles its values rest on | |
| `IndicatorPanel` | the indicator stage, the history response and the lines on a chart | `Session`, `IndicatorSeries` |
| `AccountPanel` | the trades on screen and their refetches | `Session` |
| `OperatorConsole` | builder, control, the REST routes behind them, other operators | `AccountPanel`, `IndicatorPanel`, `RuleDocuments` |

`MC*.tla` give constants their small values, `*_proofs.tla` hold the theorems.
One action is what runs between two awaits (or one callback); names follow the
source.

**PaperBroker.** `cash`, `positions`, `marks`, `trades` and `nextTradeId` are the
fields of the class. `executeOrder` fills or rejects in one step, with the checks
in the code's order (`CanOpen`); `closeAllPositions` starts the loop and
`CloseNext` is an iteration of it, because the runner awaits after each trade.
Cash is what `restore` would derive from the open positions and the trades
(`CashBalances`). Rounding a quotient of BigInts to a Number is exact up to 2^53 and to the nearest even one above
(`MaxSafe`).

**StrategyRunner.** A task is a handler that is awaiting: the writes it has left,
the first of them sent. `WriteLands` and `WriteFails` are the database's answer;
tasks land in any order when `Overlap` is TRUE. A crash drops memory and tasks.
What is kept of each life is in `rows` and `log`. A boot is two steps, around the
await of `loadBooks` (`strategyRunner.js:167`): `startStrategyRunner` makes an empty
broker and the phase is `booting`, `restores` takes the tables, or refuses them, and
subscribes. In between the API answers already (`index.js:19`), so starts and stops
are enabled while the process boots, candles are not. The
shutdown of `index.js` is three steps: the runner is unsubscribed once the bridge
has finished its signal (`stopStrategyRunner`), the pool ends once the API has
answered its last request (`poolEnds`), the process exits once the pool has let
the last statement finish (`exits`); a shutdown that takes too long is a crash.

**CandleRepair.** A series holds bars, numbered by their index on its grid; the
clock closes them. `live` are the handlers of closed klines (insert, then prune),
`run` is the one backfill (bounds, gaps, fetch, prune: each after an await),
`audit` the sweep, `socket` is open, silent or closed. `Outage` is what the
exchange never had.

**Strategies.** `side` is `previousAbove` of each tracker, `was` (history) the last
side the line was on, whether or not the tracker was told. A rule document is a
tree of paths; `compileCondition` gives each node one of three verdicts and
`Evaluated` says which nodes a candle reaches, as the short-circuit does. What
`validate.js` leaves of a document (two roots, lists that are not empty, a depth of
at most `MaxTreeDepth`) is `DocumentsAssumption`.

**EngineBridge.** `outbound` and `inbound` are the two one-way sockets,
`pushedAtUs` and `decisions` the two maps in insertion order. A candle is the side
its fast line is on. `strategy` is what JavaScript runs and the timeframe it trades
(`strategyRunner.js:98`): the crossover the engine was ported from, until somebody
starts another strategy, whose decisions may be any.

**ChartClient.** `link` and `wire` are the WebSocket and what was sent on it and not
read; `request` is the one history request that was not aborted (sent, then
answered, then applied: two awaits); `chart` is the candlestick series,
`lastTime`, `marker` and `gapTimer` the refs of the hooks.

**RuleDocuments.** A JSON object is a record whose DOMAIN is the fields it has; the
nodes of a tree are kept by place, so that validator and compiler can be walks
over the same tree. `validateStrategyDocument` gives the errors by kind and place,
`compileTree` says what the compiled function does when every reading is there:
a verdict always, unknown, or a throw.

**IndicatorSeries.** A value is the set of candles it was computed from, `Missing`
when it is null. Every function keeps its loops: where it starts, what it pads,
what it carries from the value before. `Needs` of each key, stated apart, is what
its definition promises; the assumption on the windows is the comment in
`constants/indicators.js:13`.

**OperatorConsole.** An operation is sent, handled, answered, then the list is
read again; at each of these the answer may be lost, and the body of a success may be
unreadable: `utils/api/*.js` of the client then resolve to null, which the control
shows as its status (`NoStatus`) and the builder takes for nothing to do. The control
starts without a status and asks for it when it is mounted. The server's part
(`create`, `update`, `delete`, `startable`) is one statement each. `OthersWrite`
and `OthersRun` are any other client of the API.

## 3. The runs

Eight runs pass; the counts of distinct states are TLC's.

| run | instance | shows |
|---|---|---|
| `Broker` (13,951) | two symbols, prices 0, 1 and 3 in cents, balance 7, quantities inexact above 3, three trades, three restored books | no overdraft, the balance is what `restore` would derive, ids unique over a table with holes, trading conserves equity, no price is rounded on its way in (`MarksAreExact`) and no amount on its way to a column and back (`StoredAmountsAreStable`) |
| `Serial` (112,527) | modes node and cpp, handlers one at a time, four fills, two crashes or shutdowns | broker and tables implement `DurableLedger` (`IsDurableLedger`), agree when idle and after a clean exit (`BooksAgree`), a restart is never refused (`RestartNeverRefused`), a stop reaches the tables |
| `Overlap` (78,475) | shadow mode, overlapping handlers, a write that throws, a crash or a shutdown | the trades table misses nothing until a write throws, a stopped account neither trades nor holds anything with a price, unless the stop was answered during the boot |
| `Repair` (364,408) | two series under one lock (caps 3 and 2), a bar the exchange never had, three more bars, one fault, runs of one request of two candles | no forming bar is stored, the marker is the newest emitted candle, no row is deleted that the cap has room for, tables stay within caps, requests within limits, every hole is filled in the end |
| `Strategies` (578) | readings 0..4, missing and NaN, three built-ins and two documents with every kind of node | a built-in signals exactly the crossings of its line; a rule acts only on what is known; the idle tree stays current; a crossover written as a document trades as the built-in does |
| `Bridge` (135,583) | two timeframes, history of 2, three bars, one fault or swap | maps bounded, no decision judged twice, engines that saw the same candles agree, stamps consumed |
| `Chart` (442,738) | two timeframes, history of 3 rows, two messages of buffer, a change of timeframe, one fault | one timeframe on screen, the refs follow the chart, continuity lets the chart throw only on a candle that a tick overtook, every hole the server could serve is filled |
| `Console` (268,479) | drafts of up to two rows a section, documents of another client with one fault each, seven mixes of events; lines over tables of up to 8 rows, the slowest needing 5 | what is stored can run (`StoredRulesRun`); a quiet builder shows errors exactly for drafts that cannot (`ChecksSettle`); an edit stays on its row; the control shows what runs or nothing; the list of trades never goes back; each point of a line rests on the candles its definition says, live or from history, and a line starts once and has no holes of its own |

Four runs end in a violation, each of what the code says of itself:

| run | property | what happens |
|---|---|---|
| `LateInsert` | `BooksAgree` | BUY and SELL overlap: the DELETE lands before the INSERT, and the row of a position the broker has closed stays, with no write outstanding and none failed; the next process would restore it |
| `EngineStop` | `StoppedMeansStopped` | stop unsubscribes the JavaScript strategy; in cpp mode the bridge goes on calling `executeSignal` and the liquidated account trades |
| `MixedTimeframes` | `EnginesCannotDisagree` | the bridge pushes every timeframe into one C++ tracker, which signals the crossing from a candle of one to a candle of another |
| `PermanentHole` | `GapsAreRepaired` | the browser sees the gap with the server, refetches after 1.5 s, before the server has repaired its table (5 s), takes the response for the repair and never asks again |

The types of the broker and of the strategies are invariants of their own; those of
`CandleRepair`, `EngineBridge` and `ChartClient` are a conjunct of
`WithinCap`, `MapsAreBounded` and `OneTimeframe`.

Met while modelling, without a run:

- a stop that is answered while the boot awaits `loadBooks` finds an empty broker,
  liquidates nothing and says "stopped"; the boot then restores the positions and
  subscribes (`strategyRunner.js:167`, `:178`), so the account holds and trades.
  `StoppedMeansStopped`, `StoppedBookIsFlat` and `StopReachesTables` except that stop
  (`early`) and no other;
- a success whose body cannot be read leaves the control without a status and without
  an error (`api/strategy.js:9`); the panel then shows "Loading..." and no button
  (`StrategyControls.jsx:25`), so nothing asks again until the page is loaded anew;
- a rule of another timeframe makes JavaScript decide about an open time it has
  already decided about, in another bar; when the first entry was trimmed by then,
  the ledger, which knows open times only, compares the engine's and its decision
  about that time a second time;
- the backfill may store a bar that has just closed before its message does; the
  message is then a duplicate and is not emitted, so indicators, strategy and
  browser never see it (`backfill.js:35` calls the race harmless);
- a tree that stops at its first decisive child leaves the trackers of the others
  behind, and one may fire on a crossing that happened candles ago
  (`compile.js:58`); `IdleTreeStaysCurrent` speaks of the crosses that cannot be
  hidden;
- a candle overtaken by a tick of the next bar makes `update()` throw after
  continuity has accepted it (`CandleChart.jsx:153`); `ContinuityGuardsChart`
  says that this is the only way;
- `Strategy.js` says that `reset` is called after a gap in the stream; nothing
  calls it then;
- `indicator.js` of the client says that nulls are always a leading run; `vwap20`
  and `cmf20` are null in the middle when nothing was traded in their window
  (the browser draws neither), and when the stage fails on a candle the line is
  drawn across it;
- `api/candles.js:20` of the client says that a history line and its live
  continuation cannot disagree: what is carried from value to value (EMA, RSI,
  ATR, MACD, the running totals) starts where its window starts, and the window is
  the request's limit and 100 rows in one case and 200 rows in the other;
- a live value is computed over what the table holds after an await, and when the
  next row has been stored by then, the values describe that row;
- saving a rule that was loaded drops its description and its params, though
  `isFlatTree` is about trees the editor "can round-trip"; the validator accepts
  keys beside the kind of an operand, the editor takes the first key for the kind;
- a rule that the editor cannot show is refused with an error, not shown
  "read-only as JSON" (`builder.js:6`);
- a check aborted while its body is read is taken for one without errors until
  the next is answered; `valid` is TRUE before the first check, and the server
  validates again on write;
- a save whose answer is lost and that is renamed and saved again makes a second row;
- a refetch of the trades asked for while one is in flight is dropped, so the list
  may lag until the next account message; the first load of the account may
  overwrite a newer message;
- starting a rule in the builder does not refresh the strategy control;
- the validator refuses a cross of two constants and accepts one of two params,
  which can fire no more often;
- at shutdown a liquidation asked for over the API is awaited (`server.close`), the
  handler of a candle only by `pool.end`.

### Bounds, and why they suffice

Two symbols, series, timeframes or documents are the least at which one can be
taken for the other. Four fills make a position, its end, the next position and
its end, in two lives. Three bars beyond boot are a candle, a lost one and the
one that shows the gap. In `Repair` three missing bars are cut to two by the limit of the scan
(`MaxCandles`), and two holes apart, which need a request each, to the first by the
limit of requests; the rest is found by the next run. The limit of candles in
`planRequests` itself never cuts, here or in the code: it is the one the scan has
applied to the same list. The decision history of 2 with three bars makes both
maps trim, and lets the bar of a second timeframe be decided about after the first
was trimmed. A stop during the boot, with books that hold positions, is reached in
`Serial` and `Overlap`. Readings 0..4 around thresholds 1 and 3 hold every order of a value
and both thresholds, touches included. A chart of three rows with two bars to
come can lose its oldest rows, have a hole in the middle, and have a bar drawn
by a tick. Limits of two nodes and three levels are reached from both sides by
drafts and by documents of others. The periods of the indicators keep their order
at 2 to 5 candles, with the warm-up just enough for the slowest, and tables start
below and above it. The panels of a session do not read each other's state, so a
behaviour mixes the events of one or two (`Budgets`), and what no event can reach
in it stays still. Every bound is a named constant; counters of faults, crashes, fills
and switches stop only the action they count. Runs stop when a bound is reached,
hence `CHECK_DEADLOCK FALSE`.

### Fairness

Weak fairness only, on what the environment and the event loop do for every
pending piece of work: the database and the exchange answer, timers fire, the
audit recurs (`setInterval`), a synchronous loop ends, the engine's loop and
Node's read loop run, the browser handles messages and reconnects. Nothing is
assumed of prices, signals, users, lost messages or crashes, and no fairness says
in which order handlers complete. In `CandleRepair` the enabling conditions are
written out in place of WF because TLC evaluates them faster.

### Preconditions, and what they hide

- `RestartNeverRefused`, `BooksAgree` and `IsDurableLedger` need handlers that do
  not overlap and writes that are not refused; `LateInsert` shows why.
- The properties of a stop except one that was answered while the process booted,
  which the boot undoes.
- `ControlShowsWhatRuns` allows no status at all, and excepts what others changed, a
  start in the builder included, and a last question for the status that failed.
- `ComparedOnce` is about decisions: an open time may be compared once in each
  timeframe that was traded.
- `TradeLogComplete` holds until the first write that throws: after one, the
  tables lack a trade for good.
- `EventuallyComplete` is checked where bars that can be had may exceed the limits of
  one run, and the bar that cannot is of another series. Holes of one series that cannot
  be filled and use up those limits stay the oldest and starve the others. A trigger
  dropped at the lock waits for the next audit or reconnect.
- `HolesAreFilled` excepts bars the server stored after a newer one, a chart that
  threw and requests that failed (they are not retried).

## 4. What is proved

For every value of the constants that satisfies the assumptions named. Names
that end in `Assumption` are ASSUMEs of the modules, which TLC evaluates; the others
(`Serialized`, ...) are hypotheses of their theorem, each true of the instance of the
run that checks the same property. Every property of a passing run is stated by a
theorem, but for the four about liveness.

| theorem | from | argument |
|---|---|---|
| `BrokerTyping`, `NoOverdraft`, `IdsNeverReused` | `BrokerAssumption`, `BooksAssumption`, `ScaleAssumption` | one inductive invariant: types, the floor, the ids. Cash alone is not inductive: a SELL needs that a position has at least one unit and its price is a natural number, `CanOpen` that a fill is re-checked against cash |
| `BalanceIsDerived` | the same | cash is what `restore` derives from open positions and trades: a fill moves the same amount in the sum over positions, the sum over trades and cash |
| `TradingConservesEquity` | the same | a fill moves cash and value of a symbol by opposite amounts, and the sum over symbols changes in one term |
| `OverdraftCheckUnreachableWhenExact` | `MaxSafeAssumption` | up to 2^53 the comment at `PaperBroker.js:62` is right: units times price is at most cash, by the property of integer division |
| `FormatThenParse`, `ParseIsExact`, `MarksStayExact`, `StoredAmountsKept` | `ScaleAssumption`, `TextsAssumption`, `PowersAssumption` | quotient and remainder of the magnitude; the sign is put back last. Every mark and every stored amount is one of those |
| `RunnerTyping` | the broker's, `RunnerAssumption` | the broker's invariant in every life, and the types of tables, tasks and writes in flight |
| `StopHolds`, `StopLiquidates` | that the modes are node or shadow (`ModeOfJavaScript`) | a fill needs `running` or the cpp path; after a stop, `halted /\ ~early => ~running` is inductive when `ENGINE_TRADES` is false, a start during a shutdown included; it needs that a stop during the boot is `early`, since the boot ends by subscribing. The symbols the loop has passed are flat or have no price, and no mark moves after a stop |
| `LogMissesNoTrade` | the broker's, `RunnerAssumption` | while the process lives and no statement has thrown, what the broker realized is what the log realized and what the writes under way are still to add; a crash drops memory and writes together |
| `TablesAreTheBooks`, `RestartResumes` | handlers do not overlap and no write fails (`Serialized`) | the writes under way are of different symbols, and a BUY is never under way with another; a symbol without one has its position in the table, and what a restart would derive from the tables is never negative. `LateInsert` shows that overlap breaks it |
| `RunnerIsDurable` | `Serialized`, one symbol in the stream (`OneStream`) | step refinement: initial states of `DurableLedger`, and each step is one of its steps or a stutter |
| `MarkerIsNewest` | `BootsAssumption` | a stale candle is in `emitted` and below the marker, any other becomes the marker |
| `FormingBarIsNeverStored` | `BootsAssumption`, tables that start without one (`ClosedBoots`) | every bar in the table, in a handler, in a plan or in an answer is at most `closed`, which only grows |
| `PlansStayWithinLimits` | `LimitsAssumption` | a chunk of a range has at most `PerRequest` bars; cutting a list of chunks at the limits keeps both sums below them |
| `NewestStay`, `CapIsKept` | `RepairAssumption`, `ClosedBoots`, and for the cap tables that start within it (`CappedBoots`) | a DELETE keeps the rows of the highest ranks; a row above the cap belongs to a handler or a run whose DELETE is to come, because each insert is followed by its own |
| `StrategiesTyping`, `SignalsAreCrossings` | `StrategiesAssumption` | the invariant needs `side = was` for the built-ins: every candle that tells anything is told to every tracker, which is what feeding both RSI trackers before deciding is for |
| `KnownDecides`, `IdleTreesStayCurrent`, `PlainRuleIsItsLine` | `StrategiesAssumption`, `DocumentsAssumption` | a verdict function exists because depth is bounded, and is unique; the claims are by the lowest node at which they fail. Three-valued AND, OR and NOT are monotone in what is known; a first child is evaluated whatever the verdicts |
| `MapsStayBounded` | `BridgeAssumption` | a map in insertion order has each open time once; what is trimmed is its head |
| `JudgedOnce` | the same | a trimmed entry may be made again, by a late answer or by a decision in another timeframe. JavaScript decides about a bar once, when the clock of its timeframe passes it, so an entry that has its decision and was not compared is of a bar never judged, whatever else was judged at its open time |
| `EnginesAgree` | the same | the side the C++ engine will be on after the frames under way is the side JavaScript is on; answers under way equal the decisions in the ledger. |
| `RefsFollow`, `OnlyTicksOvertake` | `FeedAssumption` | the newest point is `lastTime`, the marker is not beyond it, and every sealed point is at or before the marker: so whatever is newer than an accepted candle was drawn by a tick |
| `OneTimeframeOnScreen` | `FeedAssumption`, `ClientAssumption`, every timeframe has a stored bar when the browser opens (`HistoryEverywhere`) | the request in flight and its answer are of the selected timeframe. The hypothesis is needed: an empty history has no effect (`App.jsx:57`), so the points of the timeframe before stay on screen |
| `BlotterOnlyGrows` | no assumption | with one request in flight, its answer was read from a table no shorter than the one on screen: the invariant bounds screen, answer and table in that order |
| `EditsStay` | no assumption | `editingId` is the draft's row, or 0 while the first save is not answered; the operation under way was sent with it, and the draft cannot be replaced while one is |
| `ControlIsTruthful` | no assumption | an answer on its way says what runs unless others changed it since; it lands as it is or, unreadable, as no status |
| `StoredRulesAlwaysRun` | `RuleAssumption`, documents are JSON trees and what was saved before was valid (`InputsAreDocuments`) | validator and compiler agree on every tree: the walk reaches what the compiled function reaches, and by the lowest node that is not "known", each of its children is, so the validator would have named it |
| `ErrorsAreOfTheDraft` | the same, and `MaxTreeDepth >= 2` (`FlatFits`) | a draft is two flat lists, for which the validator's errors are exactly what the drafts cannot do; the check whose answer is awaited is of the draft on screen unless the timer is set |
| `LinesRestOnTheirCandles`, `LinesFill` | `PeriodsAssumption`, `WindowsAssumption`, `BudgetsAssumption`, null is not a set of candles (`NullIsNoSet`) | see below |

**The lines.** Each of the 29 series is computed in closed form over any window
of any length (`LinesAreExpected`): null before row `Needs`, then exactly what
`Described` says. The loops that carry a value (smoothed averages, the rolling
sum) are recursive functions over an interval, so each is shown by the least row
at which it would differ; `padded(ema(dense(..)))` and `padded(sma(dense(..)))` are
shown to start where `Needs` says. On top of that the panel's invariant says which
window each point on screen was computed over (`PointStart`), and that a candle of
the window asked for, or appended since, has its point, or a reason of its own.
It needs that the warm-up is at least `Needs - 1` rows and the lookback `Needs`,
which is `WindowsAssumption`, and that the window of a candle whose successor was
already stored describes the successor (`Late`).

**Sums, folds and recursions.** `FiniteLemmas` holds what the others share: sums
over finite sets, extremes, ranks in finite sets of integers, flattening of
sequences of sequences, and recursive functions on trees of bounded depth. None is
taken on trust, and none needs an induction theorem with an operator parameter:
each is shown by a least counterexample.

Left to TLC: `StopReachesTables`, `EventuallyComplete`, `StampsAreConsumed` and
`HolesAreFilled`, which are liveness under fairness and rest on `ENABLED`.

## 5. Abstractions

- Names, texts, logs, wording and JSON are left out. Amounts are integers.
- The runner's strategy signals anything at any candle: the runner must be right
  for every strategy. In `Strategies`, likewise, the position is arbitrary.
- Both reads of `inspectGaps` are one step; audit sweeps do not overlap. The
  backfill's own two reads are two steps.
- `Strategies` takes rule documents as valid (`DocumentsAssumption`, which TLC
  evaluates), which `StoredRulesRun` justifies; in `RuleDocuments` error codes and wording are left out, a value of the wrong
  type is `Junk` whatever it is, and names of params are well formed.
- Malformed frames, which Node does not send, and the quiet-holds option of the
  engine are left out.
- The figures of an indicator are left out: a value is what it was computed from.
  Periods and windows are scaled down with their order kept; 200 rows of lookback
  and 100 of warm-up against a slowest need of 50 satisfy the same assumption.
- In `OperatorConsole` an answer given up for lost never lands later, and its
  request is handled before that or never; the saved list is there when the page
  opens; of the account only the list of trades is kept.
- When the pool ends at shutdown every statement in flight has its connection; one
  still queued for a connection then would be lost.
- In `ChartClient`: React's state and the effect that follows from it are one
  step; accepting a connection and `onopen` are one step; the buffer is counted in
  messages; an unread tick is not repeated; time is only the clock of bars, so
  debounces race freely with everything; the overlay series follow the candle
  series. `DEFAULT_INTERVAL` of the client is the server's default, and every
  series has rows when the browser opens.

## 6. Not modelled

- the arithmetic of the indicators (floating point), and `wma`, `dema`, `momentum`
  and `keltnerChannels`, which nothing calls;
- `stopIngest` apart from the shutdown (nothing starts ingest twice), the delay of
  the backoff, and the rounds of the heartbeat: a client that is terminated is one
  of the ways a connection breaks;
- the audit's validity checks and its comparison with the exchange, which only
  report; the summary of retention at boot;
- latency statistics, logging, CORS, error formatting, health and timeframes routes;
- partitions, triggers and indexes of the schema;
- presentation in the browser: panes, markers, statuses, formatting;
- benchmark and smoke scripts.

## 7. Plan

Done: money, broker, runner with tables and shutdown against the durable ledger,
candle repair, strategies and their documents, bridge, chart, indicators, the
operator's panels; every invariant and every action property that a run checks is
stated by a theorem.

Next, in this order:

1. Steps behind the liveness properties, as action properties: the plan of a run
   only shrinks, a dropped trigger leaves the audit due.
2. That `RuleDocuments` lets through only documents that satisfy
   `DocumentsAssumption` of `Strategies`.
3. The hazards that no property covers yet: a bar the backfill stores before its
   message does, and a first load of the account that is older than the screen.
