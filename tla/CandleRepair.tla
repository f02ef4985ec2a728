---------------------------- MODULE CandleRepair ----------------------------
(***************************************************************************)
(* Candles on their way into the table, and the repair of the holes they   *)
(* leave: the ingest socket (ingest.js), the backfill (backfill.js), the   *)
(* continuity watch (continuity.js), retention (retention.js) and the      *)
(* scheduled audit (audit.js), on one event loop.                          *)
(*                                                                         *)
(* An action is what runs between two awaits.  `live' holds the message    *)
(* handlers awaiting the database, `run' is the one backfill that holds    *)
(* the module-wide flag `running', `audit' the sweep in progress.          *)
(***************************************************************************)
EXTENDS CandleSeries

CONSTANTS
  Intervals,   \* ACTIVE_TIMEFRAMES, in order
  Cap,         \* retentionFor: [Series -> Nat]
  SweepCap,    \* MAX_CANDLES_PER_SERIES, the limit the audit prunes with
  Outage,      \* [Series -> set of bars the exchange never had]
  Boots,       \* what the table may hold at boot: [held, closed]
  LastBar,     \* bound, [Series -> Nat]: the clock stops when this bar has closed
  MaxFaults    \* bound: statements and requests that throw, and crashes

Series == Range(Intervals)

ASSUME BootsAssumption ==
  \A b \in Boots :
    /\ b.closed \in [Series -> Nat] /\ b.held \in [Series -> SUBSET Int]
    /\ \A s \in Series : IsFiniteSet(b.held[s])

ASSUME RepairAssumption ==
  /\ Intervals \in Seq(Series) /\ Intervals # <<>>
  /\ Cap \in [Series -> Nat \ {0}] /\ SweepCap \in Nat
  /\ \A s \in Series : ColdStart <= Cap[s] /\ Cap[s] <= SweepCap
  /\ LastBar \in [Series -> Nat] /\ MaxFaults \in Nat

VARIABLES
  store,    \* table candles: the open_times held of each series
  closed,   \* the newest bar of each series that has closed, by the clock
  socket,   \* "open", "silent" (half-open: nothing flows) or "closed"
  live,     \* handlers of closed klines: [series, bar, at]
  emitted,  \* history: the bars each series emitted downstream since boot
  marker,   \* lastOpenTimes of the continuity watch
  timers,   \* series with a pending repair timer
  run,      \* the backfill in progress, or NoRun
  audit,    \* the audit sweep: [todo, at]; todo is empty between sweeps
  faults    \* history: statements that threw, and crashes

vars == <<store, closed, socket, live, emitted, marker, timers, run, audit, faults>>
outside == <<closed, socket>>
watch   == <<emitted, marker, timers>>

Fault == faults < MaxFaults /\ faults' = faults + 1

NoRun == [owner |-> "none"]

running == run # NoRun

\* A run is entered with the bounds query sent.
Begin(owner, s, todo) ==
  [owner |-> owner, series |-> s, todo |-> todo, at |-> "bounds", newest |-> None,
   newestClosed |-> None, plan |-> <<>>, rows |-> <<>>, inserted |-> FALSE]

AuditFrom(todo) == [todo |-> todo, at |-> "prune"]

\* The audit goes on with the next interval.
AuditNext == AuditFrom(Tail(audit.todo))

\* latestClosedOpenTime: the bar that covers now is still forming.
latestClosedOpenTime_Forming(s) == closed[s] + 1

latestClosedOpenTime(s) == closed[s]

\* What REST can return: the forming bar too, if asked for.
Exchange(s) == {t \in (-ColdStart) .. (closed[s] + 1) : t \notin Outage[s]}

-----------------------------------------------------------------------------
(* continuity.js: what the synchronous emit of a candle does. *)

onCandle_Backwards(s, bar) ==
  LET order == classifyCandle(bar, marker[s])
  IN  /\ emitted' = [emitted EXCEPT ![s] = @ \cup {bar}]
      /\ marker' = [marker EXCEPT ![s] = bar]
      /\ timers' = IF order = "gap" THEN timers \cup {s} ELSE timers

onCandle(s, bar) ==
  LET order == classifyCandle(bar, marker[s])
  IN  /\ emitted' = [emitted EXCEPT ![s] = @ \cup {bar}]
      /\ marker' = IF order = "stale" THEN marker ELSE [marker EXCEPT ![s] = bar]
      /\ timers' = IF order = "gap" THEN timers \cup {s} ELSE timers

-----------------------------------------------------------------------------
(* ingest.js *)

Boot ==
  /\ socket = "closed" /\ live = {}
  /\ emitted = [s \in Series |-> {}] /\ marker = [s \in Series |-> None]
  /\ timers = {} /\ run = NoRun
  /\ audit = AuditFrom(Intervals)   \* sweep('startup')

Init ==
  /\ \E b \in Boots : store = b.held /\ closed = b.closed
  /\ Boot
  /\ faults = 0

\* Time passes; the stream delivers the bar if the socket still carries data.
BarCloses(s) ==
  /\ closed[s] < LastBar[s]
  /\ closed' = [closed EXCEPT ![s] = @ + 1]
  /\ live' = IF socket = "open" /\ closed'[s] \notin Outage[s]
             THEN live \cup {[series |-> s, bar |-> closed'[s], at |-> "insert"]}
             ELSE live
  /\ UNCHANGED <<store, socket, watch, run, audit, faults>>

\* persist: a duplicate is dropped here; a new row goes on to be pruned.
Insert(h) ==
  /\ h.at = "insert"
  /\ IF h.bar \in store[h.series]
     THEN live' = live \ {h} /\ UNCHANGED store
     ELSE /\ store' = [store EXCEPT ![h.series] = @ \cup {h.bar}]
          /\ live' = (live \ {h}) \cup {[h EXCEPT !.at = "prune"]}
  /\ UNCHANGED <<outside, watch, run, audit, faults>>

\* The DELETE after the insert, and the candle is emitted even if it failed.
PruneAndEmit(h) ==
  /\ h.at = "prune"
  /\ \/ /\ store' = [store EXCEPT ![h.series] = SQL_PRUNE_CANDLES(@, Cap[h.series])]
        /\ UNCHANGED faults
     \/ Fault /\ UNCHANGED store
  /\ live' = live \ {h}
  /\ onCandle(h.series, h.bar)
  /\ UNCHANGED <<outside, run, audit>>

\* A refused insert is logged and the candle is dropped.
InsertFails(h) ==
  /\ h.at = "insert"
  /\ Fault
  /\ live' = live \ {h}
  /\ UNCHANGED <<store, outside, watch, run, audit>>

\* The socket opens: runBackfillAll, whose every run is skipped at once when
\* another holds the flag.
Opens ==
  /\ socket = "closed" /\ socket' = "open"
  /\ run' = IF running THEN run ELSE Begin("sweep", Head(Intervals), Tail(Intervals))
  /\ UNCHANGED <<store, closed, live, watch, audit, faults>>

GoesSilent == socket = "open" /\ socket' = "silent"
              /\ UNCHANGED <<store, closed, live, watch, run, audit, faults>>

\* The peer closes, or nothing arrived for STALE_MS and the socket is terminated.
Closes == socket \in {"open", "silent"} /\ socket' = "closed"
          /\ UNCHANGED <<store, closed, live, watch, run, audit, faults>>

-----------------------------------------------------------------------------
(* backfill.js *)

\* `finally': the flag is released; a sweep takes it again for its next
\* interval before anything else can run, and an audit goes on.
EndRun ==
  /\ run' = IF run.todo = <<>> THEN NoRun
            ELSE Begin(run.owner, Head(run.todo), Tail(run.todo))
  /\ audit' = IF run.owner = "audit" THEN AuditNext ELSE audit

\* The loop over chunks and rows: what is left of it decides what is awaited next.
Left(r) == r.rows # <<>> \/ r.plan # <<>>

Continue_NoPrune(r) ==
  \/ Left(r)  /\ run' = [r EXCEPT !.at = "fetch"] /\ UNCHANGED audit
  \/ ~Left(r) /\ EndRun

Continue(r) ==
  \/ Left(r)  /\ run' = [r EXCEPT !.at = "fetch"] /\ UNCHANGED audit
  \/ ~Left(r) /\ r.inserted /\ run' = [r EXCEPT !.at = "prune"] /\ UNCHANGED audit
  \/ ~Left(r) /\ ~r.inserted /\ EndRun

\* The scan is over: what it found becomes the plan of the run.
Plan(missing) ==
  \E chunks \in {planRequests(missing)} : Continue([run EXCEPT !.plan = chunks])

ReadBounds ==
  /\ running /\ run.at = "bounds"
  /\ LET held == store[run.series]
         now  == latestClosedOpenTime(run.series)
     IN  \/ held = {} /\ Plan(missingAtColdStart(now, MaxCandles))
         \/ /\ held # {}
            /\ run' = [run EXCEPT !.at = "gaps", !.newest = Max(held), !.newestClosed = now]
            /\ UNCHANGED audit
  /\ UNCHANGED <<store, outside, live, watch, faults>>

ReadGaps ==
  /\ running /\ run.at = "gaps"
  /\ Plan(missingAfterScan(SQL_FIND_INTERIOR_GAPS(store[run.series], MaxCandles),
                           run.newest, run.newestClosed, MaxCandles))
  /\ UNCHANGED <<store, outside, live, watch, faults>>

\* fetchKlines: both bounds inclusive, oldest first.
Served(s, chunk) ==
  Ascending({t \in Exchange(s) : chunk.start <= t /\ t <= chunk.end})

FetchChunk ==
  /\ running /\ run.at = "fetch" /\ run.rows = <<>>
  /\ \E klines \in {Served(run.series, Head(run.plan))} :
       Continue([run EXCEPT !.rows = klines, !.plan = Tail(run.plan)])
  /\ UNCHANGED <<store, outside, live, watch, faults>>

InsertRow ==
  /\ running /\ run.at = "fetch" /\ run.rows # <<>>
  /\ LET s == run.series
         t == Head(run.rows)
     IN  /\ store' = [store EXCEPT ![s] = @ \cup {t}]
         /\ Continue([run EXCEPT !.rows = Tail(run.rows),
                                 !.inserted = run.inserted \/ t \notin store[s]])
  /\ UNCHANGED <<outside, live, watch, faults>>

PruneAfterRun ==
  /\ running /\ run.at = "prune"
  /\ store' = [store EXCEPT ![run.series] = SQL_PRUNE_CANDLES(@, Cap[run.series])]
  /\ EndRun
  /\ UNCHANGED <<outside, live, watch, faults>>

\* Any statement or request of the run throws.
RunFails ==
  /\ running
  /\ Fault
  /\ EndRun
  /\ UNCHANGED <<store, outside, live, watch>>

-----------------------------------------------------------------------------
(* continuity.js: the debounced timer calls runBackfill once. *)

TimerFires(s) ==
  /\ s \in timers /\ timers' = timers \ {s}
  /\ run' = IF running THEN run ELSE Begin("timer", s, <<>>)
  /\ UNCHANGED <<store, outside, live, emitted, marker, audit, faults>>

-----------------------------------------------------------------------------
(* audit.js: one interval after the other, prune, scan, repair. *)

AuditTimer ==
  /\ audit.todo = <<>> /\ audit' = AuditFrom(Intervals)
  /\ UNCHANGED <<store, outside, live, watch, run, faults>>

AuditPrune ==
  /\ audit.todo # <<>> /\ audit.at = "prune"
  /\ store' = [s \in Series |-> SQL_PRUNE_CANDLES(store[s], SweepCap)]
  /\ audit' = [audit EXCEPT !.at = "scan"]
  /\ UNCHANGED <<outside, live, watch, run, faults>>

inspectGaps(s) ==
  Interior(store[s]) # {} \/ store[s] = {} \/ Max(store[s]) < latestClosedOpenTime(s)

AuditScan ==
  /\ audit.todo # <<>> /\ audit.at = "scan"
  /\ LET s == Head(audit.todo)
     IN  IF inspectGaps(s) /\ ~running
         THEN run' = Begin("audit", s, <<>>) /\ audit' = [audit EXCEPT !.at = "repair"]
         ELSE audit' = AuditNext /\ UNCHANGED run
  /\ UNCHANGED <<store, outside, live, watch, faults>>

AuditFails ==
  /\ audit.todo # <<>> /\ audit.at \in {"prune", "scan"}
  /\ Fault
  /\ audit' = AuditNext
  /\ UNCHANGED <<store, outside, live, watch, run>>

-----------------------------------------------------------------------------
\* The process dies and boots again: only the table and the clock survive.
Restart ==
  /\ Fault
  /\ socket' = "closed" /\ live' = {}
  /\ emitted' = [s \in Series |-> {}] /\ marker' = [s \in Series |-> None]
  /\ timers' = {} /\ run' = NoRun
  /\ audit' = AuditFrom(Intervals)
  /\ UNCHANGED <<store, closed>>

Ingest   == \E h \in live : Insert(h) \/ PruneAndEmit(h)
Backfill == ReadBounds \/ ReadGaps \/ FetchChunk \/ InsertRow \/ PruneAfterRun
Watch    == \E s \in Series : TimerFires(s)
Audit    == AuditTimer \/ AuditPrune \/ AuditScan
Faults   == (\E h \in live : InsertFails(h)) \/ RunFails \/ AuditFails \/ Restart
Network  == Opens \/ GoesSilent \/ Closes

Next ==
  \/ \E s \in Series : BarCloses(s)
  \/ Ingest \/ Backfill \/ Watch \/ Audit \/ Faults \/ Network

Spec == Init /\ [][Next]_vars

\* The database and the exchange answer, timers fire, the audit recurs: weak
\* fairness of the four groups of steps.  The condition under which each is
\* enabled is written out, because TLC evaluates it faster than ENABLED.
Fairness ==
  /\ []<>(live = {}) \/ []<><<Ingest>>_vars
  /\ []<>(~running) \/ []<><<Backfill>>_vars
  /\ []<>(timers = {}) \/ []<><<Watch>>_vars
  /\ []<>(audit.todo # <<>> /\ audit.at = "repair") \/ []<><<Audit>>_vars

FairSpec == Spec /\ Fairness

-----------------------------------------------------------------------------
\* The types of the state, and what the stage of a run says about it.
RepairTypeOK ==
  /\ \A s \in Series : store[s] \subseteq Int /\ IsFiniteSet(store[s])
  /\ closed \in [Series -> Nat]
  /\ socket \in {"open", "silent", "closed"}
  /\ \A h \in live : h.series \in Series /\ h.bar \in Nat /\ h.at \in {"insert", "prune"}
  /\ emitted \in [Series -> SUBSET Nat] /\ marker \in [Series -> Nat]
  /\ timers \subseteq Series
  /\ running =>
       /\ run.series \in Series /\ run.at \in {"bounds", "gaps", "fetch", "prune"}
       /\ run.at = "fetch" <=> Left(run)
       /\ run.at = "prune" => run.inserted
  /\ (audit.todo # <<>> /\ audit.at = "repair") <=> (running /\ run.owner = "audit")

\* A bar that has not closed is never stored, although the exchange serves it:
\* nothing would ever correct it, because every later insert of the same
\* open_time is a duplicate (latestClosedOpenTime, interval.js).
FormingBarNeverStored == \A s \in Series : \A t \in store[s] : t <= closed[s]

\* The marker of the continuity watch is the newest candle the stream emitted,
\* in whatever order the inserts of two candles completed (continuity.js:70).
MarkerIsNewestEmitted ==
  \A s \in Series :
    /\ marker[s] \in emitted[s] \cup {None}
    /\ \A b \in emitted[s] : b <= marker[s]

\* Retention never deletes a row the cap still has room for, whoever deletes:
\* what goes is older than Cap rows that stay.
NewestAreKept ==
  [][\A s \in Series : \A t \in store[s] \ store'[s] :
       Cardinality({u \in store'[s] : u > t}) >= Cap[s]]_vars

\* The types hold, and pruning after each insert and once per run bounds each
\* series: a row above the cap belongs to a handler or a run that has not reached its DELETE.
WithinCap ==
  /\ RepairTypeOK
  /\ \A s \in Series :
       \/ Cardinality(store[s]) <= Cap[s]
       \/ \E h \in live : h.series = s /\ h.at = "prune"
       \/ running /\ run.series = s /\ run.inserted
       \/ faults > 0

\* Every request of a plan maps to one complete answer, and a run stays within
\* its limits, whatever the scan read while rows arrived (ranges.js, backfill.js).
RequestsWithinLimits ==
  running =>
    /\ \A i \in DOMAIN run.plan :
         countCandlesBetween(run.plan[i].start, run.plan[i].end) \in 1 .. PerRequest
    /\ Len(run.plan) <= MaxRequests
    /\ candlesIn(run.plan) <= MaxCandles

\* Once the clock stands still, every series ends up without a hole: between
\* its oldest row and the last closed bar it holds what the exchange has.  Lost
\* messages, dropped triggers, failures and crashes only delay it.
Complete(s) ==
  store[s] # {} /\ \A t \in Min(store[s]) .. closed[s] : t \in store[s] \/ t \in Outage[s]

EventuallyComplete == <>[](\A s \in Series : Complete(s))
=============================================================================
