---------------------------- MODULE CandleSeries ----------------------------
(***************************************************************************)
(* The arithmetic of one (symbol, interval) series of candles: what is     *)
(* missing, how a repair is cut into requests, what retention keeps and    *)
(* where an arriving candle sits.  An open_time is its index on the grid   *)
(* of the series, so intervalMs is 1 and the bar that is forming at the    *)
(* time the newest closed bar is n is n + 1.                               *)
(***************************************************************************)
EXTENDS Integers, Sequences, FiniteSets, SequencesExt

CONSTANTS
  MaxCandles,   \* MAX_CANDLES_PER_RUN
  MaxRequests,  \* MAX_REQUESTS_PER_RUN
  PerRequest,   \* MAX_KLINES_PER_REQUEST
  ColdStart     \* COLD_START_CANDLES

ASSUME LimitsAssumption ==
  /\ MaxCandles \in Nat \ {0} /\ MaxRequests \in Nat \ {0}
  /\ PerRequest \in Nat \ {0} /\ PerRequest <= MaxCandles
  /\ ColdStart \in Nat \ {0}

None == 0   \* no open_time: bars the stream delivers are numbered from 1

\* The first n integers after `from'.
After(from, n) == [i \in 1..n |-> from + i]

\* ORDER BY open_time: the k-th member is the one with k members up to itself.
Ascending(S) ==
  [k \in 1 .. Cardinality(S) |->
     CHOOSE t \in S : Cardinality({u \in S : u <= t}) = k]

Prefix(s, n) == SubSeq(s, 1, IF n < Len(s) THEN n ELSE Len(s))

-----------------------------------------------------------------------------
(***************************************************************************)
(* findMissing (backfill.js): the interior holes come from SQL, oldest     *)
(* first; the trailing hole is appended from the bounds read before.       *)
(***************************************************************************)
Interior(held) ==
  IF held = {} THEN {} ELSE {t \in Min(held) .. Max(held) : t \notin held}

SQL_FIND_INTERIOR_GAPS(held, limit) == Prefix(Ascending(Interior(held)), limit)

\* mutant: the last closed bar is taken for one that is still forming
Trailing_OneShort(newest, newestClosed, room) ==
  After(newest, Max({0, Min({room, newestClosed - 1 - newest})}))

Trailing(newest, newestClosed, room) ==
  After(newest, Max({0, Min({room, newestClosed - newest})}))

missingAfterScan(interior, newest, newestClosed, limit) ==
  interior \o Trailing(newest, newestClosed, limit - Len(interior))

missingAtColdStart(newestClosed, limit) ==
  Prefix(After(newestClosed - ColdStart, ColdStart), limit)

-----------------------------------------------------------------------------
(***************************************************************************)
(* Missing open_times become ranges, ranges become chunks one request can  *)
(* serve, and a run takes the longest prefix of chunks its limits allow.   *)
(***************************************************************************)
groupIntoRanges(openTimes) ==
  LET starts == {i \in DOMAIN openTimes : i = 1 \/ openTimes[i] # openTimes[i - 1] + 1}
      from   == Ascending(starts)
      until  == [k \in DOMAIN from |->
                   IF k < Len(from) THEN from[k + 1] - 1 ELSE Len(openTimes)]
  IN  [k \in DOMAIN from |-> [start |-> openTimes[from[k]], end |-> openTimes[until[k]]]]

countCandlesBetween(from, to) == IF from > to THEN 0 ELSE to - from + 1

chunkRange(range) ==
  [i \in 1 .. ((countCandlesBetween(range.start, range.end) + PerRequest - 1) \div PerRequest) |->
     [start |-> range.start + (i - 1) * PerRequest,
      end   |-> Min({range.start + i * PerRequest - 1, range.end})]]

candlesIn(chunks) ==
  SumFunction([i \in DOMAIN chunks |-> countCandlesBetween(chunks[i].start, chunks[i].end)])

chunksOf(openTimes) ==
  LET ranges == groupIntoRanges(openTimes)
  IN  FlattenSeq([i \in DOMAIN ranges |-> chunkRange(ranges[i])])

\* mutant: the limit is looked at after a chunk was taken
planRequests_OneMore(openTimes) ==
  LET chunks == chunksOf(openTimes)
      fits   == {n \in 0 .. Len(chunks) :
                   n - 1 <= MaxRequests /\ candlesIn(Prefix(chunks, n)) <= MaxCandles}
  IN  Prefix(chunks, Max(fits))

\* The chunks of one run; the rest is found again by the next scan.
planRequests(openTimes) ==
  LET chunks == chunksOf(openTimes)
      fits   == {n \in 0 .. Len(chunks) :
                   n <= MaxRequests /\ candlesIn(Prefix(chunks, n)) <= MaxCandles}
  IN  Prefix(chunks, Max(fits))

-----------------------------------------------------------------------------
\* SQL_PRUNE_CANDLES: delete what is older than the cap-th newest row.
SQL_PRUNE_CANDLES_OneTooFew(held, cap) ==
  {t \in held : Cardinality({u \in held : u > t}) < cap - 1}

SQL_PRUNE_CANDLES(held, cap) ==
  {t \in held : Cardinality({u \in held : u > t}) < cap}

\* Where an arriving candle sits relative to the last one seen.
classifyCandle(openTime, lastOpenTime) ==
  CASE lastOpenTime = None         -> "first"
    [] openTime = lastOpenTime     -> "duplicate"
    [] openTime < lastOpenTime     -> "stale"
    [] openTime = lastOpenTime + 1 -> "next"
    [] OTHER                       -> "gap"
=============================================================================
