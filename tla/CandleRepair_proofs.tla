------------------------ MODULE CandleRepair_proofs ------------------------
(***************************************************************************)
(* The table of candles, for every number of series, bars, caps and limits *)
(* and every interleaving of handlers, backfills, audits and restarts:     *)
(* the marker of the continuity watch, what a scan may ask for, what is    *)
(* stored and what retention deletes.                                      *)
(***************************************************************************)
EXTENDS CandleRepair, FiniteLemmas

-----------------------------------------------------------------------------
(***************************************************************************)
(* The continuity watch (continuity.js).                                   *)
(***************************************************************************)
\* What the induction needs to know of the handlers and the clock.
WatchTyped ==
  /\ closed \in [Series -> Nat]
  /\ live \subseteq [series : Series, bar : Nat \ {0}, at : {"insert", "prune"}]
  /\ emitted \in [Series -> SUBSET Nat]
  /\ marker \in [Series -> Nat]

WatchInv == WatchTyped /\ MarkerIsNewestEmitted

\* Emitting one candle keeps the marker on the newest, whether it arrives in
\* order or not.
LEMMA EmitKeepsNewest ==
  ASSUME WatchInv, NEW s \in Series, NEW bar \in Nat \ {0}, onCandle(s, bar)
  PROVE  /\ emitted' \in [Series -> SUBSET Nat]
         /\ marker' \in [Series -> Nat]
         /\ MarkerIsNewestEmitted'
<1> DEFINE order == classifyCandle(bar, marker[s])
<1>1. emitted' = [emitted EXCEPT ![s] = @ \cup {bar}]
  BY DEF onCandle
<1>2. marker' = IF order = "stale" THEN marker ELSE [marker EXCEPT ![s] = bar]
  BY DEF onCandle
<1>3. emitted' \in [Series -> SUBSET Nat] /\ marker' \in [Series -> Nat]
  BY <1>1, <1>2 DEF WatchInv, WatchTyped
<1>4. marker[s] \in Nat /\ \A b \in emitted[s] : b \in Nat /\ b <= marker[s]
  BY DEF WatchInv, WatchTyped, MarkerIsNewestEmitted
<1>5. order = "stale" => marker[s] # 0 /\ bar < marker[s]
  BY <1>4 DEF classifyCandle, None
<1>6. order # "stale" => marker[s] <= bar
  BY <1>4 DEF classifyCandle, None
<1>7. ASSUME NEW r \in Series
      PROVE  marker'[r] \in emitted'[r] \cup {None} /\ \A b \in emitted'[r] : b <= marker'[r]
  <2>1. CASE r # s
    <3>1. marker'[r] = marker[r] /\ emitted'[r] = emitted[r]
      BY <1>1, <1>2, <2>1 DEF WatchInv, WatchTyped
    <3> QED BY <3>1 DEF WatchInv, MarkerIsNewestEmitted
  <2>2. CASE r = s /\ order = "stale"
    <3>1. marker'[s] = marker[s] /\ emitted'[s] = emitted[s] \cup {bar}
      BY <1>1, <1>2, <2>2 DEF WatchInv, WatchTyped
    <3>2. marker[s] \in emitted[s] \cup {None}
      BY DEF WatchInv, MarkerIsNewestEmitted
    <3> QED BY <3>1, <3>2, <2>2, <1>4, <1>5
  <2>3. CASE r = s /\ order # "stale"
    <3>1. marker'[s] = bar /\ emitted'[s] = emitted[s] \cup {bar}
      BY <1>1, <1>2, <2>3 DEF WatchInv, WatchTyped
    <3> QED BY <3>1, <2>3, <1>4, <1>6
  <2> QED BY <2>1, <2>2, <2>3
<1> QED BY <1>3, <1>7 DEF MarkerIsNewestEmitted

LEMMA InitWatch == Init => WatchInv
<1> SUFFICES ASSUME Init PROVE WatchInv
  OBVIOUS
<1>1. closed \in [Series -> Nat]
  BY BootsAssumption DEF Init
<1> QED BY <1>1 DEF Init, Boot, WatchInv, WatchTyped, MarkerIsNewestEmitted, None

LEMMA NextWatch == WatchInv /\ [Next]_vars => WatchInv'
<1> SUFFICES ASSUME WatchInv, [Next]_vars PROVE WatchInv'
  OBVIOUS
<1> USE DEF WatchInv
\* Most steps leave the clock, the handlers and the watch alone.
<1>1. ASSUME UNCHANGED <<closed, emitted, marker, live>> PROVE WatchInv'
  BY <1>1 DEF WatchTyped, MarkerIsNewestEmitted
<1>2. ASSUME live' \subseteq live, UNCHANGED <<closed, emitted, marker>> PROVE WatchInv'
  BY <1>2 DEF WatchTyped, MarkerIsNewestEmitted
<1>3. ASSUME NEW s \in Series, BarCloses(s) PROVE WatchInv'
  <2>1. closed' \in [Series -> Nat] /\ closed'[s] \in Nat \ {0}
    BY <1>3 DEF BarCloses, WatchTyped
  <2>2. live' \subseteq [series : Series, bar : Nat \ {0}, at : {"insert", "prune"}]
    BY <1>3, <2>1 DEF BarCloses, WatchTyped
  <2> QED BY <1>3, <2>1, <2>2 DEF BarCloses, watch, WatchTyped, MarkerIsNewestEmitted
<1>4. ASSUME NEW h \in live, Insert(h) PROVE WatchInv'
  <2>1. h \in [series : Series, bar : Nat \ {0}, at : {"insert", "prune"}]
    BY DEF WatchTyped
  <2>2. [h EXCEPT !.at = "prune"] \in [series : Series, bar : Nat \ {0}, at : {"insert", "prune"}]
    BY <2>1
  <2>3. live' \subseteq live \cup {[h EXCEPT !.at = "prune"]}
    BY <1>4 DEF Insert
  <2> QED BY <1>4, <2>2, <2>3 DEF Insert, outside, watch, WatchTyped, MarkerIsNewestEmitted
<1>5. ASSUME NEW h \in live, PruneAndEmit(h) PROVE WatchInv'
  <2>1. h.series \in Series /\ h.bar \in Nat \ {0}
    BY DEF WatchTyped
  <2>2. onCandle(h.series, h.bar)
    BY <1>5 DEF PruneAndEmit
  <2>3. emitted' \in [Series -> SUBSET Nat] /\ marker' \in [Series -> Nat] /\ MarkerIsNewestEmitted'
    BY <2>1, <2>2, EmitKeepsNewest
  <2>4. closed' = closed /\ live' \subseteq live
    BY <1>5 DEF PruneAndEmit, outside
  <2> QED BY <2>3, <2>4 DEF WatchTyped
<1>6. CASE Backfill
  BY <1>1, <1>6 DEF Backfill, ReadBounds, ReadGaps, FetchChunk, InsertRow, PruneAfterRun, outside, watch
<1>7. CASE Watch
  BY <1>1, <1>7 DEF Watch, TimerFires, outside
<1>8. CASE Audit
  BY <1>1, <1>8 DEF Audit, AuditTimer, AuditPrune, AuditScan, outside, watch
<1>9. CASE Network
  BY <1>1, <1>9 DEF Network, Opens, GoesSilent, Closes, watch
<1>10. CASE Faults
  <2>1. CASE \E h \in live : InsertFails(h)
    BY <1>2, <2>1 DEF InsertFails, outside, watch
  <2>2. CASE RunFails
    BY <1>1, <2>2 DEF RunFails, outside, watch
  <2>3. CASE AuditFails
    BY <1>1, <2>3 DEF AuditFails, outside, watch
  <2>4. CASE Restart
    BY <2>4 DEF Restart, WatchTyped, MarkerIsNewestEmitted, None
  <2> QED BY <1>10, <2>1, <2>2, <2>3, <2>4 DEF Faults
<1>11. CASE UNCHANGED vars
  BY <1>1, <1>11 DEF vars
<1> QED BY <1>3, <1>4, <1>5, <1>6, <1>7, <1>8, <1>9, <1>10, <1>11 DEF Next, Ingest

\* However inserts of one series overtake each other, the continuity watch
\* never loses its place: its marker is the newest candle emitted since boot.
THEOREM MarkerIsNewest == Spec => []MarkerIsNewestEmitted
<1>1. WatchInv => MarkerIsNewestEmitted
  BY DEF WatchInv
<1> QED BY <1>1, InitWatch, NextWatch, PTL DEF Spec

-----------------------------------------------------------------------------
(***************************************************************************)
(* The arithmetic of one series (CandleSeries).                            *)
(***************************************************************************)

\* ORDER BY loses no row, and the k-th has k rows up to itself.
LEMMA AscendingType ==
  ASSUME NEW S \in SUBSET Int, IsFiniteSet(S)
  PROVE  /\ Ascending(S) \in Seq(S)
         /\ Len(Ascending(S)) = Cardinality(S)
         /\ \A k \in 1..Cardinality(S) : Cardinality(UpTo(S, Ascending(S)[k])) = k
<1>1. Cardinality(S) \in Nat
  BY FS_CardinalityType
<1> DEFINE at(k) == CHOOSE t \in S : Cardinality(UpTo(S, t)) = k
           n == Cardinality(S)
           A == Ascending(S)
<1>2. A = [k \in 1..n |-> at(k)]
  BY DEF Ascending, UpTo
<1>3. \A k \in 1..n : at(k) \in S /\ Cardinality(UpTo(S, at(k))) = k
  <2>1. ASSUME NEW k \in 1..n PROVE at(k) \in S /\ Cardinality(UpTo(S, at(k))) = k
    <3>1. \E t \in S : Cardinality(UpTo(S, t)) = k
      BY RankExists
    <3>2. QED
      BY <3>1
  <2>2. QED
    BY <2>1
<1> HIDE DEF at, n, A
<1>4. n \in Nat
  BY <1>1 DEF n
<1>5. A \in Seq(S) /\ Len(A) = n /\ \A k \in 1..n : Cardinality(UpTo(S, A[k])) = k
  BY <1>2, <1>3, <1>4
<1>6. QED
  BY <1>5 DEF n, A

LEMMA PrefixType ==
  ASSUME NEW T, NEW s \in Seq(T), NEW n \in Nat
  PROVE  Prefix(s, n) \in Seq(T) /\ Len(Prefix(s, n)) <= n /\ Len(Prefix(s, n)) \in Nat
<1>1. CASE n < Len(s)
  BY <1>1 DEF Prefix
<1>2. CASE ~(n < Len(s))
  BY <1>2 DEF Prefix
<1>3. QED
  BY <1>1, <1>2

Bars(limit) == {t \in Int : t <= limit}

\* A range starts and ends at a missing open_time.
LEMMA RangesType ==
  ASSUME NEW limit \in Int, NEW s \in Seq(Bars(limit))
  PROVE  groupIntoRanges(s) \in Seq([start : Int, end : Bars(limit)])
<1> DEFINE starts == {i \in DOMAIN s : i = 1 \/ s[i] # s[i - 1] + 1}
           from   == Ascending(starts)
           until  == [k \in DOMAIN from |->
                        IF k < Len(from) THEN from[k + 1] - 1 ELSE Len(s)]
           ranges == [k \in DOMAIN from |-> [start |-> s[from[k]], end |-> s[until[k]]]]
<1>1. groupIntoRanges(s) = ranges
  BY DEF groupIntoRanges
<1>2. starts \in SUBSET Int /\ IsFiniteSet(starts) /\ starts \subseteq 1..Len(s) /\ Len(s) \in Nat
  <2>1. IsFiniteSet(1..Len(s))
    <3>1. 1 \in Int /\ Len(s) \in Int
      OBVIOUS
    <3>2. QED
      BY <3>1, FS_Interval
  <2>2. starts \subseteq 1..Len(s)
    OBVIOUS
  <2> HIDE DEF starts
  <2>3. IsFiniteSet(starts)
    BY <2>1, <2>2, FS_Subset
  <2>4. Len(s) \in Nat
    OBVIOUS
  <2>5. QED
    BY <2>2, <2>3, <2>4
<1> HIDE DEF starts
<1>3. /\ from \in Seq(starts) /\ Len(from) = Cardinality(starts)
      /\ \A k \in 1..Cardinality(starts) : Cardinality(UpTo(starts, from[k])) = k
  BY <1>2, AscendingType
<1> HIDE DEF from
<1>4. ASSUME NEW k \in DOMAIN from
      PROVE  from[k] \in 1..Len(s) /\ until[k] \in 1..Len(s)
  <2>1. from[k] \in 1..Len(s)
    <3> HIDE DEF until, ranges
    <3>1. from[k] \in starts
      BY <1>3
    <3>2. QED
      BY <1>2, <3>1
  <2>2. CASE ~(k < Len(from))
    <3>1. until[k] = Len(s)
      BY <2>2
    <3> HIDE DEF until
    <3>2. QED
      BY <2>1, <3>1, <1>2
  <2>3. CASE k < Len(from)
    <3>1. k + 1 \in 1..Cardinality(starts) /\ k \in Nat \ {0}
      BY <1>3, <2>3
    <3>2. from[k + 1] \in starts /\ Cardinality(UpTo(starts, from[k + 1])) = k + 1
      BY <1>3, <3>1
    <3>3. from[k + 1] # 1
      <4>1. SUFFICES ASSUME from[k + 1] = 1 PROVE FALSE
        OBVIOUS
      <4>2. UpTo(starts, 1) \subseteq {1}
        <5>1. \A u \in starts : u \in Nat \ {0}
          BY <1>2
        <5>2. QED
          BY <5>1 DEF UpTo
      <4>3. IsFiniteSet({1}) /\ Cardinality({1}) = 1
        BY FS_Singleton
      <4>4. Cardinality(UpTo(starts, 1)) <= 1
        BY <4>2, <4>3, FS_Subset
      <4>5. QED
        BY <3>1, <3>2, <4>1, <4>4
    <3>4. from[k + 1] \in 1..Len(s)
      BY <1>2, <3>2
    <3>5. until[k] = from[k + 1] - 1
      BY <2>3
    <3> HIDE DEF until
    <3>6. QED
      BY <2>1, <1>2, <3>3, <3>4, <3>5
  <2>4. QED
    BY <2>2, <2>3
<1> HIDE DEF until
<1>5. \A k \in DOMAIN from : ranges[k] \in [start : Int, end : Bars(limit)]
  <2>1. ASSUME NEW k \in DOMAIN from
        PROVE  ranges[k] \in [start : Int, end : Bars(limit)]
    <3>1. s[from[k]] \in Bars(limit) /\ s[until[k]] \in Bars(limit)
      BY <1>4
    <3>2. s[from[k]] \in Int
      BY <3>1 DEF Bars
    <3>3. QED
      BY <3>1, <3>2
  <2>2. QED
    BY <2>1
<1>6. Len(from) \in Nat /\ DOMAIN from = 1..Len(from)
  BY <1>3
<1> DEFINE R == [start : Int, end : Bars(limit)]
<1>7. DOMAIN ranges = 1..Len(from) /\ ranges = [k \in 1..Len(from) |-> ranges[k]]
  BY <1>6
<1>8. \A k \in 1..Len(from) : ranges[k] \in R
  BY <1>5, <1>6
<1> HIDE DEF ranges, R
<1>9. ranges \in Seq(R)
  BY <1>6, <1>7, <1>8
<1>10. QED
  BY <1>1, <1>9 DEF R

Chunk(limit) ==
  {c \in [start : Int, end : Int] :
     countCandlesBetween(c.start, c.end) \in 1..PerRequest /\ c.end <= limit}

LEMMA Ceiling ==
  ASSUME NEW c \in Nat, NEW P \in Nat \ {0}
  PROVE  /\ (c + P - 1) \div P \in Nat
         /\ \A i \in 1..((c + P - 1) \div P) : i \in Nat /\ (i - 1) * P \in Nat /\ (i - 1) * P < c
<1> DEFINE n == (c + P - 1) \div P
<1>1. n \in Nat /\ n * P <= c + P - 1
  OBVIOUS
<1> HIDE DEF n
<1>2. ASSUME NEW i \in 1..n PROVE i \in Nat /\ (i - 1) * P \in Nat /\ (i - 1) * P < c
  <2>1. i \in Nat /\ n - i \in Nat /\ i - 1 \in Nat
    BY <1>1
  <2>2. (n - i) * P \in Nat /\ (i - 1) * P \in Nat
    BY <2>1
  <2>3. n * P = (n - i) * P + (i - 1) * P + P
    BY <2>1, <1>1
  <2> DEFINE a == n * P
             b == (n - i) * P
             d == (i - 1) * P
  <2>4. a \in Int /\ b \in Nat /\ d \in Nat /\ a = b + d + P /\ a <= c + P - 1
    BY <1>1, <2>2, <2>3
  <2> HIDE DEF a, b, d
  <2>5. d \in Nat /\ d < c
    BY <2>4
  <2>6. QED
    BY <2>1, <2>5 DEF d
<1>3. QED
  BY <1>1, <1>2 DEF n

\* Every chunk of a range is one request that is not empty.
LEMMA ChunksType ==
  ASSUME NEW limit \in Int, NEW range \in [start : Int, end : Bars(limit)]
  PROVE  chunkRange(range) \in Seq(Chunk(limit))
<1> DEFINE c == countCandlesBetween(range.start, range.end)
           n == (c + PerRequest - 1) \div PerRequest
           chunk(i) == [start |-> range.start + (i - 1) * PerRequest,
                        end   |-> Min({range.start + i * PerRequest - 1, range.end})]
<1>1. range.start \in Int /\ range.end \in Int /\ range.end <= limit
  BY DEF Bars
<1>2. PerRequest \in Nat \ {0}
  BY LimitsAssumption
<1>3. c \in Nat /\ (c # 0 => c = range.end - range.start + 1)
  BY <1>1 DEF countCandlesBetween
<1>4. n \in Nat /\ \A i \in 1..n : i \in Nat /\ (i - 1) * PerRequest \in Nat /\ (i - 1) * PerRequest < c
  <2> HIDE DEF c
  <2>1. QED
    BY <1>2, <1>3, Ceiling
<1>5. ASSUME NEW i \in 1..n PROVE chunk(i) \in Chunk(limit)
  <2> DEFINE d == (i - 1) * PerRequest
             lo == range.start + d
             hi == Min({range.start + i * PerRequest - 1, range.end})
  <2>1. d \in Nat /\ d < c /\ i \in Nat /\ c = range.end - range.start + 1
    BY <1>3, <1>4
  <2>2. i * PerRequest = d + PerRequest /\ i * PerRequest \in Int
    BY <2>1, <1>2
  <2> DEFINE e == range.start + i * PerRequest - 1
  <2>3. e \in Int /\ e = range.start + d + PerRequest - 1
    BY <1>1, <1>2, <2>1, <2>2
  <2> HIDE DEF e, d, c, n
  <2>4. hi \in {e, range.end} /\ hi <= e /\ hi <= range.end
    BY <1>1, <2>3, ExtremesOfTwo DEF e
  <2> HIDE DEF hi
  <2>5. lo \in Int /\ hi \in Int /\ lo <= hi /\ hi - lo + 1 <= PerRequest /\ hi <= limit
    BY <1>1, <1>2, <2>1, <2>3, <2>4
  <2>6. chunk(i) = [start |-> lo, end |-> hi]
    BY DEF hi, d
  <2> HIDE DEF lo, chunk
  <2>7. countCandlesBetween(lo, hi) = hi - lo + 1
    BY <2>5 DEF countCandlesBetween
  <2>8. QED
    BY <1>2, <2>5, <2>6, <2>7 DEF Chunk
<1>6. chunkRange(range) = [i \in 1..n |-> chunk(i)]
  BY DEF chunkRange
<1> HIDE DEF n, chunk
<1>7. QED
  BY <1>4, <1>5, <1>6

LEMMA ChunksOfType ==
  ASSUME NEW limit \in Int, NEW s \in Seq(Bars(limit))
  PROVE  chunksOf(s) \in Seq(Chunk(limit))
<1> DEFINE ranges == groupIntoRanges(s)
           each   == [i \in DOMAIN ranges |-> chunkRange(ranges[i])]
<1>1. ranges \in Seq([start : Int, end : Bars(limit)])
  BY RangesType
<1>2. chunksOf(s) = FlattenSeq(each)
  BY DEF chunksOf
<1> HIDE DEF ranges
<1>3. each \in Seq(Seq(Chunk(limit)))
  <2> DEFINE R == [start : Int, end : Bars(limit)]
             C == Seq(Chunk(limit))
  <2>1. \A r \in R : chunkRange(r) \in C
    BY ChunksType
  <2>2. ranges \in Seq(R)
    BY <1>1
  <2> HIDE DEF R, C
  <2>3. \A i \in DOMAIN ranges : chunkRange(ranges[i]) \in C
    BY <2>1, <2>2
  <2>4. each \in Seq(C)
    BY <2>2, <2>3
  <2>5. QED
    BY <2>4 DEF C
<1> HIDE DEF each
<1>4. QED
  BY <1>2, <1>3, FlattenType

\* What a run may hold of a plan.
PlanOK(plan, limit) ==
  /\ plan \in Seq(Chunk(limit))
  /\ Len(plan) <= MaxRequests
  /\ candlesIn(plan) <= MaxCandles

LEMMA NoCandlesInNoChunks == candlesIn(<<>>) = 0
BY SumOfNothing DEF candlesIn

\* The longest prefix the limits allow is within the limits.
LEMMA PlanWithinLimits ==
  ASSUME NEW limit \in Int, NEW s \in Seq(Bars(limit))
  PROVE  PlanOK(planRequests(s), limit)
<1> DEFINE chunks == chunksOf(s)
           fits   == {n \in 0 .. Len(chunks) :
                        n <= MaxRequests /\ candlesIn(Prefix(chunks, n)) <= MaxCandles}
<1>1. planRequests(s) = Prefix(chunks, Max(fits))
  BY DEF planRequests
<1>2. chunks \in Seq(Chunk(limit))
  BY ChunksOfType
<1> HIDE DEF chunks
<1>3. Prefix(chunks, 0) = <<>>
  BY <1>2 DEF Prefix
<1>4. 0 \in fits
  BY <1>2, <1>3, NoCandlesInNoChunks, LimitsAssumption
<1>5. fits \in SUBSET Int /\ IsFiniteSet(fits) /\ fits \subseteq Nat
  <2>1. Len(chunks) \in Int /\ 0 \in Int
    BY <1>2
  <2>2. IsFiniteSet(0..Len(chunks)) /\ fits \subseteq 0..Len(chunks)
    BY <2>1, FS_Interval
  <2> HIDE DEF fits
  <2>3. IsFiniteSet(fits)
    BY <2>2, FS_Subset
  <2>4. QED
    BY <2>1, <2>2, <2>3
<1>6. Max(fits) \in fits
  <2> HIDE DEF fits
  <2>1. QED
    BY <1>4, <1>5, MaxIsLargest
<1> DEFINE n == Max(fits)
<1>7. n \in Nat /\ n <= MaxRequests /\ candlesIn(Prefix(chunks, n)) <= MaxCandles
  <2> HIDE DEF n
  <2>1. n \in fits
    BY <1>6 DEF n
  <2>2. QED
    BY <2>1, <1>2
<1> HIDE DEF n, fits
<1>8. Prefix(chunks, n) \in Seq(Chunk(limit)) /\ Len(Prefix(chunks, n)) <= n
      /\ Len(Prefix(chunks, n)) \in Nat
  BY <1>2, <1>7, PrefixType
<1>9. planRequests(s) = Prefix(chunks, n)
  BY <1>1 DEF n
<1>10. QED
  BY <1>7, <1>8, <1>9, LimitsAssumption DEF PlanOK

\* The loop over chunks takes one at a time.
LEMMA PlanGoesOn ==
  ASSUME NEW limit \in Int, NEW plan, PlanOK(plan, limit), plan # <<>>
  PROVE  PlanOK(Tail(plan), limit) /\ Head(plan) \in Chunk(limit)
<1> DEFINE count(p) == [i \in DOMAIN p |-> countCandlesBetween(p[i].start, p[i].end)]
           f == count(plan)
           m == Len(plan) - 1
<1>1. plan \in Seq(Chunk(limit)) /\ Len(plan) <= MaxRequests /\ candlesIn(plan) <= MaxCandles
  BY DEF PlanOK
<1>2. /\ Tail(plan) \in Seq(Chunk(limit)) /\ Head(plan) \in Chunk(limit)
      /\ m \in Nat /\ Len(Tail(plan)) = m /\ DOMAIN plan = 1..(m + 1)
      /\ DOMAIN Tail(plan) = 1..m /\ \A i \in 1..m : Tail(plan)[i] = plan[i + 1]
  BY <1>1
<1>3. f \in [1..(m + 1) -> Nat]
  <2>1. \A c \in Chunk(limit) : countCandlesBetween(c.start, c.end) \in Nat
    BY LimitsAssumption DEF Chunk
  <2> HIDE DEF m
  <2>2. \A i \in 1..(m + 1) : plan[i] \in Chunk(limit)
    BY <1>1, <1>2
  <2>3. QED
    BY <1>2, <2>1, <2>2
<1>4. count(Tail(plan)) = ButFirst(f, m)
  <2> HIDE DEF m
  <2>1. \A i \in 1..m : i + 1 \in 1..(m + 1)
    BY <1>2
  <2>2. QED
    BY <1>2, <2>1 DEF ButFirst
<1>5. candlesIn(plan) = SumFunction(f) /\ candlesIn(Tail(plan)) = SumFunction(count(Tail(plan)))
  BY DEF candlesIn
<1> HIDE DEF count, f, m
<1>6. SumFunction(f) = f[1] + SumFunction(ButFirst(f, m)) /\ SumFunction(ButFirst(f, m)) \in Nat
  BY <1>2, <1>3, SumWithoutFirst
<1>7. f[1] \in Nat
  BY <1>2, <1>3
<1>8. candlesIn(Tail(plan)) <= MaxCandles
  BY <1>1, <1>4, <1>5, <1>6, <1>7, LimitsAssumption
<1>9. Len(Tail(plan)) <= MaxRequests
  BY <1>1, <1>2, LimitsAssumption DEF m
<1>10. QED
  BY <1>2, <1>8, <1>9 DEF PlanOK

\* A plan stays good while the clock goes on.
LEMMA PlanOutlivesBars ==
  ASSUME NEW limit \in Int, NEW later \in Int, limit <= later,
         NEW plan, PlanOK(plan, limit)
  PROVE  PlanOK(plan, later)
<1>1. Chunk(limit) \subseteq Chunk(later)
  <2>1. ASSUME NEW c \in Chunk(limit) PROVE c \in Chunk(later)
    <3>1. c.end \in Int /\ c.end <= limit
      BY DEF Chunk
    <3>2. c.end <= later
      BY <3>1
    <3>3. QED
      BY <3>2 DEF Chunk
  <2>2. QED
    BY <2>1
<1>2. plan \in Seq(Chunk(later))
  BY <1>1 DEF PlanOK
<1>3. QED
  BY <1>2 DEF PlanOK

LEMMA NoPlanIsOK == ASSUME NEW limit PROVE PlanOK(<<>>, limit)
BY NoCandlesInNoChunks, LimitsAssumption DEF PlanOK

-----------------------------------------------------------------------------
\* The table as a scan finds it: so many rows, none beyond the limit.
Rows(limit) == {held \in SUBSET Bars(limit) : IsFiniteSet(held)}

LEMMA InteriorIsHeld ==
  ASSUME NEW limit \in Int, NEW held \in Rows(limit)
  PROVE  Interior(held) \in Rows(limit)
<1>1. CASE held = {}
  BY <1>1, FS_EmptySet DEF Interior, Rows
<1>2. CASE held # {}
  <2>1. held \in SUBSET Int /\ IsFiniteSet(held) /\ held \subseteq Bars(limit)
    BY DEF Rows, Bars
  <2>2. Min(held) \in held /\ Max(held) \in held
    BY <1>2, <2>1, MaxIsLargest, MinIsSmallest
  <2> DEFINE lo == Min(held)
             hi == Max(held)
  <2>3. lo \in Int /\ hi \in Int /\ hi <= limit
    BY <2>1, <2>2 DEF Bars
  <2>4. Interior(held) = {t \in lo..hi : t \notin held}
    BY <1>2 DEF Interior
  <2> HIDE DEF lo, hi
  <2>5. IsFiniteSet(lo..hi)
    BY <2>3, FS_Interval
  <2>6. Interior(held) \subseteq lo..hi
    BY <2>4
  <2>7. IsFiniteSet(Interior(held))
    BY <2>5, <2>6, FS_Subset
  <2>8. Interior(held) \subseteq Bars(limit)
    BY <2>3, <2>6 DEF Bars
  <2>9. QED
    BY <2>7, <2>8 DEF Rows
<1>3. QED
  BY <1>1, <1>2

LEMMA GapsType ==
  ASSUME NEW limit \in Int, NEW held \in Rows(limit), NEW n \in Nat
  PROVE  /\ SQL_FIND_INTERIOR_GAPS(held, n) \in Seq(Bars(limit))
         /\ Len(SQL_FIND_INTERIOR_GAPS(held, n)) \in Nat
<1> DEFINE I == Interior(held)
<1>1. I \in SUBSET Int /\ IsFiniteSet(I) /\ I \subseteq Bars(limit)
  BY InteriorIsHeld DEF Rows, Bars
<1> HIDE DEF I
<1>2. Ascending(I) \in Seq(I)
  BY <1>1, AscendingType
<1>3. Ascending(I) \in Seq(Bars(limit))
  <2>1. ASSUME NEW A, NEW B, A \subseteq B, NEW s \in Seq(A) PROVE s \in Seq(B)
    BY <2>1
  <2>2. QED
    BY <1>1, <1>2, <2>1
<1>4. SQL_FIND_INTERIOR_GAPS(held, n) = Prefix(Ascending(I), n)
  BY DEF SQL_FIND_INTERIOR_GAPS, I
<1>5. Prefix(Ascending(I), n) \in Seq(Bars(limit)) /\ Len(Prefix(Ascending(I), n)) \in Nat
  BY <1>3, PrefixType
<1>6. QED
  BY <1>4, <1>5

\* The trailing hole ends at the newest closed bar.
LEMMA TrailingType ==
  ASSUME NEW limit \in Int, NEW newest \in Int, NEW newestClosed \in Bars(limit),
         NEW room \in Int
  PROVE  Trailing(newest, newestClosed, room) \in Seq(Bars(limit))
<1> DEFINE gap == newestClosed - newest
           m == Min({room, newestClosed - newest})
           n == Max({0, m})
<1>1. newestClosed \in Int /\ newestClosed <= limit /\ gap \in Int
  BY DEF Bars
<1>2. m \in {room, gap} /\ m <= gap
  BY <1>1, ExtremesOfTwo
<1>3. Trailing(newest, newestClosed, room) = [i \in 1..n |-> newest + i]
  BY DEF Trailing, After
<1> HIDE DEF m
<1>4. m \in Int /\ m <= newestClosed - newest
  BY <1>1, <1>2
<1>5. n \in {0, m} /\ n >= 0
  BY <1>4, ExtremesOfTwo
<1> HIDE DEF n
<1>6. n \in Nat /\ (n # 0 => n <= newestClosed - newest)
  BY <1>4, <1>5
<1>7. \A i \in 1..n : newest + i \in Bars(limit)
  BY <1>1, <1>6 DEF Bars
<1>8. QED
  BY <1>3, <1>6, <1>7

\* Whatever a scan reads, the run it plans is within the limits and asks for
\* nothing newer than the limit of what it read.
LEMMA ScanIsPlannable ==
  ASSUME NEW limit \in Int, NEW held \in Rows(limit),
         NEW newest \in Int, NEW newestClosed \in Bars(limit)
  PROVE  PlanOK(planRequests(missingAfterScan(SQL_FIND_INTERIOR_GAPS(held, MaxCandles),
                                              newest, newestClosed, MaxCandles)), limit)
<1> DEFINE gaps == SQL_FIND_INTERIOR_GAPS(held, MaxCandles)
           tail == Trailing(newest, newestClosed, MaxCandles - Len(gaps))
<1>1. MaxCandles \in Nat
  BY LimitsAssumption
<1>2. gaps \in Seq(Bars(limit)) /\ Len(gaps) \in Nat
  BY <1>1, GapsType
<1> HIDE DEF gaps
<1>3. MaxCandles - Len(gaps) \in Int
  BY <1>1, <1>2
<1>4. tail \in Seq(Bars(limit))
  BY <1>3, TrailingType
<1> HIDE DEF tail
<1>5. gaps \o tail \in Seq(Bars(limit))
  BY <1>2, <1>4
<1>6. missingAfterScan(gaps, newest, newestClosed, MaxCandles) = gaps \o tail
  BY DEF missingAfterScan, tail
<1>7. QED
  BY <1>5, <1>6, PlanWithinLimits DEF gaps

LEMMA ColdStartIsPlannable ==
  ASSUME NEW limit \in Int, NEW newestClosed \in Bars(limit)
  PROVE  PlanOK(planRequests(missingAtColdStart(newestClosed, MaxCandles)), limit)
<1> DEFINE bars == After(newestClosed - ColdStart, ColdStart)
<1>1. MaxCandles \in Nat /\ ColdStart \in Nat /\ newestClosed \in Int /\ newestClosed <= limit
  BY LimitsAssumption DEF Bars
<1>2. bars \in Seq(Bars(limit))
  <2>1. \A i \in 1..ColdStart : (newestClosed - ColdStart) + i \in Bars(limit)
    BY <1>1 DEF Bars
  <2>2. QED
    BY <1>1, <2>1 DEF After
<1> HIDE DEF bars
<1>3. Prefix(bars, MaxCandles) \in Seq(Bars(limit))
  BY <1>1, <1>2, PrefixType
<1>4. missingAtColdStart(newestClosed, MaxCandles) = Prefix(bars, MaxCandles)
  BY DEF missingAtColdStart, bars
<1>5. QED
  BY <1>3, <1>4, PlanWithinLimits

-----------------------------------------------------------------------------
(***************************************************************************)
(* Retention (SQL_PRUNE_CANDLES).                                          *)
(***************************************************************************)
Newer(held, t) == {u \in held : u > t}

\* The newest rows: as many as the cap, and none if the cap is larger.
LEMMA PruneKeepsNewest ==
  ASSUME NEW held \in SUBSET Int, IsFiniteSet(held), NEW cap \in Nat,
         NEW t \in held, t \notin SQL_PRUNE_CANDLES(held, cap)
  PROVE  Cardinality(Newer(SQL_PRUNE_CANDLES(held, cap), t)) >= cap
<1> DEFINE kept == SQL_PRUNE_CANDLES(held, cap)
           N == Newer(held, t)
<1>1. kept = {x \in held : Cardinality(Newer(held, x)) < cap}
  BY DEF SQL_PRUNE_CANDLES, Newer
<1>2. N \in SUBSET Int /\ IsFiniteSet(N) /\ N \subseteq held
  BY FS_Subset DEF Newer
<1>3. Cardinality(N) \in Nat /\ Cardinality(N) >= cap
  BY <1>1, <1>2, FS_CardinalityType
<1>4. CASE cap = 0
  <2>1. IsFiniteSet(Newer(kept, t))
    <3>1. Newer(kept, t) \subseteq held
      BY <1>1 DEF Newer
    <3> HIDE DEF kept
    <3>2. QED
      BY <3>1, FS_Subset
  <2>2. QED
    BY <1>4, <2>1, FS_CardinalityType
<1>5. CASE cap # 0
  <2>1. cap \in 1..Cardinality(N)
    BY <1>3, <1>5
  <2> HIDE DEF N, kept
  <2>2. PICK x \in N : Cardinality({u \in N : u >= x}) = cap
    BY <1>2, <2>1, RankFromAbove
  <2> DEFINE top == {u \in N : u >= x}
  <2>3. ASSUME NEW u \in top PROVE u \in kept
    <3>1. u \in N /\ u \in held /\ u \in Int /\ x \in Int /\ t \in Int /\ u >= x /\ u > t
      BY <1>2 DEF N, Newer
    <3>2. Newer(held, u) \subseteq top \ {u}
      <4>1. ASSUME NEW v \in held, v > u PROVE v \in N /\ v >= x /\ v # u
        <5>1. v \in Int
          OBVIOUS
        <5>2. v > t /\ v >= x /\ v # u
          BY <3>1, <4>1, <5>1
        <5>3. QED
          BY <5>2 DEF N, Newer
      <4>2. QED
        BY <4>1 DEF Newer
    <3>3. IsFiniteSet(top) /\ Cardinality(top) = cap
      <4>1. top \subseteq N
        OBVIOUS
      <4>2. IsFiniteSet(top)
        BY <4>1, <1>2, FS_Subset
      <4>3. QED
        BY <4>2, <2>2
    <3> HIDE DEF top
    <3>4. IsFiniteSet(top \ {u}) /\ Cardinality(top \ {u}) = cap - 1
      BY <3>3, FS_RemoveElement
    <3>5. Cardinality(Newer(held, u)) <= cap - 1 /\ Cardinality(Newer(held, u)) \in Nat
      BY <3>2, <3>4, FS_Subset, FS_CardinalityType
    <3>6. Cardinality(Newer(held, u)) < cap
      BY <3>5
    <3>7. QED
      BY <3>1, <3>6, <1>1
  <2>4. top \subseteq Newer(kept, t)
    <3>1. \A u \in N : u > t
      BY DEF N, Newer
    <3>2. QED
      BY <2>3, <3>1 DEF Newer
  <2>5. IsFiniteSet(Newer(kept, t))
    <3>1. Newer(kept, t) \subseteq held
      BY <1>1 DEF Newer
    <3>2. QED
      BY <3>1, FS_Subset
  <2>6. Cardinality(top) <= Cardinality(Newer(kept, t))
    <3> HIDE DEF top
    <3>1. QED
      BY <2>4, <2>5, FS_Subset
  <2>7. QED
    BY <2>2, <2>6, <2>5, FS_CardinalityType DEF kept
<1>6. QED
  BY <1>4, <1>5

\* And no more than the cap are left.
LEMMA PruneBounds ==
  ASSUME NEW held \in SUBSET Int, IsFiniteSet(held), NEW cap \in Nat
  PROVE  /\ SQL_PRUNE_CANDLES(held, cap) \subseteq held
         /\ IsFiniteSet(SQL_PRUNE_CANDLES(held, cap))
         /\ Cardinality(SQL_PRUNE_CANDLES(held, cap)) <= cap
<1> DEFINE kept == SQL_PRUNE_CANDLES(held, cap)
<1>1. kept = {x \in held : Cardinality(Newer(held, x)) < cap}
  BY DEF SQL_PRUNE_CANDLES, Newer
<1>2. kept \subseteq held
  BY <1>1
<1> HIDE DEF kept
<1>3. IsFiniteSet(kept) /\ kept \in SUBSET Int
  BY <1>2, FS_Subset
<1>4. Cardinality(kept) <= cap
  <2>1. CASE kept = {}
    BY <2>1, FS_EmptySet
  <2>2. CASE kept # {}
    <3>1. PICK m \in kept : \A x \in kept : m <= x
      BY <1>3, <2>2, SmallestExists
    <3>2. Cardinality(Newer(held, m)) < cap
      BY <1>1, <3>1
    <3>3. kept \ {m} \subseteq Newer(held, m)
      <4>1. ASSUME NEW x \in kept, x # m PROVE x \in held /\ x > m
        <5>1. x \in Int /\ m \in Int /\ m <= x
          BY <1>3, <3>1
        <5>2. QED
          BY <4>1, <5>1, <1>2
      <4>2. QED
        BY <4>1 DEF Newer
    <3>4. IsFiniteSet(Newer(held, m))
      BY FS_Subset DEF Newer
    <3>5. Cardinality(kept \ {m}) <= Cardinality(Newer(held, m))
      BY <3>3, <3>4, FS_Subset
    <3>6. Cardinality(kept \ {m}) = Cardinality(kept) - 1 /\ Cardinality(kept) \in Nat
      BY <1>3, <3>1, FS_RemoveElement, FS_CardinalityType
    <3>7. Cardinality(Newer(held, m)) \in Nat
      BY <3>4, FS_CardinalityType
    <3>8. QED
      BY <3>2, <3>5, <3>6, <3>7
  <2>3. QED
    BY <2>1, <2>2
<1>5. QED
  BY <1>2, <1>3, <1>4 DEF kept

-----------------------------------------------------------------------------
(***************************************************************************)
(* The stage a run is in, its plan and the audit waiting for it.           *)
(***************************************************************************)
Runs ==
  [owner : {"sweep", "timer", "audit"}, series : Series, todo : Seq(Series),
   at : {"bounds", "gaps", "fetch", "prune"}, newest : Int, newestClosed : Int,
   plan : Seq([start : Int, end : Int]), rows : Seq(Int), inserted : BOOLEAN]

Audits == [todo : Seq(Series), at : {"prune", "scan", "repair"}]

\* Nothing a run knows of or asks for is newer than the newest closed bar.
GoodRun(r, clock) ==
  /\ r \in Runs
  /\ r.owner # "sweep" => r.todo = <<>>
  /\ PlanOK(r.plan, clock[r.series])
  /\ r.rows \in Seq(Bars(clock[r.series]))
  /\ r.newestClosed \in Bars(clock[r.series])

StageOK(r) ==
  /\ r.at = "fetch" <=> Left(r)
  /\ r.at = "prune" => r.inserted

RunInv(r, a, clock) ==
  /\ r # NoRun => GoodRun(r, clock) /\ StageOK(r)
  /\ a \in Audits
  /\ (a.todo # <<>> /\ a.at = "repair") <=> (r # NoRun /\ r.owner = "audit")

TableOK ==
  /\ closed \in [Series -> Nat]
  /\ store \in [Series -> SUBSET Int]
  /\ \A s \in Series : store[s] \in Rows(closed[s])

Handlers == [series : Series, bar : Nat \ {0}, at : {"insert", "prune"}]

LiveOK == live \subseteq Handlers /\ \A h \in live : h.bar <= closed[h.series]

RepairInv ==
  /\ TableOK /\ LiveOK
  /\ RunInv(run, audit, closed)
  /\ socket \in {"open", "silent", "closed"}
  /\ timers \subseteq Series
  /\ faults \in Nat

LEMMA RunsAreRuns == \A r \in Runs : r # NoRun
<1>1. ASSUME NEW r \in Runs PROVE r # NoRun
  <2>1. r.owner # "none"
    BY DEF Runs
  <2>2. NoRun.owner = "none"
    BY DEF NoRun
  <2>3. QED
    BY <2>1, <2>2
<1>2. QED
  BY <1>1

LEMMA BeginIsGood ==
  ASSUME NEW clock \in [Series -> Nat], NEW owner \in {"sweep", "timer", "audit"},
         NEW s \in Series, NEW todo \in Seq(Series), owner # "sweep" => todo = <<>>
  PROVE  /\ GoodRun(Begin(owner, s, todo), clock) /\ StageOK(Begin(owner, s, todo))
         /\ Begin(owner, s, todo) # NoRun /\ Begin(owner, s, todo).owner = owner
<1> DEFINE b == Begin(owner, s, todo)
<1>1. b \in Runs
  BY DEF Begin, Runs, None
<1>2. /\ b.series = s /\ b.owner = owner /\ b.todo = todo /\ b.plan = <<>> /\ b.rows = <<>>
      /\ b.newestClosed = 0 /\ b.at = "bounds"
  BY DEF Begin, None
<1> HIDE DEF b
<1>3. clock[s] \in Nat
  OBVIOUS
<1>4. PlanOK(b.plan, clock[b.series])
  BY <1>2, <1>3, NoPlanIsOK
<1>5. b.rows \in Seq(Bars(clock[b.series])) /\ b.newestClosed \in Bars(clock[b.series])
  BY <1>2, <1>3 DEF Bars
<1>6. GoodRun(b, clock)
  BY <1>1, <1>2, <1>4, <1>5 DEF GoodRun
<1>7. StageOK(b)
  BY <1>2 DEF StageOK, Left
<1>8. QED
  BY <1>1, <1>2, <1>6, <1>7, RunsAreRuns DEF b

\* Releasing the flag: the sweep goes on with its next interval, the audit too.
LEMMA EndRunIsGood ==
  ASSUME closed \in [Series -> Nat], RunInv(run, audit, closed), running, EndRun
  PROVE  RunInv(run', audit', closed)
<1>1. GoodRun(run, closed) /\ run \in Runs /\ audit \in Audits
  BY DEF RunInv, running, GoodRun
<1>2. run.todo \in Seq(Series) /\ run.owner \in {"sweep", "timer", "audit"}
  BY <1>1 DEF Runs
<1>3. CASE run.owner = "audit"
  <2>1. run.todo = <<>> /\ audit.todo # <<>> /\ audit.todo \in Seq(Series)
    BY <1>1, <1>3 DEF RunInv, running, GoodRun, Audits
  <2>2. run' = NoRun /\ audit' = AuditNext
    BY <1>3, <2>1 DEF EndRun
  <2>3. audit' = [todo |-> Tail(audit.todo), at |-> "prune"] /\ Tail(audit.todo) \in Seq(Series)
    BY <2>1, <2>2 DEF AuditNext, AuditFrom
  <2>4. audit' \in Audits /\ audit'.at = "prune"
    BY <2>3 DEF Audits
  <2>5. QED
    BY <2>2, <2>4 DEF RunInv
<1>4. CASE run.owner # "audit"
  <2>1. audit' = audit /\ ~(audit.todo # <<>> /\ audit.at = "repair")
    BY <1>4 DEF EndRun, RunInv, running
  <2>2. CASE run.todo = <<>>
    BY <2>1, <2>2, <1>1 DEF EndRun, RunInv
  <2>3. CASE run.todo # <<>>
    <3>1. run' = Begin(run.owner, Head(run.todo), Tail(run.todo))
      BY <2>3 DEF EndRun
    <3>2. Head(run.todo) \in Series /\ Tail(run.todo) \in Seq(Series)
      BY <1>2, <2>3
    <3>3. run.owner = "sweep"
      BY <1>1, <2>3 DEF GoodRun
    <3>4. GoodRun(run', closed) /\ StageOK(run') /\ run'.owner = run.owner
      BY <1>2, <3>1, <3>2, <3>3, BeginIsGood
    <3>5. QED
      BY <1>1, <1>4, <2>1, <3>4 DEF RunInv
  <2>4. QED
    BY <2>2, <2>3
<1>5. QED
  BY <1>3, <1>4

\* The next await of a run, whatever its last answer was.
LEMMA ContinueIsGood ==
  ASSUME closed \in [Series -> Nat], RunInv(run, audit, closed), running,
         NEW r, GoodRun(r, closed), r.owner = run.owner, Continue(r)
  PROVE  RunInv(run', audit', closed)
<1>1. r \in Runs /\ audit \in Audits
  BY DEF RunInv, GoodRun
<1>2. CASE EndRun
  BY <1>2, EndRunIsGood
<1>3. ASSUME NEW at \in {"fetch", "prune"}, run' = [r EXCEPT !.at = at], audit' = audit,
             at = "fetch" <=> Left(r), at = "prune" => r.inserted
      PROVE  RunInv(run', audit', closed)
  <2> DEFINE q == [r EXCEPT !.at = at]
  <2>1. /\ q \in Runs /\ q.at = at /\ q.owner = r.owner /\ q.series = r.series /\ q.plan = r.plan
        /\ q.rows = r.rows /\ q.inserted = r.inserted /\ q.todo = r.todo
        /\ q.newestClosed = r.newestClosed
    BY <1>1 DEF Runs
  <2> HIDE DEF q
  <2>2. GoodRun(q, closed)
    BY <2>1 DEF GoodRun
  <2>3. StageOK(q)
    BY <1>3, <2>1 DEF StageOK, Left
  <2>4. q # NoRun /\ q.owner = run.owner
    BY <2>1, RunsAreRuns
  <2>5. run' = q
    BY <1>3 DEF q
  <2>6. (audit.todo # <<>> /\ audit.at = "repair") <=> run.owner = "audit"
    BY DEF RunInv, running
  <2>7. QED
    BY <1>1, <1>3, <2>2, <2>3, <2>4, <2>5, <2>6 DEF RunInv
<1>4. CASE Left(r) /\ run' = [r EXCEPT !.at = "fetch"] /\ UNCHANGED audit
  BY <1>3, <1>4
<1>5. CASE ~Left(r) /\ r.inserted /\ run' = [r EXCEPT !.at = "prune"] /\ UNCHANGED audit
  BY <1>3, <1>5
<1>6. QED
  BY <1>2, <1>4, <1>5 DEF Continue

LEMMA RunOutlivesBars ==
  ASSUME NEW clock \in [Series -> Nat], NEW later \in [Series -> Nat],
         \A s \in Series : clock[s] <= later[s],
         NEW r, NEW a, RunInv(r, a, clock)
  PROVE  RunInv(r, a, later)
<1>1. CASE r = NoRun
  BY <1>1 DEF RunInv
<1>2. CASE r # NoRun
  <2>1. GoodRun(r, clock) /\ r \in Runs /\ r.series \in Series
    BY <1>2 DEF RunInv, GoodRun, Runs
  <2> DEFINE c == clock[r.series]
             d == later[r.series]
  <2>2. c \in Int /\ d \in Int /\ c <= d
    BY <2>1
  <2>3. PlanOK(r.plan, c) /\ r.rows \in Seq(Bars(c)) /\ r.newestClosed \in Bars(c)
    BY <2>1 DEF GoodRun
  <2> HIDE DEF c, d
  <2>4. Bars(c) \subseteq Bars(d)
    BY <2>2 DEF Bars
  <2>5. PlanOK(r.plan, d)
    BY <2>2, <2>3, PlanOutlivesBars
  <2>6. r.rows \in Seq(Bars(d)) /\ r.newestClosed \in Bars(d)
    <3>1. ASSUME NEW A, NEW B, A \subseteq B, NEW s \in Seq(A) PROVE s \in Seq(B)
      BY <3>1
    <3>2. QED
      BY <2>3, <2>4, <3>1
  <2>7. GoodRun(r, later)
    BY <2>1, <2>5, <2>6 DEF GoodRun, d
  <2>8. QED
    BY <2>7, <1>2 DEF RunInv
<1>3. QED
  BY <1>1, <1>2

-----------------------------------------------------------------------------
(***************************************************************************)
(* What each step does to the table and to the clock.                      *)
(***************************************************************************)
LEMMA AddedRow ==
  ASSUME NEW limit \in Int, NEW held \in Rows(limit), NEW t \in Bars(limit)
  PROVE  held \cup {t} \in Rows(limit)
<1>1. IsFiniteSet(held \cup {t})
  BY FS_AddElement DEF Rows
<1>2. QED
  BY <1>1 DEF Rows

LEMMA PrunedRows ==
  ASSUME NEW limit \in Int, NEW held \in Rows(limit), NEW cap \in Nat
  PROVE  /\ SQL_PRUNE_CANDLES(held, cap) \in Rows(limit)
         /\ Cardinality(SQL_PRUNE_CANDLES(held, cap)) <= cap
<1>1. held \in SUBSET Int /\ IsFiniteSet(held)
  BY DEF Rows, Bars
<1>2. QED
  BY <1>1, PruneBounds DEF Rows

\* The chunk ends at a closed bar, so the bar that is forming is not asked for.
LEMMA ServedIsClosed ==
  ASSUME closed \in [Series -> Nat], NEW s \in Series, NEW chunk \in Chunk(closed[s])
  PROVE  Served(s, chunk) \in Seq(Bars(closed[s]))
<1> DEFINE rows == {t \in Exchange(s) : chunk.start <= t /\ t <= chunk.end}
<1>1. closed[s] \in Nat /\ chunk.end \in Int /\ chunk.end <= closed[s] /\ ColdStart \in Nat
  BY LimitsAssumption DEF Chunk
<1>2. rows \subseteq (-ColdStart)..(closed[s] + 1)
  BY DEF Exchange
<1>3. IsFiniteSet(rows) /\ rows \in SUBSET Int
  <2> HIDE DEF rows
  <2>1. -ColdStart \in Int /\ closed[s] + 1 \in Int
    BY <1>1
  <2>2. IsFiniteSet((-ColdStart)..(closed[s] + 1))
    BY <2>1, FS_Interval
  <2>3. IsFiniteSet(rows)
    BY <1>2, <2>2, FS_Subset
  <2>4. \A t \in (-ColdStart)..(closed[s] + 1) : t \in Int
    BY <2>1
  <2>5. QED
    BY <1>2, <2>3, <2>4
<1>4. rows \subseteq Bars(closed[s])
  <2>1. \A t \in rows : t \in Int /\ t <= chunk.end
    BY <1>3
  <2>2. QED
    BY <1>1, <2>1 DEF Bars
<1> HIDE DEF rows
<1>5. Ascending(rows) \in Seq(rows)
  BY <1>3, AscendingType
<1>6. Ascending(rows) \in Seq(Bars(closed[s]))
  <2>1. ASSUME NEW A, NEW B, A \subseteq B, NEW q \in Seq(A) PROVE q \in Seq(B)
    BY <2>1
  <2>2. QED
    BY <1>4, <1>5, <2>1
<1>7. QED
  BY <1>6 DEF Served, rows

\* A step changes the table at one series, by one row or by a pruning.
TableChanges(s, rows) == store' = [store EXCEPT ![s] = rows]

LEMMA TableStaysOK ==
  ASSUME TableOK, closed' = closed, NEW s \in Series, NEW rows \in Rows(closed[s]),
         TableChanges(s, rows)
  PROVE  TableOK'
<1>1. rows \in SUBSET Int
  BY DEF Rows, Bars
<1>2. store' \in [Series -> SUBSET Int]
  BY <1>1 DEF TableOK, TableChanges
<1>3. \A q \in Series : store'[q] \in Rows(closed'[q])
  BY DEF TableOK, TableChanges
<1>4. QED
  BY <1>2, <1>3 DEF TableOK

LEMMA GoodParts ==
  ASSUME RepairInv, running
  PROVE  /\ run \in Runs /\ GoodRun(run, closed) /\ StageOK(run) /\ run.series \in Series
         /\ closed[run.series] \in Nat /\ store[run.series] \in Rows(closed[run.series])
         /\ Cap[run.series] \in Nat
<1>1. GoodRun(run, closed) /\ StageOK(run)
  BY DEF RepairInv, RunInv, running
<1>2. run \in Runs
  BY <1>1 DEF GoodRun
<1>3. run.series \in Series
  BY <1>2 DEF Runs
<1>4. QED
  BY <1>1, <1>2, <1>3, RepairAssumption DEF RepairInv, TableOK

LEMMA InitRepair ==
  ASSUME \A b \in Boots : \A s \in Series : b.held[s] \subseteq Bars(b.closed[s])
  PROVE  Init => RepairInv
<1> SUFFICES ASSUME Init PROVE RepairInv
  OBVIOUS
<1>1. PICK b \in Boots : store = b.held /\ closed = b.closed
  BY DEF Init
<1>2. TableOK
  <2>1. closed \in [Series -> Nat] /\ store \in [Series -> SUBSET Int]
        /\ \A s \in Series : IsFiniteSet(store[s])
    BY <1>1, BootsAssumption
  <2>2. \A s \in Series : store[s] \subseteq Bars(closed[s])
    BY <1>1
  <2>3. QED
    BY <2>1, <2>2 DEF TableOK, Rows
<1>3. live = {} /\ timers = {} /\ run = NoRun /\ audit = AuditFrom(Intervals)
      /\ socket = "closed" /\ faults = 0
  BY DEF Init, Boot
<1>4. audit \in Audits /\ audit.at = "prune"
  BY <1>3, RepairAssumption DEF AuditFrom, Audits
<1>5. RunInv(run, audit, closed)
  BY <1>3, <1>4 DEF RunInv
<1>6. QED
  BY <1>2, <1>3, <1>5 DEF RepairInv, LiveOK

-----------------------------------------------------------------------------
(* ingest.js *)

LEMMA BarClosesKeeps ==
  ASSUME RepairInv, NEW s \in Series, BarCloses(s) PROVE RepairInv'
<1>1. closed \in [Series -> Nat] /\ closed' = [closed EXCEPT ![s] = @ + 1]
  BY DEF RepairInv, TableOK, BarCloses
<1>2. /\ closed' \in [Series -> Nat] /\ closed'[s] \in Nat \ {0}
      /\ \A q \in Series : closed[q] <= closed'[q]
  BY <1>1
<1>3. \A q \in Series : Bars(closed[q]) \subseteq Bars(closed'[q])
  <2>1. ASSUME NEW q \in Series PROVE Bars(closed[q]) \subseteq Bars(closed'[q])
    <3>1. closed[q] \in Int /\ closed'[q] \in Int /\ closed[q] <= closed'[q]
      BY <1>1, <1>2
    <3>2. QED
      BY <3>1 DEF Bars
  <2>2. QED
    BY <2>1
<1>4. TableOK'
  <2>1. store' = store
    BY DEF BarCloses
  <2>2. \A q \in Series : store'[q] \in Rows(closed'[q])
    BY <1>3, <2>1 DEF RepairInv, TableOK, Rows
  <2>3. QED
    BY <1>2, <2>1, <2>2 DEF RepairInv, TableOK
<1>5. LiveOK'
  <2> DEFINE h == [series |-> s, bar |-> closed'[s], at |-> "insert"]
  <2>1. live' \subseteq live \cup {h}
    BY DEF BarCloses
  <2>2. h \in Handlers /\ h.series = s /\ h.bar = closed'[s]
    BY <1>2 DEF Handlers
  <2>3. live \subseteq Handlers /\ \A k \in live : k.bar <= closed[k.series]
    BY DEF RepairInv, LiveOK
  <2>4. ASSUME NEW k \in live PROVE k.bar <= closed'[k.series]
    <3>1. k.series \in Series /\ k.bar \in Nat /\ k.bar <= closed[k.series]
      BY <2>3 DEF Handlers
    <3>2. closed[k.series] \in Nat /\ closed'[k.series] \in Nat
          /\ closed[k.series] <= closed'[k.series]
      BY <1>1, <1>2, <3>1
    <3>3. QED
      BY <3>1, <3>2
  <2>5. h.bar <= closed'[h.series]
    BY <1>2, <2>2
  <2> HIDE DEF h
  <2>6. live' \subseteq Handlers /\ \A k \in live' : k.bar <= closed'[k.series]
    BY <2>1, <2>2, <2>3, <2>4, <2>5
  <2>7. QED
    BY <2>6 DEF LiveOK
<1>6. RunInv(run', audit', closed')
  <2>1. run' = run /\ audit' = audit
    BY DEF BarCloses
  <2>2. RunInv(run, audit, closed)
    BY DEF RepairInv
  <2>3. RunInv(run, audit, closed')
    BY <1>1, <1>2, <2>2, RunOutlivesBars
  <2>4. QED
    BY <2>1, <2>3
<1>7. QED
  BY <1>4, <1>5, <1>6 DEF RepairInv, BarCloses, watch

LEMMA HandlerParts ==
  ASSUME RepairInv, NEW h \in live
  PROVE  /\ h \in Handlers /\ h.series \in Series /\ h.bar \in Bars(closed[h.series])
         /\ closed[h.series] \in Nat /\ store[h.series] \in Rows(closed[h.series])
         /\ Cap[h.series] \in Nat
<1>1. h \in Handlers /\ h.bar <= closed[h.series]
  BY DEF RepairInv, LiveOK
<1>2. h.series \in Series /\ h.bar \in Nat
  BY <1>1 DEF Handlers
<1>3. QED
  BY <1>1, <1>2, RepairAssumption DEF RepairInv, TableOK, Bars

LEMMA InsertKeeps ==
  ASSUME RepairInv, NEW h \in live, Insert(h) PROVE RepairInv'
<1>1. /\ h \in Handlers /\ h.series \in Series /\ h.bar \in Bars(closed[h.series])
      /\ closed[h.series] \in Nat /\ store[h.series] \in Rows(closed[h.series])
  BY HandlerParts
<1>2. closed' = closed /\ run' = run /\ audit' = audit /\ socket' = socket
      /\ timers' = timers /\ faults' = faults
  BY DEF Insert, outside, watch
<1>3. TableOK'
  <2>1. CASE store' = store
    BY <1>2, <2>1 DEF RepairInv, TableOK
  <2>2. CASE store' = [store EXCEPT ![h.series] = @ \cup {h.bar}]
    <3>1. TableChanges(h.series, store[h.series] \cup {h.bar})
      BY <2>2 DEF TableChanges
    <3>2. store[h.series] \cup {h.bar} \in Rows(closed[h.series])
      BY <1>1, AddedRow
    <3>3. QED
      BY <1>1, <1>2, <3>1, <3>2, TableStaysOK DEF RepairInv
  <2>3. QED
    BY <2>1, <2>2 DEF Insert
<1>4. LiveOK'
  <2> DEFINE k == [h EXCEPT !.at = "prune"]
  <2>1. k \in Handlers /\ k.bar = h.bar /\ k.series = h.series
    BY <1>1 DEF Handlers
  <2>2. live' \subseteq live \cup {k}
    BY DEF Insert
  <2> HIDE DEF k
  <2>3. k.bar <= closed[k.series]
    BY <2>1 DEF RepairInv, LiveOK
  <2>4. QED
    BY <1>2, <2>1, <2>2, <2>3 DEF RepairInv, LiveOK
<1>5. QED
  BY <1>2, <1>3, <1>4 DEF RepairInv

LEMMA PruneAndEmitKeeps ==
  ASSUME RepairInv, NEW h \in live, PruneAndEmit(h) PROVE RepairInv'
<1>1. /\ h.series \in Series /\ Cap[h.series] \in Nat
      /\ closed[h.series] \in Nat /\ store[h.series] \in Rows(closed[h.series])
  BY HandlerParts
<1>2. closed' = closed /\ run' = run /\ audit' = audit /\ socket' = socket
  BY DEF PruneAndEmit, outside
<1>3. TableOK'
  <2>1. CASE store' = store
    BY <1>2, <2>1 DEF RepairInv, TableOK
  <2>2. CASE store' = [store EXCEPT ![h.series] = SQL_PRUNE_CANDLES(@, Cap[h.series])]
    <3>1. TableChanges(h.series, SQL_PRUNE_CANDLES(store[h.series], Cap[h.series]))
      BY <2>2 DEF TableChanges
    <3>2. SQL_PRUNE_CANDLES(store[h.series], Cap[h.series]) \in Rows(closed[h.series])
      BY <1>1, PrunedRows
    <3>3. QED
      BY <1>1, <1>2, <3>1, <3>2, TableStaysOK DEF RepairInv
  <2>3. QED
    BY <2>1, <2>2 DEF PruneAndEmit
<1>4. LiveOK' /\ faults' \in Nat
  BY <1>2 DEF PruneAndEmit, Fault, RepairInv, LiveOK
<1>5. timers' \subseteq Series
  BY <1>1 DEF PruneAndEmit, onCandle, RepairInv
<1>6. QED
  BY <1>2, <1>3, <1>4, <1>5 DEF RepairInv

\* A step that leaves table and clock alone keeps the invariant if it keeps the run.
LEMMA RunStepKeeps ==
  ASSUME RepairInv, store' = store, closed' = closed, live' \subseteq live,
         socket' \in {"open", "silent", "closed"}, timers' \subseteq timers, faults' \in Nat,
         RunInv(run', audit', closed)
  PROVE  RepairInv'
<1>1. TableOK' /\ LiveOK'
  BY DEF RepairInv, TableOK, LiveOK
<1>2. QED
  BY <1>1 DEF RepairInv

LEMMA NetworkKeeps ==
  ASSUME RepairInv, Network PROVE RepairInv'
<1>1. CASE Opens
  <2>1. RunInv(run', audit', closed)
    <3>1. CASE running
      BY <1>1, <3>1 DEF Opens, RepairInv
    <3>2. CASE ~running
      <4>1. run' = Begin("sweep", Head(Intervals), Tail(Intervals)) /\ audit' = audit
        BY <1>1, <3>2 DEF Opens
      <4>2. Head(Intervals) \in Series /\ Tail(Intervals) \in Seq(Series)
        BY RepairAssumption
      <4>3. GoodRun(run', closed) /\ StageOK(run') /\ run'.owner = "sweep"
        BY <4>1, <4>2, BeginIsGood DEF RepairInv, TableOK
      <4>4. QED
        BY <3>2, <4>1, <4>3 DEF RepairInv, RunInv, running
    <3>3. QED
      BY <3>1, <3>2
  <2>2. QED
    BY <1>1, <2>1, RunStepKeeps DEF Opens, watch, RepairInv
<1>2. CASE GoesSilent \/ Closes
  <2>1. RunInv(run', audit', closed)
    BY <1>2 DEF GoesSilent, Closes, RepairInv
  <2>2. QED
    BY <1>2, <2>1, RunStepKeeps DEF GoesSilent, Closes, watch, RepairInv
<1>3. QED
  BY <1>1, <1>2 DEF Network

-----------------------------------------------------------------------------
(* backfill.js *)

\* The plan a scan yields is taken up.
LEMMA PlanIsGood ==
  ASSUME RepairInv, running, NEW missing,
         PlanOK(planRequests(missing), closed[run.series]), Plan(missing)
  PROVE  RunInv(run', audit', closed)
<1> DEFINE chunks == planRequests(missing)
           r == [run EXCEPT !.plan = chunks]
<1>1. run \in Runs /\ GoodRun(run, closed)
  BY GoodParts
<1>2. chunks \in Seq([start : Int, end : Int]) /\ PlanOK(chunks, closed[run.series])
  <2>1. chunks \in Seq(Chunk(closed[run.series]))
    BY DEF PlanOK
  <2>2. Chunk(closed[run.series]) \subseteq [start : Int, end : Int]
    BY DEF Chunk
  <2> HIDE DEF chunks
  <2>3. ASSUME NEW A, NEW B, A \subseteq B, NEW q \in Seq(A) PROVE q \in Seq(B)
    BY <2>3
  <2>4. chunks \in Seq([start : Int, end : Int])
    BY <2>1, <2>2, <2>3
  <2>5. QED
    BY <2>4 DEF chunks
<1>3. Continue(r)
  BY DEF Plan
<1> HIDE DEF chunks
<1>4. /\ r \in Runs /\ r.owner = run.owner /\ r.series = run.series /\ r.todo = run.todo
      /\ r.plan = chunks /\ r.rows = run.rows /\ r.newestClosed = run.newestClosed
  BY <1>1, <1>2 DEF Runs
<1> HIDE DEF r
<1>5. GoodRun(r, closed)
  BY <1>1, <1>2, <1>4 DEF GoodRun
<1>6. QED
  BY <1>3, <1>4, <1>5, ContinueIsGood DEF RepairInv, TableOK

LEMMA ReadBoundsKeeps ==
  ASSUME RepairInv, ReadBounds PROVE RepairInv'
<1> DEFINE held == store[run.series]
           now  == latestClosedOpenTime(run.series)
<1>1. running /\ run.at = "bounds"
  BY DEF ReadBounds
<1>2. /\ run \in Runs /\ GoodRun(run, closed) /\ StageOK(run) /\ run.series \in Series
      /\ closed[run.series] \in Nat /\ held \in Rows(closed[run.series])
  BY <1>1, GoodParts
<1>3. now \in Bars(closed[run.series]) /\ now \in Int
  BY <1>2 DEF latestClosedOpenTime, Bars
<1>4. RunInv(run', audit', closed)
  <2>1. CASE Plan(missingAtColdStart(now, MaxCandles))
    <3> HIDE DEF now
    <3>1. PlanOK(planRequests(missingAtColdStart(now, MaxCandles)), closed[run.series])
      BY <1>2, <1>3, ColdStartIsPlannable
    <3>2. QED
      BY <1>1, <2>1, <3>1, PlanIsGood
  <2>2. CASE held # {}
             /\ run' = [run EXCEPT !.at = "gaps", !.newest = Max(held), !.newestClosed = now]
             /\ UNCHANGED audit
    <3>1. held \in SUBSET Int /\ IsFiniteSet(held)
      BY <1>2 DEF Rows, Bars
    <3> HIDE DEF held, now
    <3>2. Max(held) \in Int
      BY <2>2, <3>1, MaxIsLargest
    <3> DEFINE q == [run EXCEPT !.at = "gaps", !.newest = Max(held), !.newestClosed = now]
    <3>3. /\ q \in Runs /\ q.owner = run.owner /\ q.series = run.series /\ q.todo = run.todo
          /\ q.plan = run.plan /\ q.rows = run.rows /\ q.newestClosed = now /\ q.at = "gaps"
      BY <1>2, <1>3, <3>2 DEF Runs
    <3>4. run' = q /\ audit' = audit
      BY <2>2
    <3> HIDE DEF q
    <3>5. GoodRun(q, closed)
      BY <1>2, <1>3, <3>3 DEF GoodRun
    <3>6. StageOK(q)
      BY <1>1, <1>2, <3>3 DEF StageOK, Left
    <3>7. QED
      BY <1>1, <3>3, <3>4, <3>5, <3>6, RunsAreRuns DEF RepairInv, RunInv, running
  <2>3. QED
    BY <2>1, <2>2 DEF ReadBounds
<1>5. QED
  BY <1>4, RunStepKeeps DEF ReadBounds, outside, watch, RepairInv

LEMMA ReadGapsKeeps ==
  ASSUME RepairInv, ReadGaps PROVE RepairInv'
<1> DEFINE held == store[run.series]
           missing == missingAfterScan(SQL_FIND_INTERIOR_GAPS(held, MaxCandles),
                                       run.newest, run.newestClosed, MaxCandles)
<1>1. running /\ Plan(missing)
  BY DEF ReadGaps
<1>2. /\ run \in Runs /\ GoodRun(run, closed)
      /\ closed[run.series] \in Nat /\ held \in Rows(closed[run.series])
  BY <1>1, GoodParts
<1>3. run.newest \in Int /\ run.newestClosed \in Bars(closed[run.series])
  BY <1>2 DEF GoodRun, Runs
<1>4. PlanOK(planRequests(missing), closed[run.series])
  <2> HIDE DEF held
  <2>1. QED
    BY <1>2, <1>3, ScanIsPlannable
<1> HIDE DEF missing
<1>5. RunInv(run', audit', closed)
  BY <1>1, <1>4, PlanIsGood
<1>6. QED
  BY <1>5, RunStepKeeps DEF ReadGaps, outside, watch, RepairInv

LEMMA FetchChunkKeeps ==
  ASSUME RepairInv, FetchChunk PROVE RepairInv'
<1> DEFINE klines == Served(run.series, Head(run.plan))
           r == [run EXCEPT !.rows = klines, !.plan = Tail(run.plan)]
<1>1. running /\ run.at = "fetch" /\ run.rows = <<>> /\ Continue(r)
  BY DEF FetchChunk
<1>2. /\ run \in Runs /\ GoodRun(run, closed) /\ StageOK(run) /\ run.series \in Series
      /\ closed[run.series] \in Nat
  BY <1>1, GoodParts
<1> DEFINE limit == closed[run.series]
<1>3. run.plan # <<>> /\ PlanOK(run.plan, limit) /\ limit \in Int
  BY <1>1, <1>2 DEF StageOK, Left, GoodRun
<1>4. PlanOK(Tail(run.plan), limit) /\ Head(run.plan) \in Chunk(limit)
  <2> HIDE DEF limit
  <2>1. QED
    BY <1>3, PlanGoesOn
<1>5. klines \in Seq(Bars(limit))
  BY <1>2, <1>4, ServedIsClosed DEF RepairInv, TableOK
<1>6. klines \in Seq(Int) /\ Tail(run.plan) \in Seq([start : Int, end : Int])
  <2>1. Bars(limit) \subseteq Int
    BY DEF Bars
  <2>2. ASSUME NEW A, NEW B, A \subseteq B, NEW q \in Seq(A) PROVE q \in Seq(B)
    BY <2>2
  <2>3. klines \in Seq(Int)
    <3> HIDE DEF klines, limit
    <3>1. QED
      BY <1>5, <2>1, <2>2
  <2>4. run.plan \in Seq([start : Int, end : Int])
    BY <1>2 DEF Runs
  <2>5. QED
    BY <1>3, <2>3, <2>4
<1> HIDE DEF klines
<1>7. /\ r \in Runs /\ r.owner = run.owner /\ r.series = run.series /\ r.todo = run.todo
      /\ r.plan = Tail(run.plan) /\ r.rows = klines /\ r.newestClosed = run.newestClosed
  BY <1>2, <1>6 DEF Runs
<1> HIDE DEF r
<1>8. GoodRun(r, closed)
  BY <1>2, <1>4, <1>5, <1>7 DEF GoodRun
<1>9. RunInv(run', audit', closed)
  BY <1>1, <1>7, <1>8, ContinueIsGood DEF RepairInv, TableOK
<1>10. QED
  BY <1>9, RunStepKeeps DEF FetchChunk, outside, watch, RepairInv

LEMMA InsertRowParts ==
  ASSUME RepairInv, InsertRow
  PROVE  /\ Head(run.rows) \in Bars(closed[run.series])
         /\ TableChanges(run.series, store[run.series] \cup {Head(run.rows)})
         /\ GoodRun([run EXCEPT !.rows = Tail(run.rows),
                                !.inserted = run.inserted \/ Head(run.rows) \notin store[run.series]],
                    closed)
<1>1. running /\ run.rows # <<>>
  BY DEF InsertRow
<1>2. run \in Runs /\ GoodRun(run, closed)
  BY <1>1, GoodParts
<1> DEFINE B == Bars(closed[run.series])
           ins == run.inserted \/ Head(run.rows) \notin store[run.series]
           r == [run EXCEPT !.rows = Tail(run.rows), !.inserted = ins]
<1>3. run.rows \in Seq(B) /\ run.rows \in Seq(Int)
  BY <1>2 DEF GoodRun, Runs
<1>4. Head(run.rows) \in B /\ Tail(run.rows) \in Seq(B) /\ Tail(run.rows) \in Seq(Int)
  <2> HIDE DEF B
  <2>1. QED
    BY <1>1, <1>3
<1>5. TableChanges(run.series, store[run.series] \cup {Head(run.rows)})
  BY DEF InsertRow, TableChanges
<1>6. ins \in BOOLEAN
  BY <1>2 DEF Runs
<1> HIDE DEF ins
<1>7. /\ r \in Runs /\ r.owner = run.owner /\ r.series = run.series /\ r.todo = run.todo
      /\ r.plan = run.plan /\ r.rows = Tail(run.rows) /\ r.newestClosed = run.newestClosed
  BY <1>2, <1>4, <1>6 DEF Runs
<1> HIDE DEF r
<1>8. GoodRun(r, closed)
  BY <1>2, <1>4, <1>7 DEF GoodRun
<1>9. QED
  BY <1>4, <1>5, <1>8 DEF r, ins

LEMMA InsertRowKeeps ==
  ASSUME RepairInv, InsertRow PROVE RepairInv'
<1> DEFINE r == [run EXCEPT !.rows = Tail(run.rows),
                            !.inserted = run.inserted \/ Head(run.rows) \notin store[run.series]]
<1>1. running /\ Continue(r)
  BY DEF InsertRow
<1>2. /\ run \in Runs /\ run.series \in Series
      /\ closed[run.series] \in Nat /\ store[run.series] \in Rows(closed[run.series])
  BY <1>1, GoodParts
<1>3. /\ Head(run.rows) \in Bars(closed[run.series])
      /\ TableChanges(run.series, store[run.series] \cup {Head(run.rows)})
      /\ GoodRun(r, closed)
  BY InsertRowParts
<1>4. r.owner = run.owner
  BY <1>2 DEF Runs
<1> HIDE DEF r
<1>5. RunInv(run', audit', closed)
  BY <1>1, <1>3, <1>4, ContinueIsGood DEF RepairInv, TableOK
<1>6. closed' = closed /\ live' = live /\ socket' = socket /\ timers' = timers /\ faults' = faults
  BY DEF InsertRow, outside, watch
<1>7. store[run.series] \cup {Head(run.rows)} \in Rows(closed[run.series])
  BY <1>2, <1>3, AddedRow
<1>8. TableOK'
  BY <1>2, <1>3, <1>6, <1>7, TableStaysOK DEF RepairInv
<1>9. QED
  BY <1>5, <1>6, <1>8 DEF RepairInv, LiveOK

LEMMA PruneAfterRunKeeps ==
  ASSUME RepairInv, PruneAfterRun PROVE RepairInv'
<1>1. running /\ EndRun
  BY DEF PruneAfterRun
<1>2. /\ run.series \in Series /\ Cap[run.series] \in Nat
      /\ closed[run.series] \in Nat /\ store[run.series] \in Rows(closed[run.series])
  BY <1>1, GoodParts
<1>3. RunInv(run', audit', closed)
  BY <1>1, EndRunIsGood DEF RepairInv, TableOK
<1>4. closed' = closed /\ live' = live /\ socket' = socket /\ timers' = timers /\ faults' = faults
  BY DEF PruneAfterRun, outside, watch
<1>5. TableChanges(run.series, SQL_PRUNE_CANDLES(store[run.series], Cap[run.series]))
  BY DEF PruneAfterRun, TableChanges
<1>6. SQL_PRUNE_CANDLES(store[run.series], Cap[run.series]) \in Rows(closed[run.series])
  BY <1>2, PrunedRows
<1>7. TableOK'
  BY <1>2, <1>4, <1>5, <1>6, TableStaysOK DEF RepairInv
<1>8. QED
  BY <1>3, <1>4, <1>7 DEF RepairInv, LiveOK

-----------------------------------------------------------------------------
(* continuity.js, audit.js and what fails *)

LEMMA WatchKeeps ==
  ASSUME RepairInv, NEW s \in Series, TimerFires(s) PROVE RepairInv'
<1>1. RunInv(run', audit', closed)
  <2>1. CASE running
    BY <2>1 DEF TimerFires, RepairInv
  <2>2. CASE ~running
    <3>1. run' = Begin("timer", s, <<>>) /\ audit' = audit /\ <<>> \in Seq(Series)
      BY <2>2 DEF TimerFires
    <3>2. GoodRun(run', closed) /\ StageOK(run') /\ run'.owner = "timer"
      BY <3>1, BeginIsGood DEF RepairInv, TableOK
    <3>3. QED
      BY <2>2, <3>1, <3>2 DEF RepairInv, RunInv, running
  <2>3. QED
    BY <2>1, <2>2
<1>2. QED
  BY <1>1, RunStepKeeps DEF TimerFires, outside, RepairInv

LEMMA AuditPruneKeeps ==
  ASSUME RepairInv, AuditPrune PROVE RepairInv'
<1>1. closed' = closed /\ live' = live /\ socket' = socket /\ timers' = timers
      /\ faults' = faults /\ run' = run
  BY DEF AuditPrune, outside, watch
<1>2. TableOK'
  <2>1. \A s \in Series : store'[s] \in Rows(closed'[s])
    <3>1. ASSUME NEW s \in Series PROVE store'[s] \in Rows(closed'[s])
      <4>1. store'[s] = SQL_PRUNE_CANDLES(store[s], SweepCap)
        BY DEF AuditPrune
      <4>2. closed[s] \in Nat /\ store[s] \in Rows(closed[s]) /\ SweepCap \in Nat
        BY RepairAssumption DEF RepairInv, TableOK
      <4>3. QED
        BY <1>1, <4>1, <4>2, PrunedRows
    <3>2. QED
      BY <3>1
  <2>2. store' \in [Series -> SUBSET Int]
    <3>1. \A s \in Series : store'[s] \in SUBSET Int
      BY <2>1 DEF Rows, Bars
    <3>2. DOMAIN store' = Series /\ store' = [s \in Series |-> store'[s]]
      BY DEF AuditPrune
    <3>3. QED
      BY <3>1, <3>2
  <2>3. QED
    BY <1>1, <2>1, <2>2 DEF RepairInv, TableOK
<1>3. RunInv(run', audit', closed')
  <2>1. audit \in Audits /\ audit.at = "prune" /\ audit' = [audit EXCEPT !.at = "scan"]
    BY DEF AuditPrune, RepairInv, RunInv
  <2>2. audit' \in Audits /\ audit'.at = "scan"
    BY <2>1 DEF Audits
  <2>3. QED
    BY <1>1, <2>1, <2>2 DEF RepairInv, RunInv
<1>4. QED
  BY <1>1, <1>2, <1>3 DEF RepairInv, LiveOK

LEMMA AuditGoesOn ==
  ASSUME NEW a \in Audits, a.todo # <<>>
  PROVE  AuditFrom(Tail(a.todo)) \in Audits /\ AuditFrom(Tail(a.todo)).at = "prune"
<1>1. a.todo \in Seq(Series)
  BY DEF Audits
<1>2. Tail(a.todo) \in Seq(Series)
  BY <1>1
<1>3. QED
  BY <1>2 DEF AuditFrom, Audits

LEMMA AuditKeeps ==
  ASSUME RepairInv, Audit PROVE RepairInv'
<1>1. CASE AuditTimer
  <2>1. audit' = AuditFrom(Intervals) /\ run' = run
    BY <1>1 DEF AuditTimer
  <2>2. audit' \in Audits /\ audit'.at = "prune"
    BY <2>1, RepairAssumption DEF AuditFrom, Audits
  <2>3. RunInv(run', audit', closed)
    BY <1>1, <2>1, <2>2 DEF AuditTimer, RepairInv, RunInv
  <2>4. QED
    BY <1>1, <2>3, RunStepKeeps DEF AuditTimer, outside, watch, RepairInv
<1>2. CASE AuditPrune
  BY <1>2, AuditPruneKeeps
<1>3. CASE AuditScan
  <2> DEFINE s == Head(audit.todo)
  <2>1. audit \in Audits /\ audit.todo # <<>> /\ audit.at = "scan"
    BY <1>3 DEF AuditScan, RepairInv, RunInv
  <2>2. s \in Series
    BY <2>1 DEF Audits
  <2>3. RunInv(run', audit', closed)
    <3>1. CASE inspectGaps(s) /\ ~running
      <4>1. run' = Begin("audit", s, <<>>) /\ audit' = [audit EXCEPT !.at = "repair"]
            /\ <<>> \in Seq(Series)
        BY <1>3, <3>1 DEF AuditScan
      <4>2. audit' \in Audits /\ audit'.at = "repair" /\ audit'.todo # <<>>
        BY <2>1, <4>1 DEF Audits
      <4> HIDE DEF s
      <4>3. GoodRun(run', closed) /\ StageOK(run') /\ run'.owner = "audit" /\ run' # NoRun
        BY <2>2, <4>1, BeginIsGood DEF RepairInv, TableOK
      <4>4. QED
        BY <4>2, <4>3 DEF RunInv
    <3>2. CASE ~(inspectGaps(s) /\ ~running)
      <4>1. audit' = AuditNext /\ run' = run
        BY <1>3, <3>2 DEF AuditScan
      <4>2. audit' \in Audits /\ audit'.at = "prune"
        BY <2>1, <4>1, AuditGoesOn DEF AuditNext
      <4>3. QED
        BY <2>1, <4>1, <4>2 DEF RepairInv, RunInv
    <3>3. QED
      BY <3>1, <3>2
  <2>4. QED
    BY <1>3, <2>3, RunStepKeeps DEF AuditScan, outside, watch, RepairInv
<1>4. QED
  BY <1>1, <1>2, <1>3 DEF Audit

LEMMA FaultsKeep ==
  ASSUME RepairInv, Faults PROVE RepairInv'
<1>1. faults' \in Nat
  BY DEF Faults, InsertFails, RunFails, AuditFails, Restart, Fault, RepairInv
<1>2. CASE \E h \in live : InsertFails(h)
  BY <1>1, <1>2, RunStepKeeps DEF InsertFails, outside, watch, RepairInv
<1>3. CASE RunFails
  <2>1. RunInv(run', audit', closed)
    BY <1>3, EndRunIsGood DEF RunFails, RepairInv, TableOK
  <2>2. QED
    BY <1>1, <1>3, <2>1, RunStepKeeps DEF RunFails, outside, watch, RepairInv
<1>4. CASE AuditFails
  <2>1. audit \in Audits /\ audit.todo # <<>> /\ audit.at # "repair" /\ audit' = AuditNext /\ run' = run
    BY <1>4 DEF AuditFails, RepairInv, RunInv
  <2>2. audit' \in Audits /\ audit'.at = "prune"
    BY <2>1, AuditGoesOn DEF AuditNext
  <2>3. RunInv(run', audit', closed)
    BY <2>1, <2>2 DEF RepairInv, RunInv
  <2>4. QED
    BY <1>1, <1>4, <2>3, RunStepKeeps DEF AuditFails, outside, watch, RepairInv
<1>5. CASE Restart
  <2>1. audit' = AuditFrom(Intervals) /\ run' = NoRun /\ timers' = {} /\ live' = {}
        /\ socket' = "closed" /\ store' = store /\ closed' = closed
    BY <1>5 DEF Restart
  <2>2. audit' \in Audits /\ audit'.at = "prune"
    BY <2>1, RepairAssumption DEF AuditFrom, Audits
  <2>3. RunInv(run', audit', closed)
    BY <2>1, <2>2 DEF RunInv
  <2>4. QED
    BY <1>1, <2>1, <2>3, RunStepKeeps
<1>6. QED
  BY <1>2, <1>3, <1>4, <1>5 DEF Faults

LEMMA NextRepair == RepairInv /\ [Next]_vars => RepairInv'
<1> SUFFICES ASSUME RepairInv, [Next]_vars PROVE RepairInv'
  OBVIOUS
<1>1. CASE \E s \in Series : BarCloses(s)
  BY <1>1, BarClosesKeeps
<1>2. CASE Ingest
  BY <1>2, InsertKeeps, PruneAndEmitKeeps DEF Ingest
<1>3. CASE Backfill
  BY <1>3, ReadBoundsKeeps, ReadGapsKeeps, FetchChunkKeeps, InsertRowKeeps, PruneAfterRunKeeps
     DEF Backfill
<1>4. CASE Watch
  BY <1>4, WatchKeeps DEF Watch
<1>5. CASE Audit
  BY <1>5, AuditKeeps
<1>6. CASE Faults
  BY <1>6, FaultsKeep
<1>7. CASE Network
  BY <1>7, NetworkKeeps
<1>8. CASE UNCHANGED vars
  BY <1>8 DEF vars, RepairInv, TableOK, LiveOK
<1>9. QED
  BY <1>1, <1>2, <1>3, <1>4, <1>5, <1>6, <1>7, <1>8 DEF Next

\* What the table held at boot had closed, and retention had been over it.
ClosedBoots == \A b \in Boots : \A s \in Series : b.held[s] \subseteq Bars(b.closed[s])

CappedBoots == \A b \in Boots : \A s \in Series : Cardinality(b.held[s]) <= Cap[s]

LEMMA AlwaysRepairInv == ASSUME ClosedBoots PROVE Spec => []RepairInv
<1>1. Init => RepairInv
  BY InitRepair DEF ClosedBoots
<1>2. QED
  BY <1>1, NextRepair, PTL DEF Spec

\* A bar that is still forming is never stored, by a message, a backfill or a
\* row the exchange serves too many: no chunk reaches beyond the last closed bar.
THEOREM FormingBarIsNeverStored == ASSUME ClosedBoots PROVE Spec => []FormingBarNeverStored
<1>1. RepairInv => FormingBarNeverStored
  BY DEF RepairInv, TableOK, Rows, Bars, FormingBarNeverStored
<1>2. QED
  BY <1>1, AlwaysRepairInv, PTL

\* Every chunk of a plan in progress fits one request, and the plan as a whole
\* the limits of a run, whatever the two scans read.
THEOREM PlansStayWithinLimits == ASSUME ClosedBoots PROVE Spec => []RequestsWithinLimits
<1>1. RepairInv => RequestsWithinLimits
  <2>1. SUFFICES ASSUME RepairInv, running PROVE RequestsWithinLimits
    BY DEF RequestsWithinLimits
  <2>2. GoodRun(run, closed)
    BY <2>1, GoodParts
  <2>3. PlanOK(run.plan, closed[run.series])
    BY <2>2 DEF GoodRun
  <2> DEFINE plan == run.plan
             limit == closed[run.series]
  <2>4. PlanOK(plan, limit)
    BY <2>3
  <2> HIDE DEF plan, limit
  <2>5. \A i \in DOMAIN plan : plan[i] \in Chunk(limit)
    BY <2>4 DEF PlanOK
  <2>6. \A i \in DOMAIN plan : countCandlesBetween(plan[i].start, plan[i].end) \in 1 .. PerRequest
    BY <2>5 DEF Chunk
  <2>7. QED
    BY <2>4, <2>6 DEF RequestsWithinLimits, PlanOK, plan
<1>2. QED
  BY <1>1, AlwaysRepairInv, PTL

-----------------------------------------------------------------------------
(***************************************************************************)
(* Retention: what a DELETE takes and who still owes one.                  *)
(***************************************************************************)
\* A DELETE with at least the cap of the series takes nothing the cap has room for.
LEMMA DeletesKeepNewest ==
  ASSUME RepairInv, NEW s \in Series, NEW limit \in Nat, Cap[s] <= limit,
         store'[s] = SQL_PRUNE_CANDLES(store[s], limit)
  PROVE  \A t \in store[s] \ store'[s] : Cardinality({u \in store'[s] : u > t}) >= Cap[s]
<1> DEFINE held == store[s]
<1>1. held \in SUBSET Int /\ IsFiniteSet(held)
  BY DEF RepairInv, TableOK, Rows, Bars
<1> HIDE DEF held
<1> DEFINE kept == SQL_PRUNE_CANDLES(held, limit)
<1>2. ASSUME NEW t \in held, t \notin kept
      PROVE  Cardinality({u \in kept : u > t}) >= Cap[s]
  <2>1. Cardinality(Newer(kept, t)) >= limit
    BY <1>1, <1>2, PruneKeepsNewest
  <2>2. Newer(kept, t) \subseteq held
    <3>1. kept \subseteq held
      BY <1>1, PruneBounds
    <3> HIDE DEF kept
    <3>2. QED
      BY <3>1 DEF Newer
  <2>3. Cardinality(Newer(kept, t)) \in Nat
    BY <1>1, <2>2, FS_Subset, FS_CardinalityType
  <2>4. Cap[s] \in Nat
    BY RepairAssumption
  <2> DEFINE card == Cardinality(Newer(kept, t))
  <2> HIDE DEF card
  <2>5. card >= limit /\ card \in Nat
    BY <2>1, <2>3 DEF card
  <2>6. card >= Cap[s]
    BY <2>4, <2>5
  <2>7. QED
    BY <2>6 DEF card, Newer
<1>3. store[s] = held /\ store'[s] = kept
  BY DEF held
<1> HIDE DEF kept
<1>4. QED
  BY <1>2, <1>3

\* A step that deletes prunes whole series, each to its cap or to the larger
\* limit of the audit.
LEMMA StepsPruneOrAdd ==
  ASSUME RepairInv, [Next]_vars, NEW s \in Series
  PROVE  \/ store[s] \subseteq store'[s]
         \/ store'[s] = SQL_PRUNE_CANDLES(store[s], Cap[s])
         \/ store'[s] = SQL_PRUNE_CANDLES(store[s], SweepCap)
<1>0. store \in [Series -> SUBSET Int]
  BY DEF RepairInv, TableOK
<1>1. CASE UNCHANGED store
  BY <1>1
<1>2. ASSUME NEW h \in live, Insert(h) PROVE store[s] \subseteq store'[s]
  BY <1>0, <1>2 DEF Insert
<1>3. ASSUME NEW h \in live, PruneAndEmit(h)
      PROVE  store'[s] = store[s] \/ store'[s] = SQL_PRUNE_CANDLES(store[s], Cap[s])
  BY <1>0, <1>3 DEF PruneAndEmit
<1>4. ASSUME InsertRow PROVE store[s] \subseteq store'[s]
  BY <1>0, <1>4 DEF InsertRow
<1>5. ASSUME PruneAfterRun
      PROVE  store'[s] = store[s] \/ store'[s] = SQL_PRUNE_CANDLES(store[s], Cap[s])
  BY <1>0, <1>5 DEF PruneAfterRun
<1>6. ASSUME AuditPrune PROVE store'[s] = SQL_PRUNE_CANDLES(store[s], SweepCap)
  BY <1>6 DEF AuditPrune
<1>7. \/ UNCHANGED store
      \/ \E h \in live : Insert(h) \/ PruneAndEmit(h)
      \/ InsertRow \/ PruneAfterRun \/ AuditPrune
  BY DEF Next, Ingest, Backfill, Watch, Audit, Faults, Network, BarCloses, ReadBounds, ReadGaps,
         FetchChunk, TimerFires, AuditTimer, AuditScan, InsertFails, RunFails, AuditFails,
         Restart, Opens, GoesSilent, Closes, vars
<1>8. QED
  BY <1>1, <1>2, <1>3, <1>4, <1>5, <1>6, <1>7

\* No step of any actor deletes a row among the newest Cap of its series.
THEOREM NewestStay == ASSUME ClosedBoots PROVE Spec => NewestAreKept
<1>1. RepairInv /\ [Next]_vars =>
        [\A s \in Series : \A t \in store[s] \ store'[s] :
           Cardinality({u \in store'[s] : u > t}) >= Cap[s]]_vars
  <2>1. SUFFICES ASSUME RepairInv, [Next]_vars, NEW s \in Series
                 PROVE  \A t \in store[s] \ store'[s] :
                          Cardinality({u \in store'[s] : u > t}) >= Cap[s]
    BY Zenon
  <2>2. Cap[s] \in Nat /\ SweepCap \in Nat /\ Cap[s] <= SweepCap /\ Cap[s] <= Cap[s]
    BY RepairAssumption
  <2>3. CASE store[s] \subseteq store'[s]
    BY <2>3
  <2>4. CASE store'[s] = SQL_PRUNE_CANDLES(store[s], Cap[s])
    BY <2>1, <2>2, <2>4, DeletesKeepNewest
  <2>5. CASE store'[s] = SQL_PRUNE_CANDLES(store[s], SweepCap)
    BY <2>1, <2>2, <2>5, DeletesKeepNewest
  <2>6. QED
    BY <2>1, <2>3, <2>4, <2>5, StepsPruneOrAdd
<1>2. QED
  BY <1>1, AlwaysRepairInv, PTL DEF Spec, NewestAreKept

-----------------------------------------------------------------------------
(***************************************************************************)
(* The cap: whoever lets a series grow past it still has its DELETE to do. *)
(***************************************************************************)
Owed(s) ==
  \/ \E h \in live : h.series = s /\ h.at = "prune"
  \/ running /\ run.series = s /\ run.inserted

CapInv == \A s \in Series : Cardinality(store[s]) <= Cap[s] \/ Owed(s) \/ faults > 0

LEMMA InitCap == ASSUME CappedBoots PROVE Init => CapInv
<1> SUFFICES ASSUME Init PROVE CapInv
  OBVIOUS
<1>1. PICK b \in Boots : store = b.held
  BY DEF Init
<1>2. QED
  BY <1>1 DEF CappedBoots, CapInv

\* A run that goes on keeps its debt, and ends only when it has none.
LEMMA ContinueStaysOwed ==
  ASSUME RepairInv, running, NEW r, DOMAIN r = DOMAIN run, r.owner = run.owner,
         r.series = run.series, r.inserted, Continue(r)
  PROVE  running' /\ run'.series = run.series /\ run'.inserted
<1>1. run \in Runs
  BY GoodParts
<1>2. {"owner", "series", "inserted"} \subseteq DOMAIN r /\ r.owner # "none"
  BY <1>1 DEF Runs
<1>3. ASSUME NEW at, run' = [r EXCEPT !.at = at]
      PROVE  running' /\ run'.series = run.series /\ run'.inserted
  <2> DEFINE q == [r EXCEPT !.at = at]
  <2>1. q.series = r.series /\ q.inserted = r.inserted /\ q.owner = r.owner
    BY <1>2
  <2> HIDE DEF q
  <2>2. run' = q /\ NoRun.owner = "none"
    BY <1>3 DEF q, NoRun
  <2>3. QED
    BY <1>2, <2>1, <2>2 DEF running
<1>4. QED
  BY <1>3 DEF Continue

\* What a step must not do for the cap to hold at a series, once it held.
LEMMA CapHolds ==
  ASSUME RepairInv, CapInv, NEW s \in Series, store'[s] \subseteq store[s],
         faults' >= faults, faults' \in Nat, Owed(s) => Owed(s)'
  PROVE  Cardinality(store'[s]) <= Cap[s] \/ Owed(s)' \/ faults' > 0
<1>1. IsFiniteSet(store[s])
  BY DEF RepairInv, TableOK, Rows
<1>2. Cardinality(store'[s]) <= Cardinality(store[s])
      /\ Cardinality(store'[s]) \in Nat /\ Cardinality(store[s]) \in Nat
  BY <1>1, FS_Subset, FS_CardinalityType
<1>3. Cap[s] \in Nat /\ faults \in Nat
  BY RepairAssumption DEF RepairInv
<1>4. QED
  BY <1>2, <1>3 DEF CapInv

\* The debt of a run that has inserted outlives every step but its DELETE.
LEMMA RunStaysOwed ==
  ASSUME RepairInv, running, ReadBounds \/ ReadGaps \/ FetchChunk \/ InsertRow, run.inserted
  PROVE  running' /\ run'.series = run.series /\ run'.inserted
<1>1. run \in Runs
  BY GoodParts
<1>2. ASSUME NEW missing, Plan(missing)
      PROVE  running' /\ run'.series = run.series /\ run'.inserted
  <2> DEFINE chunks == planRequests(missing)
             r == [run EXCEPT !.plan = chunks]
  <2>1. Continue(r)
    BY <1>2 DEF Plan
  <2> HIDE DEF chunks
  <2>2. DOMAIN r = DOMAIN run /\ r.owner = run.owner /\ r.series = run.series /\ r.inserted
    BY <1>1 DEF Runs
  <2> HIDE DEF r
  <2>3. QED
    BY <2>1, <2>2, ContinueStaysOwed
<1>3. CASE ReadBounds
  <2>1. CASE Plan(missingAtColdStart(latestClosedOpenTime(run.series), MaxCandles))
    BY <1>2, <2>1
  <2>2. CASE run' = [run EXCEPT !.at = "gaps", !.newest = Max(store[run.series]),
                                !.newestClosed = latestClosedOpenTime(run.series)]
    <3> DEFINE n == Max(store[run.series])
               c == latestClosedOpenTime(run.series)
               q == [run EXCEPT !.at = "gaps", !.newest = n, !.newestClosed = c]
    <3> HIDE DEF n, c
    <3>1. q.series = run.series /\ q.inserted = run.inserted /\ q.owner = run.owner
      BY <1>1 DEF Runs
    <3>2. q.owner # "none" /\ NoRun.owner = "none"
      BY <1>1, <3>1 DEF Runs, NoRun
    <3>3. run' = q
      BY <2>2 DEF n, c
    <3> HIDE DEF q
    <3>4. QED
      BY <3>1, <3>2, <3>3 DEF running
  <2>3. QED
    BY <1>3, <2>1, <2>2 DEF ReadBounds
<1>4. CASE ReadGaps
  BY <1>2, <1>4 DEF ReadGaps
<1>5. CASE FetchChunk
  <2> DEFINE klines == Served(run.series, Head(run.plan))
             rest == Tail(run.plan)
             r == [run EXCEPT !.rows = klines, !.plan = rest]
  <2>1. Continue(r)
    BY <1>5 DEF FetchChunk
  <2> HIDE DEF klines, rest
  <2>2. DOMAIN r = DOMAIN run /\ r.owner = run.owner /\ r.series = run.series /\ r.inserted
    BY <1>1 DEF Runs
  <2> HIDE DEF r
  <2>3. QED
    BY <2>1, <2>2, ContinueStaysOwed
<1>6. CASE InsertRow
  <2> DEFINE new == Head(run.rows) \notin store[run.series]
             rest == Tail(run.rows)
             r == [run EXCEPT !.rows = rest, !.inserted = run.inserted \/ new]
  <2>1. Continue(r)
    BY <1>6 DEF InsertRow
  <2> HIDE DEF new, rest
  <2>2. DOMAIN r = DOMAIN run /\ r.owner = run.owner /\ r.series = run.series /\ r.inserted
    BY <1>1 DEF Runs
  <2> HIDE DEF r
  <2>3. QED
    BY <2>1, <2>2, ContinueStaysOwed
<1>7. QED
  BY <1>3, <1>4, <1>5, <1>6

\* A new row of a backfill puts its run in debt.
LEMMA InsertRowOwes ==
  ASSUME RepairInv, InsertRow, Head(run.rows) \notin store[run.series]
  PROVE  running' /\ run'.series = run.series /\ run'.inserted
<1>1. running /\ run \in Runs
  BY GoodParts DEF InsertRow
<1> DEFINE new == Head(run.rows) \notin store[run.series]
           rest == Tail(run.rows)
           r == [run EXCEPT !.rows = rest, !.inserted = run.inserted \/ new]
<1>2. Continue(r) /\ new
  BY DEF InsertRow
<1> HIDE DEF new, rest
<1>3. DOMAIN r = DOMAIN run /\ r.owner = run.owner /\ r.series = run.series /\ r.inserted
  BY <1>1, <1>2 DEF Runs
<1> HIDE DEF r
<1>4. QED
  BY <1>1, <1>2, <1>3, ContinueStaysOwed

LEMMA BackfillKeepsCap ==
  ASSUME RepairInv, CapInv, Backfill PROVE CapInv'
<1> SUFFICES ASSUME NEW s \in Series
             PROVE  Cardinality(store'[s]) <= Cap[s] \/ Owed(s)' \/ faults' > 0
  BY DEF CapInv
<1>1. running /\ live' = live /\ faults' = faults /\ faults \in Nat
  BY DEF Backfill, ReadBounds, ReadGaps, FetchChunk, InsertRow, PruneAfterRun, outside, RepairInv
<1>2. run.series \in Series /\ store[run.series] \in Rows(closed[run.series])
      /\ closed[run.series] \in Nat /\ Cap[run.series] \in Nat
  BY <1>1, GoodParts
<1>3. store \in [Series -> SUBSET Int]
  BY DEF RepairInv, TableOK
<1>4. CASE ReadBounds \/ ReadGaps \/ FetchChunk \/ InsertRow
  <2>1. Owed(s) => Owed(s)'
    BY <1>1, <1>4, RunStaysOwed DEF Owed
  <2>2. CASE store'[s] \subseteq store[s]
    BY <1>1, <2>1, <2>2, CapHolds
  <2>3. CASE ~(store'[s] \subseteq store[s])
    <3>1. InsertRow /\ s = run.series /\ Head(run.rows) \notin store[run.series]
      BY <1>3, <1>4, <2>3 DEF ReadBounds, ReadGaps, FetchChunk, InsertRow
    <3>2. QED
      BY <3>1, InsertRowOwes DEF Owed
  <2>4. QED
    BY <2>2, <2>3
<1>5. CASE PruneAfterRun
  <2>1. CASE s = run.series
    <3>1. store'[s] = SQL_PRUNE_CANDLES(store[s], Cap[s])
      BY <1>3, <1>5, <2>1 DEF PruneAfterRun
    <3>2. QED
      BY <1>2, <2>1, <3>1, PrunedRows
  <2>2. CASE s # run.series
    <3>1. store'[s] = store[s]
      BY <1>3, <1>5, <2>2 DEF PruneAfterRun
    <3>2. Owed(s) => Owed(s)'
      BY <1>1, <2>2 DEF Owed
    <3>3. QED
      BY <1>1, <3>1, <3>2, CapHolds
  <2>3. QED
    BY <2>1, <2>2
<1>6. QED
  BY <1>4, <1>5 DEF Backfill

LEMMA IngestKeepsCap ==
  ASSUME RepairInv, CapInv, Ingest PROVE CapInv'
<1> SUFFICES ASSUME NEW s \in Series
             PROVE  Cardinality(store'[s]) <= Cap[s] \/ Owed(s)' \/ faults' > 0
  BY DEF CapInv
<1>1. store \in [Series -> SUBSET Int] /\ faults \in Nat
  BY DEF RepairInv, TableOK
<1>2. ASSUME NEW h \in live, Insert(h)
      PROVE  Cardinality(store'[s]) <= Cap[s] \/ Owed(s)' \/ faults' > 0
  <2>1. run' = run /\ faults' = faults /\ h.at = "insert" /\ h \in Handlers
    BY <1>2, HandlerParts DEF Insert
  <2>2. Owed(s) => Owed(s)'
    BY <1>2, <2>1 DEF Owed, Insert, running
  <2>3. CASE store'[s] \subseteq store[s]
    BY <1>1, <2>1, <2>2, <2>3, CapHolds
  <2>4. CASE ~(store'[s] \subseteq store[s])
    <3> DEFINE k == [h EXCEPT !.at = "prune"]
    <3>1. s = h.series /\ k \in live'
      BY <1>1, <1>2, <2>4 DEF Insert
    <3>2. k.series = h.series /\ k.at = "prune"
      BY <2>1 DEF Handlers
    <3> HIDE DEF k
    <3>3. QED
      BY <3>1, <3>2 DEF Owed
  <2>5. QED
    BY <2>3, <2>4
<1>3. ASSUME NEW h \in live, PruneAndEmit(h)
      PROVE  Cardinality(store'[s]) <= Cap[s] \/ Owed(s)' \/ faults' > 0
  <2>1. run' = run /\ live' = live \ {h}
    BY <1>3 DEF PruneAndEmit
  <2>2. CASE Fault
    BY <1>1, <2>2 DEF Fault
  <2>3. CASE store' = [store EXCEPT ![h.series] = SQL_PRUNE_CANDLES(@, Cap[h.series])]
             /\ faults' = faults
    <3>1. CASE s = h.series
      <4>1. /\ store[h.series] \in Rows(closed[h.series]) /\ closed[h.series] \in Nat
            /\ Cap[h.series] \in Nat
        BY HandlerParts
      <4>2. store'[s] = SQL_PRUNE_CANDLES(store[s], Cap[s])
        BY <1>1, <2>3, <3>1
      <4>3. QED
        BY <3>1, <4>1, <4>2, PrunedRows
    <3>2. CASE s # h.series
      <4>1. store'[s] = store[s]
        BY <1>1, <2>3, <3>2
      <4>2. Owed(s) => Owed(s)'
        BY <2>1, <3>2 DEF Owed, running
      <4>3. QED
        BY <1>1, <2>3, <4>1, <4>2, CapHolds
    <3>3. QED
      BY <3>1, <3>2
  <2>4. QED
    BY <1>3, <2>2, <2>3 DEF PruneAndEmit
<1>4. QED
  BY <1>2, <1>3 DEF Ingest

LEMMA NextCap == RepairInv /\ CapInv /\ [Next]_vars => CapInv'
<1> SUFFICES ASSUME RepairInv, CapInv, [Next]_vars PROVE CapInv'
  OBVIOUS
<1>1. CASE Ingest
  BY <1>1, IngestKeepsCap
<1>2. CASE Backfill
  BY <1>2, BackfillKeepsCap
<1>3. CASE Faults
  BY <1>3 DEF Faults, InsertFails, RunFails, AuditFails, Restart, Fault, RepairInv, CapInv
\* The other steps add no row and end no debt.
<1>4. ASSUME live \subseteq live', running => run' = run, faults' = faults,
             \A s \in Series : store'[s] \subseteq store[s]
      PROVE  CapInv'
  <2>1. ASSUME NEW s \in Series
        PROVE  Cardinality(store'[s]) <= Cap[s] \/ Owed(s)' \/ faults' > 0
    <3>1. Owed(s) => Owed(s)'
      BY <1>4 DEF Owed, running
    <3>2. faults' >= faults /\ faults' \in Nat
      BY <1>4 DEF RepairInv
    <3>3. QED
      BY <1>4, <3>1, <3>2, CapHolds
  <2>2. QED
    BY <2>1 DEF CapInv
<1>5. CASE \E s \in Series : BarCloses(s)
  <2>1. live \subseteq live' /\ run' = run /\ faults' = faults /\ store' = store
    BY <1>5 DEF BarCloses
  <2>2. QED
    BY <1>4, <2>1
<1>6. CASE Watch
  <2>1. live' = live /\ faults' = faults /\ store' = store /\ (running => run' = run)
    BY <1>6 DEF Watch, TimerFires, outside
  <2>2. QED
    BY <1>4, <2>1
<1>7. CASE Network
  <2>1. live' = live /\ faults' = faults /\ store' = store /\ (running => run' = run)
    BY <1>7 DEF Network, Opens, GoesSilent, Closes
  <2>2. QED
    BY <1>4, <2>1
<1>8. CASE AuditTimer \/ AuditScan
  <2>1. live' = live /\ faults' = faults /\ store' = store /\ (running => run' = run)
    BY <1>8 DEF AuditTimer, AuditScan, outside
  <2>2. QED
    BY <1>4, <2>1
<1>9. CASE AuditPrune
  <2>1. live' = live /\ faults' = faults /\ run' = run
    BY <1>9 DEF AuditPrune, outside
  <2>2. \A s \in Series : store'[s] \subseteq store[s]
    BY <1>9 DEF AuditPrune, SQL_PRUNE_CANDLES
  <2>3. QED
    BY <1>4, <2>1, <2>2
<1>10. CASE UNCHANGED vars
  BY <1>4, <1>10 DEF vars
<1>11. QED
  BY <1>1, <1>2, <1>3, <1>5, <1>6, <1>7, <1>8, <1>9, <1>10 DEF Next, Audit

LEMMA TypesFollow == RepairInv /\ WatchInv => RepairTypeOK
<1> SUFFICES ASSUME RepairInv, WatchInv PROVE RepairTypeOK
  OBVIOUS
<1>1. \A s \in Series : store[s] \subseteq Int /\ IsFiniteSet(store[s])
  BY DEF RepairInv, TableOK, Rows, Bars
<1>2. \A h \in live : h.series \in Series /\ h.bar \in Nat /\ h.at \in {"insert", "prune"}
  BY DEF RepairInv, LiveOK, Handlers
<1>3. running =>
        /\ run.series \in Series /\ run.at \in {"bounds", "gaps", "fetch", "prune"}
        /\ run.at = "fetch" <=> Left(run)
        /\ run.at = "prune" => run.inserted
  <2>1. running => run \in Runs /\ StageOK(run)
    BY GoodParts
  <2>2. QED
    BY <2>1 DEF Runs, StageOK
<1>4. (audit.todo # <<>> /\ audit.at = "repair") <=> (running /\ run.owner = "audit")
  BY DEF RepairInv, RunInv, running
<1>5. QED
  BY <1>1, <1>2, <1>3, <1>4 DEF RepairTypeOK, RepairInv, TableOK, WatchInv, WatchTyped

\* Unless a statement failed, a row above the cap of a series belongs to a
\* handler or a run whose DELETE is still to come.
THEOREM CapIsKept == ASSUME ClosedBoots, CappedBoots PROVE Spec => []WithinCap
<1>1. Init => CapInv
  BY InitCap
<1>2. RepairInv /\ WatchInv /\ CapInv => WithinCap
  <2>1. RepairInv /\ WatchInv => RepairTypeOK
    BY TypesFollow
  <2>2. CapInv => \A s \in Series :
           \/ Cardinality(store[s]) <= Cap[s]
           \/ \E h \in live : h.series = s /\ h.at = "prune"
           \/ running /\ run.series = s /\ run.inserted
           \/ faults > 0
    BY Zenon DEF CapInv, Owed
  <2>3. QED
    BY <2>1, <2>2 DEF WithinCap
<1>3. QED
  BY <1>1, <1>2, NextCap, AlwaysRepairInv, InitWatch, NextWatch, PTL DEF Spec
=============================================================================
