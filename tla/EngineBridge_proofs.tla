------------------------ MODULE EngineBridge_proofs ------------------------
(***************************************************************************)
(* Theorems about the bridge and its ledger, for every set of timeframes,  *)
(* every length of the history and any number of lost frames, lost         *)
(* answers, exits and restarts of the engine.                              *)
(***************************************************************************)
EXTENDS EngineBridge, SequenceTheorems, TLAPS

Entry     == [openTime : Times, node : Action \cup {Null}, cpp : Action \cup {Null},
              compared : BOOLEAN]
Frame     == [openTime : Times, told : Side \cup {Null}]
Answer    == [openTime : Times, action : Action]
Judged    == Timeframes \cup {Null}
Judgement == [openTime : Times, timeframe : Judged, agreed : BOOLEAN]

Fresh(t) == [openTime |-> t, node |-> Null, cpp |-> Null, compared |-> FALSE]

\* A ledger as the code keeps it: one entry of an open time, and not too many.
IsLedger(ledger) ==
  /\ ledger \in Seq(Entry)
  /\ Len(ledger) <= DECISION_HISTORY /\ IsInjective(OpenTimes(ledger))

-----------------------------------------------------------------------------
(* Sequences *)

\* The newest of a sequence that is one too long, or all of it.
LEMMA NewestIsASuffix ==
  ASSUME NEW S, NEW s \in Seq(S), Len(s) <= DECISION_HISTORY + 1
  PROVE  \E k \in {0, 1} :
           /\ Newest(s) \in Seq(S) /\ Len(Newest(s)) = Len(s) - k
           /\ Len(Newest(s)) <= DECISION_HISTORY
           /\ \A i \in 1..(Len(s) - k) : Newest(s)[i] = s[i + k]
           /\ k < Len(s) \/ s = <<>>
<1> DEFINE Suffix(k) ==
             /\ Newest(s) \in Seq(S) /\ Len(Newest(s)) = Len(s) - k
             /\ Len(Newest(s)) <= DECISION_HISTORY
             /\ \A i \in 1..(Len(s) - k) : Newest(s)[i] = s[i + k]
             /\ k < Len(s) \/ s = <<>>
<1>1. DECISION_HISTORY \in Nat \ {0} /\ Len(s) \in Nat
  BY BridgeAssumption, LenProperties
<1>2. CASE Len(s) > DECISION_HISTORY
  <2>1. s # <<>> /\ Newest(s) = Tail(s)
    BY <1>1, <1>2 DEF Newest
  <2>2. /\ Tail(s) \in Seq(S) /\ Len(Tail(s)) = Len(s) - 1
        /\ \A i \in 1..(Len(s) - 1) : Tail(s)[i] = s[i + 1]
    BY <2>1, HeadTailProperties
  <2>3. Suffix(1)
    BY <1>1, <1>2, <2>1, <2>2
  <2>4. QED
    BY <2>3
<1>3. CASE ~(Len(s) > DECISION_HISTORY)
  <2>1. Newest(s) = s
    BY <1>3 DEF Newest
  <2>2. Len(s) > 0 \/ s = <<>>
    BY <1>1, EmptySeq
  <2>3. Suffix(0)
    BY <1>1, <1>3, <2>1, <2>2
  <2>4. QED
    BY <2>3
<1>4. QED
  BY <1>2, <1>3

\* What a sequence holds after an element was appended.
LEMMA AppendHolds ==
  ASSUME NEW S, NEW s \in Seq(S), NEW e \in S
  PROVE  /\ Append(s, e) \in Seq(S) /\ Len(Append(s, e)) = Len(s) + 1
         /\ DOMAIN Append(s, e) = 1..(Len(s) + 1) /\ DOMAIN s = 1..Len(s) /\ Len(s) \in Nat
         /\ \A i \in 1..Len(s) : Append(s, e)[i] = s[i]
         /\ Append(s, e)[Len(s) + 1] = e
BY AppendProperties, LenProperties

\* The map deletes one key: the others stay, in their order.
LEMMA RemoveAtKeeps ==
  ASSUME NEW S, NEW s \in Seq(S), NEW i \in DOMAIN s
  PROVE  /\ RemoveAt(s, i) \in Seq(S) /\ Len(RemoveAt(s, i)) = Len(s) - 1
         /\ \A j \in 1..(Len(s) - 1) : RemoveAt(s, i)[j] = IF j < i THEN s[j] ELSE s[j + 1]
<1>1. Len(s) \in Nat /\ DOMAIN s = 1..Len(s) /\ i \in 1..Len(s) /\ s \in [1..Len(s) -> S]
  BY LenProperties
<1> DEFINE a == SubSeq(s, 1, i - 1)
           b == SubSeq(s, i + 1, Len(s))
<1>2. /\ a \in Seq(S) /\ Len(a) = i - 1
      /\ \A j \in 1..(i - 1) : a[j] = s[j]
  <2>1. \A j \in 1..(i - 1) : s[j] \in S
    BY <1>1
  <2>2. i - 1 \in Int /\ 1 \in Int
    BY <1>1
  <2>3. /\ a \in Seq(S) /\ Len(a) = (IF 1 <= i - 1 THEN (i - 1) - 1 + 1 ELSE 0)
        /\ \A j \in 1..((i - 1) - 1 + 1) : a[j] = s[1 + j - 1]
    BY <2>1, <2>2, SubSeqProperties
  <2>4. QED
    BY <1>1, <2>3
<1>3. /\ b \in Seq(S) /\ Len(b) = Len(s) - i
      /\ \A j \in 1..(Len(s) - i) : b[j] = s[i + j]
  <2>1. \A j \in (i + 1)..Len(s) : s[j] \in S
    BY <1>1
  <2>2. i + 1 \in Int /\ Len(s) \in Int
    BY <1>1
  <2>3. /\ b \in Seq(S) /\ Len(b) = (IF i + 1 <= Len(s) THEN Len(s) - (i + 1) + 1 ELSE 0)
        /\ \A j \in 1..(Len(s) - (i + 1) + 1) : b[j] = s[(i + 1) + j - 1]
    BY <2>1, <2>2, SubSeqProperties
  <2>4. QED
    BY <1>1, <2>3
<1>4. RemoveAt(s, i) = a \o b
  BY DEF RemoveAt
<1> HIDE DEF a, b
<1>5. /\ a \o b \in Seq(S) /\ Len(a \o b) = Len(a) + Len(b)
      /\ \A j \in 1..(Len(a) + Len(b)) : (a \o b)[j] = IF j <= Len(a) THEN a[j] ELSE b[j - Len(a)]
  BY <1>2, <1>3, ConcatProperties
<1>6. Len(a \o b) = Len(s) - 1
  BY <1>1, <1>2, <1>3, <1>5
<1>7. ASSUME NEW j \in 1..(Len(s) - 1) PROVE (a \o b)[j] = IF j < i THEN s[j] ELSE s[j + 1]
  <2>1. j \in 1..(Len(a) + Len(b)) /\ Len(a) = i - 1
    BY <1>1, <1>2, <1>3
  <2>2. CASE j < i
    BY <1>1, <1>2, <1>5, <2>1, <2>2
  <2>3. CASE ~(j < i)
    <3>1. (a \o b)[j] = b[j - (i - 1)]
      BY <1>1, <1>5, <2>1, <2>3
    <3>2. j - (i - 1) \in 1..(Len(s) - i) /\ i + (j - (i - 1)) = j + 1
      BY <1>1, <2>3
    <3>3. b[j - (i - 1)] = s[j + 1]
      BY <1>3, <3>2
    <3>4. QED
      BY <2>3, <3>1, <3>3
  <2>4. QED
    BY <2>2, <2>3
<1>8. QED
  BY <1>4, <1>5, <1>6, <1>7

\* The first part of a sequence and the rest hold what it held.
LEMMA PrefixHolds ==
  ASSUME NEW S, NEW s \in Seq(S), NEW n \in 0..Len(s)
  PROVE  /\ SubSeq(s, 1, n) \in Seq(S)
         /\ \A i \in DOMAIN SubSeq(s, 1, n) : \E j \in DOMAIN s : SubSeq(s, 1, n)[i] = s[j]
<1>1. DOMAIN s = 1..Len(s) /\ Len(s) \in Nat /\ s \in [1..Len(s) -> S] /\ n \in Int
  BY LenProperties
<1> DEFINE p == SubSeq(s, 1, n)
<1>2. /\ p \in Seq(S) /\ Len(p) = (IF 1 <= n THEN n - 1 + 1 ELSE 0)
      /\ \A i \in 1..(n - 1 + 1) : p[i] = s[1 + i - 1]
  <2>1. \A i \in 1..n : s[i] \in S
    BY <1>1
  <2>2. QED
    BY <1>1, <2>1, SubSeqProperties
<1> HIDE DEF p
<1>3. DOMAIN p = 1..n
  <2>1. DOMAIN p = 1..Len(p)
    BY <1>2, LenProperties
  <2>2. QED
    BY <1>1, <1>2, <2>1
<1>4. \A i \in DOMAIN p : i \in DOMAIN s /\ p[i] = s[i]
  BY <1>1, <1>2, <1>3
<1>5. QED
  BY <1>2, <1>4 DEF p

LEMMA SuffixHolds ==
  ASSUME NEW S, NEW s \in Seq(S), NEW n \in 0..Len(s)
  PROVE  /\ SubSeq(s, n + 1, Len(s)) \in Seq(S)
         /\ \A i \in DOMAIN SubSeq(s, n + 1, Len(s)) :
              \E j \in DOMAIN s : SubSeq(s, n + 1, Len(s))[i] = s[j]
<1>1. /\ DOMAIN s = 1..Len(s) /\ Len(s) \in Nat /\ s \in [1..Len(s) -> S]
      /\ n \in Int /\ n + 1 \in Int
  BY LenProperties
<1> DEFINE p == SubSeq(s, n + 1, Len(s))
<1>2. /\ p \in Seq(S)
      /\ Len(p) = (IF n + 1 <= Len(s) THEN Len(s) - (n + 1) + 1 ELSE 0)
      /\ \A i \in 1..(Len(s) - (n + 1) + 1) : p[i] = s[(n + 1) + i - 1]
  <2>1. \A i \in (n + 1)..Len(s) : s[i] \in S
    BY <1>1
  <2>2. QED
    BY <1>1, <2>1, SubSeqProperties
<1> HIDE DEF p
<1>3. DOMAIN p = 1..(Len(s) - n)
  <2>1. DOMAIN p = 1..Len(p)
    BY <1>2, LenProperties
  <2>2. CASE n + 1 <= Len(s)
    BY <1>1, <1>2, <2>1, <2>2
  <2>3. CASE n = Len(s)
    <3>1. Len(p) = 0 /\ Len(s) - n = 0
      BY <1>1, <1>2, <2>3
    <3>2. QED
      BY <2>1, <3>1
  <2>4. n + 1 <= Len(s) \/ n = Len(s)
    <3>1. \A l \in Nat : \A k \in 0..l : k + 1 <= l \/ k = l
      OBVIOUS
    <3>2. Len(s) \in Nat
      BY <1>1
    <3>3. QED
      BY <3>1, <3>2
  <2>5. QED
    BY <2>2, <2>3, <2>4
<1>4. ASSUME NEW i \in DOMAIN p PROVE i + n \in DOMAIN s /\ p[i] = s[i + n]
  <2>1. i \in 1..(Len(s) - (n + 1) + 1) /\ (n + 1) + i - 1 = i + n /\ i + n \in 1..Len(s)
    BY <1>1, <1>3
  <2>2. p[i] = s[(n + 1) + i - 1]
    BY <1>2, <2>1
  <2>3. QED
    BY <1>1, <2>1, <2>2
<1>5. QED
  BY <1>2, <1>4 DEF p

-----------------------------------------------------------------------------
(***************************************************************************)
(* The ledger (compare.js).                                                *)
(***************************************************************************)

\* entryFor finds an entry, or makes one in the place of the oldest.
LEMMA EntryIsThere ==
  ASSUME NEW ledger, IsLedger(ledger), NEW t \in Times
  PROVE  /\ IsLedger(entryFor(ledger, t))
         /\ \E i \in DOMAIN entryFor(ledger, t) : entryFor(ledger, t)[i].openTime = t
         /\ \A i \in DOMAIN entryFor(ledger, t) :
              \/ \E j \in DOMAIN ledger : entryFor(ledger, t)[i] = ledger[j]
              \/ entryFor(ledger, t)[i] = Fresh(t)
<1>1. CASE Has(ledger, t)
  BY <1>1 DEF entryFor, Has
<1>2. CASE ~Has(ledger, t)
  <2> DEFINE longer == Append(ledger, Fresh(t))
             found  == Newest(longer)
  <2>1. entryFor(ledger, t) = found
    BY <1>2 DEF entryFor, Fresh
  <2>2. Fresh(t) \in Entry /\ Fresh(t).openTime = t
    BY DEF Fresh, Entry
  <2>3. ledger \in Seq(Entry) /\ Len(ledger) <= DECISION_HISTORY
    BY DEF IsLedger
  <2>4. /\ longer \in Seq(Entry) /\ Len(longer) = Len(ledger) + 1 /\ Len(ledger) \in Nat
        /\ DOMAIN ledger = 1..Len(ledger)
        /\ \A i \in 1..Len(ledger) : longer[i] = ledger[i]
        /\ longer[Len(ledger) + 1] = Fresh(t)
    BY <2>2, <2>3, AppendHolds
  <2>5. \A i, j \in 1..Len(ledger) : ledger[i].openTime = ledger[j].openTime => i = j
    BY <2>4 DEF IsLedger, IsInjective, OpenTimes
  <2>6. \A i, j \in 1..(Len(ledger) + 1) : longer[i].openTime = longer[j].openTime => i = j
    BY <1>2, <2>2, <2>4, <2>5 DEF Has
  <2>7. Len(longer) <= DECISION_HISTORY + 1
    BY <2>3, <2>4, BridgeAssumption
  <2> HIDE DEF longer
  <2>8. PICK k \in {0, 1} :
          /\ found \in Seq(Entry) /\ Len(found) = Len(longer) - k
          /\ Len(found) <= DECISION_HISTORY
          /\ \A i \in 1..(Len(longer) - k) : found[i] = longer[i + k]
          /\ k < Len(longer) \/ longer = <<>>
    BY <2>4, <2>7, NewestIsASuffix
  <2> HIDE DEF found
  <2>9. DOMAIN found = 1..(Len(ledger) + 1 - k) /\ Len(ledger) + 1 - k \in Nat /\ Len(ledger) + 1 - k >= 1
    <3>1. DOMAIN found = 1..Len(found) /\ Len(found) \in Nat
      BY <2>8, LenProperties
    <3>2. longer # <<>>
      BY <2>4, EmptySeq
    <3>3. QED
      BY <2>4, <2>8, <3>1, <3>2
  <2>10. \A i \in DOMAIN found : found[i] = longer[i + k] /\ i + k \in 1..(Len(ledger) + 1)
    BY <2>4, <2>8, <2>9
  <2>11. IsInjective(OpenTimes(found))
    BY <2>6, <2>9, <2>10 DEF IsInjective, OpenTimes
  <2>12. \E i \in DOMAIN found : found[i].openTime = t
    <3>1. Len(ledger) + 1 - k \in DOMAIN found
      BY <2>9
    <3>2. found[Len(ledger) + 1 - k] = longer[Len(ledger) + 1]
      BY <2>4, <2>9, <2>10, <3>1
    <3>3. QED
      BY <2>2, <2>4, <3>1, <3>2
  <2>13. \A i \in DOMAIN found : (\E j \in DOMAIN ledger : found[i] = ledger[j]) \/ found[i] = Fresh(t)
    BY <2>4, <2>10
  <2>14. QED
    BY <2>1, <2>8, <2>11, <2>12, <2>13 DEF IsLedger
<1>3. QED
  BY <1>1, <1>2

\* The entry with the decision of one engine filled in.
Filled(e, who, action) == [e EXCEPT ![who] = action]

Closed(e) == [e EXCEPT !.compared = @ \/ Pairs(e)]

Verdict(e, tf) ==
  IF Pairs(e) THEN <<[openTime |-> e.openTime, timeframe |-> tf, agreed |-> e.node = e.cpp]>> ELSE <<>>

\* What record changes: the entry of t, which was there or is fresh.
Records(ledger, t, who, action, tf, r, old) ==
  /\ old \in Entry /\ old.openTime = t
  /\ (\E j \in DOMAIN ledger : old = ledger[j]) \/ old = Fresh(t)
  /\ r.verdict = Verdict(Filled(old, who, action), tf)
  /\ \A i \in DOMAIN r.ledger :
       \/ r.ledger[i] = Closed(Filled(old, who, action))
       \/ /\ r.ledger[i].openTime # t
          /\ \E j \in DOMAIN ledger : r.ledger[i] = ledger[j]

LEMMA FilledIsAnEntry ==
  ASSUME NEW e \in Entry, NEW who \in {"node", "cpp"}, NEW action \in Action
  PROVE  /\ Filled(e, who, action) \in Entry /\ Closed(Filled(e, who, action)) \in Entry
         /\ Filled(e, who, action).openTime = e.openTime
         /\ Closed(Filled(e, who, action)).openTime = e.openTime
<1>1. CASE who = "node"
  BY <1>1 DEF Filled, Closed, Entry, Pairs
<1>2. CASE who = "cpp"
  BY <1>2 DEF Filled, Closed, Entry, Pairs
<1>3. QED
  BY <1>1, <1>2

LEMMA RecordChangesOne ==
  ASSUME NEW ledger, IsLedger(ledger), NEW t \in Times,
         NEW who \in {"node", "cpp"}, NEW action \in Action, NEW tf \in Judged
  PROVE  /\ IsLedger(record(ledger, t, who, action, tf).ledger)
         /\ \E old : Records(ledger, t, who, action, tf, record(ledger, t, who, action, tf), old)
<1> DEFINE found == entryFor(ledger, t)
           i     == CHOOSE j \in DOMAIN found : found[j].openTime = t
           old   == found[i]
           entry == Filled(old, who, action)
           after == [found EXCEPT ![i] = Closed(entry)]
           r     == record(ledger, t, who, action, tf)
<1>1. /\ IsLedger(found)
      /\ \E j \in DOMAIN found : found[j].openTime = t
      /\ \A j \in DOMAIN found : (\E k \in DOMAIN ledger : found[j] = ledger[k]) \/ found[j] = Fresh(t)
  BY EntryIsThere
<1>2. i \in DOMAIN found /\ old.openTime = t
  BY <1>1
<1>3. found \in Seq(Entry) /\ DOMAIN found = 1..Len(found) /\ Len(found) \in Nat
  BY <1>1, LenProperties DEF IsLedger
<1>4. old \in Entry
  BY <1>2, <1>3, ElementOfSeq
<1>5. r.ledger = after /\ r.verdict = Verdict(entry, tf)
  <2>1. r = [ledger  |-> [found EXCEPT ![i] = [entry EXCEPT !.compared = @ \/ Pairs(entry)]],
             verdict |-> IF Pairs(entry)
                         THEN <<[openTime |-> t, timeframe |-> tf, agreed |-> entry.node = entry.cpp]>>
                         ELSE <<>>]
    BY DEF record, Filled
  <2>2. entry.openTime = t
    BY <1>2, <1>4, FilledIsAnEntry
  <2> HIDE DEF entry, r
  <2>3. QED
    BY <2>1, <2>2 DEF Closed, Verdict
<1> HIDE DEF found, i
<1>6. Closed(entry) \in Entry /\ Closed(entry).openTime = t
  BY <1>2, <1>4, FilledIsAnEntry
<1> HIDE DEF entry
<1>7. /\ after \in Seq(Entry) /\ Len(after) = Len(found) /\ DOMAIN after = DOMAIN found
      /\ \A j \in DOMAIN found : after[j] = IF j = i THEN Closed(entry) ELSE found[j]
  <2>1. /\ after \in Seq(Entry) /\ Len(after) = Len(found)
        /\ \A j \in 1..Len(found) : after[j] = IF j = i THEN Closed(entry) ELSE found[j]
    BY <1>2, <1>3, <1>6, ExceptSeq
  <2>2. QED
    BY <1>3, <2>1
<1> HIDE DEF after
<1>8. \A j, k \in DOMAIN found : found[j].openTime = found[k].openTime => j = k
  BY <1>1, <1>3 DEF IsLedger, IsInjective, OpenTimes
<1>9. \A j \in DOMAIN found : after[j].openTime = found[j].openTime
  BY <1>2, <1>6, <1>7
<1>10. IsInjective(OpenTimes(after))
  BY <1>7, <1>8, <1>9 DEF IsInjective, OpenTimes
<1>11. IsLedger(after)
  BY <1>1, <1>7, <1>10 DEF IsLedger
<1>12. \A j \in DOMAIN after :
         \/ after[j] = Closed(entry)
         \/ after[j].openTime # t /\ \E k \in DOMAIN ledger : after[j] = ledger[k]
  <2> SUFFICES ASSUME NEW j \in DOMAIN after, j # i
               PROVE  after[j].openTime # t /\ \E k \in DOMAIN ledger : after[j] = ledger[k]
    BY <1>7
  <2>1. after[j] = found[j] /\ found[j].openTime # t
    BY <1>2, <1>7, <1>8
  <2>2. Fresh(t).openTime = t
    BY DEF Fresh
  <2>3. QED
    BY <1>1, <1>7, <2>1, <2>2
<1>13. Records(ledger, t, who, action, tf, r, old)
  BY <1>1, <1>2, <1>4, <1>5, <1>12 DEF Records, entry
<1>14. QED
  BY <1>5, <1>11, <1>13

LEMMA VerdictType ==
  ASSUME NEW e \in Entry, NEW tf \in Judged
  PROVE  Verdict(e, tf) \in Seq(Judgement) /\ Len(Verdict(e, tf)) \in 0..1
<1> DEFINE j == [openTime |-> e.openTime, timeframe |-> tf, agreed |-> e.node = e.cpp]
<1>1. j \in Judgement
  <2>1. e.openTime \in Times /\ (e.node = e.cpp) \in BOOLEAN
    BY DEF Entry
  <2>2. QED
    BY <2>1 DEF Judgement
<1>2. Verdict(e, tf) = <<j>> \/ Verdict(e, tf) = <<>>
  BY DEF Verdict
<1> HIDE DEF j
<1>3. <<j>> \in Seq(Judgement) /\ Len(<<j>>) = 1
  BY <1>1
<1>4. <<>> \in Seq(Judgement) /\ Len(<<>>) = 0
  BY EmptySeq
<1>5. CASE Verdict(e, tf) = <<j>>
  BY <1>3, <1>5
<1>6. CASE Verdict(e, tf) = <<>>
  BY <1>4, <1>6
<1>7. QED
  BY <1>2, <1>5, <1>6

-----------------------------------------------------------------------------
(***************************************************************************)
(* The map of push times.                                                  *)
(***************************************************************************)
IsKeys(keys) ==
  /\ keys \in Seq(Times)
  /\ Len(keys) <= DECISION_HISTORY /\ IsInjective(keys)

LEMMA StampedAreKeys ==
  ASSUME NEW keys, IsKeys(keys), NEW t \in Times
  PROVE  IsKeys(Stamped(keys, t))
<1>1. keys \in Seq(Times) /\ DOMAIN keys = 1..Len(keys) /\ Len(keys) \in Nat
  BY LenProperties DEF IsKeys
<1>2. CASE Contains(keys, t)
  BY <1>2 DEF Stamped
<1>3. CASE ~Contains(keys, t)
  <2> DEFINE longer == Append(keys, t)
             kept   == Newest(longer)
  <2>1. Stamped(keys, t) = kept
    BY <1>3 DEF Stamped
  <2>2. /\ longer \in Seq(Times) /\ Len(longer) = Len(keys) + 1
        /\ \A i \in 1..Len(keys) : longer[i] = keys[i]
        /\ longer[Len(keys) + 1] = t
    BY <1>1, AppendHolds
  <2>3. \A i, j \in 1..Len(keys) : keys[i] = keys[j] => i = j
    BY <1>1 DEF IsKeys, IsInjective
  <2>4. \A i \in 1..Len(keys) : keys[i] # t
    BY <1>3 DEF Contains
  <2>5. \A i, j \in 1..(Len(keys) + 1) : longer[i] = longer[j] => i = j
    BY <1>1, <2>2, <2>3, <2>4
  <2>6. Len(longer) <= DECISION_HISTORY + 1
    BY <1>1, <2>2, BridgeAssumption DEF IsKeys
  <2> HIDE DEF longer
  <2>7. PICK k \in {0, 1} :
          /\ kept \in Seq(Times) /\ Len(kept) = Len(longer) - k
          /\ Len(kept) <= DECISION_HISTORY
          /\ \A i \in 1..(Len(longer) - k) : kept[i] = longer[i + k]
          /\ k < Len(longer) \/ longer = <<>>
    BY <2>2, <2>6, NewestIsASuffix
  <2> HIDE DEF kept
  <2>8. DOMAIN kept = 1..(Len(keys) + 1 - k)
    BY <2>2, <2>7, LenProperties
  <2>9. \A i \in DOMAIN kept : kept[i] = longer[i + k] /\ i + k \in 1..(Len(keys) + 1) /\ i \in Nat
    BY <1>1, <2>2, <2>7, <2>8
  <2>10. IsInjective(kept)
    BY <2>5, <2>9 DEF IsInjective
  <2>11. QED
    BY <2>1, <2>7, <2>10 DEF IsKeys
<1>4. QED
  BY <1>2, <1>3

LEMMA ConsumedAreKeys ==
  ASSUME IsKeys(pushedAtUs), NEW t
  PROVE  IsKeys(consumed(t))
<1>1. /\ pushedAtUs \in Seq(Times) /\ DOMAIN pushedAtUs = 1..Len(pushedAtUs)
      /\ Len(pushedAtUs) \in Nat
  BY LenProperties DEF IsKeys
<1>2. CASE ~Contains(pushedAtUs, t)
  BY <1>2 DEF consumed
<1>3. CASE Contains(pushedAtUs, t)
  <2> DEFINE i    == CHOOSE j \in DOMAIN pushedAtUs : pushedAtUs[j] = t
             kept == RemoveAt(pushedAtUs, i)
  <2>1. i \in DOMAIN pushedAtUs
    BY <1>1, <1>3 DEF Contains
  <2>2. consumed(t) = kept
    BY <1>3 DEF consumed
  <2> HIDE DEF i
  <2>3. /\ kept \in Seq(Times) /\ Len(kept) = Len(pushedAtUs) - 1
        /\ \A j \in 1..(Len(pushedAtUs) - 1) :
             kept[j] = IF j < i THEN pushedAtUs[j] ELSE pushedAtUs[j + 1]
    BY <1>1, <2>1, RemoveAtKeeps
  <2> HIDE DEF kept
  <2>4. DOMAIN kept = 1..(Len(pushedAtUs) - 1)
    BY <2>3, LenProperties
  <2>5. \A j, k \in 1..Len(pushedAtUs) : pushedAtUs[j] = pushedAtUs[k] => j = k
    BY <1>1 DEF IsKeys, IsInjective
  <2>6. ASSUME NEW j \in DOMAIN kept, NEW k \in DOMAIN kept, kept[j] = kept[k]
        PROVE  j = k
    BY <1>1, <2>1, <2>3, <2>4, <2>5, <2>6
  <2>7. Len(kept) <= DECISION_HISTORY
    BY <1>1, <2>3, BridgeAssumption DEF IsKeys
  <2>8. QED
    BY <2>2, <2>3, <2>6, <2>7 DEF IsKeys, IsInjective
<1>4. QED
  BY <1>2, <1>3

-----------------------------------------------------------------------------
(***************************************************************************)
(* Both maps stay within the length of the history.                        *)
(***************************************************************************)
LEMMA TypeOfSequences ==
  BridgeTypeOK <=>
    /\ next \in [Timeframes -> 0..Horizon]
    /\ strategy \in Strategies /\ nodeSide \in Side \cup {Null}
    /\ decidedIn \in [Times -> Judged]
    /\ cross \in [hasPrevious : BOOLEAN, previousAbove : BOOLEAN]
    /\ outbound \in Seq(Frame) /\ inbound \in Seq(Answer)
    /\ pushedAtUs \in Seq(Times) /\ decisions \in Seq(Entry) /\ judged \in Seq(Judgement)
BY DEF BridgeTypeOK, Frame, Answer, Entry, Judgement, Judged

LEMMA BoundedByParts ==
  MapsAreBounded <=> BridgeTypeOK /\ IsLedger(decisions) /\ IsKeys(pushedAtUs)
BY TypeOfSequences DEF MapsAreBounded, IsLedger, IsKeys

LEMMA InitBounded == Init => MapsAreBounded
<1> SUFFICES ASSUME Init PROVE MapsAreBounded
  OBVIOUS
<1>1. BridgeTypeOK
  <2>1. /\ next \in [Timeframes -> 0..Horizon] /\ nodeSide \in Side \cup {Null}
        /\ strategy \in Strategies /\ decidedIn \in [Times -> Judged]
    BY BridgeAssumption DEF Init, Strategies, Judged
  <2>2. cross \in [hasPrevious : BOOLEAN, previousAbove : BOOLEAN]
    BY DEF Init, NoCross
  <2>3. /\ outbound \in Seq(Frame) /\ inbound \in Seq(Answer)
        /\ pushedAtUs \in Seq(Times) /\ decisions \in Seq(Entry) /\ judged \in Seq(Judgement)
    BY DEF Init
  <2>4. QED
    BY <2>1, <2>2, <2>3, TypeOfSequences
<1>2. /\ Len(decisions) <= DECISION_HISTORY /\ IsInjective(OpenTimes(decisions))
      /\ Len(pushedAtUs) <= DECISION_HISTORY /\ IsInjective(pushedAtUs)
  BY BridgeAssumption DEF Init, IsInjective, OpenTimes
<1>3. QED
  BY <1>1, <1>2 DEF MapsAreBounded

\* The bar that closes has an open time, and so does the next one.
LEMMA ClosingIsInTime ==
  ASSUME next \in [Timeframes -> 0..Horizon], NEW tf \in Timeframes, Closes(tf)
  PROVE  /\ next[tf] \in Times /\ next' \in [Timeframes -> 0..Horizon]
         /\ next[tf] <= next[DefaultTimeframe]
         /\ next[DefaultTimeframe] \in Nat
         /\ next[tf] < next'[tf] /\ \A k \in Timeframes : next[k] <= next'[k]
         /\ next'[DefaultTimeframe] =
              IF tf = DefaultTimeframe THEN next[DefaultTimeframe] + 1 ELSE next[DefaultTimeframe]
<1>1. /\ next[tf] \in 0..Horizon /\ Width[tf] \in Nat \ {0} /\ Horizon \in Nat
      /\ DefaultTimeframe \in Timeframes /\ next[DefaultTimeframe] \in 0..Horizon
      /\ Width[DefaultTimeframe] = 1
  BY BridgeAssumption
<1>2. /\ next[tf] + Width[tf] <= Horizon
      /\ next[tf] + Width[tf] <= next[DefaultTimeframe] + 1
      /\ next' = [next EXCEPT ![tf] = next[tf] + Width[tf]]
  BY DEF Closes
<1>3. next[tf] + Width[tf] \in 0..Horizon /\ next[tf] \in Times
  BY <1>1, <1>2 DEF Times
<1>4. /\ next'[tf] = next[tf] + Width[tf] /\ next[tf] < next'[tf]
      /\ \A k \in Timeframes : next[k] <= next'[k]
  BY <1>1, <1>2
<1>5. QED
  BY <1>1, <1>2, <1>3, <1>4

LEMMA DecisionTypes ==
  ASSUME BridgeTypeOK, NEW told \in Side \cup {Null}
  PROVE  /\ nodeDecides(told) \in Action /\ cppDecides(told) \in Action
         /\ nodeDecisions(told) \subseteq Action
         /\ cppAdvances(told) \in [hasPrevious : BOOLEAN, previousAbove : BOOLEAN]
BY DEF BridgeTypeOK, nodeDecisions, nodeDecides, cppDecides, cppAdvances, Signal, Action, Side

\* The ledger and its verdicts after one record.
LEMMA RecordType ==
  ASSUME IsLedger(decisions), judged \in Seq(Judgement), NEW t \in Times,
         NEW who \in {"node", "cpp"}, NEW action \in Action, NEW tf \in Judged,
         NEW r, r = record(decisions, t, who, action, tf)
  PROVE  IsLedger(r.ledger) /\ judged \o r.verdict \in Seq(Judgement)
<1>1. IsLedger(r.ledger)
  BY RecordChangesOne
<1>2. PICK old : Records(decisions, t, who, action, tf, r, old)
  BY RecordChangesOne
<1>3. r.verdict \in Seq(Judgement)
  <2>1. old \in Entry /\ r.verdict = Verdict(Filled(old, who, action), tf)
    BY <1>2 DEF Records
  <2>2. Filled(old, who, action) \in Entry
    BY <2>1, FilledIsAnEntry
  <2>3. QED
    BY <2>1, <2>2, VerdictType
<1>4. QED
  BY <1>1, <1>3, ConcatProperties

LEMMA NextBounded == MapsAreBounded /\ [Next]_vars => MapsAreBounded'
<1> SUFFICES ASSUME MapsAreBounded, [Next]_vars PROVE MapsAreBounded'
  OBVIOUS
<1> USE DEF nodeVars, bridgeVars, engineVars
<1>1. /\ next \in [Timeframes -> 0..Horizon] /\ nodeSide \in Side \cup {Null}
      /\ strategy \in Strategies /\ decidedIn \in [Times -> Judged]
      /\ cross \in [hasPrevious : BOOLEAN, previousAbove : BOOLEAN]
      /\ outbound \in Seq(Frame) /\ inbound \in Seq(Answer)
      /\ judged \in Seq(Judgement) /\ IsLedger(decisions) /\ IsKeys(pushedAtUs)
  BY BoundedByParts, TypeOfSequences
<1> SUFFICES /\ next' \in [Timeframes -> 0..Horizon] /\ nodeSide' \in Side \cup {Null}
             /\ strategy' \in Strategies /\ decidedIn' \in [Times -> Judged]
             /\ cross' \in [hasPrevious : BOOLEAN, previousAbove : BOOLEAN]
             /\ outbound' \in Seq(Frame) /\ inbound' \in Seq(Answer)
             /\ judged' \in Seq(Judgement) /\ IsLedger(decisions') /\ IsKeys(pushedAtUs')
  <2>1. IsLedger(decisions') => decisions' \in Seq(Entry) /\ Len(decisions') <= DECISION_HISTORY
                                /\ IsInjective(OpenTimes(decisions'))
    BY DEF IsLedger
  <2>2. IsKeys(pushedAtUs') => pushedAtUs' \in Seq(Times) /\ Len(pushedAtUs') <= DECISION_HISTORY
                               /\ IsInjective(pushedAtUs')
    BY DEF IsKeys
  <2>3. QED
    BY <2>1, <2>2 DEF MapsAreBounded, BridgeTypeOK, Frame, Answer, Entry, Judgement, Judged, OpenTimes
<1>2. ASSUME NEW tf \in Timeframes, NEW told \in Side \cup {Null}, Candle(tf, told)
      PROVE  /\ next' \in [Timeframes -> 0..Horizon] /\ nodeSide' \in Side \cup {Null}
             /\ strategy' \in Strategies /\ decidedIn' \in [Times -> Judged]
             /\ cross' \in [hasPrevious : BOOLEAN, previousAbove : BOOLEAN]
             /\ outbound' \in Seq(Frame) /\ inbound' \in Seq(Answer)
             /\ judged' \in Seq(Judgement) /\ IsLedger(decisions') /\ IsKeys(pushedAtUs')
  <2>1. Closes(tf) /\ nodeOnCandle(tf, told) /\ bridgeOnCandle(tf, told)
        /\ UNCHANGED <<cross, inbound, strategy>>
    BY <1>2 DEF Candle
  <2>2. next[tf] \in Times /\ next' \in [Timeframes -> 0..Horizon]
    BY <1>1, <2>1, ClosingIsInTime
  <2>3. /\ nodeSide' \in Side \cup {Null} /\ judged' \in Seq(Judgement) /\ IsLedger(decisions')
        /\ decidedIn' \in [Times -> Judged]
    <3>1. CASE tf = strategy.timeframe /\ subscribed
      <4>1. PICK action \in nodeDecisions(told) :
              /\ decisions' = record(decisions, next[tf], "node", action, tf).ledger
              /\ judged' = judged \o record(decisions, next[tf], "node", action, tf).verdict
        BY <2>1, <3>1 DEF nodeOnCandle
      <4>2. action \in Action /\ tf \in Judged
        BY <4>1, DecisionTypes DEF MapsAreBounded, Judged
      <4> DEFINE r == record(decisions, next[tf], "node", action, tf)
      <4> HIDE DEF r
      <4>3. IsLedger(r.ledger) /\ judged \o r.verdict \in Seq(Judgement)
        BY <1>1, <2>2, <4>2, RecordType DEF r
      <4>4. nodeSide' \in Side \cup {Null} /\ decidedIn' = [decidedIn EXCEPT ![next[tf]] = tf]
        BY <1>1, <2>1, <3>1 DEF nodeOnCandle
      <4>5. QED
        BY <1>1, <4>1, <4>2, <4>3, <4>4 DEF r
    <3>2. CASE ~(tf = strategy.timeframe /\ subscribed)
      BY <1>1, <2>1, <3>2 DEF nodeOnCandle
    <3>3. QED
      BY <3>1, <3>2
  <2>4. outbound' \in Seq(Frame)
    <3>1. [openTime |-> next[tf], told |-> told] \in Frame
      BY <2>2 DEF Frame
    <3>2. Append(outbound, [openTime |-> next[tf], told |-> told]) \in Seq(Frame)
      BY <1>1, <3>1, AppendHolds
    <3>3. QED
      BY <1>1, <2>1, <3>2 DEF bridgeOnCandle
  <2>5. IsKeys(pushedAtUs')
    BY <1>1, <2>1, <2>2, StampedAreKeys DEF bridgeOnCandle
  <2>6. QED
    BY <1>1, <2>1, <2>2, <2>3, <2>4, <2>5
<1>3. CASE handleFrame
  <2>1. outbound # <<>> /\ Head(outbound) \in Frame /\ Tail(outbound) \in Seq(Frame)
    BY <1>1, <1>3, HeadTailProperties DEF handleFrame
  <2>2. Head(outbound).openTime \in Times /\ Head(outbound).told \in Side \cup {Null}
    BY <2>1 DEF Frame
  <2>3. /\ cppDecides(Head(outbound).told) \in Action
        /\ cppAdvances(Head(outbound).told) \in [hasPrevious : BOOLEAN, previousAbove : BOOLEAN]
    BY <2>2, DecisionTypes DEF MapsAreBounded
  <2>4. [openTime |-> Head(outbound).openTime, action |-> cppDecides(Head(outbound).told)] \in Answer
    BY <2>2, <2>3 DEF Answer
  <2>5. inbound' \in Seq(Answer)
    <3>1. Append(inbound, [openTime |-> Head(outbound).openTime,
                           action |-> cppDecides(Head(outbound).told)]) \in Seq(Answer)
      BY <1>1, <2>4, AppendHolds
    <3>2. QED
      BY <1>1, <1>3, <3>1 DEF handleFrame
  <2>6. QED
    BY <1>1, <1>3, <2>1, <2>3, <2>5 DEF handleFrame
<1>4. CASE onSignal
  <2> DEFINE signal == Head(inbound)
             r      == record(decisions, signal.openTime, "cpp", signal.action, decidedIn[signal.openTime])
  <2>1. inbound # <<>> /\ signal \in Answer /\ Tail(inbound) \in Seq(Answer)
    BY <1>1, <1>4, HeadTailProperties DEF onSignal
  <2>2. signal.openTime \in Times /\ signal.action \in Action /\ decidedIn[signal.openTime] \in Judged
    BY <1>1, <2>1 DEF Answer
  <2>3. /\ pushedAtUs' = consumed(signal.openTime)
        /\ decisions' = r.ledger /\ judged' = judged \o r.verdict /\ inbound' = Tail(inbound)
        /\ UNCHANGED <<next, nodeSide, strategy, decidedIn, cross, outbound>>
    BY <1>4 DEF onSignal
  <2> HIDE DEF r, signal
  <2>4. IsLedger(r.ledger) /\ judged \o r.verdict \in Seq(Judgement)
    BY <1>1, <2>2, RecordType DEF r
  <2>5. IsKeys(consumed(signal.openTime))
    BY <1>1, ConsumedAreKeys
  <2>6. QED
    BY <1>1, <2>1, <2>3, <2>4, <2>5
<1>5. CASE engineExits
  <2>1. PICK n \in 0..Len(outbound), m \in 0..Len(inbound) :
           /\ outbound' = SubSeq(outbound, n + 1, Len(outbound))
           /\ inbound' = SubSeq(inbound, 1, m)
    BY <1>5 DEF engineExits
  <2>2. outbound' \in Seq(Frame) /\ inbound' \in Seq(Answer)
    BY <1>1, <2>1, SuffixHolds, PrefixHolds
  <2>3. QED
    BY <1>1, <1>5, <2>2 DEF engineExits
<1>6. CASE engineRestarts
  BY <1>1, <1>6 DEF engineRestarts, NoCross
<1>7. CASE swapStrategy
  BY <1>1, <1>7 DEF swapStrategy
<1>8. CASE stopEngineBridge
  <2>1. IsKeys(<<>>)
    BY BridgeAssumption DEF IsKeys, IsInjective
  <2>2. QED
    BY <1>1, <1>8, <2>1 DEF stopEngineBridge
<1>9. CASE UNCHANGED vars
  BY <1>1, <1>9 DEF vars
<1>10. QED
  BY <1>2, <1>3, <1>4, <1>5, <1>6, <1>7, <1>8, <1>9 DEF Next

\* Whatever the engine answers, loses or never does, the ledger and the map of
\* push times hold at most DECISION_HISTORY open times, each once.
THEOREM MapsStayBounded == Spec => []MapsAreBounded
BY InitBounded, NextBounded, PTL DEF Spec

-----------------------------------------------------------------------------
(***************************************************************************)
(* A decision of JavaScript is judged once, although its entry may be      *)
(* trimmed and made again by a late answer (compare.js:46-51).  What keeps *)
(* the second entry from being compared is that JavaScript decides about a *)
(* bar once, when the clock of its timeframe passes it: an entry that has  *)
(* its decision and was not compared is of a bar that was never judged,    *)
(* whatever strategies were started in between.                            *)
(***************************************************************************)
Over(t, tf) == tf \in Timeframes /\ t < next[tf]

Settled ==
  /\ MapsAreBounded
  /\ \A i \in DOMAIN judged : Over(judged[i].openTime, judged[i].timeframe)
  /\ \A i \in DOMAIN decisions :
       decisions[i].node # Null => Over(decisions[i].openTime, decidedIn[decisions[i].openTime])
  /\ \A i \in DOMAIN decisions : decisions[i].node # Null /\ ~decisions[i].compared =>
       \A j \in DOMAIN judged : judged[j].openTime = decisions[i].openTime =>
         judged[j].timeframe # decidedIn[decisions[i].openTime]
  /\ \A i, j \in DOMAIN judged :
       judged[i].openTime = judged[j].openTime /\ judged[i].timeframe = judged[j].timeframe => i = j

\* No clock goes back.
ClocksAdvance ==
  /\ next \in [Timeframes -> 0..Horizon] /\ next' \in [Timeframes -> 0..Horizon]
  /\ \A k \in Timeframes : next[k] <= next'[k]

LEMMA OverStays ==
  ASSUME ClocksAdvance, Horizon \in Nat, NEW t \in Times, NEW tf, Over(t, tf)
  PROVE  Over(t, tf)'
BY DEF ClocksAdvance, Over, Times

LEMMA VerdictAppends ==
  ASSUME NEW s \in Seq(Judgement), NEW e \in Entry, NEW tf \in Judged
  PROVE  /\ ~Pairs(e) => s \o Verdict(e, tf) = s
         /\ Pairs(e) =>
              /\ DOMAIN (s \o Verdict(e, tf)) = 1..(Len(s) + 1)
              /\ DOMAIN s = 1..Len(s) /\ Len(s) \in Nat
              /\ \A i \in 1..Len(s) : (s \o Verdict(e, tf))[i] = s[i]
              /\ (s \o Verdict(e, tf))[Len(s) + 1] = [openTime |-> e.openTime, timeframe |-> tf, agreed |-> e.node = e.cpp]
<1> DEFINE j == [openTime |-> e.openTime, timeframe |-> tf, agreed |-> e.node = e.cpp]
<1>1. j \in Judgement
  <2>1. e.openTime \in Times /\ (e.node = e.cpp) \in BOOLEAN
    BY DEF Entry
  <2>2. QED
    BY <2>1 DEF Judgement
<1>2. CASE ~Pairs(e)
  <2>1. Verdict(e, tf) = <<>>
    BY <1>2 DEF Verdict
  <2>2. QED
    BY <1>2, <2>1, ConcatEmptySeq
<1>3. CASE Pairs(e)
  <2>1. Verdict(e, tf) = <<j>>
    BY <1>3 DEF Verdict
  <2> HIDE DEF j
  <2>2. s \o <<j>> = Append(s, j)
    BY <1>1, AppendIsConcat
  <2>3. QED
    BY <1>1, <1>3, <2>1, <2>2, AppendHolds DEF j
<1>4. QED
  BY <1>2, <1>3

LEMMA RecordSettles ==
  ASSUME Settled, NEW t \in Times, NEW who \in {"node", "cpp"}, NEW action \in Action,
         NEW tf \in Judged,
         decisions' = record(decisions, t, who, action, tf).ledger,
         judged' = judged \o record(decisions, t, who, action, tf).verdict,
         ClocksAdvance, Horizon \in Nat,
         decidedIn'[t] = tf, \A u \in Times \ {t} : decidedIn'[u] = decidedIn[u],
         who = "node" => tf \in Timeframes /\ t = next[tf] /\ t < next'[tf],
         who = "cpp" => decidedIn[t] = tf,
         MapsAreBounded'
  PROVE  Settled'
<1> DEFINE r == record(decisions, t, who, action, tf)
<1>1. judged \in Seq(Judgement) /\ decisions \in Seq(Entry) /\ IsLedger(decisions)
  BY BoundedByParts, TypeOfSequences DEF Settled
<1>2. PICK old : Records(decisions, t, who, action, tf, r, old)
  BY <1>1, RecordChangesOne
<1>3. decisions' = r.ledger /\ judged' = judged \o r.verdict
  OBVIOUS
<1> HIDE DEF r
<1> DEFINE new == Filled(old, who, action)
<1>4. old \in Entry /\ new \in Entry /\ old.openTime = t /\ new.openTime = t
  BY <1>2, FilledIsAnEntry DEF Records
<1>5. /\ Closed(new).openTime = t /\ Closed(new).node = new.node
      /\ Closed(new).compared <=> new.compared \/ Pairs(new)
  BY <1>4 DEF Closed, Entry
<1>6. /\ new.compared = old.compared
      /\ who = "cpp" => new.node = old.node
  <2>1. CASE who = "node"
    BY <1>4, <2>1 DEF Filled, Entry
  <2>2. CASE who = "cpp"
    BY <1>4, <2>2 DEF Filled, Entry
  <2>3. QED
    BY <2>1, <2>2
<1>7. \/ \E j \in DOMAIN decisions : old = decisions[j]
      \/ old.node = Null /\ ~old.compared
  BY <1>2 DEF Records, Fresh
<1>8. r.verdict = Verdict(new, tf)
  BY <1>2 DEF Records
<1>9. \A i \in DOMAIN decisions' :
        \/ decisions'[i] = Closed(new)
        \/ decisions'[i].openTime # t /\ \E j \in DOMAIN decisions : decisions'[i] = decisions[j]
  BY <1>2, <1>3 DEF Records
<1> HIDE DEF new
<1>10. /\ \A i \in DOMAIN judged : judged[i].openTime \in Times
       /\ \A i \in DOMAIN decisions : decisions[i].openTime \in Times
  <2>1. \A i \in DOMAIN judged : judged[i] \in Judgement
    BY <1>1, ElementOfSeq, LenProperties
  <2>2. \A i \in DOMAIN decisions : decisions[i] \in Entry
    BY <1>1, ElementOfSeq, LenProperties
  <2>3. QED
    BY <2>1, <2>2 DEF Judgement, Entry
\* The bar of the decision that the filled entry has is over.
<1>11. new.node # Null => Over(t, tf)'
  <2>1. CASE who = "node"
    BY <2>1 DEF Over
  <2>2. CASE who = "cpp"
    <3>1. new.node # Null => Over(t, tf)
      BY <1>4, <1>6, <1>7, <2>2 DEF Settled
    <3>2. QED
      BY <3>1, OverStays
  <2>3. QED
    BY <2>1, <2>2
\* What is compared now was not judged before.
<1>12. new.node # Null /\ ~new.compared =>
         \A i \in DOMAIN judged : judged[i].openTime = t => judged[i].timeframe # tf
  <2>1. CASE who = "node"
    <3>1. t = next[tf] /\ tf \in Timeframes /\ ~(t < next[tf])
      BY <2>1 DEF Times, ClocksAdvance
    <3>2. QED
      BY <3>1 DEF Settled, Over
  <2>2. CASE who = "cpp"
    BY <1>4, <1>6, <1>7, <2>2 DEF Settled
  <2>3. QED
    BY <2>1, <2>2
\* The other entries, and what was judged before, stay as they were.
<1>13. \A i \in DOMAIN decisions' :
         \/ decisions'[i] = Closed(new)
         \/ /\ decisions'[i].openTime # t /\ decisions'[i].openTime \in Times
            /\ decidedIn'[decisions'[i].openTime] = decidedIn[decisions'[i].openTime]
            /\ \E j \in DOMAIN decisions : decisions'[i] = decisions[j]
  BY <1>9, <1>10
<1>14. ASSUME NEW u \in Times, NEW k, Over(u, k) PROVE k \in Timeframes /\ u < next'[k]
  BY <1>14, OverStays DEF Over
<1>15. \A i \in DOMAIN decisions' : decisions'[i].node # Null =>
         Over(decisions[i].openTime, decidedIn[decisions[i].openTime])'
  <2> SUFFICES ASSUME NEW i \in DOMAIN decisions', decisions'[i].node # Null
               PROVE  Over(decisions[i].openTime, decidedIn[decisions[i].openTime])'
    OBVIOUS
  <2>1. CASE decisions'[i] = Closed(new)
    BY <1>5, <1>11, <2>1 DEF Over
  <2>2. CASE decisions'[i] # Closed(new)
    <3>1. PICK j \in DOMAIN decisions : decisions'[i] = decisions[j]
      BY <1>13, <2>2
    <3>2. /\ decisions'[i].openTime \in Times
          /\ decidedIn'[decisions'[i].openTime] = decidedIn[decisions[j].openTime]
      BY <1>13, <2>2, <3>1
    <3> DEFINE u == decisions[j].openTime
               k == decidedIn[u]
    <3>3. Over(u, k) /\ u \in Times
      BY <1>10, <3>1 DEF Settled
    <3> HIDE DEF u, k
    <3>4. k \in Timeframes /\ u < next'[k]
      BY <3>3, OverStays DEF Over
    <3>5. QED
      BY <3>1, <3>2, <3>4 DEF u, k, Over
  <2>3. QED
    BY <2>1, <2>2
<1>16. \A i \in DOMAIN judged :
         judged[i].timeframe \in Timeframes /\ judged[i].openTime < next'[judged[i].timeframe]
  BY <1>10, <1>14 DEF Settled
<1>17. CASE ~Pairs(new)
  <2>1. judged' = judged
    <3>1. judged' = judged \o Verdict(new, tf)
      BY <1>3, <1>8
    <3>2. judged \o Verdict(new, tf) = judged
      BY <1>1, <1>4, <1>17, VerdictAppends
    <3>3. QED
      BY <3>1, <3>2
  <2>2. \A i \in DOMAIN judged' : Over(judged[i].openTime, judged[i].timeframe)'
    BY <1>16, <2>1 DEF Over
  <2>3. \A i \in DOMAIN decisions' : decisions'[i].node # Null /\ ~decisions'[i].compared =>
          \A j \in DOMAIN judged' : judged'[j].openTime = decisions'[i].openTime =>
            judged'[j].timeframe # decidedIn'[decisions'[i].openTime]
    BY <1>5, <1>12, <1>13, <2>1 DEF Settled
  <2>4. QED
    BY <1>15, <2>1, <2>2, <2>3 DEF Settled
<1>18. CASE Pairs(new)
  <2>1. /\ DOMAIN judged' = 1..(Len(judged) + 1) /\ DOMAIN judged = 1..Len(judged)
        /\ Len(judged) \in Nat
        /\ \A i \in 1..Len(judged) : judged'[i] = judged[i]
        /\ judged'[Len(judged) + 1].openTime = t /\ judged'[Len(judged) + 1].timeframe = tf
    <3>1. judged' = judged \o Verdict(new, tf)
      BY <1>3, <1>8
    <3>2. /\ DOMAIN judged' = 1..(Len(judged) + 1) /\ DOMAIN judged = 1..Len(judged)
          /\ Len(judged) \in Nat
          /\ \A i \in 1..Len(judged) : judged'[i] = judged[i]
          /\ judged'[Len(judged) + 1] =
               [openTime |-> new.openTime, timeframe |-> tf, agreed |-> new.node = new.cpp]
      BY <1>1, <1>4, <1>18, <3>1, VerdictAppends
    <3>3. QED
      BY <1>4, <3>2
  <2>2. new.node # Null /\ ~new.compared
    BY <1>18 DEF Pairs
  <2>3. \A i \in DOMAIN judged' :
          (i \in DOMAIN judged /\ judged'[i] = judged[i]) \/ i = Len(judged) + 1
    BY <2>1
  <2>4. \A i \in DOMAIN judged' : Over(judged[i].openTime, judged[i].timeframe)'
    BY <1>11, <1>16, <2>1, <2>2, <2>3 DEF Over
  <2>5. \A i \in DOMAIN decisions' : decisions'[i].node # Null /\ ~decisions'[i].compared =>
          \A j \in DOMAIN judged' : judged'[j].openTime = decisions'[i].openTime =>
            judged'[j].timeframe # decidedIn'[decisions'[i].openTime]
    BY <1>5, <1>13, <1>18, <2>1, <2>3 DEF Settled
  <2>6. \A i, j \in DOMAIN judged' :
          judged'[i].openTime = judged'[j].openTime /\ judged'[i].timeframe = judged'[j].timeframe
            => i = j
    <3>1. \A i \in DOMAIN judged : judged'[i].openTime = t => judged'[i].timeframe # tf
      BY <1>12, <2>1, <2>2
    <3>2. \A i, j \in DOMAIN judged :
            judged'[i].openTime = judged'[j].openTime /\ judged'[i].timeframe = judged'[j].timeframe
              => i = j
      BY <2>1 DEF Settled
    <3>3. QED
      BY <2>1, <2>3, <3>1, <3>2
  <2>7. QED
    BY <1>15, <2>4, <2>5, <2>6 DEF Settled
<1>19. QED
  BY <1>17, <1>18

\* A step that records nothing and only lets the clocks go on.
LEMMA OthersSettle ==
  ASSUME Settled, UNCHANGED <<decisions, judged, decidedIn>>, MapsAreBounded',
         ClocksAdvance, Horizon \in Nat
  PROVE  Settled'
<1>1. judged \in Seq(Judgement) /\ decisions \in Seq(Entry)
  BY BoundedByParts, TypeOfSequences DEF Settled
<1>2. /\ \A i \in DOMAIN judged : judged[i].openTime \in Times
      /\ \A i \in DOMAIN decisions : decisions[i].openTime \in Times
  <2>1. \A i \in DOMAIN judged : judged[i] \in Judgement
    BY <1>1, ElementOfSeq, LenProperties
  <2>2. \A i \in DOMAIN decisions : decisions[i] \in Entry
    BY <1>1, ElementOfSeq, LenProperties
  <2>3. QED
    BY <2>1, <2>2 DEF Judgement, Entry
<1>3. ASSUME NEW u \in Times, NEW k, Over(u, k) PROVE k \in Timeframes /\ u < next'[k]
  BY <1>3, OverStays DEF Over
<1>4. /\ \A i \in DOMAIN judged' : Over(judged[i].openTime, judged[i].timeframe)'
      /\ \A i \in DOMAIN decisions' : decisions'[i].node # Null =>
           Over(decisions[i].openTime, decidedIn[decisions[i].openTime])'
  BY <1>2, <1>3 DEF Settled, Over
<1>5. QED
  BY <1>4 DEF Settled

LEMMA NextSettled == Settled /\ [Next]_vars => Settled'
<1> SUFFICES ASSUME Settled, [Next]_vars PROVE Settled'
  OBVIOUS
<1> USE DEF nodeVars, bridgeVars, engineVars
<1>1. MapsAreBounded'
  BY NextBounded DEF Settled
<1>2. /\ BridgeTypeOK /\ next \in [Timeframes -> 0..Horizon]
      /\ decidedIn \in [Times -> Judged]
      /\ Horizon \in Nat /\ inbound \in Seq(Answer)
  BY BoundedByParts, TypeOfSequences, BridgeAssumption DEF Settled
<1>3. ASSUME NEW tf \in Timeframes, NEW told \in Side \cup {Null}, Candle(tf, told)
      PROVE  Settled'
  <2>1. Closes(tf) /\ nodeOnCandle(tf, told)
    BY <1>3 DEF Candle
  <2>2. next[tf] \in Times /\ next[tf] < next'[tf] /\ ClocksAdvance
    BY <1>2, <2>1, ClosingIsInTime DEF ClocksAdvance
  <2>3. CASE tf = strategy.timeframe /\ subscribed
    <3>1. PICK action \in nodeDecisions(told) :
            /\ decisions' = record(decisions, next[tf], "node", action, tf).ledger
            /\ judged' = judged \o record(decisions, next[tf], "node", action, tf).verdict
      BY <2>1, <2>3 DEF nodeOnCandle
    <3>2. action \in Action /\ tf \in Judged
      BY <1>2, <3>1, DecisionTypes DEF Judged
    <3>3. decidedIn' = [decidedIn EXCEPT ![next[tf]] = tf]
      BY <2>1, <2>3 DEF nodeOnCandle
    <3>4. decidedIn'[next[tf]] = tf /\ \A u \in Times \ {next[tf]} : decidedIn'[u] = decidedIn[u]
      BY <1>2, <2>2, <3>3
    <3>5. QED
      BY <1>1, <1>2, <2>2, <3>1, <3>2, <3>4, RecordSettles
  <2>4. CASE ~(tf = strategy.timeframe /\ subscribed)
    <3>1. UNCHANGED <<decisions, judged, decidedIn>>
      BY <2>1, <2>4 DEF nodeOnCandle
    <3>2. QED
      BY <1>1, <1>2, <2>2, <3>1, OthersSettle
  <2>5. QED
    BY <2>3, <2>4
<1>4. UNCHANGED next => ClocksAdvance
  BY <1>2 DEF ClocksAdvance
<1>5. CASE onSignal
  <2> DEFINE signal == Head(inbound)
             tf     == decidedIn[signal.openTime]
  <2>1. signal \in Answer
    BY <1>2, <1>5, HeadTailProperties DEF onSignal
  <2>2. signal.openTime \in Times /\ signal.action \in Action /\ tf \in Judged
    BY <1>2, <2>1 DEF Answer
  <2>3. /\ decisions' = record(decisions, signal.openTime, "cpp", signal.action, tf).ledger
        /\ judged' = judged \o record(decisions, signal.openTime, "cpp", signal.action, tf).verdict
        /\ UNCHANGED <<next, decidedIn>>
    BY <1>5 DEF onSignal
  <2>4. decidedIn'[signal.openTime] = tf /\ \A u \in Times : decidedIn'[u] = decidedIn[u]
    BY <2>3
  <2> HIDE DEF signal, tf
  <2>5. QED
    BY <1>1, <1>2, <1>4, <2>2, <2>3, <2>4, RecordSettles DEF tf
<1>6. CASE \/ handleFrame \/ engineExits \/ engineRestarts \/ swapStrategy \/ stopEngineBridge
           \/ UNCHANGED vars
  <2>1. UNCHANGED <<next, decisions, judged, decidedIn>>
    BY <1>6 DEF handleFrame, engineExits, engineRestarts, swapStrategy, stopEngineBridge, vars
  <2>2. QED
    BY <1>1, <1>2, <1>4, <2>1, OthersSettle
<1>7. QED
  BY <1>3, <1>5, <1>6 DEF Next

\* No decision of JavaScript is compared twice, in whatever order the two engines
\* answer, are restarted or swapped, also for a rule of another timeframe, and
\* whatever is trimmed before the other comes (compare.js:51-79).
THEOREM JudgedOnce == Spec => []ComparedOnce
<1>1. Init => Settled
  BY InitBounded DEF Init, Settled
<1>2. Settled => ComparedOnce
  BY DEF Settled, ComparedOnce, IsInjective, BarsOf
<1>3. QED
  BY <1>1, <1>2, NextSettled, PTL DEF Spec

-----------------------------------------------------------------------------
(***************************************************************************)
(* Engines that saw the same candles decide alike, whatever answers are    *)
(* lost or late (EMAStrategy.h:17-20).  The two trackers are never equal   *)
(* while frames are under way: what the engine will have when it has read  *)
(* all of them is what JavaScript has now, and its answer to each is the   *)
(* decision already in the ledger.                                         *)
(***************************************************************************)
Decides(side, told) ==
  IF told \in Side /\ side \in Side \ {told} THEN Signal(told) ELSE "HOLD"

\* The side the engine is on: that of its tracker (CrossTracker).
engineSide ==
  IF ~cross.hasPrevious THEN Null ELSE IF cross.previousAbove THEN "above" ELSE "below"

\* From side "start", the side a tracker is on when it gets to frame i.
SideAt(frames, start, i, side) ==
  \/ \E j \in 1..(i - 1) : /\ side \in Side /\ frames[j].told = side
                           /\ \A k \in (j + 1)..(i - 1) : frames[k].told \notin Side
  \/ side = start /\ \A k \in 1..(i - 1) : frames[k].told \notin Side

Now == next[DefaultTimeframe]

\* The engine will answer the frames under way as JavaScript decided.
Follows ==
  /\ attached
  /\ SideAt(outbound, engineSide, Len(outbound) + 1, nodeSide)
  /\ \A i \in DOMAIN outbound, d \in DOMAIN decisions, side \in Side \cup {Null} :
       /\ SideAt(outbound, engineSide, i, side) /\ decisions[d].node # Null
       /\ decisions[d].openTime = outbound[i].openTime
       => decisions[d].node = Decides(side, outbound[i].told)

\* The answers under way are what JavaScript decided.
Answered ==
  \A i \in DOMAIN inbound, d \in DOMAIN decisions :
    decisions[d].node # Null /\ decisions[d].openTime = inbound[i].openTime
      => decisions[d].node = inbound[i].action

Past ==
  /\ \A i \in DOMAIN outbound : outbound[i].openTime < Now
  /\ \A i \in DOMAIN inbound : inbound[i].openTime < Now
  /\ \A i \in DOMAIN decisions : decisions[i].openTime < Now

Agreed == \A i \in DOMAIN judged : judged[i].agreed

Alike ==
  ~skewed /\ ~mixed =>
    /\ subscribed /\ strategy = Crossover
    /\ Past /\ Answered /\ Agreed /\ (engine = "up" => Follows)

LEMMA NullIsNoSide == Null \notin Side /\ Null \notin Action
BY BridgeAssumption DEF Side, Action

LEMMA BothDecideAlike ==
  ASSUME BridgeTypeOK, NEW told \in Side \cup {Null}
  PROVE  /\ nodeDecides(told) = Decides(nodeSide, told)
         /\ cppDecides(told) = Decides(engineSide, told)
         /\ engineSide \in Side \cup {Null}
<1>1. nodeDecides(told) = Decides(nodeSide, told)
  BY DEF nodeDecides, Decides
<1>2. cross.hasPrevious \in BOOLEAN /\ cross.previousAbove \in BOOLEAN
  BY DEF BridgeTypeOK
<1>3. cppDecides(told) = Decides(engineSide, told)
  BY <1>2, NullIsNoSide DEF cppDecides, Decides, engineSide, Side
<1>4. engineSide \in Side \cup {Null}
  BY DEF engineSide, Side
<1>5. QED
  BY <1>1, <1>3, <1>4

\* What the engine is on after one more frame.
LEMMA EngineAdvances ==
  ASSUME BridgeTypeOK, NEW told \in Side \cup {Null}, cross' = cppAdvances(told)
  PROVE  engineSide' = IF told \in Side THEN told ELSE engineSide
BY DEF cppAdvances, engineSide, Side

\* There is one side at each frame.
LEMMA OneSide ==
  ASSUME NEW frames, NEW start, NEW i \in Nat, NEW a, NEW b,
         SideAt(frames, start, i, a), SideAt(frames, start, i, b)
  PROVE  a = b
<1>1. CASE /\ a = start /\ \A k \in 1..(i - 1) : frames[k].told \notin Side
           /\ b = start
  BY <1>1
<1>2. ASSUME NEW j \in 1..(i - 1), a \in Side, frames[j].told = a,
             \A k \in (j + 1)..(i - 1) : frames[k].told \notin Side
      PROVE  a = b
  <2>1. PICK l \in 1..(i - 1) : /\ b \in Side /\ frames[l].told = b
                                /\ \A k \in (l + 1)..(i - 1) : frames[k].told \notin Side
    BY <1>2 DEF SideAt
  <2>2. ~(j < l) /\ ~(l < j)
    BY <1>2, <2>1
  <2>3. j = l
    BY <2>2
  <2>4. QED
    BY <1>2, <2>1, <2>3
<1>3. ASSUME NEW j \in 1..(i - 1), b \in Side, frames[j].told = b,
             \A k \in (j + 1)..(i - 1) : frames[k].told \notin Side
      PROVE  a = b
  <2>1. PICK l \in 1..(i - 1) : /\ a \in Side /\ frames[l].told = a
                                /\ \A k \in (l + 1)..(i - 1) : frames[k].told \notin Side
    BY <1>3 DEF SideAt
  <2>2. ~(j < l) /\ ~(l < j)
    BY <1>3, <2>1
  <2>3. j = l
    BY <2>2
  <2>4. QED
    BY <1>3, <2>1, <2>3
<1>4. QED
  BY <1>1, <1>2, <1>3 DEF SideAt

\* A frame more does not change the side at the frames before it.
LEMMA SidesWithOneMore ==
  ASSUME NEW frames, NEW others, NEW start,
         NEW n \in Nat, NEW i \in 1..(n + 1), NEW side,
         \A k \in 1..n : others[k] = frames[k]
  PROVE  SideAt(others, start, i, side) <=> SideAt(frames, start, i, side)
BY DEF SideAt, Side

\* The side after the last frame.
LEMMA SideAfter ==
  ASSUME NEW frames, NEW others, NEW start, NEW n \in Nat, NEW side,
         NEW told \in Side \cup {Null}, others[n + 1].told = told,
         \A k \in 1..n : others[k] = frames[k],
         SideAt(frames, start, n + 1, side)
  PROVE  SideAt(others, start, n + 2, IF told \in Side THEN told ELSE side)
<1>1. SideAt(others, start, n + 1, side)
  <2>1. n + 1 \in 1..(n + 1)
    OBVIOUS
  <2>2. SideAt(others, start, n + 1, side) <=> SideAt(frames, start, n + 1, side)
    BY <2>1, SidesWithOneMore
  <2>3. QED
    BY <2>2
<1>2. CASE told \in Side
  <2>1. n + 1 \in 1..((n + 2) - 1)
    OBVIOUS
  <2>2. \A k \in ((n + 1) + 1)..((n + 2) - 1) : FALSE
    OBVIOUS
  <2>3. QED
    BY <1>2, <2>1, <2>2 DEF SideAt, Side
<1>3. CASE told \notin Side
  <2>1. \A k \in 1..((n + 2) - 1) : k = n + 1 \/ k \in 1..((n + 1) - 1)
    OBVIOUS
  <2>2. \A k \in 1..((n + 1) - 1) : k \in 1..((n + 2) - 1)
    OBVIOUS
  <2>3. \A j \in 1..((n + 1) - 1) : \A k \in (j + 1)..((n + 2) - 1) :
          k = n + 1 \/ k \in (j + 1)..((n + 1) - 1)
    OBVIOUS
  <2>4. others[n + 1].told \notin Side
    BY <1>3
  <2>5. CASE \E j \in 1..((n + 1) - 1) :
               /\ side \in Side /\ others[j].told = side
               /\ \A k \in (j + 1)..((n + 1) - 1) : others[k].told \notin Side
    <3>1. \E j \in 1..((n + 2) - 1) :
               /\ side \in Side /\ others[j].told = side
               /\ \A k \in (j + 1)..((n + 2) - 1) : others[k].told \notin Side
      BY <2>2, <2>3, <2>4, <2>5
    <3>2. SideAt(others, start, n + 2, side)
      BY <3>1 DEF SideAt, Side
    <3>3. QED
      BY <1>3, <3>2
  <2>6. CASE side = start /\ \A k \in 1..((n + 1) - 1) : others[k].told \notin Side
    <3>1. \A k \in 1..((n + 2) - 1) : others[k].told \notin Side
      BY <2>1, <2>4, <2>6
    <3>2. SideAt(others, start, n + 2, side)
      BY <2>6, <3>1 DEF SideAt, Side
    <3>3. QED
      BY <1>3, <3>2
  <2>7. QED
    BY <1>1, <2>5, <2>6 DEF SideAt, Side
<1>4. QED
  BY <1>2, <1>3

\* The first frame is read: the side at each of the others stays what it was.
LEMMA SidesWithOneLess ==
  ASSUME NEW frames, NEW others, NEW start, NEW to,
         NEW n \in Nat \ {0}, NEW i \in 1..n, NEW side,
         frames[1].told \in Side \cup {Null},
         \A k \in 1..(n - 1) : others[k] = frames[k + 1],
         to = IF frames[1].told \in Side THEN frames[1].told ELSE start,
         SideAt(others, to, i, side)
  PROVE  SideAt(frames, start, i + 1, side)
<1>1. \/ \E j \in 1..(i - 1) : /\ side \in Side /\ others[j].told = side
                               /\ \A k \in (j + 1)..(i - 1) : others[k].told \notin Side
      \/ side = to /\ \A k \in 1..(i - 1) : others[k].told \notin Side
  BY DEF SideAt, Side
<1>2. CASE \E j \in 1..(i - 1) : /\ side \in Side /\ others[j].told = side
                                 /\ \A k \in (j + 1)..(i - 1) : others[k].told \notin Side
  <2>1. PICK j \in 1..(i - 1) : /\ side \in Side /\ others[j].told = side
                                /\ \A k \in (j + 1)..(i - 1) : others[k].told \notin Side
    BY <1>2
  <2>2. j + 1 \in 1..((i + 1) - 1) /\ frames[j + 1].told = side
    BY <2>1
  <2>3. ASSUME NEW k \in ((j + 1) + 1)..((i + 1) - 1) PROVE frames[k].told \notin Side
    <3>1. k - 1 \in (j + 1)..(i - 1) /\ k - 1 \in 1..(n - 1) /\ (k - 1) + 1 = k
      BY <2>1
    <3>2. others[k - 1] = frames[k]
      BY <3>1
    <3>3. QED
      BY <2>1, <3>1, <3>2
  <2>4. QED
    BY <2>1, <2>2, <2>3 DEF SideAt
<1>3. CASE side = to /\ \A k \in 1..(i - 1) : others[k].told \notin Side
  <2>1. ASSUME NEW k \in 2..i PROVE frames[k].told \notin Side
    <3>1. k - 1 \in 1..(i - 1) /\ k - 1 \in 1..(n - 1) /\ (k - 1) + 1 = k
      OBVIOUS
    <3>2. others[k - 1] = frames[k]
      BY <3>1
    <3>3. QED
      BY <1>3, <3>1, <3>2
  <2>2. CASE frames[1].told \in Side
    <3>1. 1 \in 1..((i + 1) - 1) /\ \A k \in (1 + 1)..((i + 1) - 1) : k \in 2..i
      OBVIOUS
    <3>2. side \in Side /\ frames[1].told = side
      BY <1>3, <2>2
    <3>3. QED
      BY <2>1, <3>1, <3>2 DEF SideAt
  <2>3. CASE frames[1].told \notin Side
    <3>1. \A k \in 1..((i + 1) - 1) : k = 1 \/ k \in 2..i
      OBVIOUS
    <3>2. side = start
      BY <1>3, <2>3
    <3>3. QED
      BY <2>1, <2>3, <3>1, <3>2 DEF SideAt
  <2>4. QED
    BY <2>2, <2>3
<1>4. QED
  BY <1>1, <1>2, <1>3

\* And the converse: what follows one frame, seen from before that frame.
LEMMA SidesBackOne ==
  ASSUME NEW frames, NEW others, NEW start, NEW to, NEW i \in Nat \ {0}, NEW side,
         frames[1].told \in Side \cup {Null},
         \A k \in 1..(i - 1) : others[k] = frames[k + 1],
         to = IF frames[1].told \in Side THEN frames[1].told ELSE start,
         NEW l, l = i + 1, SideAt(frames, start, l, side)
  PROVE  SideAt(others, to, i, side)
<1> SUFFICES ASSUME SideAt(frames, start, i + 1, side) PROVE SideAt(others, to, i, side)
  OBVIOUS
<1>1. \A k \in 1..(i - 1) : k + 1 \in 2..i /\ others[k] = frames[k + 1]
  OBVIOUS
<1>2. CASE \E j \in 1..((i + 1) - 1) :
             /\ side \in Side /\ frames[j].told = side
             /\ \A k \in (j + 1)..((i + 1) - 1) : frames[k].told \notin Side
  <2>1. PICK j \in 1..((i + 1) - 1) :
             /\ side \in Side /\ frames[j].told = side
             /\ \A k \in (j + 1)..((i + 1) - 1) : frames[k].told \notin Side
    BY <1>2
  <2>2. CASE j = 1
    <3>1. side = to
      BY <2>1, <2>2
    <3>2. ASSUME NEW k \in 1..(i - 1) PROVE others[k].told \notin Side
      <4>1. k + 1 \in (j + 1)..((i + 1) - 1)
        BY <2>2
      <4>2. QED
        BY <1>1, <2>1, <4>1
    <3>3. QED
      BY <3>1, <3>2 DEF SideAt
  <2>3. CASE j # 1
    <3>1. j - 1 \in 1..(i - 1) /\ (j - 1) + 1 = j
      BY <2>1, <2>3
    <3>2. others[j - 1].told = side
      BY <1>1, <2>1, <3>1
    <3>3. ASSUME NEW k \in ((j - 1) + 1)..(i - 1) PROVE others[k].told \notin Side
      <4>1. k \in 1..(i - 1) /\ k + 1 \in (j + 1)..((i + 1) - 1)
        BY <2>1, <2>3
      <4>2. QED
        BY <1>1, <2>1, <4>1
    <3>4. QED
      BY <2>1, <3>1, <3>2, <3>3 DEF SideAt
  <2>4. QED
    BY <2>2, <2>3
<1>3. CASE side = start /\ \A k \in 1..((i + 1) - 1) : frames[k].told \notin Side
  <2>1. 1 \in 1..((i + 1) - 1)
    OBVIOUS
  <2>2. side = to
    BY <1>3, <2>1
  <2>3. ASSUME NEW k \in 1..(i - 1) PROVE others[k].told \notin Side
    <3>1. k + 1 \in 1..((i + 1) - 1)
      OBVIOUS
    <3>2. QED
      BY <1>1, <1>3, <3>1
  <2>4. QED
    BY <2>2, <2>3 DEF SideAt
<1>4. QED
  BY <1>2, <1>3 DEF SideAt

\* What JavaScript decides is sent to the engine, which will be where it was.
LEMMA CandleKeepsAlike ==
  ASSUME MapsAreBounded, MapsAreBounded', Alike, NEW tf \in Timeframes,
         NEW told \in Side \cup {Null}, Candle(tf, told), ~skewed', ~mixed',
         mixed \in BOOLEAN
  PROVE  Alike'
<1> USE DEF nodeVars, bridgeVars, engineVars
<1>1. /\ BridgeTypeOK /\ next \in [Timeframes -> 0..Horizon] /\ DefaultTimeframe \in Timeframes
      /\ Horizon \in Nat /\ Now \in Nat /\ nodeSide \in Side \cup {Null}
      /\ outbound \in Seq(Frame) /\ inbound \in Seq(Answer) /\ IsLedger(decisions)
      /\ judged \in Seq(Judgement) /\ decisions \in Seq(Entry)
  BY BoundedByParts, TypeOfSequences, BridgeAssumption DEF Now
<1>2. /\ Closes(tf) /\ nodeOnCandle(tf, told) /\ bridgeOnCandle(tf, told)
      /\ UNCHANGED <<subscribed, strategy, attached, engine, cross, inbound>>
  BY DEF Candle
<1>3. /\ next[tf] \in Times
      /\ Now' = IF tf = DefaultTimeframe THEN Now + 1 ELSE Now
  BY <1>1, <1>2, ClosingIsInTime DEF Now
<1>4. ~skewed /\ ~mixed
  BY <1>2 DEF bridgeOnCandle
<1>5. /\ subscribed /\ strategy = Crossover /\ Past /\ Answered /\ Agreed /\ (engine = "up" => Follows)
  BY <1>4 DEF Alike
<1>6. engineSide' = engineSide
  BY <1>2 DEF engineSide
<1>7. /\ \A i \in DOMAIN outbound : outbound[i].openTime \in Int
      /\ \A i \in DOMAIN inbound : inbound[i].openTime \in Int
      /\ \A i \in DOMAIN decisions : decisions[i].openTime \in Int
  <2>1. Times \subseteq Int
    BY DEF Times
  <2>2. \A i \in DOMAIN outbound : outbound[i] \in Frame
    BY <1>1, ElementOfSeq, LenProperties
  <2>3. \A i \in DOMAIN inbound : inbound[i] \in Answer
    BY <1>1, ElementOfSeq, LenProperties
  <2>4. \A i \in DOMAIN decisions : decisions[i] \in Entry
    BY <1>1, ElementOfSeq, LenProperties
  <2>5. QED
    BY <2>1, <2>2, <2>3, <2>4 DEF Frame, Answer, Entry
\* The ledger has at most one entry more, for the candle that closes.
<1>8. /\ Agreed'
      /\ \A d \in DOMAIN decisions' :
           \/ \E e \in DOMAIN decisions : decisions'[d] = decisions[e]
           \/ /\ tf = DefaultTimeframe /\ decisions'[d].openTime = Now
              /\ decisions'[d].node = Decides(nodeSide, told)
      /\ nodeSide' = IF tf = DefaultTimeframe /\ told \in Side THEN told ELSE nodeSide
  <2>1. CASE tf = DefaultTimeframe
    <3> DEFINE r == record(decisions, next[tf], "node", nodeDecides(told), tf)
    <3>1. /\ decisions' = r.ledger /\ judged' = judged \o r.verdict
          /\ nodeSide' = IF told \in Side THEN told ELSE nodeSide
      <4>1. tf = strategy.timeframe /\ strategy.crossover /\ nodeDecisions(told) = {nodeDecides(told)}
        BY <1>5, <2>1 DEF Crossover, nodeDecisions
      <4>2. QED
        BY <1>2, <1>5, <4>1 DEF nodeOnCandle
    <3>2. /\ nodeDecides(told) \in Action /\ nodeDecides(told) = Decides(nodeSide, told)
          /\ tf \in Judged
      BY <1>1, DecisionTypes, BothDecideAlike DEF Judged
    <3>3. PICK old : Records(decisions, next[tf], "node", nodeDecides(told), tf, r, old)
      BY <1>1, <1>3, <3>2, RecordChangesOne
    <3>4. next[tf] = Now
      BY <2>1 DEF Now
    <3> HIDE DEF r
    <3>5. old = Fresh(Now)
      BY <1>1, <1>5, <1>7, <3>3, <3>4 DEF Records, Past
    <3> DEFINE new == Filled(old, "node", nodeDecides(told))
    <3>6. /\ old \in Entry /\ new \in Entry
          /\ new.node = nodeDecides(told) /\ new.cpp = Null /\ new.openTime = Now
      <4>1. old \in Entry
        BY <3>3 DEF Records
      <4>2. QED
        BY <3>2, <3>5, <4>1, FilledIsAnEntry DEF Filled, Fresh
    <3>7. /\ r.verdict = Verdict(new, tf)
          /\ \A i \in DOMAIN r.ledger :
               \/ r.ledger[i] = Closed(new)
               \/ \E j \in DOMAIN decisions : r.ledger[i] = decisions[j]
      BY <3>3 DEF Records
    <3> HIDE DEF new
    <3>8. ~Pairs(new)
      BY <3>6 DEF Pairs
    <3>9. Closed(new).node = nodeDecides(told) /\ Closed(new).openTime = Now
      BY <3>6 DEF Closed, Entry
    <3>10. judged' = judged
      <4>1. judged' = judged \o Verdict(new, tf)
        BY <3>1, <3>7
      <4>2. judged \o Verdict(new, tf) = judged
        BY <1>1, <3>2, <3>6, <3>8, VerdictAppends
      <4>3. QED
        BY <4>1, <4>2
    <3>11. QED
      BY <1>5, <2>1, <3>1, <3>2, <3>7, <3>9, <3>10 DEF Agreed
  <2>2. CASE tf # DefaultTimeframe
    BY <1>5, <2>2, <1>2 DEF nodeOnCandle, Agreed, Crossover
  <2>3. QED
    BY <2>1, <2>2
<1>9. \A d \in DOMAIN decisions' : decisions'[d].openTime < Now'
  BY <1>1, <1>3, <1>5, <1>7, <1>8 DEF Past
<1>10. Answered'
  <2> SUFFICES ASSUME NEW i \in DOMAIN inbound, NEW d \in DOMAIN decisions',
                      decisions'[d].node # Null, decisions'[d].openTime = inbound[i].openTime
               PROVE  decisions'[d].node = inbound[i].action
    BY <1>2 DEF Answered
  <2>1. inbound[i].openTime < Now /\ inbound[i].openTime \in Int
    BY <1>5, <1>7 DEF Past
  <2>2. PICK e \in DOMAIN decisions : decisions'[d] = decisions[e]
    BY <1>1, <1>8, <2>1
  <2>3. QED
    BY <1>5, <2>2 DEF Answered
<1>11. CASE attached
  <2> DEFINE n     == Len(outbound)
             frame == [openTime |-> next[tf], told |-> told]
  <2>1. tf = DefaultTimeframe /\ outbound' = Append(outbound, frame)
    BY <1>2, <1>4, <1>11 DEF bridgeOnCandle
  <2>2. frame \in Frame /\ frame.openTime = Now /\ frame.told = told
    BY <1>3, <2>1 DEF Frame, Now
  <2> HIDE DEF frame
  <2>3. /\ DOMAIN outbound' = 1..(n + 1) /\ Len(outbound') = n + 1 /\ n \in Nat
        /\ DOMAIN outbound = 1..n /\ outbound'[n + 1] = frame
        /\ \A i \in 1..n : outbound'[i] = outbound[i]
    BY <1>1, <2>1, <2>2, AppendHolds
  <2> HIDE DEF n
  <2>4. Past'
    <3>1. \A i \in DOMAIN outbound' : outbound'[i].openTime < Now'
      BY <1>1, <1>3, <1>5, <1>7, <2>1, <2>2, <2>3 DEF Past
    <3>2. \A i \in DOMAIN inbound' : inbound'[i].openTime < Now'
      BY <1>1, <1>2, <1>3, <1>5, <1>7, <2>1 DEF Past
    <3>3. QED
      BY <1>9, <3>1, <3>2 DEF Past
  <2>5. ASSUME engine = "up" PROVE Follows'
    <3>1. Follows /\ SideAt(outbound, engineSide, n + 1, nodeSide)
      BY <1>5, <2>5 DEF Follows, n
    <3>2. SideAt(outbound', engineSide', n + 2, nodeSide')
      <4>1. outbound'[n + 1].told = told
        BY <2>2, <2>3
      <4>2. SideAt(outbound', engineSide', n + 2, IF told \in Side THEN told ELSE nodeSide)
        BY <1>6, <2>3, <3>1, <4>1, SideAfter
      <4>3. nodeSide' = IF told \in Side THEN told ELSE nodeSide
        BY <1>8, <2>1
      <4>4. QED
        BY <4>2, <4>3
    <3>3. SideAt(outbound', engineSide', Len(outbound') + 1, nodeSide')
      <4>1. Len(outbound') + 1 = n + 2
        BY <2>3
      <4>2. QED
        BY <3>2, <4>1
    <3>4. ASSUME NEW i \in DOMAIN outbound', NEW d \in DOMAIN decisions',
                 NEW side \in Side \cup {Null}, SideAt(outbound', engineSide', i, side), decisions'[d].node # Null,
                 decisions'[d].openTime = outbound'[i].openTime
          PROVE  decisions'[d].node = Decides(side, outbound'[i].told)
      <4>1. i \in 1..(n + 1)
        BY <2>3
      <4>2. SideAt(outbound, engineSide, i, side)
        BY <1>6, <2>3, <3>4, <4>1, SidesWithOneMore
      <4>3. CASE i = n + 1
        <5>1. side = nodeSide
          BY <2>3, <3>1, <4>2, <4>3, OneSide
        <5>2. outbound'[i].openTime = Now /\ outbound'[i].told = told
          BY <2>2, <2>3, <4>3
        <5>3. decisions'[d].node = Decides(nodeSide, told)
          BY <1>1, <1>5, <1>7, <1>8, <3>4, <5>2 DEF Past
        <5>4. QED
          BY <5>1, <5>2, <5>3
      <4>4. CASE i \in 1..n
        <5>1. i \in DOMAIN outbound /\ outbound'[i] = outbound[i]
          BY <2>3, <4>4
        <5>2. outbound[i].openTime < Now /\ outbound[i].openTime \in Int
          BY <1>5, <1>7, <5>1 DEF Past
        <5>3. PICK e \in DOMAIN decisions : decisions'[d] = decisions[e]
          BY <1>1, <1>8, <3>4, <5>1, <5>2
        <5>4. decisions[e].node = Decides(side, outbound[i].told)
          BY <3>1, <3>4, <4>2, <5>1, <5>3 DEF Follows
        <5>5. QED
          BY <5>1, <5>3, <5>4
      <4>5. QED
        BY <2>3, <4>1, <4>3, <4>4
    <3>5. attached'
      BY <1>2, <1>11
    <3>6. QED
      BY <3>3, <3>4, <3>5 DEF Follows, SideAt, Decides, engineSide, Signal, Side
  <2>6. QED
    BY <1>2, <1>5, <1>8, <1>10, <2>4, <2>5 DEF Alike
<1>12. CASE ~attached
  <2>1. UNCHANGED outbound /\ engine # "up"
    BY <1>2, <1>5, <1>12 DEF bridgeOnCandle, Follows
  <2>2. \A i \in DOMAIN outbound' : outbound'[i].openTime < Now'
    BY <1>1, <1>3, <1>5, <1>7, <2>1 DEF Past
  <2>3. \A i \in DOMAIN inbound' : inbound'[i].openTime < Now'
    BY <1>1, <1>2, <1>3, <1>5, <1>7 DEF Past
  <2>4. Past'
    BY <1>9, <2>2, <2>3 DEF Past
  <2>5. QED
    BY <1>2, <1>5, <1>8, <1>10, <2>1, <2>4 DEF Alike
<1>13. QED
  BY <1>11, <1>12

\* The engine answers the frame it reads as JavaScript decided.
LEMMA FrameKeepsAlike ==
  ASSUME MapsAreBounded, Alike, handleFrame, ~skewed', ~mixed'
  PROVE  Alike'
<1> USE DEF nodeVars, bridgeVars, engineVars
<1> DEFINE frame == Head(outbound)
           n     == Len(outbound)
<1>1. /\ BridgeTypeOK /\ outbound \in Seq(Frame) /\ inbound \in Seq(Answer)
  BY BoundedByParts, TypeOfSequences
<1>2. /\ engine = "up" /\ outbound # <<>> /\ outbound' = Tail(outbound)
      /\ cross' = cppAdvances(frame.told)
      /\ \/ inbound' = Append(inbound, [openTime |-> frame.openTime, action |-> cppDecides(frame.told)])
         \/ UNCHANGED inbound
      /\ UNCHANGED <<next, nodeSide, subscribed, strategy, attached, engine, decisions, judged, mixed, skewed>>
  BY DEF handleFrame
<1>3. /\ subscribed /\ strategy = Crossover /\ Past /\ Answered /\ Agreed /\ Follows
  BY <1>2 DEF Alike
<1>4. /\ n \in Nat \ {0} /\ DOMAIN outbound = 1..n /\ frame \in Frame
      /\ DOMAIN outbound' = 1..(n - 1) /\ Len(outbound') = n - 1 /\ outbound[1] = frame
      /\ \A i \in 1..(n - 1) : outbound'[i] = outbound[i + 1]
  <2>1. /\ outbound' \in Seq(Frame) /\ Len(outbound') = n - 1 /\ frame \in Frame
        /\ \A i \in 1..Len(outbound') : outbound'[i] = outbound[i + 1]
    BY <1>1, <1>2, HeadTailProperties
  <2>2. DOMAIN outbound' = 1..Len(outbound') /\ DOMAIN outbound = 1..n /\ n \in Nat \ {0}
    BY <1>1, <1>2, <2>1, EmptySeq, LenProperties
  <2>3. outbound[1] = frame
    BY <1>1, <1>2
  <2>4. QED
    BY <2>1, <2>2, <2>3
<1>5. /\ frame.told \in Side \cup {Null} /\ frame.openTime \in Times
  BY <1>4 DEF Frame
<1> HIDE DEF frame, n
<1>6. /\ engineSide' = IF frame.told \in Side THEN frame.told ELSE engineSide
      /\ cppDecides(frame.told) = Decides(engineSide, frame.told)
      /\ engineSide \in Side \cup {Null}
  BY <1>1, <1>2, <1>5, EngineAdvances, BothDecideAlike
\* Before the first frame the engine is where it is.
<1>7. SideAt(outbound, engineSide, 1, engineSide)
  <2>1. \A k \in 1..(1 - 1) : FALSE
    OBVIOUS
  <2>2. QED
    BY <2>1 DEF SideAt
<1>8. \A d \in DOMAIN decisions :
        decisions[d].node # Null /\ decisions[d].openTime = frame.openTime
          => decisions[d].node = cppDecides(frame.told)
  <2>1. 1 \in DOMAIN outbound
    BY <1>4
  <2>2. QED
    BY <1>3, <1>4, <1>6, <1>7, <2>1 DEF Follows
<1>9. \A i \in DOMAIN inbound' :
        \/ i \in DOMAIN inbound /\ inbound'[i] = inbound[i]
        \/ inbound'[i] = [openTime |-> frame.openTime, action |-> cppDecides(frame.told)]
  <2> DEFINE answer == [openTime |-> frame.openTime, action |-> cppDecides(frame.told)]
  <2>1. CASE inbound' = Append(inbound, answer)
    <3>1. answer \in Answer
      BY <1>1, <1>5, DecisionTypes DEF Answer
    <3> HIDE DEF answer
    <3>2. /\ DOMAIN inbound' = 1..(Len(inbound) + 1) /\ DOMAIN inbound = 1..Len(inbound)
          /\ Len(inbound) \in Nat /\ inbound'[Len(inbound) + 1] = answer
          /\ \A i \in 1..Len(inbound) : inbound'[i] = inbound[i]
      BY <1>1, <2>1, <3>1, AppendHolds
    <3>3. \A i \in DOMAIN inbound' : i \in DOMAIN inbound \/ i = Len(inbound) + 1
      BY <3>2
    <3>4. QED
      BY <3>2, <3>3 DEF answer
  <2>2. CASE UNCHANGED inbound
    BY <2>2
  <2>3. QED
    BY <1>2, <2>1, <2>2
<1>10. Answered'
  BY <1>2, <1>3, <1>8, <1>9 DEF Answered
<1>11. Past'
  <2>1. \A i \in DOMAIN outbound' : i + 1 \in DOMAIN outbound /\ outbound'[i] = outbound[i + 1]
    BY <1>4
  <2>2. frame.openTime < Now
    <3>1. 1 \in DOMAIN outbound
      BY <1>4
    <3>2. QED
      BY <1>3, <1>4, <3>1 DEF Past
  <2>3. Now' = Now
    BY <1>2 DEF Now
  <2>4. \A i \in DOMAIN inbound' : inbound'[i].openTime < Now
    BY <1>3, <1>9, <2>2 DEF Past
  <2>5. QED
    BY <1>2, <1>3, <2>1, <2>3, <2>4 DEF Past
<1>12. Follows'
  <2>1. ASSUME NEW i \in 1..n, NEW side, SideAt(outbound', engineSide', i, side)
        PROVE  SideAt(outbound, engineSide, i + 1, side)
    <3>1. /\ outbound[1].told \in Side \cup {Null}
          /\ engineSide' = IF outbound[1].told \in Side THEN outbound[1].told ELSE engineSide
      BY <1>4, <1>5, <1>6
    <3>2. QED
      BY <1>4, <2>1, <3>1, SidesWithOneLess
  <2>2. ASSUME NEW i \in DOMAIN outbound', NEW d \in DOMAIN decisions',
               NEW side \in Side \cup {Null}, SideAt(outbound', engineSide', i, side),
               decisions'[d].node # Null, decisions'[d].openTime = outbound'[i].openTime
        PROVE  decisions'[d].node = Decides(side, outbound'[i].told)
    <3>1. i \in 1..n /\ i + 1 \in DOMAIN outbound /\ outbound'[i] = outbound[i + 1]
      BY <1>4
    <3>2. SideAt(outbound, engineSide, i + 1, side)
      BY <2>1, <2>2, <3>1
    <3>3. decisions' = decisions
      BY <1>2
    <3>4. QED
      BY <1>3, <2>2, <3>1, <3>2, <3>3 DEF Follows
  <2>3. SideAt(outbound', engineSide', Len(outbound') + 1, nodeSide')
    <3>1. nodeSide' = nodeSide /\ Len(outbound') + 1 = n
      BY <1>2, <1>4
    <3>2. SideAt(outbound, engineSide, n + 1, nodeSide)
      BY <1>3 DEF Follows, n
    <3>3. SideAt(outbound', engineSide', n, nodeSide)
      <4>1. /\ outbound[1].told \in Side \cup {Null}
            /\ engineSide' = IF outbound[1].told \in Side THEN outbound[1].told ELSE engineSide
        BY <1>4, <1>5, <1>6
      <4>2. n \in Nat \ {0} /\ \A k \in 1..(n - 1) : outbound'[k] = outbound[k + 1]
        BY <1>4
      <4> DEFINE to == engineSide'
      <4>3. to = IF outbound[1].told \in Side THEN outbound[1].told ELSE engineSide
        BY <4>1
      <4> HIDE DEF to
      <4>4. SideAt(outbound', to, n, nodeSide)
        BY <3>2, <4>1, <4>2, <4>3, SidesBackOne
      <4>5. QED
        BY <4>4 DEF to
    <3>4. QED
      BY <3>1, <3>3
  <2>4. attached'
    BY <1>2, <1>3 DEF Follows
  <2>5. QED
    BY <2>2, <2>3, <2>4 DEF Follows
<1>13. QED
  BY <1>2, <1>3, <1>10, <1>11, <1>12 DEF Alike, Agreed

\* An answer is compared with the decision it is equal to.
LEMMA SignalKeepsAlike ==
  ASSUME MapsAreBounded, Alike, onSignal, ~skewed', ~mixed'
  PROVE  Alike'
<1> USE DEF nodeVars, bridgeVars, engineVars
<1> DEFINE signal == Head(inbound)
           tf     == decidedIn[signal.openTime]
           r      == record(decisions, signal.openTime, "cpp", signal.action, tf)
<1>1. /\ inbound \in Seq(Answer) /\ IsLedger(decisions) /\ judged \in Seq(Judgement)
      /\ decisions \in Seq(Entry) /\ decidedIn \in [Times -> Judged]
  BY BoundedByParts, TypeOfSequences
<1>2. /\ inbound # <<>> /\ inbound' = Tail(inbound)
      /\ decisions' = r.ledger /\ judged' = judged \o r.verdict
      /\ UNCHANGED <<next, nodeSide, subscribed, strategy, attached, engine, cross, outbound, mixed, skewed>>
  BY DEF onSignal
<1>3. /\ subscribed /\ strategy = Crossover /\ Past /\ Answered /\ Agreed /\ (engine = "up" => Follows)
  BY <1>2 DEF Alike
<1>4. /\ signal \in Answer /\ inbound[1] = signal /\ 1 \in DOMAIN inbound
      /\ \A i \in DOMAIN inbound' : i + 1 \in DOMAIN inbound /\ inbound'[i] = inbound[i + 1]
  <2>1. /\ inbound' \in Seq(Answer) /\ Len(inbound') = Len(inbound) - 1 /\ signal \in Answer
        /\ \A i \in 1..Len(inbound') : inbound'[i] = inbound[i + 1]
    BY <1>1, <1>2, HeadTailProperties
  <2>2. /\ DOMAIN inbound' = 1..Len(inbound') /\ DOMAIN inbound = 1..Len(inbound)
        /\ Len(inbound) \in Nat \ {0}
    BY <1>1, <1>2, <2>1, EmptySeq, LenProperties
  <2>3. inbound[1] = signal
    BY <1>1, <1>2
  <2>4. QED
    BY <2>1, <2>2, <2>3
<1>5. signal.openTime \in Times /\ signal.action \in Action /\ tf \in Judged
  BY <1>1, <1>4 DEF Answer
<1>6. PICK old : Records(decisions, signal.openTime, "cpp", signal.action, tf, r, old)
  BY <1>1, <1>5, RecordChangesOne
<1> HIDE DEF r, tf
<1> DEFINE new == Filled(old, "cpp", signal.action)
<1>7. /\ old \in Entry /\ old.openTime = signal.openTime
      /\ (\E j \in DOMAIN decisions : old = decisions[j]) \/ old = Fresh(signal.openTime)
      /\ r.verdict = Verdict(new, tf)
      /\ \A i \in DOMAIN r.ledger :
           \/ r.ledger[i] = Closed(new)
           \/ \E j \in DOMAIN decisions : r.ledger[i] = decisions[j]
  BY <1>6 DEF Records
<1>8. /\ new \in Entry /\ new.openTime = signal.openTime /\ new.node = old.node
      /\ new.cpp = signal.action
      /\ Closed(new).node = old.node /\ Closed(new).openTime = signal.openTime
  BY <1>5, <1>7, FilledIsAnEntry DEF Filled, Closed, Entry
<1> HIDE DEF new
<1>9. old.node # Null => \E j \in DOMAIN decisions : decisions[j] = old
  BY <1>7 DEF Fresh
<1>10. old.node # Null => old.node = signal.action
  BY <1>3, <1>4, <1>7, <1>9 DEF Answered
\* What the ledger has of JavaScript it had before.
<1>11. \A d \in DOMAIN decisions' :
         /\ decisions'[d].node # Null =>
              \E e \in DOMAIN decisions : /\ decisions'[d].openTime = decisions[e].openTime
                                          /\ decisions'[d].node = decisions[e].node
         /\ decisions'[d].openTime < Now
  <2>1. signal.openTime < Now
    BY <1>3, <1>4 DEF Past
  <2>2. QED
    BY <1>2, <1>3, <1>7, <1>8, <1>9, <2>1 DEF Past
<1>12. Answered'
  <2> SUFFICES ASSUME NEW i \in DOMAIN inbound', NEW d \in DOMAIN decisions',
                      decisions'[d].node # Null, decisions'[d].openTime = inbound'[i].openTime
               PROVE  decisions'[d].node = inbound'[i].action
    BY DEF Answered
  <2>1. PICK e \in DOMAIN decisions : /\ decisions'[d].openTime = decisions[e].openTime
                                      /\ decisions'[d].node = decisions[e].node
    BY <1>11
  <2>2. i + 1 \in DOMAIN inbound /\ inbound'[i] = inbound[i + 1]
    BY <1>4
  <2>3. QED
    BY <1>3, <2>1, <2>2 DEF Answered
<1>13. Past'
  <2>1. Now' = Now
    BY <1>2 DEF Now
  <2>2. QED
    BY <1>2, <1>3, <1>4, <1>11, <2>1 DEF Past
<1>14. Agreed'
  <2>1. CASE ~Pairs(new)
    <3>1. judged' = judged
      <4>1. judged' = judged \o Verdict(new, tf)
        BY <1>2, <1>7
      <4>2. judged \o Verdict(new, tf) = judged
        BY <1>1, <1>5, <1>8, <2>1, VerdictAppends
      <4>3. QED
        BY <4>1, <4>2
    <3>2. QED
      BY <1>3, <3>1 DEF Agreed
  <2>2. CASE Pairs(new)
    <3>1. /\ DOMAIN judged' = 1..(Len(judged) + 1) /\ DOMAIN judged = 1..Len(judged)
          /\ Len(judged) \in Nat
          /\ \A i \in 1..Len(judged) : judged'[i] = judged[i]
          /\ judged'[Len(judged) + 1] =
               [openTime |-> new.openTime, timeframe |-> tf, agreed |-> new.node = new.cpp]
      <4>1. judged' = judged \o Verdict(new, tf)
        BY <1>2, <1>7
      <4>2. QED
        BY <1>1, <1>5, <1>8, <2>2, <4>1, VerdictAppends
    <3>2. new.node = new.cpp
      BY <1>8, <1>10, <2>2 DEF Pairs
    <3>3. \A i \in DOMAIN judged' : i \in DOMAIN judged \/ i = Len(judged) + 1
      BY <3>1
    <3>4. judged'[Len(judged) + 1].agreed
      <4>1. judged'[Len(judged) + 1] =
              [openTime |-> new.openTime, timeframe |-> tf, agreed |-> TRUE]
        BY <3>1, <3>2
      <4>2. QED
        BY <4>1
    <3>5. QED
      BY <1>3, <3>1, <3>3, <3>4 DEF Agreed
  <2>3. QED
    BY <2>1, <2>2
<1>15. engine = "up" => Follows'
  <2> SUFFICES ASSUME engine = "up" PROVE Follows'
    OBVIOUS
  <2>1. engineSide' = engineSide
    BY <1>2 DEF engineSide
  <2>2. ASSUME NEW i \in DOMAIN outbound, NEW d \in DOMAIN decisions', NEW side \in Side \cup {Null},
               SideAt(outbound, engineSide, i, side), decisions'[d].node # Null,
               decisions'[d].openTime = outbound[i].openTime
        PROVE  decisions'[d].node = Decides(side, outbound[i].told)
    <3>1. PICK e \in DOMAIN decisions : /\ decisions'[d].openTime = decisions[e].openTime
                                        /\ decisions'[d].node = decisions[e].node
      BY <1>11, <2>2
    <3>2. QED
      BY <1>3, <2>2, <3>1 DEF Follows
  <2>3. attached /\ SideAt(outbound, engineSide, Len(outbound) + 1, nodeSide)
    BY <1>3 DEF Follows
  <2>4. UNCHANGED <<outbound, nodeSide, attached>>
    BY <1>2
  <2>5. QED
    BY <2>1, <2>2, <2>3, <2>4 DEF Follows
<1>16. QED
  BY <1>2, <1>3, <1>12, <1>13, <1>14, <1>15 DEF Alike

\* An engine that is gone owes nothing; what it had answered was right.
LEMMA ExitKeepsAlike ==
  ASSUME MapsAreBounded, Alike, engineExits \/ stopEngineBridge, ~skewed', ~mixed'
  PROVE  Alike'
<1> USE DEF nodeVars, bridgeVars, engineVars
<1>1. outbound \in Seq(Frame) /\ inbound \in Seq(Answer)
  BY BoundedByParts, TypeOfSequences
<1>2. /\ engine' = "down"
      /\ UNCHANGED <<next, nodeSide, subscribed, strategy, decisions, judged, mixed, skewed>>
  BY DEF engineExits, stopEngineBridge
<1>3. /\ subscribed /\ strategy = Crossover /\ Past /\ Answered /\ Agreed
  BY <1>2 DEF Alike
\* What is still under way was under way before.
<1>4. /\ \A i \in DOMAIN outbound' : \E j \in DOMAIN outbound : outbound'[i] = outbound[j]
      /\ \A i \in DOMAIN inbound' : \E j \in DOMAIN inbound : inbound'[i] = inbound[j]
  <2>1. CASE engineExits
    <3>1. PICK n \in 0..Len(outbound), m \in 0..Len(inbound) :
             /\ outbound' = SubSeq(outbound, n + 1, Len(outbound))
             /\ inbound' = SubSeq(inbound, 1, m)
      BY <2>1 DEF engineExits
    <3>2. \A i \in DOMAIN outbound' : \E j \in DOMAIN outbound : outbound'[i] = outbound[j]
      BY <1>1, <3>1, SuffixHolds
    <3>3. \A i \in DOMAIN inbound' : \E j \in DOMAIN inbound : inbound'[i] = inbound[j]
      BY <1>1, <3>1, PrefixHolds
    <3>4. QED
      BY <3>2, <3>3
  <2>2. CASE stopEngineBridge
    <3>1. outbound' = <<>> /\ inbound' = <<>>
      BY <2>2 DEF stopEngineBridge
    <3>2. QED
      BY <3>1
  <2>3. QED
    BY <2>1, <2>2
<1>5. Past' /\ Answered' /\ Agreed'
  <2>1. Now' = Now
    BY <1>2 DEF Now
  <2>2. QED
    BY <1>2, <1>3, <1>4, <2>1 DEF Past, Answered, Agreed
<1>6. QED
  BY <1>2, <1>3, <1>5 DEF Alike

LEMMA NextAlike ==
  ASSUME MapsAreBounded, Alike, mixed \in BOOLEAN, [Next]_vars
  PROVE  Alike' /\ mixed' \in BOOLEAN
<1> USE DEF nodeVars, bridgeVars, engineVars
<1>1. mixed' \in BOOLEAN
  BY DEF Next, Candle, bridgeOnCandle, handleFrame, onSignal, engineExits, engineRestarts,
         swapStrategy, stopEngineBridge, vars
<1>2. CASE skewed' \/ mixed'
  BY <1>1, <1>2 DEF Alike
<1>3. CASE ~skewed' /\ ~mixed'
  <2> SUFFICES Alike'
    BY <1>1
  <2>1. MapsAreBounded'
    BY NextBounded
  <2>2. ASSUME NEW tf \in Timeframes, NEW told \in Side \cup {Null}, Candle(tf, told)
        PROVE  Alike'
    BY <1>3, <2>1, <2>2, CandleKeepsAlike
  <2>3. CASE handleFrame
    BY <1>3, <2>3, FrameKeepsAlike
  <2>4. CASE onSignal
    BY <1>3, <2>4, SignalKeepsAlike
  <2>5. CASE engineExits \/ stopEngineBridge
    BY <1>3, <2>5, ExitKeepsAlike
  <2>6. CASE engineRestarts \/ swapStrategy
    BY <1>3, <2>6 DEF engineRestarts, swapStrategy
  <2>7. CASE UNCHANGED vars
    <3>1. UNCHANGED <<next, nodeVars, bridgeVars, engineVars, outbound, inbound, decisions, judged>>
      BY <2>7 DEF vars
    <3>2. skewed' = skewed /\ mixed' = mixed
      BY <2>7 DEF vars
    <3>3. Past' = Past /\ Answered' = Answered /\ Agreed' = Agreed /\ Follows' = Follows
      BY <3>1 DEF Past, Answered, Agreed, Follows, Now, engineSide, SideAt, Decides, Side, Signal
    <3>4. QED
      BY <3>1, <3>2, <3>3 DEF Alike
  <2>8. QED
    BY <2>2, <2>3, <2>4, <2>5, <2>6, <2>7 DEF Next
<1>4. QED
  BY <1>1, <1>2, <1>3

LEMMA InitAlike == Init => Alike /\ mixed \in BOOLEAN
<1> SUFFICES ASSUME Init PROVE Alike /\ mixed \in BOOLEAN
  OBVIOUS
<1>1. /\ subscribed = TRUE /\ strategy = Crossover /\ attached = TRUE /\ outbound = <<>> /\ inbound = <<>>
      /\ decisions = <<>> /\ judged = <<>> /\ nodeSide = Null /\ cross = NoCross /\ mixed = FALSE
  BY DEF Init
<1>2. DOMAIN <<>> = {} /\ Len(<<>>) = 0
  OBVIOUS
<1>3. engineSide = Null
  BY <1>1 DEF engineSide, NoCross
<1>4. SideAt(outbound, engineSide, Len(outbound) + 1, nodeSide)
  <2>1. \A k \in 1..((0 + 1) - 1) : FALSE
    OBVIOUS
  <2>2. QED
    BY <1>1, <1>2, <1>3, <2>1 DEF SideAt
<1>5. Follows
  BY <1>1, <1>2, <1>4 DEF Follows
<1>6. Past /\ Answered /\ Agreed
  BY <1>1, <1>2 DEF Past, Answered, Agreed
<1>7. QED
  BY <1>1, <1>5, <1>6 DEF Alike

EnginesInv == MapsAreBounded /\ Alike /\ mixed \in BOOLEAN

\* While every frame has reached the engine and only one timeframe is pushed, no
\* comparison finds the two engines of different opinions: what was lost, late
\* or mixed is the only cause of a divergence (compare.js:59-78).
THEOREM EnginesAgree == Spec => []SameCandlesSameDecisions
<1>1. Init => EnginesInv
  BY InitBounded, InitAlike DEF EnginesInv
<1>2. EnginesInv /\ [Next]_vars => EnginesInv'
  BY NextBounded, NextAlike DEF EnginesInv
<1>3. EnginesInv => SameCandlesSameDecisions
  BY DEF EnginesInv, Alike, Agreed, SameCandlesSameDecisions, Divergences
<1>4. QED
  BY <1>1, <1>2, <1>3, PTL DEF Spec
=============================================================================
