--------------------------- MODULE FiniteLemmas ---------------------------
(***************************************************************************)
(* What the proofs need of finite data: sums of finite functions (the      *)
(* totals of the books: costBasis, restoredCash and equity of              *)
(* PaperBroker.js, and the candles of a request plan), the extremes and    *)
(* ranks of a finite set of integers (open_times in a table) and the       *)
(* flattening of a sequence of sequences (chunks of ranges, ranges.js),    *)
(* and that recursions over rule trees have solutions (compile.js).        *)
(* SumFunction folds in an order of its own; the lemmas show that no order *)
(* matters.  Every induction is on the least counterexample, a set.        *)
(***************************************************************************)
EXTENDS SequencesExt, FiniteSetTheorems, TLAPS

LEMMA LeastNumber ==
  ASSUME NEW Bad \in SUBSET Nat, Bad # {}
  PROVE  \E n \in Bad : \A m \in Bad : n <= m
<1>1. PICK n \in Bad : \A m \in Bad : ~(<<m, n>> \in OpToRel(<, Nat))
  BY NatLessThanWellFounded, WFMin
<1>2. \A m \in Bad : ~(m < n)
  BY <1>1 DEF OpToRel
<1>3. QED
  BY <1>2

\* A set of finite sets that is not empty has a member with no proper subset in it.
LEMMA SmallestSet ==
  ASSUME NEW S, IsFiniteSet(S), NEW Bad \in SUBSET (SUBSET S), Bad # {}
  PROVE  \E T \in Bad : \A U \in Bad : U \subseteq T => U = T
<1>1. Bad \subseteq FiniteSubsetsOf(S)
  BY FS_FiniteSubsetsOfFinite
<1>2. PICK T \in Bad : \A U \in Bad : ~(<<U, T>> \in StrictSubsetOrdering(S))
  BY <1>1, FS_StrictSubsetOrderingWellFounded, WFMin
<1>3. QED
  BY <1>2 DEF StrictSubsetOrdering

-----------------------------------------------------------------------------
Pick(s) == CHOOSE x \in s : TRUE

LEMMA PickIn == ASSUME NEW s, s # {} PROVE Pick(s) \in s
BY DEF Pick

\* I[s] is the total of f over the subset s of its domain.
Totals(I, f) ==
  I = [s \in SUBSET (DOMAIN f) |->
        IF s = {} THEN 0 ELSE f[Pick(s)] + I[s \ {Pick(s)}]]

LEMMA SumIsChosen ==
  ASSUME NEW f
  PROVE  SumFunction(f) = (CHOOSE I : Totals(I, f))[DOMAIN f]
BY DEF SumFunction, SumFunctionOnSet, FoldFunctionOnSet, MapThenFoldSet, Totals, Pick

(***************************************************************************)
(* There are totals: they are built one cardinality at a time.             *)
(***************************************************************************)
Level(D, n) == {s \in SUBSET D : Cardinality(s) <= n}

TotalsUpTo(J, f, n) ==
  /\ DOMAIN J = Level(DOMAIN f, n)
  /\ \A s \in Level(DOMAIN f, n) :
       J[s] = IF s = {} THEN 0 ELSE f[Pick(s)] + J[s \ {Pick(s)}]

LEMMA PickedOut ==
  ASSUME NEW D, IsFiniteSet(D), NEW s \in SUBSET D, s # {}
  PROVE  /\ s \ {Pick(s)} \in SUBSET D /\ s \ {Pick(s)} # s
         /\ IsFiniteSet(s) /\ Cardinality(s) \in Nat
         /\ Cardinality(s \ {Pick(s)}) = Cardinality(s) - 1
<1>1. IsFiniteSet(s) /\ Pick(s) \in s
  BY FS_Subset, PickIn
<1>2. QED
  BY <1>1, FS_RemoveElement, FS_CardinalityType

LEMMA NextLevel ==
  ASSUME NEW f, IsFiniteSet(DOMAIN f), NEW n \in Nat, NEW J, TotalsUpTo(J, f, n)
  PROVE  \E K : TotalsUpTo(K, f, n + 1)
<1> DEFINE D == DOMAIN f
           K == [s \in Level(D, n + 1) |->
                  IF s \in Level(D, n) THEN J[s] ELSE f[Pick(s)] + J[s \ {Pick(s)}]]
<1>1. ASSUME NEW s \in Level(D, n + 1)
      PROVE  K[s] = IF s = {} THEN 0 ELSE f[Pick(s)] + K[s \ {Pick(s)}]
  <2>1. s \in SUBSET D /\ Cardinality(s) <= n + 1
    BY DEF Level
  <2>2. CASE s = {}
    <3>1. s \in Level(D, n)
      BY <2>2, <2>1, FS_EmptySet DEF Level
    <3>2. QED
      BY <2>2, <3>1 DEF TotalsUpTo
  <2>3. CASE s # {}
    <3>1. s \ {Pick(s)} \in Level(D, n) /\ s \ {Pick(s)} \in Level(D, n + 1)
      BY <2>1, <2>3, PickedOut DEF Level
    <3>2. K[s \ {Pick(s)}] = J[s \ {Pick(s)}]
      BY <3>1
    <3>3. s \in Level(D, n) => J[s] = f[Pick(s)] + J[s \ {Pick(s)}]
      BY <2>3 DEF TotalsUpTo
    <3>4. K[s] = f[Pick(s)] + J[s \ {Pick(s)}]
      BY <3>3
    <3>5. QED
      BY <2>3, <3>2, <3>4
  <2>4. QED
    BY <2>2, <2>3
<1>2. DOMAIN K = Level(D, n + 1)
  OBVIOUS
<1> HIDE DEF K
<1>3. QED
  BY <1>1, <1>2 DEF TotalsUpTo

LEMMA TotalsUpToExist ==
  ASSUME NEW f, IsFiniteSet(DOMAIN f), NEW n \in Nat
  PROVE  \E J : TotalsUpTo(J, f, n)
<1> DEFINE Bad == {m \in Nat : ~ \E J : TotalsUpTo(J, f, m)}
<1>1. SUFFICES ASSUME Bad # {} PROVE FALSE
  OBVIOUS
<1>2. PICK m \in Bad : \A k \in Bad : m <= k
  BY <1>1, LeastNumber
<1>3. CASE m = 0
  <2> DEFINE J == [s \in Level(DOMAIN f, 0) |-> 0]
  <2>1. \A s \in Level(DOMAIN f, 0) : s = {}
    <3> SUFFICES ASSUME NEW s \in Level(DOMAIN f, 0) PROVE s = {}
      OBVIOUS
    <3>1. s \in SUBSET (DOMAIN f) /\ Cardinality(s) <= 0
      BY DEF Level
    <3>2. IsFiniteSet(s) /\ Cardinality(s) \in Nat
      BY <3>1, FS_Subset, FS_CardinalityType
    <3>3. QED
      BY <3>1, <3>2, FS_EmptySet
  <2>2. TotalsUpTo(J, f, 0)
    BY <2>1 DEF TotalsUpTo
  <2>3. QED
    BY <1>2, <1>3, <2>2
<1>4. CASE m # 0
  <2>1. m - 1 \in Nat /\ m - 1 \notin Bad
    BY <1>2, <1>4
  <2>2. PICK J : TotalsUpTo(J, f, m - 1)
    BY <2>1
  <2>3. \E K : TotalsUpTo(K, f, (m - 1) + 1)
    BY <2>1, <2>2, NextLevel
  <2>4. (m - 1) + 1 = m
    BY <1>2
  <2>5. QED
    BY <1>2, <2>3, <2>4
<1>5. QED
  BY <1>3, <1>4

LEMMA TotalsExist ==
  ASSUME NEW f, IsFiniteSet(DOMAIN f)
  PROVE  \E I : Totals(I, f)
<1> DEFINE D == DOMAIN f
           n == Cardinality(D)
<1>1. n \in Nat
  BY FS_CardinalityType
<1>2. PICK J : TotalsUpTo(J, f, n)
  BY <1>1, TotalsUpToExist
<1>3. Level(D, n) = SUBSET D
  BY FS_Subset DEF Level
<1> DEFINE I == [s \in SUBSET D |-> J[s]]
<1>4. ASSUME NEW s \in SUBSET D
      PROVE  I[s] = IF s = {} THEN 0 ELSE f[Pick(s)] + I[s \ {Pick(s)}]
  <2>1. J[s] = IF s = {} THEN 0 ELSE f[Pick(s)] + J[s \ {Pick(s)}]
    BY <1>2, <1>3 DEF TotalsUpTo
  <2>2. s \ {Pick(s)} \in SUBSET D
    OBVIOUS
  <2>3. QED
    BY <2>1, <2>2
<1>5. I = [s \in SUBSET D |-> I[s]]
  OBVIOUS
<1> HIDE DEF I
<1>6. Totals(I, f)
  BY <1>4, <1>5 DEF Totals
<1>7. QED
  BY <1>6

\* The totals the fold computes are totals.
LEMMA SumIsTotal ==
  ASSUME NEW f, IsFiniteSet(DOMAIN f)
  PROVE  \E I : Totals(I, f) /\ SumFunction(f) = I[DOMAIN f]
BY SumIsChosen, TotalsExist

-----------------------------------------------------------------------------
(***************************************************************************)
(* What totals are worth: integers, natural numbers of natural numbers,    *)
(* the same for functions that agree, and independent of the order.        *)
(***************************************************************************)
LEMMA TotalUnfolds ==
  ASSUME NEW f, NEW I, Totals(I, f), NEW s \in SUBSET (DOMAIN f)
  PROVE  /\ s = {} => I[s] = 0
         /\ s # {} => I[s] = f[Pick(s)] + I[s \ {Pick(s)}]
<1>1. I[s] = IF s = {} THEN 0 ELSE f[Pick(s)] + I[s \ {Pick(s)}]
  BY DEF Totals
<1>2. QED
  BY <1>1

LEMMA TotalType ==
  ASSUME NEW f, NEW I, Totals(I, f), IsFiniteSet(DOMAIN f),
         \A x \in DOMAIN f : f[x] \in Int,
         NEW s \in SUBSET (DOMAIN f)
  PROVE  /\ I[s] \in Int
         /\ (\A x \in DOMAIN f : f[x] \in Nat) => I[s] \in Nat
<1> DEFINE Good(r) == /\ I[r] \in Int
                      /\ (\A x \in DOMAIN f : f[x] \in Nat) => I[r] \in Nat
           Bad == {r \in SUBSET (DOMAIN f) : ~Good(r)}
<1>1. SUFFICES ASSUME Bad # {} PROVE FALSE
  OBVIOUS
<1>2. PICK r \in Bad : \A u \in Bad : u \subseteq r => u = r
  <2>1. Bad \in SUBSET (SUBSET (DOMAIN f))
    OBVIOUS
  <2> HIDE DEF Bad
  <2>2. QED
    BY <1>1, <2>1, SmallestSet
<1>3. r # {}
  <2>1. I[{}] = 0
    BY TotalUnfolds
  <2>2. QED
    BY <1>2, <2>1
<1>4. /\ r \ {Pick(r)} \in SUBSET (DOMAIN f) /\ r \ {Pick(r)} # r
      /\ Pick(r) \in DOMAIN f
  BY <1>2, <1>3, PickedOut, PickIn
<1>5. Good(r \ {Pick(r)})
  BY <1>2, <1>4
<1>6. I[r] = f[Pick(r)] + I[r \ {Pick(r)}]
  BY <1>2, <1>3, TotalUnfolds
<1>7. Good(r)
  BY <1>4, <1>5, <1>6
<1>8. QED
  BY <1>2, <1>7

LEMMA TotalCongruence ==
  ASSUME NEW f, NEW I, Totals(I, f), IsFiniteSet(DOMAIN f),
         NEW g, NEW J, Totals(J, g),
         NEW s \in SUBSET (DOMAIN f), s \subseteq DOMAIN g,
         \A x \in s : f[x] = g[x]
  PROVE  I[s] = J[s]
<1> DEFINE Bad == {r \in SUBSET (DOMAIN f) : r \subseteq s /\ I[r] # J[r]}
<1>1. SUFFICES ASSUME Bad # {} PROVE FALSE
  OBVIOUS
<1>2. PICK r \in Bad : \A u \in Bad : u \subseteq r => u = r
  <2>1. Bad \in SUBSET (SUBSET (DOMAIN f))
    OBVIOUS
  <2> HIDE DEF Bad
  <2>2. QED
    BY <1>1, <2>1, SmallestSet
<1>3. r # {}
  <2>1. I[{}] = 0 /\ J[{}] = 0
    BY TotalUnfolds
  <2>2. QED
    BY <1>2, <2>1
<1>4. /\ r \ {Pick(r)} \in SUBSET (DOMAIN f) /\ r \ {Pick(r)} # r
      /\ Pick(r) \in s /\ r \ {Pick(r)} \subseteq s
  BY <1>2, <1>3, PickedOut, PickIn
<1>5. I[r \ {Pick(r)}] = J[r \ {Pick(r)}]
  BY <1>2, <1>4
<1>6. /\ I[r] = f[Pick(r)] + I[r \ {Pick(r)}]
      /\ J[r] = g[Pick(r)] + J[r \ {Pick(r)}]
  BY <1>2, <1>3, TotalUnfolds
<1>7. I[r] = J[r]
  BY <1>4, <1>5, <1>6
<1>8. QED
  BY <1>2, <1>7

LEMMA TotalInAnyOrder ==
  ASSUME NEW f, NEW I, Totals(I, f), IsFiniteSet(DOMAIN f),
         \A x \in DOMAIN f : f[x] \in Int,
         NEW s \in SUBSET (DOMAIN f), NEW a \in s
  PROVE  I[s] = f[a] + I[s \ {a}]
<1> DEFINE Good(r) == \A b \in r : I[r] = f[b] + I[r \ {b}]
           Bad == {r \in SUBSET (DOMAIN f) : ~Good(r)}
<1>1. SUFFICES ASSUME Bad # {} PROVE FALSE
  <2>1. Bad = {} => Good(s)
    OBVIOUS
  <2>2. QED
    BY <2>1
<1>2. PICK r \in Bad : \A u \in Bad : u \subseteq r => u = r
  <2>1. Bad \in SUBSET (SUBSET (DOMAIN f))
    OBVIOUS
  <2> HIDE DEF Bad
  <2>2. QED
    BY <1>1, <2>1, SmallestSet
<1>3. PICK b \in r : I[r] # f[b] + I[r \ {b}]
  BY <1>2
<1> DEFINE c == Pick(r)
           both == (r \ {c}) \ {b}
<1>4. r \in SUBSET (DOMAIN f) /\ c \in r /\ both \in SUBSET (DOMAIN f)
  BY <1>2, <1>3, PickIn
<1>5. I[r] = f[c] + I[r \ {c}]
  BY <1>3, <1>4, TotalUnfolds
<1>6. b # c
  BY <1>3, <1>5
<1>7. /\ r \ {c} \in SUBSET (DOMAIN f) /\ b \in r \ {c} /\ r \ {c} # r
      /\ r \ {b} \in SUBSET (DOMAIN f) /\ c \in r \ {b} /\ r \ {b} # r
      /\ (r \ {b}) \ {c} = both
  BY <1>3, <1>4, <1>6
<1> HIDE DEF c
<1>8. Good(r \ {c}) /\ Good(r \ {b})
  BY <1>2, <1>7
<1>9. I[r \ {c}] = f[b] + I[both] /\ I[r \ {b}] = f[c] + I[both]
  BY <1>7, <1>8
<1>10. f[b] \in Int /\ f[c] \in Int /\ I[both] \in Int
  BY <1>3, <1>4, TotalType
<1>11. I[r] = f[b] + I[r \ {b}]
  BY <1>5, <1>9, <1>10
<1>12. QED
  BY <1>3, <1>11

-----------------------------------------------------------------------------
(***************************************************************************)
(* The sum of a function with a finite domain and integer values.          *)
(***************************************************************************)
Summable(f) == IsFiniteSet(DOMAIN f) /\ \A x \in DOMAIN f : f[x] \in Int

LEMMA SumType ==
  ASSUME NEW f, Summable(f)
  PROVE  /\ SumFunction(f) \in Int
         /\ (\A x \in DOMAIN f : f[x] \in Nat) => SumFunction(f) \in Nat
<1>1. PICK I : Totals(I, f) /\ SumFunction(f) = I[DOMAIN f]
  BY SumIsTotal DEF Summable
<1>2. QED
  BY <1>1, TotalType DEF Summable

LEMMA SumOfNothing == ASSUME NEW f, DOMAIN f = {} PROVE SumFunction(f) = 0
<1>1. PICK I : Totals(I, f) /\ SumFunction(f) = I[DOMAIN f]
  BY SumIsTotal, FS_EmptySet
<1>2. QED
  BY <1>1, TotalUnfolds

\* One more element adds its value.
LEMMA SumExtends ==
  ASSUME NEW f, Summable(f), NEW g, Summable(g),
         NEW a, a \notin DOMAIN f, DOMAIN g = DOMAIN f \cup {a},
         \A x \in DOMAIN f : g[x] = f[x]
  PROVE  SumFunction(g) = SumFunction(f) + g[a]
<1>1. PICK I : Totals(I, f) /\ SumFunction(f) = I[DOMAIN f]
  BY SumIsTotal DEF Summable
<1>2. PICK J : Totals(J, g) /\ SumFunction(g) = J[DOMAIN g]
  BY SumIsTotal DEF Summable
<1>3. J[DOMAIN g] = g[a] + J[DOMAIN g \ {a}]
  BY <1>2, TotalInAnyOrder DEF Summable
<1>4. DOMAIN g \ {a} = DOMAIN f
  OBVIOUS
<1>5. I[DOMAIN f] = J[DOMAIN f]
  BY <1>1, <1>2, TotalCongruence DEF Summable
<1>6. g[a] \in Int /\ I[DOMAIN f] \in Int
  BY <1>1, TotalType DEF Summable
<1>7. QED
  BY <1>1, <1>2, <1>3, <1>4, <1>5, <1>6

\* Two functions that differ at one element have sums that differ by as much.
LEMMA SumChanges ==
  ASSUME NEW f, Summable(f), NEW g, Summable(g), DOMAIN g = DOMAIN f,
         NEW a \in DOMAIN f, \A x \in DOMAIN f \ {a} : g[x] = f[x]
  PROVE  SumFunction(g) = SumFunction(f) + (g[a] - f[a])
<1>1. PICK I : Totals(I, f) /\ SumFunction(f) = I[DOMAIN f]
  BY SumIsTotal DEF Summable
<1>2. PICK J : Totals(J, g) /\ SumFunction(g) = J[DOMAIN g]
  BY SumIsTotal DEF Summable
<1> DEFINE rest == DOMAIN f \ {a}
<1>3. rest \in SUBSET (DOMAIN f) /\ rest \subseteq DOMAIN g
  OBVIOUS
<1>4. I[DOMAIN f] = f[a] + I[rest] /\ J[DOMAIN g] = g[a] + J[rest]
  <2>1. I[DOMAIN f] = f[a] + I[rest]
    BY <1>1, TotalInAnyOrder DEF Summable
  <2>2. J[DOMAIN g] = g[a] + J[DOMAIN g \ {a}]
    BY <1>2, TotalInAnyOrder DEF Summable
  <2>3. QED
    BY <2>1, <2>2
<1>5. I[rest] = J[rest]
  BY <1>1, <1>2, <1>3, TotalCongruence DEF Summable
<1>6. f[a] \in Int /\ g[a] \in Int /\ I[rest] \in Int
  BY <1>1, <1>3, TotalType DEF Summable
<1>7. QED
  BY <1>1, <1>2, <1>4, <1>5, <1>6

-----------------------------------------------------------------------------
(***************************************************************************)
(* Extremes and ranks of a finite set of integers.                         *)
(***************************************************************************)
LEMMA LargestExists ==
  ASSUME NEW S \in SUBSET Int, IsFiniteSet(S), S # {}
  PROVE  \E m \in S : \A x \in S : x <= m
<1> DEFINE Bad == {n \in Nat : \E T \in SUBSET S :
                     T # {} /\ Cardinality(T) = n /\ ~ \E m \in T : \A x \in T : x <= m}
<1>1. SUFFICES ASSUME Bad # {} PROVE FALSE
  BY FS_CardinalityType
<1>2. PICK n \in Bad : \A k \in Bad : n <= k
  BY <1>1, LeastNumber
<1> PICK T \in SUBSET S : T # {} /\ Cardinality(T) = n /\ ~ \E m \in T : \A x \in T : x <= m
  OBVIOUS
<1>3. PICK a \in T : TRUE
  OBVIOUS
<1> DEFINE U == T \ {a}
<1>4. U # {}
  <2>1. U = {} => \A x \in T : x = a
    OBVIOUS
  <2>2. a \in Int
    OBVIOUS
  <2>3. QED
    BY <2>1, <2>2
<1>5. n - 1 \notin Bad /\ Cardinality(U) = n - 1 /\ n - 1 \in Nat
  <2>1. IsFiniteSet(T) /\ IsFiniteSet(U) /\ n \in Nat
    BY FS_Subset
  <2>2. Cardinality(U) = n - 1 /\ Cardinality(U) \in Nat
    BY <2>1, FS_RemoveElement, FS_CardinalityType
  <2>3. QED
    BY <1>2, <2>1, <2>2
<1>6. PICK m \in U : \A x \in U : x <= m
  BY <1>4, <1>5
<1>7. a \in Int /\ m \in Int
  OBVIOUS
<1>8. CASE a <= m
  BY <1>6, <1>8
<1>9. CASE m <= a
  BY <1>6, <1>7, <1>9
<1>10. QED
  BY <1>7, <1>8, <1>9

LEMMA SmallestExists ==
  ASSUME NEW S \in SUBSET Int, IsFiniteSet(S), S # {}
  PROVE  \E m \in S : \A x \in S : m <= x
<1> DEFINE Bad == {n \in Nat : \E T \in SUBSET S :
                     T # {} /\ Cardinality(T) = n /\ ~ \E m \in T : \A x \in T : m <= x}
<1>1. SUFFICES ASSUME Bad # {} PROVE FALSE
  BY FS_CardinalityType
<1>2. PICK n \in Bad : \A k \in Bad : n <= k
  BY <1>1, LeastNumber
<1> PICK T \in SUBSET S : T # {} /\ Cardinality(T) = n /\ ~ \E m \in T : \A x \in T : m <= x
  OBVIOUS
<1>3. PICK a \in T : TRUE
  OBVIOUS
<1> DEFINE U == T \ {a}
<1>4. U # {}
  <2>1. U = {} => \A x \in T : x = a
    OBVIOUS
  <2>2. a \in Int
    OBVIOUS
  <2>3. QED
    BY <2>1, <2>2
<1>5. n - 1 \notin Bad /\ Cardinality(U) = n - 1 /\ n - 1 \in Nat
  <2>1. IsFiniteSet(T) /\ IsFiniteSet(U) /\ n \in Nat
    BY FS_Subset
  <2>2. Cardinality(U) = n - 1 /\ Cardinality(U) \in Nat
    BY <2>1, FS_RemoveElement, FS_CardinalityType
  <2>3. QED
    BY <1>2, <2>1, <2>2
<1>6. PICK m \in U : \A x \in U : m <= x
  BY <1>4, <1>5
<1>7. a \in Int /\ m \in Int
  OBVIOUS
<1>8. CASE m <= a
  BY <1>6, <1>8
<1>9. CASE a <= m
  BY <1>6, <1>7, <1>9
<1>10. QED
  BY <1>7, <1>8, <1>9

LEMMA MaxIsLargest ==
  ASSUME NEW S \in SUBSET Int, IsFiniteSet(S), S # {}
  PROVE  Max(S) \in S /\ \A x \in S : x <= Max(S)
<1>1. \E m \in S : \A x \in S : m >= x
  BY LargestExists
<1>2. QED
  BY <1>1 DEF Max

LEMMA MinIsSmallest ==
  ASSUME NEW S \in SUBSET Int, IsFiniteSet(S), S # {}
  PROVE  Min(S) \in S /\ \A x \in S : Min(S) <= x
<1>1. \E m \in S : \A x \in S : m =< x
  BY SmallestExists
<1>2. QED
  BY <1>1 DEF Min

LEMMA ExtremesOfTwo ==
  ASSUME NEW a \in Int, NEW b \in Int
  PROVE  /\ Max({a, b}) \in {a, b} /\ Max({a, b}) >= a /\ Max({a, b}) >= b
         /\ Min({a, b}) \in {a, b} /\ Min({a, b}) <= a /\ Min({a, b}) <= b
<1>1. IsFiniteSet({a, b})
  <2>1. IsFiniteSet({a} \cup {b})
    BY FS_Singleton, FS_AddElement
  <2>2. {a} \cup {b} = {a, b}
    OBVIOUS
  <2>3. QED
    BY <2>1, <2>2, Zenon
<1>2. QED
  BY <1>1, MaxIsLargest, MinIsSmallest

UpTo(S, t) == {u \in S : u <= t}

\* Every rank is taken.
LEMMA RankExists ==
  ASSUME NEW S \in SUBSET Int, IsFiniteSet(S), NEW k \in 1..Cardinality(S)
  PROVE  \E t \in S : Cardinality(UpTo(S, t)) = k
<1> DEFINE Bad == {n \in Nat : n \in 1..Cardinality(S) /\ ~ \E t \in S : Cardinality(UpTo(S, t)) = n}
<1>1. SUFFICES ASSUME Bad # {} PROVE FALSE
  OBVIOUS
<1>2. PICK n \in Bad : \A m \in Bad : n <= m
  BY <1>1, LeastNumber
<1>3. Cardinality(S) \in Nat /\ n \in Nat \ {0} /\ n <= Cardinality(S)
  BY FS_CardinalityType
<1>4. CASE n = 1
  <2>1. S # {}
    BY <1>3, FS_EmptySet
  <2>2. PICK m \in S : \A x \in S : m <= x
    BY <2>1, SmallestExists
  <2>3. UpTo(S, m) = {m}
    <3>1. \A x \in S : x <= m <=> x = m
      <4>1. ASSUME NEW x \in S PROVE x <= m <=> x = m
        <5>1. x \in Int /\ m \in Int /\ m <= x
          BY <2>2
        <5>2. QED
          BY <5>1
      <4>2. QED
        BY <4>1
    <3>2. QED
      BY <3>1, Zenon DEF UpTo
  <2>4. QED
    BY <1>4, <2>3, FS_Singleton
<1>5. CASE n # 1
  <2>1. n - 1 \in 1..Cardinality(S) /\ n - 1 \notin Bad
    BY <1>2, <1>3, <1>5
  <2>2. PICK t \in S : Cardinality(UpTo(S, t)) = n - 1
    BY <2>1, <1>3
  <2> DEFINE rest == S \ UpTo(S, t)
  <2>3. IsFiniteSet(UpTo(S, t)) /\ UpTo(S, t) = S \cap UpTo(S, t) /\ IsFiniteSet(rest)
    BY FS_Subset DEF UpTo
  <2>4. Cardinality(rest) = Cardinality(S) - (n - 1)
    <3>1. Cardinality(rest) = Cardinality(S) - Cardinality(S \cap UpTo(S, t))
      BY FS_Difference
    <3>2. QED
      BY <2>2, <2>3, <3>1
  <2>5. rest # {}
    BY <2>3, <2>4, <1>3, FS_EmptySet
  <2>6. PICK m \in rest : \A x \in rest : m <= x
    BY <2>3, <2>5, SmallestExists
  <2>7. m \in S /\ m \notin UpTo(S, t) /\ t < m
    BY <2>6 DEF UpTo
  <2>8. UpTo(S, m) = UpTo(S, t) \cup {m}
    <3>1. ASSUME NEW u \in S, u <= m, u # m PROVE u <= t
      <4>1. u \in rest => m <= u
        BY <2>6
      <4>2. u \notin rest
        BY <3>1, <4>1, <2>7
      <4>3. QED
        BY <4>2 DEF UpTo
    <3>2. t \in Int /\ m \in Int /\ \A u \in S : u \in Int
      OBVIOUS
    <3>3. \A u \in S : u <= m <=> (u <= t \/ u = m)
      BY <3>1, <3>2, <2>7
    <3>4. QED
      BY <3>3, <2>7 DEF UpTo
  <2>9. Cardinality(UpTo(S, m)) = n
    BY <2>2, <2>3, <2>7, <2>8, <1>3, FS_AddElement
  <2>10. QED
    BY <2>7, <2>9
<1>6. QED
  BY <1>4, <1>5

\* And, counted from the newest, every rank is taken.
LEMMA RankFromAbove ==
  ASSUME NEW S \in SUBSET Int, IsFiniteSet(S), NEW k \in 1..Cardinality(S)
  PROVE  \E t \in S : Cardinality({u \in S : u >= t}) = k
<1> DEFINE n == Cardinality(S) - k + 1
<1>1. Cardinality(S) \in Nat /\ k \in Nat /\ n \in 1..Cardinality(S)
  BY FS_CardinalityType
<1>2. PICK t \in S : Cardinality(UpTo(S, t)) = n
  BY <1>1, RankExists
<1> DEFINE below == UpTo(S, t) \ {t}
           above == {u \in S : u >= t}
<1>3. above = S \ below /\ t \in UpTo(S, t) /\ below = S \cap below
  <2>1. t \in Int /\ \A u \in S : u \in Int /\ (u >= t <=> ~(u <= t) \/ u = t)
    OBVIOUS
  <2>2. QED
    BY <2>1 DEF UpTo
<1>4. IsFiniteSet(UpTo(S, t))
  BY FS_Subset DEF UpTo
<1>5. Cardinality(below) = n - 1
  BY <1>2, <1>3, <1>4, FS_RemoveElement
<1>6. Cardinality(above) = Cardinality(S) - (n - 1)
  <2>1. Cardinality(S \ below) = Cardinality(S) - Cardinality(S \cap below)
    BY FS_Difference
  <2>2. QED
    BY <1>3, <1>5, <2>1
<1>7. Cardinality(above) = k
  BY <1>1, <1>6
<1>8. QED
  BY <1>7

-----------------------------------------------------------------------------
(***************************************************************************)
(* Sequences: what concatenating a sequence of sequences yields, and what  *)
(* the sum of a sequence of numbers loses with its first.                  *)
(***************************************************************************)
Concatenates(f, seqs) ==
  f = [i \in DOMAIN f |-> IF i = 1 THEN seqs[i] ELSE f[i - 1] \o seqs[i]]

LEMMA ConcatenationExists ==
  ASSUME NEW T, NEW seqs \in Seq(Seq(T)), NEW n \in 0..Len(seqs)
  PROVE  \E f \in [1..n -> Seq(T)] : Concatenates(f, seqs)
<1> DEFINE Bad == {k \in Nat : k \in 0..Len(seqs)
                     /\ ~ \E f \in [1..k -> Seq(T)] : Concatenates(f, seqs)}
<1>1. SUFFICES ASSUME Bad # {} PROVE FALSE
  OBVIOUS
<1>2. PICK k \in Bad : \A m \in Bad : k <= m
  BY <1>1, LeastNumber
<1>3. k # 0
  <2>1. SUFFICES ASSUME k = 0 PROVE FALSE
    OBVIOUS
  <2> DEFINE f == [i \in 1..0 |-> <<>>]
  <2>2. f \in [1..0 -> Seq(T)] /\ Concatenates(f, seqs)
    BY DEF Concatenates
  <2>3. QED
    BY <2>1, <2>2
<1>4. k - 1 \in 0..Len(seqs) /\ k - 1 \notin Bad /\ k \in 1..Len(seqs)
  <2>1. Len(seqs) \in Nat /\ k \in Nat /\ k <= Len(seqs)
    OBVIOUS
  <2>2. k - 1 \in Nat /\ ~(k <= k - 1)
    BY <2>1, <1>3
  <2>3. k - 1 \notin Bad
    BY <1>2, <2>2
  <2> HIDE DEF Bad
  <2>4. QED
    BY <2>1, <2>2, <2>3
<1>5. PICK f \in [1..(k - 1) -> Seq(T)] : Concatenates(f, seqs)
  BY <1>4
<1> DEFINE g == [i \in 1..k |-> IF i = k THEN IF i = 1 THEN seqs[i] ELSE f[i - 1] \o seqs[i]
                                ELSE f[i]]
<1>6. g \in [1..k -> Seq(T)]
  <2>1. ASSUME NEW i \in 1..k PROVE g[i] \in Seq(T)
    <3>1. seqs[i] \in Seq(T)
      BY <1>4
    <3>2. CASE i # k
      BY <1>4, <3>2
    <3>3. CASE i = k /\ i = 1
      BY <3>1, <3>3
    <3>4. CASE i = k /\ i # 1
      <4>1. f[i - 1] \in Seq(T)
        BY <1>4, <3>4
      <4>2. QED
        BY <3>1, <3>4, <4>1
    <3>5. QED
      BY <3>2, <3>3, <3>4
  <2>2. QED
    BY <2>1
<1>7. Concatenates(g, seqs)
  <2>1. ASSUME NEW i \in 1..k
        PROVE  g[i] = IF i = 1 THEN seqs[i] ELSE g[i - 1] \o seqs[i]
    <3>1. CASE i = k
      BY <1>4, <3>1
    <3>2. CASE i # k
      <4>1. i \in 1..(k - 1) /\ g[i] = f[i] /\ (i # 1 => g[i - 1] = f[i - 1])
        BY <1>4, <3>2
      <4>2. f[i] = IF i = 1 THEN seqs[i] ELSE f[i - 1] \o seqs[i]
        BY <1>5, <4>1 DEF Concatenates
      <4>3. QED
        BY <4>1, <4>2
    <3>3. QED
      BY <3>1, <3>2
  <2>2. g = [i \in 1..k |-> g[i]] /\ DOMAIN g = 1..k
    OBVIOUS
  <2> HIDE DEF g
  <2>3. QED
    BY <2>1, <2>2 DEF Concatenates
<1>8. QED
  BY <1>4, <1>6, <1>7, <1>2

\* The concatenation of sequences over T is a sequence over T.
LEMMA FlattenType ==
  ASSUME NEW T, NEW seqs \in Seq(Seq(T))
  PROVE  FlattenSeq(seqs) \in Seq(T)
<1>1. CASE Len(seqs) = 0
  <2>1. FlattenSeq(seqs) = seqs /\ seqs = <<>>
    BY <1>1 DEF FlattenSeq
  <2>2. QED
    BY <2>1
<1>2. CASE Len(seqs) # 0
  <2> DEFINE n == Len(seqs)
             Is(f) == f = [i \in 1..n |-> IF i = 1 THEN seqs[i] ELSE f[i - 1] \o seqs[i]]
             F == CHOOSE f : Is(f)
  <2>1. FlattenSeq(seqs) = F[n]
    BY <1>2 DEF FlattenSeq
  <2>2. n \in Nat \ {0} /\ n \in 0..Len(seqs)
    BY <1>2
  <2>3. PICK h \in [1..n -> Seq(T)] : Concatenates(h, seqs)
    BY <2>2, ConcatenationExists
  <2>4. Is(h)
    BY <2>3 DEF Concatenates
  <2>5. Is(F)
    BY <2>4
  <2> DEFINE Bad == {k \in Nat : k \in 1..n /\ F[k] \notin Seq(T)}
  <2>6. Bad = {}
    <3>1. SUFFICES ASSUME Bad # {} PROVE FALSE
      OBVIOUS
    <3>2. PICK k \in Bad : \A m \in Bad : k <= m
      BY <3>1, LeastNumber
    <3>3. F[k] = IF k = 1 THEN seqs[k] ELSE F[k - 1] \o seqs[k]
      BY <2>5
    <3>4. seqs[k] \in Seq(T)
      BY <2>2
    <3> HIDE DEF F
    <3>5. ASSUME k # 1 PROVE F[k - 1] \in Seq(T)
      <4>1. k \in Nat /\ k - 1 \in Nat /\ k - 1 \in 1..n /\ ~(k <= k - 1)
        BY <2>2, <3>5
      <4>2. k - 1 \notin Bad
        BY <3>2, <4>1
      <4>3. QED
        BY <4>1, <4>2
    <3>6. F[k] \in Seq(T)
      <4> DEFINE before == F[k - 1]
      <4> HIDE DEF Is
      <4>1. CASE k = 1
        BY <4>1, <3>3, <3>4
      <4>2. CASE k # 1
        <5>1. before \in Seq(T) /\ F[k] = before \o seqs[k]
          BY <4>2, <3>3, <3>5
        <5> HIDE DEF before, Bad
        <5>2. QED
          BY <5>1, <3>4
      <4>3. QED
        BY <4>1, <4>2
    <3>7. QED
      BY <3>6
  <2> HIDE DEF F
  <2>7. QED
    BY <2>1, <2>2, <2>6
<1>3. QED
  BY <1>1, <1>2

ButFirst(f, n) == [i \in 1..n |-> f[i + 1]]
ButLast(f, n)  == [i \in 1..n |-> f[i]]

LEMMA SumOfOneMore ==
  ASSUME NEW n \in Nat, NEW f, NEW g,
         DOMAIN f = 1..n, DOMAIN g = 1..(n + 1),
         \A i \in 1..n : f[i] \in Nat, \A i \in 1..(n + 1) : g[i] \in Nat,
         \A i \in 1..n : g[i] = f[i]
  PROVE  /\ SumFunction(g) = SumFunction(f) + g[n + 1]
         /\ SumFunction(f) \in Int /\ SumFunction(g) \in Int
<1>1. IsFiniteSet(1..n) /\ IsFiniteSet(1..(n + 1))
  <2>1. 0 \in Int /\ 1 \in Int /\ n \in Int /\ n + 1 \in Int
    OBVIOUS
  <2>2. QED
    BY <2>1, FS_Interval
<1>2. Summable(f) /\ Summable(g)
  BY <1>1 DEF Summable
<1>3. n + 1 \notin DOMAIN f /\ DOMAIN g = DOMAIN f \cup {n + 1}
  BY SMT
<1>4. \A i \in DOMAIN f : g[i] = f[i]
  OBVIOUS
<1>5. SumFunction(g) = SumFunction(f) + g[n + 1]
  BY <1>2, <1>3, <1>4, SumExtends
<1>6. QED
  BY <1>2, <1>5, SumType

LEMMA SumShiftsOn ==
  ASSUME NEW n \in Nat \ {0}, NEW f \in [1..(n + 1) -> Nat],
         SumFunction(ButLast(f, n)) = f[1] + SumFunction(ButFirst(ButLast(f, n), n - 1))
  PROVE  SumFunction(f) = f[1] + SumFunction(ButFirst(f, n))
<1> DEFINE init == ButLast(f, n)
           mid  == ButFirst(init, n - 1)
           rest == ButFirst(f, n)
<1>1. /\ DOMAIN init = 1..n /\ \A i \in 1..n : init[i] = f[i] /\ f[i] \in Nat
      /\ DOMAIN f = 1..(n + 1) /\ \A i \in 1..(n + 1) : f[i] \in Nat
  BY DEF ButLast
<1>2. /\ DOMAIN mid = 1..(n - 1) /\ \A i \in 1..(n - 1) : mid[i] = f[i + 1] /\ f[i + 1] \in Nat
      /\ DOMAIN rest = 1..((n - 1) + 1) /\ \A i \in 1..n : rest[i] = f[i + 1] /\ f[i + 1] \in Nat
  <2>1. DOMAIN mid = 1..(n - 1) /\ DOMAIN rest = 1..n /\ (n - 1) + 1 = n
    BY DEF ButFirst
  <2>2. \A i \in 1..(n - 1) : mid[i] = f[i + 1] /\ f[i + 1] \in Nat
    BY <1>1 DEF ButFirst
  <2>3. \A i \in 1..n : rest[i] = f[i + 1] /\ f[i + 1] \in Nat
    BY DEF ButFirst
  <2>4. QED
    BY <2>1, <2>2, <2>3
<1>3. n - 1 \in Nat /\ (n - 1) + 1 = n
  OBVIOUS
<1> HIDE DEF init, mid, rest
<1>4. /\ SumFunction(f) = SumFunction(init) + f[n + 1]
      /\ SumFunction(init) \in Int
  BY <1>1, SumOfOneMore
<1>5. /\ SumFunction(rest) = SumFunction(mid) + rest[n]
      /\ SumFunction(mid) \in Int /\ SumFunction(rest) \in Int
  <2>1. PICK p \in Nat : p = n - 1
    BY <1>3
  <2>2. DOMAIN mid = 1..p /\ DOMAIN rest = 1..(p + 1) /\ p + 1 = n
    BY <1>2, <1>3, <2>1
  <2>3. \A i \in 1..p : rest[i] = mid[i] /\ mid[i] \in Nat
    BY <1>2, <1>3, <2>1
  <2>4. \A i \in 1..(p + 1) : rest[i] \in Nat
    BY <1>2, <1>3, <2>1
  <2>5. DOMAIN mid = 1..p /\ DOMAIN rest = 1..(p + 1)
    BY <2>2
  <2>6. /\ SumFunction(rest) = SumFunction(mid) + rest[p + 1]
        /\ SumFunction(mid) \in Int /\ SumFunction(rest) \in Int
    <3>1. (\A i \in 1..p : rest[i] = mid[i]) /\ \A i \in 1..p : mid[i] \in Nat
      BY <2>3
    <3>2. QED
      BY <3>1, <2>4, <2>5, SumOfOneMore, SMTT(60)
  <2>7. QED
    BY <2>2, <2>6
<1>6. rest[n] = f[n + 1] /\ f[1] \in Nat /\ f[n + 1] \in Nat
  BY <1>1, <1>2
<1>7. SumFunction(init) = f[1] + SumFunction(mid)
  BY DEF init, mid
<1>8. SumFunction(f) = f[1] + SumFunction(rest)
  BY <1>4, <1>5, <1>6, <1>7
<1>9. QED
  BY <1>8 DEF rest

\* Without its first number, a sequence of numbers has that much less to sum.
LEMMA SumWithoutFirst ==
  ASSUME NEW n \in Nat, NEW f \in [1..(n + 1) -> Nat]
  PROVE  /\ SumFunction(f) = f[1] + SumFunction(ButFirst(f, n))
         /\ SumFunction(ButFirst(f, n)) \in Nat
<1> DEFINE Bad == {m \in Nat : \E g \in [1..(m + 1) -> Nat] :
                     SumFunction(g) # g[1] + SumFunction(ButFirst(g, m))}
<1>1. Bad = {}
  <2>1. SUFFICES ASSUME Bad # {} PROVE FALSE
    OBVIOUS
  <2>2. PICK m \in Bad : \A k \in Bad : m <= k
    BY <2>1, LeastNumber
  <2>3. PICK g \in [1..(m + 1) -> Nat] : SumFunction(g) # g[1] + SumFunction(ButFirst(g, m))
    OBVIOUS
  <2>4. CASE m = 0
    <3> DEFINE none == ButFirst(g, 0)
    <3>1. DOMAIN none = {} /\ DOMAIN none = 1..0 /\ DOMAIN g = 1..(0 + 1) /\ g[0 + 1] \in Nat
          /\ \A i \in 1..(0 + 1) : g[i] \in Nat
      BY <2>4 DEF ButFirst
    <3> HIDE DEF none
    <3>2. SumFunction(none) = 0
      BY <3>1, SumOfNothing
    <3>3. SumFunction(g) = SumFunction(none) + g[0 + 1]
      BY <3>1, SumOfOneMore
    <3>4. SumFunction(g) = g[1] + SumFunction(none)
      BY <3>1, <3>2, <3>3
    <3>5. QED
      BY <3>4, <2>3, <2>4 DEF none
  <2>5. CASE m # 0
    <3>1. m \in Nat \ {0} /\ m - 1 \in Nat /\ ~(m <= m - 1) /\ (m - 1) + 1 = m
      BY <2>5
    <3>2. m - 1 \notin Bad
      BY <2>2, <3>1
    <3>3. ButLast(g, m) \in [1..m -> Nat] /\ ButLast(g, m)[1] = g[1]
      BY <3>1 DEF ButLast
    <3>4. SumFunction(ButLast(g, m)) = g[1] + SumFunction(ButFirst(ButLast(g, m), m - 1))
      BY <3>1, <3>2, <3>3
    <3> HIDE DEF Bad
    <3>5. SumFunction(g) = g[1] + SumFunction(ButFirst(g, m))
      BY <3>1, <3>4, SumShiftsOn
    <3>6. QED
      BY <3>5, <2>3
  <2>6. QED
    BY <2>4, <2>5
<1>2. SumFunction(f) = f[1] + SumFunction(ButFirst(f, n))
  BY <1>1
<1>3. Summable(ButFirst(f, n)) /\ \A i \in DOMAIN ButFirst(f, n) : ButFirst(f, n)[i] \in Nat
  <2>1. IsFiniteSet(1..n)
    <3>1. 1 \in Int /\ n \in Int
      OBVIOUS
    <3>2. QED
      BY <3>1, FS_Interval
  <2>2. DOMAIN ButFirst(f, n) = 1..n /\ \A i \in 1..n : ButFirst(f, n)[i] \in Nat
    BY DEF ButFirst
  <2>3. QED
    BY <2>1, <2>2 DEF Summable
<1> HIDE DEF Bad
<1>4. QED
  BY <1>2, <1>3, SumType

-----------------------------------------------------------------------------
(* Trees: recursions upwards and downwards *)

\* A marking that spreads: the least set that holds some points and, with one
\* that a point points at, the point.
Spread(T, D, L, R) ==
  /\ T \subseteq D
  /\ \A p \in D : p \in T <=> p \in L \/ \E q \in T : q \in R[p]

LEMMA SpreadExists ==
  ASSUME NEW D, NEW L, NEW R
  PROVE  \E T : Spread(T, D, L, R)
<1> DEFINE Closed(S) == \A p \in D : (p \in L \/ \E q \in S : q \in R[p]) => p \in S
           T == {p \in D : \A S \in SUBSET D : Closed(S) => p \in S}
           U == {p \in D : p \in L \/ \E q \in T : q \in R[p]}
<1>1. ASSUME NEW p \in U PROVE p \in T
  <2>1. SUFFICES ASSUME NEW S \in SUBSET D, Closed(S) PROVE p \in S
    OBVIOUS
  <2>2. \A q \in T : q \in S
    BY <2>1
  <2>3. p \in D /\ (p \in L \/ \E q \in S : q \in R[p])
    BY <2>2
  <2>4. QED
    BY <2>1, <2>3
<1>2. Closed(U)
  <2>1. U \subseteq T
    BY <1>1
  <2> HIDE DEF T
  <2>2. QED
    BY <2>1
<1>3. U \in SUBSET D
  OBVIOUS
<1>4. T \subseteq U
  BY <1>2, <1>3
<1>5. T \subseteq D /\ U = T
  BY <1>1, <1>4
<1> HIDE DEF T
<1>6. Spread(T, D, L, R)
  BY <1>5 DEF Spread
<1>7. QED
  BY <1>6

\* A recursion that goes from a point to the points it points at, and cannot go
\* on for ever, has a solution: step[p][f] looks at f only where p points.
Solves(f, S, step) == \A p \in S : f[p] = step[p][f]

IsRecursion(D, V, R, step) ==
  /\ V # {} /\ R \in [D -> SUBSET D]
  /\ \A S \in SUBSET D : S # {} => \E p \in S : R[p] \cap S = {}
  /\ step \in [D -> [[D -> V] -> V]]
  /\ \A p \in D : \A f, g \in [D -> V] :
       (\A q \in R[p] : f[q] = g[q]) => step[p][f] = step[p][g]

\* A step looks at what its point points at, and at nothing else.
LEMMA StepIsLocal ==
  ASSUME NEW D, NEW V, NEW R, NEW step, IsRecursion(D, V, R, step), NEW p \in D,
         NEW f \in [D -> V], NEW g \in [D -> V], \A q \in R[p] : f[q] = g[q]
  PROVE  step[p][f] = step[p][g]
<1>1. \A h, k \in [D -> V] : (\A q \in R[p] : h[q] = k[q]) => step[p][h] = step[p][k]
  BY DEF IsRecursion
<1>2. QED
  BY <1>1, Zenon

\* Two attempts agree where both are.
LEMMA AttemptsAgree ==
  ASSUME NEW D, NEW V, NEW R, NEW step, IsRecursion(D, V, R, step),
         NEW S \in SUBSET D, NEW T \in SUBSET D,
         \A p \in S : R[p] \subseteq S, \A p \in T : R[p] \subseteq T,
         NEW f \in [D -> V], NEW g \in [D -> V], Solves(f, S, step), Solves(g, T, step)
  PROVE  \A p \in S \cap T : f[p] = g[p]
<1> DEFINE B == {p \in S \cap T : f[p] # g[p]}
<1>1. SUFFICES ASSUME B # {} PROVE FALSE
  OBVIOUS
<1>2. PICK p \in B : R[p] \cap B = {}
  BY <1>1 DEF IsRecursion
<1>3. \A q \in R[p] : f[q] = g[q]
  BY <1>2
<1>4. step[p][f] = step[p][g]
  BY <1>2, <1>3, StepIsLocal
<1>5. QED
  BY <1>2, <1>4 DEF Solves

LEMMA RecursionExists ==
  ASSUME NEW D, NEW V, NEW R, NEW step, IsRecursion(D, V, R, step)
  PROVE  \E f \in [D -> V] : \A p \in D : f[p] = step[p][f]
<1> DEFINE Attempt(S, f) == /\ S \in SUBSET D /\ f \in [D -> V]
                            /\ \A p \in S : R[p] \subseteq S
                            /\ Solves(f, S, step)
           U == {p \in D : \E S, f : Attempt(S, f) /\ p \in S}
           F == [p \in D |-> CHOOSE v \in V : p \in U => \E S, f : Attempt(S, f) /\ p \in S /\ v = f[p]]
<1>1. ASSUME NEW p \in D
      PROVE  /\ F[p] \in V
             /\ p \in U => \E S, f : Attempt(S, f) /\ p \in S /\ F[p] = f[p]
  <2>1. \E v \in V : p \in U => \E S, f : Attempt(S, f) /\ p \in S /\ v = f[p]
    <3>1. CASE p \in U
      <4>1. PICK S, f : Attempt(S, f) /\ p \in S
        BY <3>1
      <4>2. f[p] \in V
        BY <4>1
      <4>3. QED
        BY <4>1, <4>2
    <3>2. CASE p \notin U
      BY <3>2 DEF IsRecursion
    <3>3. QED
      BY <3>1, <3>2
  <2>2. F[p] = CHOOSE v \in V : p \in U => \E S, f : Attempt(S, f) /\ p \in S /\ v = f[p]
    OBVIOUS
  <2> HIDE DEF F, U, Attempt
  <2>3. QED
    BY <2>1, <2>2
<1>2. F \in [D -> V]
  <2>1. F = [p \in D |-> F[p]]
    OBVIOUS
  <2> HIDE DEF F
  <2>2. QED
    BY <1>1, <2>1
<1> HIDE DEF F
<1>3. ASSUME NEW S, NEW f, Attempt(S, f) PROVE \A p \in S : F[p] = f[p]
  <2>1. SUFFICES ASSUME NEW p \in S PROVE F[p] = f[p]
    OBVIOUS
  <2>2. p \in D /\ p \in U
    BY <1>3
  <2>3. PICK T, g : Attempt(T, g) /\ p \in T /\ F[p] = g[p]
    BY <1>1, <2>2
  <2>4. f[p] = g[p]
    BY <1>3, <2>1, <2>3, AttemptsAgree
  <2>5. QED
    BY <2>3, <2>4
<1>4. ASSUME NEW p \in U PROVE R[p] \subseteq U /\ F[p] = step[p][F]
  <2>1. PICK S, f : Attempt(S, f) /\ p \in S
    OBVIOUS
  <2>2. R[p] \subseteq S /\ S \subseteq U
    BY <2>1
  <2>3. \A q \in R[p] : F[q] = f[q]
    BY <1>3, <2>1, <2>2
  <2>4. step[p][F] = step[p][f]
    BY <1>2, <2>1, <2>3, StepIsLocal
  <2>5. F[p] = f[p] /\ f[p] = step[p][f]
    BY <1>3, <2>1 DEF Solves
  <2>6. QED
    BY <2>2, <2>4, <2>5
<1>5. U = D
  <2> DEFINE W == D \ U
  <2>1. SUFFICES ASSUME W # {} PROVE FALSE
    OBVIOUS
  <2>2. PICK p \in W : R[p] \cap W = {}
    BY <2>1 DEF IsRecursion
  <2>3. R[p] \subseteq U /\ p \notin R[p] /\ \A q \in U : p \notin R[q]
    BY <1>4, <2>2 DEF IsRecursion
  <2> DEFINE S == U \cup {p}
             v == step[p][F]
             G == [F EXCEPT ![p] = v]
  <2>4. v \in V
    BY <1>2 DEF IsRecursion
  <2>5. G \in [D -> V] /\ G[p] = v /\ \A q \in D : q # p => G[q] = F[q]
    BY <1>2, <2>4
  <2>6. S \in SUBSET D
    OBVIOUS
  <2>7. \A q \in S : R[q] \subseteq S
    BY <1>4, <2>3
  <2> HIDE DEF G, v
  <2>8. ASSUME NEW q \in S PROVE G[q] = step[q][G]
    <3>1. \A r \in R[q] : r \in D /\ r # p
      BY <1>4, <2>3, <2>6
    <3>2. \A r \in R[q] : G[r] = F[r]
      BY <2>5, <3>1
    <3>3. step[q][G] = step[q][F]
      BY <1>2, <2>5, <2>6, <3>2, StepIsLocal
    <3>4. CASE q = p
      BY <2>5, <3>3, <3>4 DEF v
    <3>5. CASE q # p
      BY <1>4, <2>5, <2>6, <3>3, <3>5
    <3>6. QED
      BY <3>4, <3>5
  <2>9. Attempt(S, G)
    BY <2>5, <2>6, <2>7, <2>8 DEF Solves
  <2>10. p \in U
    BY <2>9
  <2>11. QED
    BY <2>2, <2>10
<1>6. QED
  BY <1>2, <1>4, <1>5
=============================================================================
