------------------------- MODULE PaperBroker_proofs -------------------------
(***************************************************************************)
(* Theorems about PaperBroker for every set of symbols, every price and    *)
(* every starting balance, and about the amounts it stores (MoneyColumn)   *)
(* at every scale.                                                         *)
(***************************************************************************)
EXTENDS MoneyColumn, FiniteLemmas, TLAPS

(***************************************************************************)
(* Facts about the arithmetic of money.js.                                 *)
(***************************************************************************)
LEMMA ToNumberType == ASSUME NEW n \in Nat PROVE ToNumber(n) \in Nat
BY MaxSafeAssumption DEF ToNumber

LEMMA QuotientFits ==
  ASSUME NEW c \in Nat, NEW p \in Nat, p > 0
  PROVE  c \div p \in Nat /\ p * (c \div p) <= c
OBVIOUS

LEMMA AffordableType ==
  ASSUME NEW c \in Nat, NEW p \in Nat
  PROVE  affordableUnits(c, p) \in Nat
BY ToNumberType, QuotientFits DEF affordableUnits

-----------------------------------------------------------------------------
(***************************************************************************)
(* The totals of the books.  BoughtAt and Sold are what a fill does to     *)
(* them; both are used for the broker and for the tables.                  *)
(***************************************************************************)
Priced(ps) == [s \in Symbols |-> ps[s].entryPrice * ps[s].quantity]

LEMMA PricedSummable ==
  ASSUME NEW ps \in [Symbols -> Position]
  PROVE  /\ Summable(Priced(ps)) /\ DOMAIN Priced(ps) = Symbols
         /\ \A s \in Symbols : Priced(ps)[s] \in Nat
<1>1. \A s \in Symbols : ps[s].entryPrice \in Nat /\ ps[s].quantity \in Nat
  <2>1. \A s \in Symbols : ps[s] \in Position
    OBVIOUS
  <2>2. QED
    BY <2>1 DEF Position
<1>2. \A s \in Symbols : ps[s].entryPrice * ps[s].quantity \in Nat
  BY <1>1
<1>3. QED
  BY <1>2, BrokerAssumption DEF Priced, Summable

LEMMA CostBasisType ==
  ASSUME NEW ps \in [Symbols -> Position]
  PROVE  costBasisOf(ps) \in Nat
BY PricedSummable, SumType DEF costBasisOf, Priced

\* Only the position of s changes.
LEMMA CostBasisChanges ==
  ASSUME NEW ps \in [Symbols -> Position], NEW s \in Symbols, NEW pos \in Position
  PROVE  costBasisOf([ps EXCEPT ![s] = pos])
           = costBasisOf(ps) + (pos.entryPrice * pos.quantity - ps[s].entryPrice * ps[s].quantity)
<1> DEFINE qs == [ps EXCEPT ![s] = pos]
<1>1. qs \in [Symbols -> Position] /\ qs[s] = pos /\ \A r \in Symbols \ {s} : qs[r] = ps[r]
  OBVIOUS
<1> HIDE DEF qs
<1>2. /\ Priced(qs)[s] = pos.entryPrice * pos.quantity
      /\ Priced(ps)[s] = ps[s].entryPrice * ps[s].quantity
      /\ \A r \in Symbols \ {s} : Priced(qs)[r] = Priced(ps)[r]
  BY <1>1 DEF Priced
<1>3. SumFunction(Priced(qs)) = SumFunction(Priced(ps)) + (Priced(qs)[s] - Priced(ps)[s])
  BY <1>1, <1>2, PricedSummable, SumChanges
<1>4. costBasisOf(qs) = SumFunction(Priced(qs)) /\ costBasisOf(ps) = SumFunction(Priced(ps))
  BY DEF costBasisOf, Priced
<1>5. QED
  BY <1>2, <1>3, <1>4 DEF qs

Pnls(ts) == [i \in DOMAIN ts |-> ts[i].pnl]

LEMMA PnlsSummable ==
  ASSUME NEW ts \in Seq(Trade)
  PROVE  Summable(Pnls(ts)) /\ DOMAIN Pnls(ts) = 1..Len(ts)
<1>1. DOMAIN ts = 1..Len(ts) /\ Len(ts) \in Nat
  OBVIOUS
<1>2. \A i \in DOMAIN ts : ts[i] \in Trade
  OBVIOUS
<1>3. \A i \in DOMAIN ts : ts[i].pnl \in Int
  BY <1>2 DEF Trade
<1>4. IsFiniteSet(1..Len(ts))
  BY <1>1, FS_Interval
<1>5. QED
  BY <1>1, <1>3, <1>4 DEF Pnls, Summable

LEMMA RealizedType ==
  ASSUME NEW ts \in Seq(Trade)
  PROVE  realizedPnlOf(ts) \in Int
BY PnlsSummable, SumType DEF realizedPnlOf, Pnls

LEMMA RealizedOfNothing == realizedPnlOf(<<>>) = 0
<1>1. DOMAIN Pnls(<<>>) = {}
  BY DEF Pnls
<1>2. QED
  BY <1>1, SumOfNothing DEF realizedPnlOf, Pnls

LEMMA RealizedAppends ==
  ASSUME NEW ts \in Seq(Trade), NEW t \in Trade
  PROVE  realizedPnlOf(Append(ts, t)) = realizedPnlOf(ts) + t.pnl
<1> DEFINE us == Append(ts, t)
           n  == Len(ts) + 1
<1>1. /\ us \in Seq(Trade) /\ Len(us) = n /\ Len(ts) \in Nat
      /\ us[n] = t /\ \A i \in 1..Len(ts) : us[i] = ts[i]
  OBVIOUS
<1>2. /\ n \notin 1..Len(ts)
      /\ 1..Len(us) = 1..Len(ts) \cup {n}
  BY <1>1
<1> HIDE DEF us
<1>3. /\ Summable(Pnls(us)) /\ DOMAIN Pnls(us) = DOMAIN Pnls(ts) \cup {n}
      /\ Summable(Pnls(ts)) /\ n \notin DOMAIN Pnls(ts)
  BY <1>1, <1>2, PnlsSummable
<1>4. Pnls(us)[n] = t.pnl /\ \A i \in DOMAIN Pnls(ts) : Pnls(us)[i] = Pnls(ts)[i]
  BY <1>1, <1>2 DEF Pnls
<1>5. SumFunction(Pnls(us)) = SumFunction(Pnls(ts)) + Pnls(us)[n]
  BY <1>3, <1>4, SumExtends
<1>6. QED
  BY <1>4, <1>5 DEF realizedPnlOf, Pnls, us

LEMMA RestoredCashType ==
  ASSUME NEW ps \in [Symbols -> Position], NEW ts \in Seq(Trade)
  PROVE  RestoredCash(ps, ts) \in Int
BY CostBasisType, RealizedType, BrokerAssumption DEF RestoredCash

-----------------------------------------------------------------------------
(***************************************************************************)
(* BrokerTypeOK is inductive on its own, except that the quantity bought   *)
(* is a natural number only while cash is: the balance floor is part of    *)
(* the induction.                                                          *)
(***************************************************************************)
Typed == BrokerTypeOK /\ CashNeverNegative

LEMMA InitTyped == BrokerInit => Typed
<1> SUFFICES ASSUME NEW b \in Books, Restored(b)
             PROVE  Typed
  BY DEF BrokerInit
<1>1. /\ b.positions \in [Symbols -> Position]
      /\ \A s \in Symbols : b.positions[s] = Flat \/ b.positions[s].quantity >= MIN_QUANTITY
      /\ b.trades \in Seq(Trade)
  BY BooksAssumption
<1>2. cash \in Nat
  <2>1. RestoredCash(b.positions, b.trades) \in Int
    BY <1>1, RestoredCashType
  <2>2. QED
    BY <2>1 DEF Restored
<1>3. nextTradeId \in Nat \ {0}
  <2>1. \A i \in DOMAIN b.trades : b.trades[i] \in Trade
    BY <1>1
  <2>2. \A i \in DOMAIN b.trades : b.trades[i].id \in Nat
    BY <2>1 DEF Trade
  <2>3. nextTradeId \in {1} \cup {b.trades[i].id + 1 : i \in DOMAIN b.trades}
    BY DEF Restored
  <2>4. QED
    BY <2>2, <2>3
<1>4. /\ positions = b.positions /\ trades = b.trades /\ liquidating = {}
      /\ marks = [s \in Symbols |-> 0]
  BY DEF Restored
<1>5. marks \in [Symbols -> Nat]
  BY <1>4
<1>6. QED
  BY <1>1, <1>2, <1>3, <1>4, <1>5 DEF Typed, BrokerTypeOK, CashNeverNegative

LEMMA OpenTyped ==
  ASSUME Typed, NEW s \in Symbols, NEW p \in Nat, BuyFills(s, p)
  PROVE  /\ cash' \in Nat
         /\ positions' \in [Symbols -> Position]
         /\ \A t \in Symbols : positions'[t] = Flat \/ positions'[t].quantity >= MIN_QUANTITY
         /\ UNCHANGED <<trades, nextTradeId>>
<1> DEFINE q == affordableUnits(cash, p)
<1>1. cash \in Nat
  BY DEF Typed, BrokerTypeOK, CashNeverNegative
<1>2. q \in Nat
  BY <1>1, AffordableType
<1>3. notional(p, q) \in Nat /\ notional(p, q) <= cash
  BY <1>2 DEF BuyFills, CanOpen, notional
<1>4. q >= MIN_QUANTITY
  BY DEF BuyFills, CanOpen
<1> HIDE DEF q
<1>5. /\ cash' = cash - notional(p, q)
      /\ positions' = [positions EXCEPT ![s] = [quantity |-> q, entryPrice |-> p]]
      /\ UNCHANGED <<trades, nextTradeId>>
  BY DEF BuyFills, openLong, q
<1>6. cash' \in Nat
  BY <1>1, <1>3, <1>5 DEF Typed, BrokerTypeOK
<1>7. [quantity |-> q, entryPrice |-> p] \in Position
  BY <1>2 DEF Position
<1>8. QED
  BY <1>2, <1>4, <1>5, <1>6, <1>7 DEF Typed, BrokerTypeOK

LEMMA CloseTyped ==
  ASSUME Typed, NEW s \in Symbols, NEW p \in Nat, closeLong(s, p)
  PROVE  /\ cash' \in Nat
         /\ positions' \in [Symbols -> Position]
         /\ \A t \in Symbols : positions'[t] = Flat \/ positions'[t].quantity >= MIN_QUANTITY
         /\ TradeOf(s, p) \in Trade
         /\ trades' = Append(trades, TradeOf(s, p))
         /\ trades' \in Seq(Trade)
         /\ nextTradeId' = nextTradeId + 1
<1>1. cash \in Nat /\ positions[s].quantity \in Nat /\ positions[s].entryPrice \in Nat
  BY DEF Typed, BrokerTypeOK, CashNeverNegative, Position
<1>2. notional(p, positions[s].quantity) \in Nat
  BY <1>1 DEF notional
<1>3. pnlOf(positions[s], p) \in Int
  BY <1>1 DEF pnlOf
<1>4. TradeOf(s, p) \in Trade
  BY <1>1, <1>3 DEF TradeOf, Trade, Typed, BrokerTypeOK
<1>5. Flat \in Position
  BY DEF Flat, Position
<1>6. cash' \in Nat
  BY <1>1, <1>2 DEF closeLong
<1>7. trades' = Append(trades, TradeOf(s, p)) /\ trades' \in Seq(Trade)
  BY <1>4 DEF closeLong, Typed, BrokerTypeOK
<1>8. /\ positions' = [positions EXCEPT ![s] = Flat]
      /\ nextTradeId' = nextTradeId + 1
  BY DEF closeLong
<1>9. QED
  BY <1>4, <1>5, <1>6, <1>7, <1>8 DEF Typed, BrokerTypeOK

LEMMA MarkedType ==
  ASSUME Typed, NEW s \in Symbols, NEW p \in Nat
  PROVE  Marked(s, p) \in [Symbols -> Nat]
BY DEF Marked, Typed, BrokerTypeOK

LEMMA NextTyped == Typed /\ [BrokerNext]_brokerVars => Typed'
<1> SUFFICES ASSUME Typed, [BrokerNext]_brokerVars
             PROVE  Typed'
  OBVIOUS
<1> USE DEF Typed, BrokerTypeOK, CashNeverNegative
<1>1. ASSUME NEW s \in Symbols, NEW p \in Prices, mark(s, p)
      PROVE  Typed'
  BY <1>1, MarkedType, BrokerAssumption DEF mark, books
<1>2. ASSUME NEW signal \in {BUY, SELL}, NEW s \in Symbols, NEW p \in Prices,
             executeOrder(signal, p, s)
      PROVE  Typed'
  <2> p \in Nat
    BY BrokerAssumption
  <2>1. marks' \in [Symbols -> Nat] /\ liquidating' \subseteq Symbols
    BY <1>2, MarkedType DEF executeOrder
  <2>2. CASE BuyFills(s, p)
    BY <2>1, <2>2, OpenTyped
  <2>3. CASE SellFills(s, p)
    <3>1. closeLong(s, p)
      BY <2>3 DEF SellFills
    <3>2. QED
      BY <2>1, <3>1, CloseTyped
  <2>4. CASE UNCHANGED books
    BY <2>1, <2>4 DEF books
  <2>5. QED
    BY <1>2, <2>2, <2>3, <2>4 DEF executeOrder
<1>3. CASE closeAllPositions
  BY <1>3 DEF closeAllPositions, books
<1>4. ASSUME NEW s \in Symbols, CloseNext(s)
      PROVE  Typed'
  <2>1. marks' = marks /\ liquidating' \subseteq Symbols
    BY <1>4 DEF CloseNext
  <2>2. CASE UNCHANGED books
    BY <2>1, <2>2 DEF books
  <2>3. CASE marks[s] > 0 /\ closeLong(s, marks[s])
    BY <2>1, <2>3, CloseTyped
  <2>4. QED
    BY <1>4, <2>2, <2>3 DEF CloseNext
<1>5. CASE UNCHANGED brokerVars
  BY <1>5 DEF brokerVars
<1>6. QED
  BY <1>1, <1>2, <1>3, <1>4, <1>5 DEF BrokerNext

(***************************************************************************)
(* Every variable of the broker keeps its type, and every open position    *)
(* holds at least MIN_QUANTITY units.                                      *)
(***************************************************************************)
THEOREM BrokerTyping == BrokerSpec => []BrokerTypeOK
<1>1. Typed => BrokerTypeOK
  BY DEF Typed
<1>2. QED
  BY InitTyped, NextTyped, <1>1, PTL DEF BrokerSpec

(***************************************************************************)
(* The balance floor of #openLong: no account is ever overdrawn, although  *)
(* the quantity goes through a double (PaperBroker.js:53-67).              *)
(***************************************************************************)
THEOREM NoOverdraft == BrokerSpec => []CashNeverNegative
<1>1. Typed => CashNeverNegative
  BY DEF Typed
<1>2. QED
  BY InitTyped, NextTyped, <1>1, PTL DEF BrokerSpec

-----------------------------------------------------------------------------
(***************************************************************************)
(* Cash is always what restore() would derive from the positions that are  *)
(* open and the trades (PaperBroker.js:156-171): an open moves its cost    *)
(* out of cash and into the cost basis; a close moves proceeds into cash,  *)
(* the cost out of the basis and the pnl into the realized total, and the  *)
(* three amounts cancel.                                                   *)
(***************************************************************************)
LEMMA CloseCancels ==
  ASSUME NEW e \in Int, NEW p \in Int, NEW q \in Int
  PROVE  p * q = e * q + (p - e) * q
OBVIOUS

LEMMA FlatCostsNothing == Flat \in Position /\ Flat.entryPrice * Flat.quantity = 0
BY DEF Flat, Position

LEMMA OpenBalances ==
  ASSUME Typed, CashBalances, NEW s \in Symbols, NEW p \in Nat, BuyFills(s, p)
  PROVE  CashBalances'
<1> DEFINE q   == affordableUnits(cash, p)
           pos == [quantity |-> q, entryPrice |-> p]
<1>1. cash \in Nat /\ positions \in [Symbols -> Position] /\ trades \in Seq(Trade)
  BY DEF Typed, BrokerTypeOK, CashNeverNegative
<1>2. q \in Nat
  BY <1>1, AffordableType
<1>3. /\ cash' = cash - p * q /\ trades' = trades
      /\ positions' = [positions EXCEPT ![s] = pos]
  BY DEF BuyFills, openLong, notional
<1>4. positions[s] = Flat
  <2>1. positions[s] \in Position
    BY <1>1
  <2>2. positions[s].quantity = 0
    BY <2>1 DEF BuyFills, CanOpen, hasPosition, Position
  <2>3. QED
    BY <2>2 DEF Typed, BrokerTypeOK, MIN_QUANTITY
<1> HIDE DEF q
<1>5. pos \in Position /\ pos.entryPrice * pos.quantity = p * q
  BY <1>2 DEF Position
<1> HIDE DEF pos
<1>6. costBasisOf(positions') = costBasisOf(positions) + (p * q - 0)
  BY <1>1, <1>3, <1>4, <1>5, CostBasisChanges, FlatCostsNothing
<1>7. /\ costBasisOf(positions) \in Int /\ realizedPnlOf(trades) \in Int /\ p * q \in Int
      /\ cash = StartingBalance - costBasisOf(positions) + realizedPnlOf(trades)
  BY <1>1, <1>2, CostBasisType, RealizedType DEF CashBalances, RestoredCash
<1>8. QED
  BY <1>3, <1>6, <1>7, BrokerAssumption DEF CashBalances, RestoredCash

LEMMA CloseBalances ==
  ASSUME Typed, CashBalances, NEW s \in Symbols, NEW p \in Nat, closeLong(s, p)
  PROVE  CashBalances'
<1> DEFINE q == positions[s].quantity
           e == positions[s].entryPrice
<1>1. cash \in Nat /\ positions \in [Symbols -> Position] /\ trades \in Seq(Trade)
  BY DEF Typed, BrokerTypeOK, CashNeverNegative
<1>2. q \in Int /\ e \in Int
  BY <1>1 DEF Position
<1>3. /\ cash' = cash + p * q
      /\ positions' = [positions EXCEPT ![s] = Flat]
      /\ trades' = Append(trades, TradeOf(s, p))
      /\ TradeOf(s, p) \in Trade /\ TradeOf(s, p).pnl = (p - e) * q
  BY CloseTyped DEF closeLong, notional, pnlOf, TradeOf
<1>4. costBasisOf(positions') = costBasisOf(positions) + (0 - e * q)
  BY <1>1, <1>3, CostBasisChanges, FlatCostsNothing
<1>5. realizedPnlOf(trades') = realizedPnlOf(trades) + (p - e) * q
  BY <1>1, <1>3, RealizedAppends
<1>6. /\ costBasisOf(positions) \in Int /\ realizedPnlOf(trades) \in Int
      /\ cash = StartingBalance - costBasisOf(positions) + realizedPnlOf(trades)
  BY <1>1, CostBasisType, RealizedType DEF CashBalances, RestoredCash
<1> HIDE DEF q, e
<1>7. /\ p * q = e * q + (p - e) * q
      /\ p * q \in Int /\ e * q \in Int /\ (p - e) * q \in Int
  BY <1>2, CloseCancels
<1> DEFINE proceeds == p * q
           cost     == e * q
           pnl      == (p - e) * q
<1>8. /\ proceeds = cost + pnl
      /\ proceeds \in Int /\ cost \in Int /\ pnl \in Int
      /\ cash' = cash + proceeds
      /\ costBasisOf(positions') = costBasisOf(positions) + (0 - cost)
      /\ realizedPnlOf(trades') = realizedPnlOf(trades) + pnl
  BY <1>3, <1>4, <1>5, <1>7
<1> HIDE DEF proceeds, cost, pnl
<1>9. cash' = StartingBalance - costBasisOf(positions') + realizedPnlOf(trades')
  BY <1>6, <1>8, BrokerAssumption
<1>10. QED
  BY <1>9 DEF CashBalances, RestoredCash

\* Cash is what a restart would derive from the open positions and the trades
\* (PaperBroker.js:148-178).
THEOREM BalanceIsDerived == BrokerSpec => []CashBalances
<1>1. BrokerInit => CashBalances
  BY DEF BrokerInit, Restored, CashBalances
<1>2. Typed /\ CashBalances /\ [BrokerNext]_brokerVars => CashBalances'
  <2> SUFFICES ASSUME Typed, CashBalances, [BrokerNext]_brokerVars
               PROVE  CashBalances'
    OBVIOUS
  <2>1. CASE UNCHANGED books
    BY <2>1 DEF books, CashBalances
  <2>2. ASSUME NEW s \in Symbols, NEW p \in Prices,
               BuyFills(s, p) \/ SellFills(s, p)
        PROVE  CashBalances'
    BY <2>2, OpenBalances, CloseBalances, BrokerAssumption DEF SellFills
  <2>3. ASSUME NEW s \in Symbols, marks[s] > 0 /\ closeLong(s, marks[s])
        PROVE  CashBalances'
    <3>1. marks[s] \in Nat
      BY DEF Typed, BrokerTypeOK
    <3>2. QED
      BY <2>3, <3>1, CloseBalances
  <2>4. \/ UNCHANGED books
        \/ \E s \in Symbols, p \in Prices : BuyFills(s, p) \/ SellFills(s, p)
        \/ \E s \in Symbols : marks[s] > 0 /\ closeLong(s, marks[s])
    BY DEF BrokerNext, mark, executeOrder, closeAllPositions, CloseNext, brokerVars, books
  <2>5. QED
    BY <2>1, <2>2, <2>3, <2>4
<1>3. QED
  BY InitTyped, NextTyped, <1>1, <1>2, PTL DEF BrokerSpec

-----------------------------------------------------------------------------
(***************************************************************************)
(* Trading conserves equity: a fill moves cash and the value of one        *)
(* position by amounts that cancel, at the mark the fill itself set        *)
(* (PaperBroker.js:53-120, equity 143-155).                                *)
(***************************************************************************)
Valued(ps, ms) ==
  [s \in Symbols |-> ps[s].quantity * (IF ms[s] = 0 THEN ps[s].entryPrice ELSE ms[s])]

LEMMA ValuedSummable ==
  ASSUME NEW ps \in [Symbols -> Position], NEW ms \in [Symbols -> Nat]
  PROVE  Summable(Valued(ps, ms)) /\ DOMAIN Valued(ps, ms) = Symbols
<1>1. \A s \in Symbols : ps[s].entryPrice \in Nat /\ ps[s].quantity \in Nat
  <2>1. \A s \in Symbols : ps[s] \in Position
    OBVIOUS
  <2>2. QED
    BY <2>1 DEF Position
<1>2. \A s \in Symbols : (IF ms[s] = 0 THEN ps[s].entryPrice ELSE ms[s]) \in Nat
  BY <1>1
<1>3. \A s \in Symbols : Valued(ps, ms)[s] \in Int
  BY <1>1, <1>2 DEF Valued
<1>4. QED
  BY <1>3, BrokerAssumption DEF Valued, Summable

LEMMA MarketValueType ==
  ASSUME NEW ps \in [Symbols -> Position], NEW ms \in [Symbols -> Nat]
  PROVE  marketValueOf(ps, ms) \in Int
BY ValuedSummable, SumType DEF marketValueOf, Valued

\* The position of s changes where its mark is known, or from or to Flat.
LEMMA MarketValueChanges ==
  ASSUME NEW ps \in [Symbols -> Position], NEW ms \in [Symbols -> Nat],
         NEW s \in Symbols, NEW pos \in Position, ms[s] # 0
  PROVE  marketValueOf([ps EXCEPT ![s] = pos], ms)
           = marketValueOf(ps, ms) + (pos.quantity * ms[s] - ps[s].quantity * ms[s])
<1> DEFINE qs == [ps EXCEPT ![s] = pos]
<1>1. qs \in [Symbols -> Position] /\ qs[s] = pos /\ \A r \in Symbols \ {s} : qs[r] = ps[r]
  OBVIOUS
<1> HIDE DEF qs
<1>2. /\ Valued(qs, ms)[s] = pos.quantity * ms[s]
      /\ Valued(ps, ms)[s] = ps[s].quantity * ms[s]
      /\ \A r \in Symbols \ {s} : Valued(qs, ms)[r] = Valued(ps, ms)[r]
  BY <1>1 DEF Valued
<1>3. SumFunction(Valued(qs, ms))
        = SumFunction(Valued(ps, ms)) + (Valued(qs, ms)[s] - Valued(ps, ms)[s])
  BY <1>1, <1>2, ValuedSummable, SumChanges
<1>4. /\ marketValueOf(qs, ms) = SumFunction(Valued(qs, ms))
      /\ marketValueOf(ps, ms) = SumFunction(Valued(ps, ms))
  BY DEF marketValueOf, Valued
<1>5. QED
  BY <1>2, <1>3, <1>4 DEF qs

Conserved == cash' + marketValueOf(positions', marks') = cash + marketValueOf(positions, marks')

LEMMA OpenConserves ==
  ASSUME Typed, NEW s \in Symbols, NEW p \in Nat, BuyFills(s, p),
         marks' \in [Symbols -> Nat], marks'[s] = p
  PROVE  Conserved
<1> DEFINE q   == affordableUnits(cash, p)
           pos == [quantity |-> q, entryPrice |-> p]
<1>1. cash \in Nat /\ positions \in [Symbols -> Position] /\ p # 0
  BY DEF Typed, BrokerTypeOK, CashNeverNegative, BuyFills, CanOpen
<1>2. q \in Nat
  BY <1>1, AffordableType
<1>3. cash' = cash - p * q /\ positions' = [positions EXCEPT ![s] = pos]
  BY DEF BuyFills, openLong, notional
<1>4. positions[s].quantity = 0
  <2>1. positions[s] \in Position
    BY <1>1
  <2>2. QED
    BY <2>1 DEF BuyFills, CanOpen, hasPosition, Position
<1> HIDE DEF q
<1>5. /\ pos \in Position
      /\ pos.quantity * marks'[s] = p * q /\ positions[s].quantity * marks'[s] = 0
  BY <1>2, <1>4 DEF Position
<1> HIDE DEF pos
<1>6. marketValueOf(positions', marks')
        = marketValueOf(positions, marks') + (p * q - 0)
  BY <1>1, <1>3, <1>4, <1>5, MarketValueChanges
<1>7. marketValueOf(positions, marks') \in Int /\ p * q \in Int
  BY <1>1, <1>2, MarketValueType
<1> DEFINE cost == p * q
<1>8. /\ cash' = cash - cost /\ cost \in Int
      /\ marketValueOf(positions', marks') = marketValueOf(positions, marks') + (cost - 0)
  BY <1>3, <1>6, <1>7
<1> HIDE DEF cost
<1>9. QED
  BY <1>1, <1>7, <1>8 DEF Conserved

LEMMA CloseConserves ==
  ASSUME Typed, NEW s \in Symbols, NEW p \in Nat, closeLong(s, p), p > 0,
         marks' \in [Symbols -> Nat], marks'[s] = p
  PROVE  Conserved
<1> DEFINE q == positions[s].quantity
<1>1. cash \in Nat /\ positions \in [Symbols -> Position] /\ marks'[s] # 0
  BY DEF Typed, BrokerTypeOK, CashNeverNegative
<1>2. q \in Nat
  BY <1>1 DEF Position
<1>3. cash' = cash + p * q /\ positions' = [positions EXCEPT ![s] = Flat]
  BY DEF closeLong, notional
<1>4. /\ Flat \in Position
      /\ Flat.quantity * marks'[s] = 0 /\ positions[s].quantity * marks'[s] = p * q
  BY <1>2 DEF Flat, Position
<1> HIDE DEF q
<1>5. marketValueOf(positions', marks')
        = marketValueOf(positions, marks') + (0 - p * q)
  <2> HIDE DEF Flat
  <2>1. marketValueOf([positions EXCEPT ![s] = Flat], marks')
          = marketValueOf(positions, marks')
              + (Flat.quantity * marks'[s] - positions[s].quantity * marks'[s])
    BY <1>1, <1>4, MarketValueChanges
  <2>2. QED
    BY <1>3, <1>4, <2>1
<1>6. marketValueOf(positions, marks') \in Int /\ p * q \in Int
  BY <1>1, <1>2, MarketValueType
<1> DEFINE proceeds == p * q
<1>7. /\ cash' = cash + proceeds /\ proceeds \in Int
      /\ marketValueOf(positions', marks') = marketValueOf(positions, marks') + (0 - proceeds)
  BY <1>3, <1>5, <1>6
<1> HIDE DEF proceeds
<1>8. QED
  BY <1>1, <1>6, <1>7 DEF Conserved

\* No fill creates or destroys money: equity moves only with a price
\* (PaperBroker.js:66-119, 121-124).
THEOREM TradingConservesEquity == BrokerSpec => EquityOnlyMovesWithPrices
<1>1. Typed /\ [BrokerNext]_brokerVars => [Conserved]_brokerVars
  <2> SUFFICES ASSUME Typed, BrokerNext
               PROVE  Conserved
    OBVIOUS
  <2>1. CASE UNCHANGED books
    BY <2>1 DEF books, Conserved
  <2>2. ASSUME NEW s \in Symbols, NEW p \in Prices, marks' = Marked(s, p),
               BuyFills(s, p) \/ SellFills(s, p)
        PROVE  Conserved
    <3>1. p \in Nat /\ p > 0
      BY <2>2, BrokerAssumption DEF BuyFills, CanOpen, SellFills
    <3>2. marks' \in [Symbols -> Nat] /\ marks'[s] = p
      BY <2>2, <3>1, MarkedType DEF Marked, Typed, BrokerTypeOK
    <3>3. QED
      BY <2>2, <3>1, <3>2, OpenConserves, CloseConserves DEF SellFills
  <2>3. ASSUME NEW s \in Symbols, marks[s] > 0 /\ closeLong(s, marks[s]), marks' = marks
        PROVE  Conserved
    <3>1. marks \in [Symbols -> Nat] /\ marks[s] \in Nat
      BY DEF Typed, BrokerTypeOK
    <3>2. QED
      BY <2>3, <3>1, CloseConserves
  <2>4. \/ UNCHANGED books
        \/ \E s \in Symbols, p \in Prices :
             marks' = Marked(s, p) /\ (BuyFills(s, p) \/ SellFills(s, p))
        \/ \E s \in Symbols : marks[s] > 0 /\ closeLong(s, marks[s]) /\ marks' = marks
    BY DEF BrokerNext, mark, executeOrder, closeAllPositions, CloseNext, books
  <2>5. QED
    BY <2>1, <2>2, <2>3, <2>4
<1>2. QED
  BY InitTyped, NextTyped, <1>1, PTL
  DEF BrokerSpec, EquityOnlyMovesWithPrices, Conserved

-----------------------------------------------------------------------------
(***************************************************************************)
(* Trade ids are never reused within the life of a broker, and never clash *)
(* with a restored row (PaperBroker.js:97,168).                            *)
(***************************************************************************)
LEMMA CloseKeepsIdsUnique ==
  ASSUME Typed, TradeIdsUnique, NEW s \in Symbols, NEW p \in Nat, closeLong(s, p)
  PROVE  TradeIdsUnique'
<1>1. /\ trades' = Append(trades, TradeOf(s, p))
      /\ nextTradeId' = nextTradeId + 1
      /\ TradeOf(s, p) \in Trade
  BY CloseTyped
<1>2. TradeOf(s, p).id = nextTradeId
  BY DEF TradeOf
<1>3. trades \in Seq(Trade) /\ nextTradeId \in Nat
  BY DEF Typed, BrokerTypeOK
<1>4. \A i \in DOMAIN trades : trades[i].id \in Nat
  <2>1. \A i \in DOMAIN trades : trades[i] \in Trade
    BY <1>3
  <2>2. QED
    BY <2>1 DEF Trade
<1> DEFINE new == TradeOf(s, p)
<1> HIDE DEF new
<1>5. /\ DOMAIN trades' = DOMAIN trades \cup {Len(trades) + 1}
      /\ \A i \in DOMAIN trades : trades'[i] = trades[i]
      /\ trades'[Len(trades) + 1].id = nextTradeId
  BY <1>1, <1>2, <1>3 DEF new
<1>6. Len(trades) + 1 \notin DOMAIN trades
  BY <1>3
<1>7. \A i \in DOMAIN trades : trades[i].id < nextTradeId
  BY DEF TradeIdsUnique
<1>8. \A i, j \in DOMAIN trades : i # j => trades[i].id # trades[j].id
  BY DEF TradeIdsUnique
<1>9. \A i \in DOMAIN trades' : trades'[i].id < nextTradeId'
  BY <1>1, <1>3, <1>4, <1>5, <1>7
<1>10. \A i, j \in DOMAIN trades' : i # j => trades'[i].id # trades'[j].id
  BY <1>3, <1>4, <1>5, <1>6, <1>7, <1>8
<1>11. QED
  BY <1>9, <1>10 DEF TradeIdsUnique

\* An id is never given to two trades, from any restored table
\* (PaperBroker.js:94-106, 168).
THEOREM IdsNeverReused == BrokerSpec => []TradeIdsUnique
<1>1. BrokerInit => TradeIdsUnique
  <2> SUFFICES ASSUME NEW b \in Books, Restored(b)
               PROVE  TradeIdsUnique
    BY DEF BrokerInit
  <2>1. /\ trades = b.trades
        /\ \A i \in DOMAIN b.trades : b.trades[i].id < nextTradeId
    BY DEF Restored, IsNextTradeId
  <2>2. \A i, j \in DOMAIN b.trades : i # j => b.trades[i].id # b.trades[j].id
    BY BooksAssumption
  <2>3. QED
    BY <2>1, <2>2 DEF TradeIdsUnique
<1>2. Typed /\ TradeIdsUnique /\ [BrokerNext]_brokerVars => TradeIdsUnique'
  <2> SUFFICES ASSUME Typed, TradeIdsUnique, [BrokerNext]_brokerVars
               PROVE  TradeIdsUnique'
    OBVIOUS
  <2>1. CASE UNCHANGED <<trades, nextTradeId>>
    BY <2>1 DEF TradeIdsUnique
  <2>2. ASSUME NEW s \in Symbols, NEW p \in Nat, closeLong(s, p)
        PROVE  TradeIdsUnique'
    BY <2>2, CloseKeepsIdsUnique
  <2>3. \/ UNCHANGED <<trades, nextTradeId>>
        \/ \E s \in Symbols, p \in Prices : closeLong(s, p)
        \/ \E s \in Symbols : closeLong(s, marks[s])
    BY DEF BrokerNext, mark, executeOrder, BuyFills, openLong, SellFills,
           closeAllPositions, CloseNext, brokerVars, books
  <2>4. QED
    BY <2>1, <2>2, <2>3, BrokerAssumption DEF Typed, BrokerTypeOK
<1>3. QED
  BY InitTyped, NextTyped, <1>1, <1>2, PTL DEF BrokerSpec

-----------------------------------------------------------------------------
(***************************************************************************)
(* While the account fits in the integers a double holds exactly, the      *)
(* second INSUFFICIENT_FUNDS check of #openLong can never be the one that  *)
(* rejects: "unreachable by construction" is true in that range.           *)
(***************************************************************************)
THEOREM OverdraftCheckUnreachableWhenExact ==
  ASSUME NEW c \in Nat, NEW p \in Nat \ {0}, c \div p <= MaxSafe
  PROVE  notional(p, affordableUnits(c, p)) <= c
BY QuotientFits DEF affordableUnits, ToNumber, notional

-----------------------------------------------------------------------------
(***************************************************************************)
(* Money: texts and amounts, at every scale (money.js).                    *)
(***************************************************************************)
LEMMA FactorType == FACTOR \in Nat \ {0}
BY ScaleAssumption DEF FACTOR

LEMMA Euclid ==
  ASSUME NEW a \in Int, NEW f \in Int, f > 0,
         NEW d \in Int, d = a \div f, NEW m \in Int, m = a % f
  PROVE  f * d + m = a
OBVIOUS

LEMMA DivMod ==
  ASSUME NEW a \in Nat, NEW f \in Nat \ {0}
  PROVE  \E d, m \in Nat : d = a \div f /\ m = a % f /\ f * d + m = a
<1>1. a \div f \in Nat /\ a % f \in Nat
  OBVIOUS
<1>2. PICK d \in Nat, m \in Nat : d = a \div f /\ m = a % f
  BY <1>1
<1>3. f * d + m = a
  BY <1>2, Euclid
<1>4. QED
  BY <1>2, <1>3

(***************************************************************************)
(* formatMoney writes every digit parseMoney needs: no amount changes by   *)
(* being stored and read back, whatever its sign (money.js:32-67).         *)
(***************************************************************************)
THEOREM FormatThenParse ==
  ASSUME NEW x \in Int
  PROVE  /\ formatMoney(x) \in Decimal
         /\ ~HasExcess(formatMoney(x))
         /\ parseMoney(formatMoney(x)) = x
<1> DEFINE a == IF x < 0 THEN -x ELSE x
           t == formatMoney(x)
<1>1. a \in Nat
  OBVIOUS
<1>2. PICK d \in Nat, m \in Nat :
        d = a \div FACTOR /\ m = a % FACTOR /\ FACTOR * d + m = a
  BY <1>1, FactorType, DivMod
<1>3. t = [negative |-> x < 0, whole |-> d, fraction |-> m, places |-> Scale]
  BY <1>2 DEF formatMoney
<1> HIDE DEF t
<1>4. t \in Decimal
  BY <1>3, ScaleAssumption DEF Decimal
<1>5. t.whole = d /\ t.fraction = m /\ t.places = Scale
  BY <1>3
<1>6. t.negative <=> x < 0
  BY <1>3, Zenon
<1>7. ~HasExcess(t)
  BY <1>5, ScaleAssumption DEF HasExcess
<1>8. Padded(t) = m
  BY <1>5, ScaleAssumption DEF Padded
<1>9. t.whole * FACTOR + Padded(t) = a
  <2>1. d * FACTOR + m = a
    BY <1>2, FactorType
  <2>2. QED
    BY <1>5, <1>8, <2>1
<1>10. parseMoney(t) = x
  BY <1>6, <1>9 DEF parseMoney
<1>11. QED
  BY <1>4, <1>7, <1>10 DEF t

-----------------------------------------------------------------------------
(***************************************************************************)
(* parseMoney returns exactly what the text denotes, or throws: a fraction *)
(* with too few digits is scaled up, and one with too many is divided only *)
(* when nothing is lost (money.js:42-56).                                  *)
(***************************************************************************)
THEOREM ParseIsExact == \A t \in Texts : IsExact(t)
<1> SUFFICES ASSUME NEW t \in Texts, ~HasExcess(t)
             PROVE  parseMoney(t) * Pow10[t.places] = Denoted(t)
  BY DEF IsExact
<1> DEFINE w == t.whole
           f == t.fraction
           p == t.places
           g == Padded(t)
<1>1. t \in Decimal /\ p \in DOMAIN Pow10
  BY TextsAssumption
<1>2. w \in Nat /\ f \in Nat /\ p \in Nat
  BY <1>1 DEF Decimal
<1>3. Pow10[p] \in Nat \ {0} /\ FACTOR \in Nat \ {0}
  BY <1>1, ScaleAssumption, FactorType
<1>4. g \in Nat /\ g * Pow10[p] = f * FACTOR
  <2>1. CASE p > Scale
    <3> DEFINE c == Pow10[p - Scale]
    <3>1. c \in Nat \ {0} /\ p - Scale \in DOMAIN Pow10
      BY <2>1, ScaleAssumption, TextsAssumption
    <3>2. f % c = 0
      BY <2>1 DEF HasExcess
    <3>3. PICK d \in Nat, m \in Nat : d = f \div c /\ m = f % c /\ c * d + m = f
      BY <1>2, <3>1, DivMod
    <3>4. g = d /\ f = c * d
      BY <2>1, <3>1, <3>2, <3>3 DEF Padded
    <3>5. Pow10[p] = c * FACTOR
      <4>1. (p - Scale) + Scale = p
        BY <1>2, ScaleAssumption
      <4>2. QED
        BY <1>1, <3>1, <4>1, PowersAssumption, ScaleAssumption DEF FACTOR
    <3> HIDE DEF c, g
    <3>6. d * (c * FACTOR) = (c * d) * FACTOR
      BY <1>3, <3>1, <3>3
    <3>7. QED
      BY <3>3, <3>4, <3>5, <3>6
  <2>2. CASE ~(p > Scale)
    <3> DEFINE c == Pow10[Scale - p]
    <3>1. c \in Nat \ {0} /\ Scale - p \in DOMAIN Pow10
      BY <2>2, ScaleAssumption, TextsAssumption
    <3>2. FACTOR = c * Pow10[p]
      <4>1. (Scale - p) + p = Scale
        BY <1>2, ScaleAssumption
      <4>2. QED
        BY <1>1, <3>1, <4>1, PowersAssumption, ScaleAssumption DEF FACTOR
    <3>3. g = f * c
      BY <2>2 DEF Padded
    <3> HIDE DEF c, g
    <3>4. (f * c) * Pow10[p] = f * (c * Pow10[p]) /\ f * c \in Nat
      BY <1>2, <1>3, <3>1
    <3>5. QED
      BY <3>2, <3>3, <3>4
  <2>3. QED
    BY <2>1, <2>2
<1> DEFINE a == w * FACTOR + g
           b == (w * Pow10[p] + f) * FACTOR
<1>5. a * Pow10[p] = b
  <2> HIDE DEF g
  <2>1. (w * FACTOR + g) * Pow10[p] = (w * Pow10[p]) * FACTOR + g * Pow10[p]
    BY <1>2, <1>3, <1>4
  <2>2. (w * Pow10[p] + f) * FACTOR = (w * Pow10[p]) * FACTOR + f * FACTOR
    BY <1>2, <1>3
  <2>3. QED
    BY <1>4, <2>1, <2>2
<1>6. a \in Nat
  BY <1>2, <1>3, <1>4
<1>7. (-a) * Pow10[p] = -b
  <2> HIDE DEF a, b
  <2>1. (-a) * Pow10[p] = -(a * Pow10[p])
    BY <1>3, <1>6
  <2>2. QED
    BY <1>5, <2>1
<1>8. /\ parseMoney(t) = IF t.negative THEN -a ELSE a
      /\ Denoted(t) = IF t.negative THEN -b ELSE b
  BY DEF parseMoney, Denoted
<1> HIDE DEF a, b, g
<1>9. CASE t.negative
  BY <1>7, <1>8, <1>9
<1>10. CASE ~t.negative
  BY <1>5, <1>8, <1>10
<1>11. QED
  BY <1>9, <1>10

\* Whatever text a mark comes from, it is the amount the text denotes.
THEOREM MarksStayExact == BrokerSpec => []MarksAreExact
<1>1. MarksAreExact
  BY ParseIsExact DEF MarksAreExact
<1>2. QED
  BY <1>1, PTL

-----------------------------------------------------------------------------
LEMMA StoredType == BrokerTypeOK => \A x \in Stored : x \in Int
<1> SUFFICES ASSUME BrokerTypeOK, NEW x \in Stored PROVE x \in Int
  OBVIOUS
<1>1. CASE \E s \in Symbols : x \in PositionAmounts(s)
  <2>1. PICK s \in Symbols : x = positions[s].entryPrice
    BY <1>1 DEF PositionAmounts
  <2>2. positions[s] \in Position
    BY DEF BrokerTypeOK
  <2>3. QED
    BY <2>1, <2>2 DEF Position
<1>2. CASE \E i \in DOMAIN trades : x \in TradeAmounts(i)
  <2>1. PICK i \in DOMAIN trades : x \in TradeAmounts(i)
    BY <1>2
  <2>2. trades[i] \in Trade
    BY DEF BrokerTypeOK
  <2>3. QED
    BY <2>1, <2>2 DEF TradeAmounts, Trade
<1>3. QED
  BY <1>1, <1>2 DEF Stored

(***************************************************************************)
(* Whatever the books come to hold by trading, from any restored tables,   *)
(* their rows are read back by the next process as the same amounts.       *)
(***************************************************************************)
THEOREM StoredAmountsKept == BrokerSpec => []StoredAmountsAreStable
<1>1. BrokerTypeOK => StoredAmountsAreStable
  <2> SUFFICES ASSUME BrokerTypeOK, NEW x \in Stored
               PROVE  ~HasExcess(formatMoney(x)) /\ parseMoney(formatMoney(x)) = x
    BY DEF StoredAmountsAreStable
  <2>1. x \in Int
    BY StoredType
  <2>2. QED
    BY <2>1, FormatThenParse
<1>2. QED
  BY BrokerTyping, <1>1, PTL
=============================================================================
