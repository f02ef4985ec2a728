---------------------------- MODULE PaperBroker ----------------------------
(***************************************************************************)
(* The virtual broker (server/src/PaperBroker.js): long only, one position *)
(* per symbol, whole units, perfect instant fills.  Every method is        *)
(* synchronous JavaScript, so every method is one atomic action; the loop  *)
(* of closeAllPositions is unrolled into one action per iteration, with    *)
(* every other action blocked while `liquidating' is not empty.            *)
(***************************************************************************)
EXTENDS Money, Sequences, FiniteSets, Functions

CONSTANTS
  Symbols,
  StartingBalance,   \* scaled cash of a new account
  Prices,            \* scaled prices an order or a mark may carry; 0 is unusable
  Books,             \* what the tables may hold at boot: [positions, trades]
  MaxTrades          \* bound: no order once this many trades are recorded

(***************************************************************************)
(* A position is the pair #openLong stores; no entry in the Map is Flat.   *)
(***************************************************************************)
Flat == [quantity |-> 0, entryPrice |-> 0]

Position == [quantity : Nat, entryPrice : Nat]

Trade == [id : Nat, symbol : Symbols, quantity : Nat,
          entryPrice : Nat, exitPrice : Nat, pnl : Int]

BUY  == "BUY"
SELL == "SELL"
MIN_QUANTITY == 1

costBasisOf(ps) == SumFunction([s \in Symbols |-> ps[s].entryPrice * ps[s].quantity])

realizedPnlOf(ts) == SumFunction([i \in DOMAIN ts |-> ts[i].pnl])

\* A symbol no price was seen for is valued at its entry price.
marketValueOf(ps, ms) ==
  SumFunction([s \in Symbols |->
    ps[s].quantity * (IF ms[s] = 0 THEN ps[s].entryPrice ELSE ms[s])])

\* Cash is derived from the tables, never stored.
RestoredCash_CountsMarkedValue(ps, ts) == StartingBalance + realizedPnlOf(ts)

RestoredCash(ps, ts) == StartingBalance - costBasisOf(ps) + realizedPnlOf(ts)

ASSUME BrokerAssumption ==
  /\ IsFiniteSet(Symbols)
  /\ StartingBalance \in Nat
  /\ Prices \subseteq Nat
  /\ MaxTrades \in Nat

\* The tables hold positions and trades of the types their columns have.
ASSUME BooksAssumption ==
  \A b \in Books :
    /\ b.positions \in [Symbols -> Position]
    /\ \A s \in Symbols : b.positions[s] = Flat \/ b.positions[s].quantity >= MIN_QUANTITY
    /\ b.trades \in Seq(Trade)
    /\ \A i, j \in DOMAIN b.trades : i # j => b.trades[i].id # b.trades[j].id

VARIABLES
  cash, positions, marks, trades, nextTradeId,
  liquidating   \* symbols closeAllPositions has still to visit

books      == <<cash, positions, trades, nextTradeId>>
brokerVars == <<cash, positions, marks, trades, nextTradeId, liquidating>>

hasPosition(s) == positions[s].quantity > 0

-----------------------------------------------------------------------------
\* nextTradeId = (greatest id in the table, or 0) + 1.
IsNextTradeId(n, ts) ==
  /\ n \in {1} \cup {ts[i].id + 1 : i \in DOMAIN ts}
  /\ \A i \in DOMAIN ts : ts[i].id < n

\* The constructor followed by restore(), the only way the server makes a broker.
Restored(b) ==
  /\ RestoredCash(b.positions, b.trades) >= 0
  /\ cash = RestoredCash(b.positions, b.trades)
  /\ positions = b.positions
  /\ trades = b.trades
  /\ nextTradeId \in {1} \cup {b.trades[i].id + 1 : i \in DOMAIN b.trades}
  /\ IsNextTradeId(nextTradeId, b.trades)
  /\ marks = [s \in Symbols |-> 0]
  /\ liquidating = {}

BrokerInit == \E b \in Books : Restored(b)

-----------------------------------------------------------------------------
Marked(s, p) == IF p > 0 THEN [marks EXCEPT ![s] = p] ELSE marks

\* mark: a price that is not positive leaves the last one in place.
mark(s, p) ==
  /\ liquidating = {}
  /\ marks' = Marked(s, p)
  /\ UNCHANGED <<books, liquidating>>

\* The conditions under which #openLong fills.
CanOpen_IgnoresHolding(s, p) ==
  LET q == affordableUnits(cash, p)
  IN  p > 0 /\ q >= MIN_QUANTITY /\ notional(p, q) <= cash

CanOpen_NoFloor(s, p) ==
  p > 0 /\ ~hasPosition(s) /\ affordableUnits(cash, p) >= MIN_QUANTITY

CanOpen_NoMinimum(s, p) ==
  p > 0 /\ ~hasPosition(s) /\ notional(p, affordableUnits(cash, p)) <= cash

CanOpen(s, p) ==
  LET q == affordableUnits(cash, p)
  IN  /\ p > 0
      /\ ~hasPosition(s)
      /\ q >= MIN_QUANTITY
      /\ notional(p, q) <= cash

openLong(s, p) ==
  LET q    == affordableUnits(cash, p)
      cost == notional(p, q)
  IN  /\ cash' = cash - cost
      /\ positions' = [positions EXCEPT ![s] = [quantity |-> q, entryPrice |-> p]]
      /\ UNCHANGED <<trades, nextTradeId>>

pnlOf_Inverted(pos, p) == (pos.entryPrice - p) * pos.quantity

pnlOf(pos, p) == (p - pos.entryPrice) * pos.quantity

TradeOf(s, p) ==
  [id |-> nextTradeId, symbol |-> s, quantity |-> positions[s].quantity,
   entryPrice |-> positions[s].entryPrice, exitPrice |-> p,
   pnl |-> pnlOf(positions[s], p)]

closeLong_ReusesId(s, p) ==
  /\ cash' = cash + notional(p, positions[s].quantity)
  /\ positions' = [positions EXCEPT ![s] = Flat]
  /\ trades' = Append(trades, TradeOf(s, p))
  /\ UNCHANGED nextTradeId

closeLong(s, p) ==
  /\ cash' = cash + notional(p, positions[s].quantity)
  /\ positions' = [positions EXCEPT ![s] = Flat]
  /\ trades' = Append(trades, TradeOf(s, p))
  /\ nextTradeId' = nextTradeId + 1

\* executeOrder: a rejected order moves the mark and nothing else.
BuyFills(s, p)  == CanOpen(s, p) /\ openLong(s, p)
SellFills(s, p) == p > 0 /\ hasPosition(s) /\ closeLong(s, p)

Rejects(signal, s, p) ==
  \/ p <= 0
  \/ signal = BUY  /\ ~CanOpen(s, p)
  \/ signal = SELL /\ ~hasPosition(s)

executeOrder(signal, p, s) ==
  /\ liquidating = {}
  /\ Len(trades) < MaxTrades
  /\ marks' = Marked(s, p)
  /\ liquidating' = liquidating
  /\ \/ signal = BUY  /\ BuyFills(s, p)
     \/ signal = SELL /\ SellFills(s, p)
     \/ Rejects(signal, s, p) /\ UNCHANGED books

\* closeAllPositions: the keys are copied before the loop.
closeAllPositions ==
  /\ liquidating = {}
  /\ Len(trades) < MaxTrades
  /\ liquidating' = {s \in Symbols : hasPosition(s)}
  /\ UNCHANGED <<books, marks>>

\* mutant: a position without a price ends the loop
CloseNext_StopsAtUnpriced(s) ==
  /\ s \in liquidating
  /\ \/ marks[s] = 0 /\ liquidating' = {} /\ UNCHANGED books
     \/ marks[s] > 0 /\ liquidating' = liquidating \ {s} /\ closeLong(s, marks[s])
  /\ UNCHANGED marks

CloseNext(s) ==
  /\ s \in liquidating
  /\ liquidating' = liquidating \ {s}
  /\ \/ marks[s] = 0 /\ UNCHANGED books            \* NO_MARK_PRICE
     \/ marks[s] > 0 /\ closeLong(s, marks[s])
  /\ UNCHANGED marks

BrokerNext ==
  \/ \E s \in Symbols, p \in Prices : mark(s, p)
  \/ \E signal \in {BUY, SELL}, s \in Symbols, p \in Prices : executeOrder(signal, p, s)
  \/ closeAllPositions
  \/ \E s \in Symbols : CloseNext(s)

BrokerSpec == BrokerInit /\ [][BrokerNext]_brokerVars

-----------------------------------------------------------------------------
BrokerTypeOK ==
  /\ cash \in Int
  /\ positions \in [Symbols -> Position]
  /\ \A s \in Symbols : positions[s] = Flat \/ positions[s].quantity >= MIN_QUANTITY
  /\ marks \in [Symbols -> Nat]
  /\ trades \in Seq(Trade)
  /\ nextTradeId \in Nat \ {0}
  /\ liquidating \subseteq Symbols

\* The balance floor: no sequence of orders, marks and liquidations overdraws
\* the account, whatever rounding the quantity went through (PaperBroker.js:62).
CashNeverNegative == cash >= 0

\* The running balance is the one restore() would derive from the positions that
\* are open and every trade (PaperBroker.js:156-171): a restart changes nothing.
CashBalances == cash = RestoredCash(positions, trades)

\* No two trades of one broker share an id, and the next id is above them all,
\* also after a restore from a table whose ids have holes.
TradeIdsUnique ==
  /\ \A i \in DOMAIN trades : trades[i].id < nextTradeId
  /\ \A i, j \in DOMAIN trades : i # j => trades[i].id # trades[j].id

\* Equity is conserved by trading: valued at the marks after the step, the
\* account is worth the same before it and after it.  Only prices change it.
EquityOnlyMovesWithPrices ==
  [][cash' + marketValueOf(positions', marks')
       = cash + marketValueOf(positions, marks')]_brokerVars

\* "Unreachable by construction" (PaperBroker.js:62): the units affordableUnits
\* returns never cost more than the cash they were computed from.
OverdraftCheckUnreachable ==
  \A p \in Prices : notional(p, affordableUnits(cash, p)) <= cash
=============================================================================
