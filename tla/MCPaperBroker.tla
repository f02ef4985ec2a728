--------------------------- MODULE MCPaperBroker ---------------------------
(* Small instances of PaperBroker for TLC; prices are cents (scale 2). *)
EXTENDS MoneyColumn, TLC

CONSTANTS btc, eth

MCSymbols == {btc, eth}
MCPow10   == [k \in 0..3 |-> CASE k = 0 -> 1 [] k = 1 -> 10 [] k = 2 -> 100 [] k = 3 -> 1000]

\* "0", "0.01", "0.010", "0.03", "0.015", "-0.01", "0.030", ... with up to three digits.
MCTexts ==
  UNION { [negative : BOOLEAN, whole : {0, 1},
           fraction : {f \in {0, 1, 3, 5, 10, 15, 30, 35, 100} : f < MCPow10[k]},
           places : {k}] : k \in 0..3 }

FlatBooks == [s \in MCSymbols |-> Flat]
Closed(n, s, entry, exit) ==
  [id |-> n, symbol |-> s, quantity |-> 1, entryPrice |-> entry, exitPrice |-> exit,
   pnl |-> exit - entry]

\* An empty account, one with an open position and a trade whose id left a hole,
\* and one whose open position belongs to a symbol of an earlier configuration.
MCBooks ==
  { [positions |-> FlatBooks, trades |-> <<>>],
    [positions |-> [FlatBooks EXCEPT ![btc] = [quantity |-> 2, entryPrice |-> 2]],
     trades |-> <<Closed(3, btc, 1, 2)>>],
    [positions |-> [FlatBooks EXCEPT ![eth] = [quantity |-> 1, entryPrice |-> 3]],
     trades |-> <<Closed(2, eth, 3, 1)>>] }
=============================================================================
