-------------------------- MODULE MCStrategyRunner --------------------------
(* Small instances of StrategyRunner for TLC: one streamed symbol, and one   *)
(* that only a row of an earlier configuration may hold.                     *)
EXTENDS StrategyRunner, TLC

CONSTANTS btc, eth

MCSymbols  == {btc, eth}
MCStreamed == {btc}
MCPow10    == <<10, 100>> @@ (0 :> 1)

FlatBooks == [s \in MCSymbols |-> Flat]

MCBooks ==
  { [positions |-> FlatBooks, trades |-> <<>>],
    [positions |-> [FlatBooks EXCEPT ![eth] = [quantity |-> 1, entryPrice |-> 2]],
     trades |-> <<[id |-> 2, symbol |-> btc, quantity |-> 1, entryPrice |-> 2,
                   exitPrice |-> 1, pnl |-> -1]>>] }

MCEmptyBooks == { [positions |-> FlatBooks, trades |-> <<>>] }
=============================================================================
