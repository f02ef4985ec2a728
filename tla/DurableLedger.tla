--------------------------- MODULE DurableLedger ---------------------------
(***************************************************************************)
(* What the paper-trading account promises: one ledger that trades move,   *)
(* and a durable copy of it that a restart resumes from.  A crash may lose *)
(* the last fill, and never anything else; the account is never overdrawn. *)
(***************************************************************************)
EXTENDS Integers

CONSTANTS Symbols, Prices

VARIABLES
  live,   \* the ledger in memory: [cash, held]
  saved   \* the ledger a restart would resume

NoHolding == [quantity |-> 0, entryPrice |-> 0]

ledgerVars == <<live, saved>>

Init == live = saved /\ live.cash >= 0

Buy(s) ==
  /\ live.held[s] = NoHolding
  /\ \E p \in Prices, q \in 1..live.cash :
       /\ p > 0 /\ p * q <= live.cash
       /\ live' = [cash |-> live.cash - p * q,
                   held |-> [live.held EXCEPT ![s] = [quantity |-> q, entryPrice |-> p]]]
  /\ UNCHANGED saved

Sell(s) ==
  /\ live.held[s] # NoHolding
  /\ \E p \in Prices :
       /\ p > 0
       /\ live' = [cash |-> live.cash + p * live.held[s].quantity,
                   held |-> [live.held EXCEPT ![s] = NoHolding]]
  /\ UNCHANGED saved

\* The next fill waits for the last one to be durable.
Fill == saved = live /\ \E s \in Symbols : Buy(s) \/ Sell(s)

Save == saved' = live /\ UNCHANGED live

Crash == live' = saved /\ UNCHANGED saved

Spec == Init /\ [][Fill \/ Save \/ Crash]_ledgerVars
=============================================================================
