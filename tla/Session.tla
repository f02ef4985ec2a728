------------------------------ MODULE Session ------------------------------
(* The parts of a browser session are checked together; in one behaviour only *)
(* so many events of each source happen.                                      *)
EXTENDS Integers

CONSTANT Budgets  \* bound: how often each source of events may act in one behaviour

ASSUME BudgetsAssumption ==
  \A b \in Budgets : {"account", "candles", "history"} \subseteq DOMAIN b /\ b \in [DOMAIN b -> Nat]

VARIABLE budget  \* what is left of one of them

Spend(source) == budget[source] > 0 /\ budget' = [budget EXCEPT ![source] = @ - 1]
=============================================================================
