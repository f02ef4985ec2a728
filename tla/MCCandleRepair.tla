--------------------------- MODULE MCCandleRepair ---------------------------
(* Small instances of CandleRepair for TLC. *)
EXTENDS CandleRepair

CONSTANTS m1, d1, BootBar

MCTwo == <<m1, d1>>

MCCap == [s \in Series |-> IF s = m1 THEN 3 ELSE 2]

\* The newest bar at boot of one series is one the exchange never had.
MCOutage == [s \in Series |-> IF s = d1 THEN {BootBar} ELSE {}]

\* The fast series closes three more bars, enough for a candle, a lost one and
\* the candle that shows the gap; the slow one closes none.
MCLastBar == [s \in Series |-> BootBar + (IF s = m1 THEN 3 ELSE 0)]

MCClosed == [s \in Series |-> BootBar]

\* One series that holds its newest bar and one that is empty.
MixedBoot ==
  { [held |-> [s \in Series |-> IF s = m1 THEN {BootBar} ELSE {}], closed |-> MCClosed] }
=============================================================================
