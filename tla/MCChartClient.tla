--------------------------- MODULE MCChartClient ---------------------------
(* A small instance of ChartClient for TLC: two timeframes, one twice as     *)
(* long as the other.                                                        *)
EXTENDS ChartClient

MCTimeframes == {"1m", "2m"}
MCWidth      == [tf \in MCTimeframes |-> IF tf = "1m" THEN 1 ELSE 2]
=============================================================================
