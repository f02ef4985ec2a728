--------------------------- MODULE MCEngineBridge ---------------------------
(* A small instance of EngineBridge for TLC: bars of one and of two units. *)
EXTENDS EngineBridge, TLC

CONSTANTS m1, m2

MCTimeframes == {m1, m2}
MCWidth      == (m1 :> 1) @@ (m2 :> 2)
=============================================================================
