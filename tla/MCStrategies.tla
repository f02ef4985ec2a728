---------------------------- MODULE MCStrategies ----------------------------
(* Small instances of Strategies for TLC: a crossover written as a document, *)
(* and one that uses every kind of node and operand, with a cross behind a   *)
(* condition that may hide it from a candle.                                 *)
EXTENDS Strategies, TLC

Reads(key) == [kind |-> "indicator", value |-> key]
Close      == [kind |-> "price", value |-> "close"]
Const(n)   == [kind |-> "const", value |-> n]
Param(n)   == [kind |-> "param", value |-> n]

Cross(op, l, r)   == [kind |-> "cross", op |-> op, left |-> l, right |-> r]
Compare(op, l, r) == [kind |-> "compare", op |-> op, left |-> l, right |-> r]

Plain ==
  [params |-> <<>>,
   tree |-> "entry" :> Cross("above", Reads("fast"), Reads("slow"))
              @@ "exit" :> Cross("below", Reads("fast"), Reads("slow"))]

Mixed ==
  [params |-> "stop" :> 1,
   tree |-> "entry" :> [kind |-> "all", kids |-> <<"entry.all[0]", "entry.all[1]">>]
              @@ "entry.all[0]" :> Compare(">", Close, Param("stop"))
              @@ "entry.all[1]" :> Cross("above", Reads("fast"), Reads("slow"))
              @@ "exit" :> [kind |-> "any", kids |-> <<"exit.any[0]", "exit.any[1]", "exit.any[2]">>]
              @@ "exit.any[0]" :> Cross("below", Reads("fast"), Const(1))
              @@ "exit.any[1]" :> [kind |-> "not", kids |-> <<"exit.any[1].not">>]
              @@ "exit.any[1].not" :> Compare(">=", Reads("slow"), Const(1))
              @@ "exit.any[2]" :> Cross("above", Reads("slow"), Close)]

MCDocuments == <<Plain, Mixed>>
MCLines     == [ema |-> <<"fast", "slow">>, macd |-> <<"slow", "fast">>]
=============================================================================
