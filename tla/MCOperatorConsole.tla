------------------------- MODULE MCOperatorConsole -------------------------
(* A small instance of OperatorConsole: rules over one indicator, prices and *)
(* numbers, sections of at most two rows, limits just below what a draft and *)
(* the documents of another client reach.                                    *)
EXTENDS OperatorConsole, TLC

CONSTANTS EMA, RSI

Ind(v)   == [kind |-> "indicator", value |-> v]
Num(v)   == [kind |-> "const", value |-> v]
Price(v) == [kind |-> "price", value |-> v]

Row(l, o, r) == [left |-> l, op |-> o, right |-> r]
Above == <<"cross", "above">>
More  == <<"compare", ">">>

\* A rule that works, one half chosen, one that can never fire, and one whose
\* right side became a number and kept the text of the indicator.
MCRows == { Row(Ind("ema"), Above, Price("close")), Row(Ind("ema"), Above, Ind("")),
            Row(Num("7"), Above, Num("")), Row(Price("close"), More, Num("ema")) }

MCNames    == {"", "a", "B "}
MCTrim     == [n \in {"", "a", "b", "c", "B ", "B"} |-> IF n = "B " THEN "B" ELSE n]
MCLower    == [n \in {"a", "b", "B", "long", "c"} |-> IF n = "B" THEN "b" ELSE n]
MCNumberOf == "" :> 0 @@ "7" :> 7 @@ "0" :> 0 @@ "ema" :> Junk
MCTextOf   == 0 :> "0" @@ 7 :> "7"

Budget(e, b, w, c, r, a, h, n) ==
  [edit |-> e, builder |-> b, writers |-> w, control |-> c, traders |-> r, account |-> a,
   history |-> h, candles |-> n]

\* A long session in the builder, two edits with their checks, other operators who
\* write the rules meanwhile, every way to start and stop a strategy, the account, and
\* the indicator lines, from a table that is warming up and from one that has.
MCBudgets == { Budget(1, 3, 0, 0, 0, 0, 0, 0), Budget(2, 1, 0, 0, 0, 0, 0, 0),
               Budget(0, 2, 1, 0, 0, 0, 0, 0), Budget(0, 1, 0, 2, 1, 0, 0, 0),
               Budget(0, 0, 0, 0, 0, 5, 0, 0),
               Budget(0, 0, 0, 0, 0, 0, 3, 3), Budget(0, 0, 0, 0, 0, 0, 5, 3) }

\* The periods, in their order, on windows short enough to run through: the slowest
\* line needs five candles, and the warm-up is just enough for it.
MCPeriods ==
  [SMA_FAST |-> 3, SMA_SLOW |-> 5, EMA_VERY_FAST |-> 2, EMA_MEDIUM |-> 4, EMA_FAST |-> 3,
   EMA_SLOW |-> 5, RSI |-> 2, MACD_FAST |-> 2, MACD_SLOW |-> 4, MACD_SIGNAL |-> 2,
   BOLLINGER |-> 3, ATR |-> 2, STOCHASTIC |-> 2, STOCHASTIC_SIGNAL |-> 2, WILLIAMS_R |-> 2,
   CCI |-> 3, ROC |-> 2, STDDEV |-> 3, VWAP |-> 2, MFI |-> 2, CMF |-> 3, VOLUME_SMA |-> 3,
   HISTORICAL_VOLATILITY |-> 3]

Leaf == [compare |-> ">", left |-> [price |-> "close"], right |-> [indicator |-> "ema"]]

Doc(name, tree) ==
  [name |-> name, timeframe |-> "1m", entry |-> <<"entry", 0>>, exit |-> <<"exit", 0>>, tree |-> tree]

Tree(entry, exit) ==
  [p \in {<<"entry", i - 1>> : i \in DOMAIN entry} \cup {<<"exit", i - 1>> : i \in DOMAIN exit} |->
     IF p[1] = "entry" THEN entry[p[2] + 1] ELSE exit[p[2] + 1]]

Any1 == <<[any |-> << <<"exit", 1>> >>], Leaf>>

Simple == Tree(<<[all |-> << <<"entry", 1>> >>], Leaf>>, Any1)

With(field, value, d) == [f \in DOMAIN d \cup {field} |-> IF f = field THEN value ELSE d[f]]

Negated(leaf) == Tree(<<[not |-> <<"entry", 1>>], leaf>>, Any1)

MCInitialTable == 1 :> Doc("a", Simple)

\* What another client sends: one document that nests, one with a param that an
\* edit would lose, and documents with one fault each.
MCApiDocuments ==
  { Doc("b", Negated(Leaf)),
    With("params", "stop" :> 7,
         Doc("b", Tree(<<[all |-> << <<"entry", 1>> >>],
                         [Leaf EXCEPT !.right = [param |-> "stop"]]>>, Any1))),
    Doc("b", Negated([Leaf EXCEPT !.right = [param |-> "stop"]])),
    Doc("b", Negated([Leaf EXCEPT !.compare = "=>"])),
    Doc("b", Negated([all |-> <<>>])),
    Doc("b", Negated([all |-> Junk])),
    Doc("b", Negated([p \in {"all", "any"} |-> <<>>])),
    Doc("b", Negated([cross |-> "above", left |-> [price |-> "close"]])),
    Doc("b", Tree(<<[not |-> <<"entry", 1>>], [not |-> <<"entry", 2>>],
                    [not |-> <<"entry", 3>>], Leaf>>, Any1)),
    Doc("long", Simple), With("timeframe", "7m", Doc("b", Simple)),
    With("extra", 0, Doc("b", Simple)), With("params", Junk, Doc("b", Simple)),
    With("params", "x" :> 1 @@ "y" :> 1, Doc("b", Simple)) }
=============================================================================
