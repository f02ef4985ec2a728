---------------------------- MODULE MoneyColumn ----------------------------
(***************************************************************************)
(* Amounts on their way through texts: a price arrives as a decimal text   *)
(* and is parsed (parseMoney), and every amount of the books is formatted  *)
(* (formatMoney, describe.js) for a NUMERIC column that the next process   *)
(* parses again (parsePositionRows, parseTradeRows of books.js).           *)
(***************************************************************************)
EXTENDS PaperBroker

CONSTANT Texts  \* the texts a price may arrive as

ASSUME TextsAssumption ==
  \A t \in Texts :
    /\ t \in Decimal
    /\ t.places \in DOMAIN Pow10
    /\ (IF t.places > Scale THEN t.places - Scale ELSE Scale - t.places) \in DOMAIN Pow10

ASSUME PowersAssumption ==
  \A k, l \in DOMAIN Pow10 : k + l \in DOMAIN Pow10 => Pow10[k + l] = Pow10[k] * Pow10[l]

\* The value a decimal text denotes, times FACTOR * 10^places.
Denoted(t) ==
  LET magnitude == (t.whole * Pow10[t.places] + t.fraction) * FACTOR
  IN  IF t.negative THEN -magnitude ELSE magnitude

IsExact(t) == ~HasExcess(t) => parseMoney(t) * Pow10[t.places] = Denoted(t)

\* The amounts describePosition and describeTrade write into the tables.
PositionAmounts(s) == {positions[s].entryPrice}
TradeAmounts(i)    == {trades[i].entryPrice, trades[i].exitPrice, trades[i].pnl}

Stored ==
  (UNION {PositionAmounts(s) : s \in Symbols}) \cup (UNION {TradeAmounts(i) : i \in DOMAIN trades})

-----------------------------------------------------------------------------
\* A price is never rounded on its way in: whatever text a mark was parsed from,
\* it is exactly the amount the text denotes, at every sign and every number of
\* digits ("refusing to truncate money", money.js:47).
MarksAreExact ==
  \A s \in Symbols, t \in Texts :
    marks[s] > 0 /\ parseMoney(t) = marks[s] => IsExact(t)

\* Every amount the books can hold, losses included, is written to its column
\* as a text that the next process accepts and reads back as the same amount.
StoredAmountsAreStable ==
  \A x \in Stored : ~HasExcess(formatMoney(x)) /\ parseMoney(formatMoney(x)) = x
=============================================================================
