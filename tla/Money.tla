------------------------------- MODULE Money -------------------------------
(***************************************************************************)
(* Exact money on scaled integers (server/src/utils/broker/money.js).      *)
(* A decimal text is abstracted to the four things parseMoney and          *)
(* formatMoney tell apart: its sign, its whole part, its fraction read as  *)
(* an integer and the number of fraction digits.  "-78.05" is              *)
(* [negative |-> TRUE, whole |-> 78, fraction |-> 5, places |-> 2].        *)
(***************************************************************************)
EXTENDS Integers

CONSTANTS
  Scale,    \* MONEY_SCALE: 8 in the code
  Pow10,    \* [0..n -> Nat], Pow10[k] = 10^k; 10 is a smaller base in a run
  MaxSafe   \* 2^53 - 1: above it a double no longer holds every integer

ASSUME ScaleAssumption ==
  /\ Scale \in Nat
  /\ 0 \in DOMAIN Pow10 /\ Scale \in DOMAIN Pow10 /\ Pow10[0] = 1
  /\ \A k \in DOMAIN Pow10 : k \in Nat /\ Pow10[k] \in Nat \ {0}

ASSUME MaxSafeAssumption == MaxSafe \in Nat

FACTOR == Pow10[Scale]

Decimal == [negative : BOOLEAN, whole : Nat, fraction : Nat, places : Nat]

(***************************************************************************)
(* parseMoney throws on a digit beyond the scale that is not zero, and     *)
(* otherwise pads or drops zeros to exactly Scale fraction digits.         *)
(***************************************************************************)
HasExcess_Truncates(t) == FALSE     \* mutant: the check on excess digits is lost

HasExcess(t) ==
  /\ t.places > Scale
  /\ t.fraction % Pow10[t.places - Scale] # 0

Padded(t) ==
  IF t.places > Scale THEN t.fraction \div Pow10[t.places - Scale]
                      ELSE t.fraction * Pow10[Scale - t.places]

parseMoney(t) ==
  LET scaled == t.whole * FACTOR + Padded(t)
  IN  IF t.negative THEN -scaled ELSE scaled

formatMoney_FloorsNegative(x) ==
  [negative |-> x < 0, whole |-> x \div FACTOR, fraction |-> x % FACTOR, places |-> Scale]

formatMoney(x) ==
  LET absolute == IF x < 0 THEN -x ELSE x
  IN  [negative |-> x < 0,
       whole    |-> absolute \div FACTOR,
       fraction |-> absolute % FACTOR,
       places   |-> Scale]

notional(price, quantity) == price * quantity

(***************************************************************************)
(* Number(bigint): exact up to MaxSafe; up to 2 * (MaxSafe + 1) doubles    *)
(* are the even integers, and an odd one rounds to the neighbour that is   *)
(* a multiple of four (ties to even).  Larger quotients are not modelled.  *)
(***************************************************************************)
ToNumber(n) ==
  IF n <= MaxSafe \/ n % 2 = 0 THEN n
  ELSE IF (n - 1) % 4 = 0 THEN n - 1 ELSE n + 1

affordableUnits(cash, price) ==
  IF price <= 0 THEN 0 ELSE ToNumber(cash \div price)
=============================================================================
