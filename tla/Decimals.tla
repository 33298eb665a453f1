------------------------------ MODULE Decimals -------------------------------
(***************************************************************************)
(* internal/decimal: exact decimal arithmetic and ECMA-402 rounding.  A    *)
(* finite Decimal is its sign, kept apart so that zero can be negative,    *)
(* and coeff * 10^exp with coeff a natural number.                         *)
(***************************************************************************)
EXTENDS Integers

Decimal == [negative : BOOLEAN, coeff : Nat, exp : Int]

RoundingModes == {"ceil", "floor", "expand", "trunc", "halfCeil", "halfFloor",
                  "halfExpand", "halfTrunc", "halfEven"}

RoundingIncrements == {1, 2, 5, 10, 20, 25, 50, 100, 200, 250, 500, 1000, 2000, 2500, 5000}

NewDecimal(coeff, exp) == [negative |-> FALSE, coeff |-> coeff, exp |-> exp]

IsZero(x) == x.coeff = 0
Abs(x) == [x EXCEPT !.negative = FALSE]
WithSign(x, negative) == [x EXCEPT !.negative = negative]
Scale10(x, exp) == [x EXCEPT !.exp = @ + exp]
MulInt(x, n) ==
  [negative |-> x.negative # (n < 0), coeff |-> x.coeff * (IF n < 0 THEN -n ELSE n), exp |-> x.exp]

LesserOf(m, n)  == IF m < n THEN m ELSE n
GreaterOf(m, n) == IF m < n THEN n ELSE m

PowerOfTen[exp \in Nat] == IF exp = 0 THEN 1 ELSE 10 * PowerOfTen[exp - 1]

\* The magnitude of x as a multiple of 10^exp, for exp no larger than its own.
Units(x, exp) == x.coeff * PowerOfTen[x.exp - exp]
SignedUnits(x, exp) == IF x.negative THEN -Units(x, exp) ELSE Units(x, exp)

\* Negative, zero or positive as x is below, equal to or above y.
Cmp(x, y) ==
  SignedUnits(x, LesserOf(x.exp, y.exp)) - SignedUnits(y, LesserOf(x.exp, y.exp))

DigitsOf[n \in Nat] == IF n < 10 THEN 1 ELSE 1 + DigitsOf[n \div 10]
NumDigits(n) == DigitsOf[n]

\* The exponent of the leading digit of x, which is not zero.
Log10Floor(x) == NumDigits(x.coeff) - 1 + x.exp

UnsignedRoundingModeUnsigned(mode, negative) ==
  CASE mode \in {"ceil", "expand"}          -> "expand"
    [] mode \in {"floor", "trunc"}          -> "trunc"
    [] mode \in {"halfCeil", "halfExpand"}  -> "halfExpand"
    [] mode \in {"halfFloor", "halfTrunc"}  -> "halfTrunc"
    [] mode = "halfEven"                    -> "halfEven"

\* The mode for the magnitude of a value: ceil and floor swap below zero.
UnsignedRoundingMode(mode, negative) ==
  CASE mode = "expand" \/ mode = IF negative THEN "floor" ELSE "ceil"           -> "expand"
    [] mode = "trunc" \/ mode = IF negative THEN "ceil" ELSE "floor"            -> "trunc"
    [] mode = "halfExpand" \/ mode = IF negative THEN "halfFloor" ELSE "halfCeil" -> "halfExpand"
    [] mode = "halfTrunc" \/ mode = IF negative THEN "halfCeil" ELSE "halfFloor"  -> "halfTrunc"
    [] OTHER                                                                    -> "halfEven"

\* r1 is an even multiple of the increment, the distance from r1 to r2.
HalfEvenLower(r1, r2) ==
  LET step == r2.coeff - r1.coeff IN (r1.coeff \div step) % 2 = 0

\* Negative, zero or positive as x is nearer to r1, halfway or nearer to r2.
CompareRoundingDistances(x, r1, r2) ==
  Cmp(MulInt(x, 2), NewDecimal(r1.coeff + r2.coeff, r1.exp))

\* r1 and r2 are adjacent multiples of one increment, r1 <= x < r2.
ApplyUnsignedRoundingMode(x, r1, r2, mode) ==
  IF Cmp(x, r1) = 0 \/ Cmp(r1, r2) = 0 THEN r1
  ELSE IF Cmp(x, r2) = 0 THEN r2
  ELSE IF mode = "trunc" THEN r1
  ELSE IF mode = "expand" THEN r2
  ELSE IF CompareRoundingDistances(x, r1, r2) < 0 THEN r1
  ELSE IF CompareRoundingDistances(x, r1, r2) > 0 THEN r2
  ELSE IF mode = "halfTrunc" THEN r1
  ELSE IF mode = "halfExpand" THEN r2
  ELSE IF HalfEvenLower(r1, r2) THEN r1 ELSE r2

\* x is a multiple of increment * 10^exp by its exponent alone.
ExactMultiple(x, increment, exp) ==
  x.exp >= exp /\ (x.coeff * PowerOfTen[x.exp - exp]) % increment = 0

\* How often increment * 10^exp goes into x; a gap beyond all digits of x is
\* answered without computing the power.
Quotient(x, increment, exp) ==
  IF x.exp >= exp THEN (x.coeff * PowerOfTen[x.exp - exp]) \div increment
  ELSE IF exp - x.exp >= NumDigits(x.coeff) THEN 0
  ELSE x.coeff \div (increment * PowerOfTen[exp - x.exp])

\* x, not negative, rounded to a multiple of increment * 10^exp.
QuantizeToIncrement(x, increment, exp, mode) ==
  IF ExactMultiple(x, increment, exp) THEN x
  ELSE LET lower == Quotient(x, increment, exp)
       IN  ApplyUnsignedRoundingMode(x, NewDecimal(lower * increment, exp),
                                        NewDecimal((lower + 1) * increment, exp), mode)

-------------------------------------------------------------------------------
(* What rounding is, to state what the above achieves.                     *)

Magnitude(n) == IF n < 0 THEN -n ELSE n

\* ECMA-402's rounding of x to a multiple of step, all three being integers.
RoundsTo(x, r, step, mode) ==
  /\ r % step = 0
  /\ Magnitude(r - x) < step
  /\ CASE mode = "ceil"   -> r >= x
       [] mode = "floor"  -> r <= x
       [] mode = "expand" -> Magnitude(r) >= Magnitude(x)
       [] mode = "trunc"  -> Magnitude(r) <= Magnitude(x)
       [] OTHER -> /\ 2 * Magnitude(r - x) <= step
                   /\ 2 * Magnitude(r - x) = step =>
                        CASE mode = "halfCeil"   -> r > x
                          [] mode = "halfFloor"  -> r < x
                          [] mode = "halfExpand" -> Magnitude(r) > Magnitude(x)
                          [] mode = "halfTrunc"  -> Magnitude(r) < Magnitude(x)
                          [] mode = "halfEven"   -> (r \div step) % 2 = 0

\* x rounded to r at a decimal place, both taken as multiples of 10^unit.
RoundsAt(x, r, increment, place, mode) ==
  LET unit == LesserOf(place, LesserOf(x.exp, r.exp))
  IN  RoundsTo(SignedUnits(x, unit), SignedUnits(r, unit), increment * PowerOfTen[place - unit], mode)

\* How far r is from x.
Distance(x, r) ==
  LET unit == LesserOf(x.exp, r.exp)
  IN  [negative |-> FALSE, exp |-> unit,
       coeff |-> Magnitude(SignedUnits(x, unit) - SignedUnits(r, unit))]
===============================================================================
