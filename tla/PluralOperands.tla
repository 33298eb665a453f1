---------------------------- MODULE PluralOperands ----------------------------
(***************************************************************************)
(* internal/plural: the operands of CLDR plural rules, taken from a        *)
(* formatted number, and the comparisons and remainders the rules make of  *)
(* them.  An operand whose digits fit the machine word is computed in it,  *)
(* falling back to big integers where a scaled bound would overflow.       *)
(***************************************************************************)
EXTENDS NumberDigits

CONSTANT MaxUint   \* the largest machine word, 2^64 - 1 in the code

\* Every bound and modulus the rules are written with is a machine word.
ASSUME WordHoldsLiterals == MaxUint \in Nat /\ MaxUint >= 1000000

Zero  == "zero"
One   == "one"
Two   == "two"
Few   == "few"
Many  == "many"
Other == "other"

\* units * 10^-scale; small when the digits parse as a machine word.
OperandValue(units, scale) == [units |-> units, scale |-> scale]
IsSmall(v) == v.units <= MaxUint

WordTimes(m, n) == (m * n) % (MaxUint + 1)

\* pow10Uint64: 10^scale, where it is a machine word.
ScaleFits(scale) == PowerOfTen[scale] <= MaxUint

CmpNumbers(m, n) == IF m < n THEN -1 ELSE IF m > n THEN 1 ELSE 0

CmpBig(v, n) == CmpNumbers(v.units, n * PowerOfTen[v.scale])

CmpOperand(v, n) ==
  IF n < 0 THEN 1
  ELSE IF ~IsSmall(v) \/ ~ScaleFits(v.scale) THEN CmpBig(v, n)
  ELSE IF n > MaxUint \div PowerOfTen[v.scale] THEN -1
  ELSE CmpNumbers(v.units, WordTimes(n, PowerOfTen[v.scale]))

DivisorFitsUnscaled(v, mod) == ScaleFits(v.scale) /\ mod <= MaxUint

DivisorFits(v, mod) == ScaleFits(v.scale) /\ mod <= MaxUint \div PowerOfTen[v.scale]

ModOperand(v, mod) ==
  IF mod <= 0 \/ v.units = 0 THEN OperandValue(0, 0)
  ELSE IF IsSmall(v) /\ DivisorFits(v, mod)
  THEN OperandValue(v.units % WordTimes(mod, PowerOfTen[v.scale]), v.scale)
  ELSE OperandValue(v.units % (mod * PowerOfTen[v.scale]), v.scale)

Equal(v, n)           == CmpOperand(v, n) = 0
Between(v, low, high) == CmpOperand(v, low) >= 0 /\ CmpOperand(v, high) <= 0

FractionUnits(text) == text.units % PowerOfTen[text.scale]

\* The fraction digits up to the last that is not 0.
VisibleScale(text) ==
  IF FractionUnits(text) = 0 THEN 0 ELSE TrimmedScale(FractionUnits(text), text.scale, 0)

\* GetOperands of a formatted number; the sign is no operand.
GetOperands(text, exponent) ==
  [ n |-> OperandValue(text.units, text.scale),
    i |-> OperandValue(text.units \div PowerOfTen[text.scale], 0),
    v |-> text.scale,
    w |-> VisibleScale(text),
    f |-> OperandValue(FractionUnits(text), 0),
    t |-> OperandValue(FractionUnits(text) \div PowerOfTen[text.scale - VisibleScale(text)], 0),
    c |-> exponent,
    e |-> exponent ]

\* GetIntegerOperands, GetUnsignedIntegerOperands: no text in between.
GetIntegerOperands(magnitude) ==
  LET zero == OperandValue(0, 0)
  IN  [ n |-> OperandValue(magnitude, 0), i |-> OperandValue(magnitude, 0), v |-> 0, w |-> 0,
        f |-> zero, t |-> zero, c |-> 0, e |-> 0 ]

-------------------------------------------------------------------------------
(* Some of the generated rules: one that looks at the visible fraction, one *)
(* at the exponent, one at remainders of several operands, and ordinals.    *)

CardinalEn(o) == IF Equal(o.i, 1) /\ o.v = 0 THEN One ELSE Other

CardinalFr(o) ==
  IF Equal(o.i, 0) \/ Equal(o.i, 1) THEN One
  ELSE IF \/ o.e = 0 /\ ~Equal(o.i, 0) /\ Equal(ModOperand(o.i, 1000000), 0) /\ o.v = 0
          \/ o.e < 0 \/ o.e > 5
  THEN Many ELSE Other

CardinalDa(o) ==
  IF Equal(o.n, 1) \/ (~Equal(o.t, 0) /\ (Equal(o.i, 0) \/ Equal(o.i, 1))) THEN One ELSE Other

CardinalLv(o) ==
  IF \/ Equal(ModOperand(o.n, 10), 0)
     \/ Between(ModOperand(o.n, 100), 11, 19)
     \/ o.v = 2 /\ Between(ModOperand(o.f, 100), 11, 19)
  THEN Zero
  ELSE IF \/ Equal(ModOperand(o.n, 10), 1) /\ ~Equal(ModOperand(o.n, 100), 11)
          \/ o.v = 2 /\ Equal(ModOperand(o.f, 10), 1) /\ ~Equal(ModOperand(o.f, 100), 11)
          \/ o.v # 2 /\ Equal(ModOperand(o.f, 10), 1)
  THEN One ELSE Other

OrdinalEn(o) ==
  LET ends(digit) == /\ Equal(ModOperand(o.n, 10), digit)
                     /\ ~Equal(ModOperand(o.n, 100), 10 + digit)
  IN  CASE ends(1) -> One [] ends(2) -> Two [] ends(3) -> Few
        [] OTHER -> Other

\* The explicit range categories; a pair without a row is other.
RangeRows(locale) ==
  CASE locale = "en" -> {<<One, Other, Other>>, <<Other, One, Other>>, <<Other, Other, Other>>}
    [] locale = "da" -> {<<One, One, One>>, <<One, Other, Other>>, <<Other, One, One>>,
                         <<Other, Other, Other>>}
    [] locale = "fr" -> {<<One, One, One>>, <<One, Other, Other>>, <<Other, Other, Other>>}
    [] locale = "lv" -> {<<start, end, IF end = One THEN One ELSE Other>> :
                           start \in {Zero, One, Other}, end \in {Zero, One, Other}}

ResolveRange(locale, start, end) ==
  IF \E row \in RangeRows(locale) : row[1] = start /\ row[2] = end
  THEN (CHOOSE row \in RangeRows(locale) : row[1] = start /\ row[2] = end)[3]
  ELSE Other
===============================================================================
