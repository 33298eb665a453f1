----------------------------- MODULE NumberDigits -----------------------------
(***************************************************************************)
(* FormatNumericToString: a decimal is rounded to the resolved digit       *)
(* options and written with padding and trimmed zeros.  The text is kept   *)
(* as what it shows: its sign, its digits as a number of units of          *)
(* 10^-scale, the fraction digits (scale) and the integer digits (width).  *)
(***************************************************************************)
EXTENDS Decimals

NumberTexts == [negative : BOOLEAN, units : Nat, scale : Nat, width : Nat]

Text(negative, units, scale, width) ==
  [negative |-> negative, units |-> units, scale |-> scale, width |-> width]

IntegerDigits(units, scale) == NumDigits(units \div PowerOfTen[scale])

\* Decimal.String: plain notation, a fraction only below a negative exponent,
\* zero always "0".
PlainScale(d) == IF IsZero(d) THEN 0 ELSE GreaterOf(0, -d.exp)
PlainUnits(d) == IF IsZero(d) THEN 0 ELSE d.coeff * PowerOfTen[GreaterOf(0, d.exp)]

\* Digits shown from the first that is not 0 on; all of them when all are 0.
SignificantDigitCount(units, scale) == IF units = 0 THEN 1 + scale ELSE NumDigits(units)

StripLastZeros(units, scale) == IF units % 10 = 0 THEN 0 ELSE scale

StripIntegerFraction(units, scale) == IF units % PowerOfTen[scale] = 0 THEN 0 ELSE scale

\* The text with scale - newScale zeros removed from its end, or added to it.
Rescaled(negative, units, scale, newScale, minimumIntegerDigits) ==
  LET shown == IF newScale > scale THEN units * PowerOfTen[newScale - scale]
                                   ELSE units \div PowerOfTen[scale - newScale]
  IN  Text(negative, shown, newScale,
           GreaterOf(minimumIntegerDigits, IntegerDigits(shown, newScale)))

\* The last fraction digit that is not 0, or the least allowed one.
TrimmedScale(units, scale, least) ==
  CHOOSE s \in least .. scale :
    /\ units % PowerOfTen[scale - s] = 0
    /\ s > least => units % PowerOfTen[scale - s + 1] # 0

TrimFraction(units, opts) ==
  LET scale == TrimmedScale(units, opts.maximumFractionDigits, opts.minimumFractionDigits)
  IN  IF opts.trailingZeroDisplay = "stripIfInteger"
        /\ StripIntegerFraction(units, opts.maximumFractionDigits) = 0
      THEN 0 ELSE scale

RoundFixed(d, opts) ==
  QuantizeToIncrement(Abs(d), opts.roundingIncrement, -opts.maximumFractionDigits,
                      UnsignedRoundingMode(opts.roundingMode, d.negative))

\* The digits of the rounded value down to 10^-scale, the rest cut off.
FixedUnits(r, scale) ==
  IF r.exp + scale >= 0 THEN r.coeff * PowerOfTen[r.exp + scale]
                        ELSE r.coeff \div PowerOfTen[-(r.exp + scale)]

FixedText(d, r, opts) ==
  LET units == FixedUnits(r, opts.maximumFractionDigits)
  IN  Rescaled(d.negative, units, opts.maximumFractionDigits, TrimFraction(units, opts),
               opts.minimumIntegerDigits)

RoundSignificant(d, opts) ==
  IF \/ IsZero(d)
     \/ SignificantDigitCount(PlainUnits(d), PlainScale(d)) <= opts.maximumSignificantDigits
  THEN Abs(d)
  ELSE QuantizeToIncrement(Abs(d), 1, Log10Floor(d) - opts.maximumSignificantDigits + 1,
                           UnsignedRoundingMode(opts.roundingMode, d.negative))

\* Trailing fraction zeros go while more than the minimum of significant
\* digits is shown; zeros are added while fewer are.
SignificantScale(units, scale, minimum) ==
  IF SignificantDigitCount(units, scale) < minimum
  THEN scale + minimum - SignificantDigitCount(units, scale)
  ELSE TrimmedScale(units, scale,
         GreaterOf(0, scale - (SignificantDigitCount(units, scale) - minimum)))

SignificantText(d, r, opts) ==
  LET units == PlainUnits(r)
      scale == SignificantScale(units, PlainScale(r), opts.minimumSignificantDigits)
  IN  Rescaled(d.negative, units, PlainScale(r),
               IF opts.trailingZeroDisplay = "stripIfInteger"
                 /\ StripIntegerFraction(units, PlainScale(r)) = 0 THEN 0 ELSE scale,
               opts.minimumIntegerDigits)

Result(text, rounded) == [text |-> text, rounded |-> rounded]

FixedCandidate(d, opts) ==
  LET r == RoundFixed(d, opts) IN Result(FixedText(d, r, opts), WithSign(r, d.negative))

SignificantCandidate(d, opts) ==
  LET r == RoundSignificant(d, opts) IN Result(SignificantText(d, r, opts), WithSign(r, d.negative))

\* ToRawPrecision's rounding magnitude, of the value as rounded.
SignificantRoundingMagnitude(r, opts) ==
  (IF IsZero(r) THEN 0 ELSE Log10Floor(r)) - opts.maximumSignificantDigits + 1

MorePreciseFixedOfSource(d, opts) ==
  -opts.maximumFractionDigits < SignificantRoundingMagnitude(d, opts)

MorePreciseFixed(d, opts) ==
  -opts.maximumFractionDigits < SignificantRoundingMagnitude(RoundSignificant(d, opts), opts)

PriorityCandidate(d, opts, more) ==
  IF more = MorePreciseFixed(d, opts) THEN FixedCandidate(d, opts)
                                      ELSE SignificantCandidate(d, opts)

GeneralResult(d, opts) ==
  CASE opts.roundingType = "significantDigits" -> SignificantCandidate(d, opts)
    [] opts.roundingType = "morePrecision"     -> PriorityCandidate(d, opts, TRUE)
    [] opts.roundingType = "lessPrecision"     -> PriorityCandidate(d, opts, FALSE)
    [] opts.roundingType = "fractionDigits"    -> FixedCandidate(d, opts)

CanUseRoundedStringWithZeros(d, opts) ==
  /\ opts.minimumIntegerDigits = 1 /\ opts.minimumFractionDigits = 0
  /\ opts.roundingIncrement = 1 /\ opts.roundingMode = "halfExpand"
  /\ opts.trailingZeroDisplay = "auto"
  /\ opts.maximumSignificantDigits = 0 /\ opts.roundingPriority = "auto"
  /\ PlainScale(d) <= opts.maximumFractionDigits

\* The plain text of d is already what the general path would write.
CanUseRoundedString(d, opts) ==
  /\ opts.minimumIntegerDigits = 1 /\ opts.minimumFractionDigits = 0
  /\ opts.roundingIncrement = 1 /\ opts.roundingMode = "halfExpand"
  /\ opts.trailingZeroDisplay = "auto"
  /\ opts.maximumSignificantDigits = 0 /\ opts.roundingPriority = "auto"
  /\ ~(IsZero(d) /\ d.negative)
  /\ PlainScale(d) <= opts.maximumFractionDigits
  /\ PlainScale(d) > 0 => PlainUnits(d) % 10 # 0

FormatNumericToString(d, opts) ==
  IF CanUseRoundedString(d, opts)
  THEN Result(Text(d.negative, PlainUnits(d), PlainScale(d), IntegerDigits(PlainUnits(d), PlainScale(d))), d)
  ELSE GeneralResult(d, opts)
===============================================================================
