----------------------------- MODULE NumberFormat -----------------------------
(***************************************************************************)
(* numberformat: a NumberFormat is constructed from digit options, style   *)
(* and notation, or again from the options it resolved to, and then        *)
(* formats one value after another: numbers, and what strings parse to.    *)
(***************************************************************************)
EXTENDS NumericInput

CONSTANTS
  OptionBags,       \* the options of callers
  Literals,         \* the numeric strings of callers
  None

ASSUME Callers ==
  OptionBags \subseteq NumberFormatOptions /\ \A literal \in Literals : IsLiteral(literal)

VARIABLES
  asked,       \* the options of the last construction, or None
  formatter,   \* the NumberFormat, the option its construction rejected, or None
  source,      \* the literal that was parsed last, or None for a number
  input,       \* the value formatted last, or None
  output       \* its formatted form

vars == <<asked, formatter, source, input, output>>

-------------------------------------------------------------------------------
Ready == formatter # None /\ ~IsInvalid(formatter)

Init == asked = None /\ formatter = None /\ source = None /\ input = None /\ output = None

Construct ==
  /\ formatter = None
  /\ \E options \in OptionBags : asked' = options /\ formatter' = New(options)
  /\ UNCHANGED <<source, input, output>>

\* Another formatter from what ResolvedOptions returned.
ConstructAgain ==
  /\ Ready /\ input = None
  /\ asked' = ResolvedOptions(formatter)
  /\ formatter' = New(ResolvedOptions(formatter))
  /\ UNCHANGED <<source, input, output>>

Format ==
  /\ Ready
  /\ \E value \in Values : input' = value /\ output' = FormatValue(formatter, value)
  /\ source' = None
  /\ UNCHANGED <<asked, formatter>>

\* A string is parsed; what it means is formatted.
FormatParsed ==
  /\ Ready
  /\ \E literal \in Literals :
       /\ source' = literal
       /\ input' = ParseDecimalInput(literal)
       /\ output' = IF input' = ErrInvalidDecimal THEN None ELSE FormatValue(formatter, input')
  /\ UNCHANGED <<asked, formatter>>

Next == Construct \/ ConstructAgain \/ Format \/ FormatParsed

Spec == Init /\ [][Next]_vars

-------------------------------------------------------------------------------
Digits == formatter.digits
Shows  == output # None /\ "text" \in DOMAIN output

\* The value that was rounded: the operand at the exponent that is shown.
Mantissa == Scale10(Operand(formatter, input), -output.exponent)

RoundsFixed(x, r) ==
  RoundsAt(x, r, Digits.roundingIncrement, -Digits.maximumFractionDigits, Digits.roundingMode)

RoundsSignificant(x, r) ==
  IF IsZero(x) THEN IsZero(r)
  ELSE \/ Cmp(x, r) = 0
       \/ RoundsAt(x, r, 1, Log10Floor(x) - Digits.maximumSignificantDigits + 1, Digits.roundingMode)

\* A rounded value is what the rounding mode makes of the exact one, below zero
\* too and at ties: a neighbouring multiple of the increment at the place of the
\* last fraction digit, or of the last significant digit. Where both kinds of
\* digits apply, morePrecision is never further from the value than either kind
\* alone, and lessPrecision never nearer.
CorrectlyRounded == Shows =>
  /\ CASE Digits.roundingType = "fractionDigits"    -> RoundsFixed(Mantissa, output.rounded)
       [] Digits.roundingType = "significantDigits" -> RoundsSignificant(Mantissa, output.rounded)
       [] OTHER -> RoundsFixed(Mantissa, output.rounded) \/ RoundsSignificant(Mantissa, output.rounded)
  /\ \A candidate \in {FixedCandidate(Mantissa, Digits), SignificantCandidate(Mantissa, Digits)} :
       LET order == Cmp(Distance(Mantissa, output.rounded), Distance(Mantissa, candidate.rounded))
       IN  /\ Digits.roundingType = "morePrecision" => order <= 0
           /\ Digits.roundingType = "lessPrecision" => order >= 0

\* The digits that are written are those of the rounded value: padding, trimming
\* and cutting change how many are written, never what they mean, and keep to the
\* bounds: at least the minimum of integer digits, and fraction or significant
\* digits within their bounds unless an integer's zeros are stripped, with no last
\* zero that the minimum does not ask for. The sign
\* is that of the value, and zero for it are the digits that are written.
TextShowsRounded == Shows =>
  /\ Cmp(NewDecimal(output.text.units, -output.text.scale), Abs(output.rounded)) = 0
  /\ output.text.negative = output.rounded.negative
  /\ output.sign = "minus" => input.negative
  /\ formatter.signDisplay \in {"exceptZero", "negative"} /\ IsZero(output.rounded)
       => output.sign = "none"
  /\ output.text.width >= Digits.minimumIntegerDigits
  /\ Digits.roundingType = "fractionDigits" =>
       /\ output.text.scale <= Digits.maximumFractionDigits
       /\ \/ output.text.scale >= Digits.minimumFractionDigits
          \/ output.text.scale = 0 /\ Digits.trailingZeroDisplay = "stripIfInteger"
       /\ output.text.scale > Digits.minimumFractionDigits => output.text.units % 10 # 0
  /\ Digits.roundingType = "significantDigits" =>
       \/ SignificantDigitCount(output.text.units, output.text.scale) >= Digits.minimumSignificantDigits
       \/ output.text.scale = 0 /\ Digits.trailingZeroDisplay = "stripIfInteger"

\* What is shown is settled: formatted again it is shown the same way, so that
\* no value is rounded twice or by the other kind of digits, and the exponent is
\* the one of the value shown, so that rounding leaves no 10E3, 1000E3 or 1000K.
\* A zero has its first significant digit at another place than what rounds to it,
\* and is apart where both kinds of digits apply.
RoundingSettles == Shows =>
  /\ formatter.notation = "standard"
       /\ (Digits.roundingType \in {"morePrecision", "lessPrecision"} => ~IsZero(output.rounded)) =>
       FormatNumericToString(output.rounded, Digits).text = output.text
  /\ ~IsZero(output.rounded) /\ Digits.roundingIncrement = 1 =>
       ExponentForMagnitude(formatter.notation,
         Log10Floor(output.rounded) + output.exponent).exponent = output.exponent

Total(sizes) ==
  LET sum[n \in 0 .. Len(sizes)] == IF n = 0 THEN 0 ELSE sum[n - 1] + sizes[n]
  IN  sum[Len(sizes)]

\* Groups cover the integer digits: the last has the primary size, those before
\* it the secondary size, and the first, never empty, at most that.
GroupsCoverDigits == Shows =>
  LET groups == output.groups
  IN  /\ Total(groups) = output.text.width
      /\ Len(groups) > 1 =>
           /\ groups[Len(groups)] = Grouping.primary
           /\ groups[1] \in 1 .. Grouping.secondary
           /\ \A i \in 2 .. Len(groups) - 1 : groups[i] = Grouping.secondary

\* A formatter made from the resolved options of another resolves to the same.
ResolvedOptionsRoundTrip == [][formatter # None => formatter' = formatter]_vars

\* A larger value is never shown as a smaller one by the same formatter, and
\* values that compare equal, and have the same sign when zero, are shown alike:
\* the number of zeros a value was written with is not part of it.
OrderPreserved ==
  [][Shows /\ Shows' =>
       /\ formatter.notation = "standard" /\ Cmp(input, input') <= 0
            => Cmp(output.rounded, output'.rounded) <= 0
       /\ Cmp(input, input') = 0 /\ input.negative = input'.negative
            => output.text = output'.text /\ output.exponent = output'.exponent]_vars

\* Resolved bounds are consistent, and a bound the caller gave is kept wherever
\* its kind of digits is used. An increment other than 1 rounds to a fixed number
\* of fraction digits, so that the result is a multiple of it.
BoundsKept ==
  /\ Digits.minimumFractionDigits <= Digits.maximumFractionDigits
  /\ Digits.minimumSignificantDigits <= Digits.maximumSignificantDigits
  /\ Digits.maximumFractionDigits <= 100 /\ Digits.maximumSignificantDigits <= 21
  /\ Digits.roundingType # "fractionDigits" =>
       /\ Digits.minimumSignificantDigits >= 1
       /\ asked.digits.minimumSignificantDigits \in {Unset, Digits.minimumSignificantDigits}
       /\ asked.digits.maximumSignificantDigits \in {Unset, Digits.maximumSignificantDigits}
  /\ Digits.roundingType # "significantDigits" =>
       /\ asked.digits.minimumFractionDigits \in {Unset, Digits.minimumFractionDigits}
       /\ asked.digits.maximumFractionDigits \in {Unset, Digits.maximumFractionDigits}
  /\ Digits.roundingIncrement # 1 =>
       /\ Digits.roundingType = "fractionDigits"
       /\ Digits.minimumFractionDigits = Digits.maximumFractionDigits

\* A number out of range, bounds of the caller that exclude each other, or an
\* increment the caller did not give a fixed number of fraction digits for.
Contradictory(digits, notation) ==
  \/ digits.minimumIntegerDigits \notin {Unset} \cup 1 .. 21
  \/ digits.roundingIncrement \notin {Unset} \cup RoundingIncrements
  \/ ~InRange(digits.minimumSignificantDigits, 1, 21)
  \/ ~InRange(digits.maximumSignificantDigits, 1, 21)
  \/ ~InRange(digits.minimumFractionDigits, 0, 100)
  \/ ~InRange(digits.maximumFractionDigits, 0, 100)
  \/ /\ Unset \notin {digits.minimumFractionDigits, digits.maximumFractionDigits}
     /\ digits.minimumFractionDigits > digits.maximumFractionDigits
  \/ /\ Unset \notin {digits.minimumSignificantDigits, digits.maximumSignificantDigits}
     /\ digits.minimumSignificantDigits > digits.maximumSignificantDigits
  \/ /\ digits.roundingIncrement \notin {Unset, 1}
     /\ \/ digits.roundingPriority \notin {Unset, "auto"}
        \/ digits.minimumFractionDigits # digits.maximumFractionDigits
        \/ HasSignificant(digits) \/ notation = "compact"

\* A default never contradicts what the caller gave: a construction fails only
\* for what the caller contradicts himself in, and otherwise keeps his bounds.
CallerIsObeyed ==
  /\ formatter # None /\ IsInvalid(formatter) => Contradictory(asked.digits, asked.notation)
  /\ Ready => BoundsKept

\* A string of digits is read as what it denotes.
NumeralsExact == source # None /\ IsNumeral(source) => IsRead(Denoted(source), input)
===============================================================================
