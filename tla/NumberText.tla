------------------------------ MODULE NumberText ------------------------------
(***************************************************************************)
(* What a number formatter makes of one value: construction from options,  *)
(* rounding, exponent, sign and groups.  Affixes are NumberRange's;        *)
(* symbols and numbering systems are left out.                             *)
(***************************************************************************)
EXTENDS NumberExponents, DigitOptions, Sequences, SequencesExt

CONSTANTS
  Values,           \* what callers format
  CurrencyDigits,   \* the fraction digits of the currency in use
  Grouping,         \* the locale's group sizes and minimum grouping digits
  NaN, PosInfinity, NegInfinity

UseGrouping == {"always", "auto", "min2", "false"}

ASSUME FormatConstants ==
  /\ Values \subseteq Decimal \cup {NaN, PosInfinity, NegInfinity}
  /\ CurrencyDigits \in 0 .. 100
  /\ \A size \in {"primary", "secondary", "minimum"} : Grouping[size] \in Nat \ {0}
  /\ Unset \notin UseGrouping

-------------------------------------------------------------------------------
\* What callers construct with.
NumberFormatOptions ==
  [style : {"decimal", "percent", "currency", "unit"}, notation : Notations,
   signDisplay : {"auto", "never", "always", "exceptZero", "negative"},
   useGrouping : UseGrouping \cup {Unset}, digits : DigitOptionOverrides]

\* digitDefaults: the default bounds of fraction digits.
MinimumFractionDefault(options) ==
  IF options.style = "currency" /\ options.notation = "standard" THEN CurrencyDigits ELSE 0

MaximumFractionDefault(options) ==
  IF options.style = "currency" /\ options.notation = "standard" THEN CurrencyDigits
  ELSE IF options.style = "percent" THEN 0 ELSE 3

Formatter(options, digits) ==
  IF IsInvalid(digits) THEN digits
  ELSE [style |-> options.style, notation |-> options.notation, digits |-> digits,
        signDisplay |-> options.signDisplay,
        useGrouping |-> IF options.useGrouping # Unset THEN options.useGrouping
                        ELSE IF options.notation = "compact" THEN "min2" ELSE "auto"]

New(options) ==
  Formatter(options,
    SetNumberFormatDigitOptions(options.digits, MinimumFractionDefault(options),
                                MaximumFractionDefault(options), options.notation))

ResolvedOptions(f) == [f EXCEPT !.digits = ResolvedProperties(@)]

-------------------------------------------------------------------------------
\* zero: the digits that are shown are all 0.
DisplaySign(display, negative, zero) ==
  CASE display = "always"     -> IF negative THEN "minus" ELSE "plus"
    [] display = "exceptZero" -> IF zero THEN "none" ELSE IF negative THEN "minus" ELSE "plus"
    [] display = "negative"   -> IF negative /\ ~zero THEN "minus" ELSE "none"
    [] display = "never"      -> "none"
    [] display = "auto"       -> IF negative THEN "minus" ELSE "none"

\* How many digits an integer part must have beyond its last group.
MinimumGrouping(useGrouping) ==
  CASE useGrouping = "always" -> 1
    [] useGrouping = "auto"   -> Grouping.minimum
    [] useGrouping = "min2"   -> GreaterOf(2, Grouping.minimum)

NeedsGrouping(width, useGrouping) ==
  useGrouping # "false" /\ width >= Grouping.primary + MinimumGrouping(useGrouping)

FirstGroupRemainder(width) == (width - Grouping.primary) % Grouping.secondary

FirstGroup(width) ==
  IF (width - Grouping.primary) % Grouping.secondary = 0 THEN Grouping.secondary
  ELSE (width - Grouping.primary) % Grouping.secondary

\* The sizes of the groups of an integer part, from the left.
Groups(width, useGrouping) ==
  IF ~NeedsGrouping(width, useGrouping) THEN <<width>>
  ELSE <<FirstGroup(width)>>
         \o [i \in 1 .. (width - Grouping.primary - FirstGroup(width)) \div Grouping.secondary
               |-> Grouping.secondary]
         \o <<Grouping.primary>>

Special(f, value) ==
  [special |-> value, sign |-> IF value = NaN
                               THEN IF f.signDisplay = "always" THEN "plus" ELSE "none"
                               ELSE DisplaySign(f.signDisplay, value = NegInfinity, FALSE)]

Shown(f, d, exponent, result) ==
  [text |-> result.text, rounded |-> result.rounded, exponent |-> exponent,
   sign |-> DisplaySign(f.signDisplay, d.negative, result.text.units = 0),
   groups |-> Groups(result.text.width, f.useGrouping)]

FormatFinite(f, d, exponent) ==
  Shown(f, d, exponent, FormatNumericToString(Scale10(d, -exponent), f.digits))

Operand(f, d) == IF f.style = "percent" THEN MulInt(d, 100) ELSE d

FormatValue(f, value) ==
  IF value \in {NaN, PosInfinity, NegInfinity} THEN Special(f, value)
  ELSE FormatFinite(f, Operand(f, value), ComputeExponent(f, Operand(f, value)).exponent)
===============================================================================
