---------------------------- MODULE NumberFormatMC ----------------------------
(***************************************************************************)
(* Formatters of every rounding mode, kind of rounding, notation, style,   *)
(* sign display and grouping, over values at the edges of rounding: ties,  *)
(* carries, both zeros, trailing zeros, and both signs. The digit options  *)
(* are also combined with each other, given and omitted, legal and not.    *)
(***************************************************************************)
EXTENDS NumberFormat, TLC

DigitsUnset ==
  [minimumIntegerDigits |-> Unset, minimumFractionDigits |-> Unset,
   maximumFractionDigits |-> Unset, minimumSignificantDigits |-> Unset,
   maximumSignificantDigits |-> Unset, roundingIncrement |-> Unset, roundingMode |-> Unset,
   roundingPriority |-> Unset, trailingZeroDisplay |-> Unset]

OptionsUnset ==
  [style |-> "decimal", notation |-> "standard", signDisplay |-> "auto", useGrouping |-> Unset,
   digits |-> DigitsUnset]

Fraction(low, high)    == [minimumFractionDigits |-> low, maximumFractionDigits |-> high]
Significant(low, high) == [minimumSignificantDigits |-> low, maximumSignificantDigits |-> high]
Priority(p)            == [roundingPriority |-> p]
Mode(m)                == [roundingMode |-> m]
Increment(n)           == [roundingIncrement |-> n]

Bag(overrides, digits) == overrides @@ [digits |-> digits @@ DigitsUnset] @@ OptionsUnset

Kinds == { Fraction(0, 0), Fraction(0, 2), Fraction(2, 2), Significant(1, 2), Significant(3, 4),
           Priority("morePrecision") @@ Fraction(1, 1) @@ Significant(1, 2),
           Priority("lessPrecision") @@ Fraction(0, 2) @@ Significant(1, 3),
           Increment(25) @@ Fraction(1, 1), Increment(2) @@ Fraction(0, 0) }

Bounds == { DigitsUnset, Fraction(0, 0), Fraction(1, 1), Significant(1, 2) }

\* Every combination of digit options, omitted, at and beyond their bounds.
DigitBags ==
  { Bag([style |-> s, notation |-> n], digits @@ [roundingMode |-> Unset]) :
      s \in {"decimal", "currency"}, n \in {"standard", "compact"},
      digits \in [minimumFractionDigits : {Unset, 0, 1, 3}, maximumFractionDigits : {Unset, 0, 1, 101},
                  minimumSignificantDigits : {Unset, 0, 3}, maximumSignificantDigits : {Unset, 2, 4},
                  roundingIncrement : {Unset, 3, 5},
                  roundingPriority : {Unset, "auto", "morePrecision", "lessPrecision"}] }

MCOptionBags ==
     DigitBags
  \cup { Bag([style |-> "decimal"], kind @@ Mode(m)) : kind \in Kinds, m \in RoundingModes }
  \cup { Bag([notation |-> n], bounds @@ Mode(m)) :
           n \in {"scientific", "engineering", "compact"}, bounds \in Bounds,
           m \in {"trunc", "expand", "halfExpand", "halfEven"} }
  \cup { Bag([style |-> "decimal"], [minimumIntegerDigits |-> 0]) }
  \cup { Bag([style |-> s], DigitsUnset) : s \in {"decimal", "percent", "currency"} }
  \cup { Bag([signDisplay |-> d], bounds) :
           d \in {"always", "exceptZero", "negative", "never"}, bounds \in Bounds }
  \cup { Bag([useGrouping |-> g], [minimumIntegerDigits |-> width]) :
           g \in {"always", "min2", "false"}, width \in {4, 5, 6, 7, 8} }
  \cup { Bag([style |-> "decimal"], [trailingZeroDisplay |-> "stripIfInteger"] @@ bounds) :
           bounds \in {Fraction(2, 2), Significant(3, 4)} }
  \cup { Bag([style |-> "percent"], Fraction(0, 1)), Bag([notation |-> "scientific"], Fraction(0, 3)) }

Signed(negative, coeff, exp) == [negative |-> negative, coeff |-> coeff, exp |-> exp]

\* Numbers: machine integers, and others from floating point.
MCValues ==
  { Signed(v[1], v[2], v[3]) :
      v \in { <<FALSE, 0, 0>>, <<TRUE, 0, 0>>, <<FALSE, 1500, 0>>, <<TRUE, 9000, 0>>, <<FALSE, 999600, 0>>,
              <<FALSE, 996, -2>>, <<TRUE, 95, -1>>, <<FALSE, 5, -3>> } }
    \cup {NaN, PosInfinity, NegInfinity}

\* Strings. The extremes are scaled down to 4088 and 0.002.
MCOverflow  == NewDecimal(4088, 0)
MCUnderflow == NewDecimal(2, -3)
MCMinMagnitude == -3
MCMinExponent  == -3

Literal(form, sign, base, integer, fraction, exponent) ==
  [form |-> form, sign |-> sign, base |-> base,
   integer |-> integer, fraction |-> fraction, exponent |-> exponent]

Numeral(sign, integer, fraction, exponent) == Literal("number", sign, 10, integer, fraction, exponent)
Radix(sign, base, digits)                  == Literal("number", sign, base, digits, <<>>, 0)

\* Ties, carries, and one number spelled in several ways.
Ordinary ==
  { Numeral(sign, t[1], t[2], t[3]) : sign \in {"none", "minus"},
      t \in { << <<>>, <<4>>, 0 >>, << <<0, 0>>, <<5>>, 0 >>, << <<2>>, <<5>>, 0 >> } }
  \cup { Numeral("none", <<9>>, <<5>>, 0), Numeral("minus", <<9, 9>>, <<9, 9>>, -1),
         Numeral("none", <<1, 2, 3, 4, 5>>, <<>>, -3), Numeral("minus", <<>>, <<0, 0, 5>>, 0),
         Numeral("none", <<1>>, <<5, 0>>, 3), Numeral("plus", <<1, 5, 0>>, <<>>, 1),
         Numeral("none", <<>>, <<0, 0, 0, 1, 5>>, 7), Numeral("minus", <<0>>, <<0>>, 999999999) }

\* At the extremes, beside them and far beyond.
Extreme ==
  { Numeral(t[1], t[2], t[3], t[4]) :
      t \in { <<"none", <<4, 0, 8, 8>>, <<>>, 0>>, <<"minus", <<4>>, <<0, 8, 7, 9>>, 3>>,
              <<"minus", <<1>>, <<>>, 4>>, <<"none", <<1>>, <<>>, 999999999>>,
              <<"minus", <<0>>, <<0, 0, 2, 0>>, 0>>, <<"none", <<3, 0>>, <<>>, -4>>,
              <<"none", <<9>>, <<>>, -4>>, <<"minus", <<1>>, <<>>, -999999999>>,
              <<"none", <<1>>, <<2, 3, 4, 5, 0>>, 0>>, <<"none", <<0, 0, 0, 0, 0, 1>>, <<>>, 0>>,
              <<"none", <<2, 0, 0, 0, 0>>, <<>>, -4>>, <<"minus", <<4, 0, 8, 8>>, <<0, 0, 0, 1>>, 0>>,
              <<"none", <<1, 5>>, <<>>, -4>> } }

Others ==
  { Radix("none", 2, <<1, 0, 1>>), Radix("none", 16, <<15, 15, 8>>), Radix("none", 8, <<8>>),
    Radix("minus", 16, <<1>>), Numeral("minus", <<>>, <<>>, 0),
    Literal("blank", "none", 10, <<>>, <<>>, 0), Literal("NaN", "minus", 10, <<>>, <<>>, 0),
    Literal("Infinity", "plus", 10, <<>>, <<>>, 0) }

MCLiterals == Ordinary \cup Extreme \cup Others

MCCompactEntries == 3 :> 3 @@ 4 :> 3 @@ 5 :> 3 @@ 6 :> 6
MCGrouping == [primary |-> 3, secondary |-> 2, minimum |-> 1]
===============================================================================
