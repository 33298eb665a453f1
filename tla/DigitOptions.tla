----------------------------- MODULE DigitOptions -----------------------------
(***************************************************************************)
(* SetNumberFormatDigitOptions: the digit options of NumberFormat and      *)
(* PluralRules as a caller gives them, Unset where omitted, resolved to    *)
(* digit bounds and a rounding type, or rejected for one of them.          *)
(***************************************************************************)
EXTENDS Decimals

CONSTANT Unset   \* an omitted option

RoundingPriorities   == {"auto", "morePrecision", "lessPrecision"}
TrailingZeroDisplays == {"auto", "stripIfInteger"}
RoundingTypes == {"morePrecision", "lessPrecision", "significantDigits", "fractionDigits"}
Notations     == {"standard", "scientific", "engineering", "compact"}

DigitOptionNames ==
  {"minimumIntegerDigits", "minimumFractionDigits", "maximumFractionDigits",
   "minimumSignificantDigits", "maximumSignificantDigits", "roundingIncrement",
   "roundingMode", "roundingPriority", "trailingZeroDisplay"}

ASSUME UnsetIsNoValue ==
  Unset \notin Int \cup RoundingModes \cup RoundingPriorities \cup TrailingZeroDisplays
                   \cup DigitOptionNames

\* What callers can give, whatever its range.
DigitOptionOverrides ==
  [minimumIntegerDigits     : Int \cup {Unset},
   minimumFractionDigits    : Int \cup {Unset},
   maximumFractionDigits    : Int \cup {Unset},
   minimumSignificantDigits : Int \cup {Unset},
   maximumSignificantDigits : Int \cup {Unset},
   roundingIncrement        : Int \cup {Unset},
   roundingMode             : RoundingModes \cup {Unset},
   roundingPriority         : RoundingPriorities \cup {Unset},
   trailingZeroDisplay      : TrailingZeroDisplays \cup {Unset}]

\* What they resolve to.
ResolvedDigitOptions ==
  [minimumIntegerDigits     : 1 .. 21,
   minimumFractionDigits    : 0 .. 100,
   maximumFractionDigits    : 0 .. 100,
   minimumSignificantDigits : 0 .. 21,
   maximumSignificantDigits : 0 .. 21,
   roundingIncrement        : RoundingIncrements,
   roundingMode             : RoundingModes,
   roundingPriority         : RoundingPriorities,
   trailingZeroDisplay      : TrailingZeroDisplays,
   roundingType             : RoundingTypes]

Invalid(option) == [invalid |-> option]
IsInvalid(resolved) == "invalid" \in DOMAIN resolved

Or(value, default) == IF value = Unset THEN default ELSE value
InRange(value, low, high) == value = Unset \/ value \in low .. high

\* The defaults for options that have one wherever they are used.
WithDefaults(in) ==
  [in EXCEPT !.minimumIntegerDigits = Or(@, 1), !.roundingIncrement = Or(@, 1),
             !.roundingMode = Or(@, "halfExpand"), !.roundingPriority = Or(@, "auto"),
             !.trailingZeroDisplay = Or(@, "auto")]

HasSignificant(in) == in.minimumSignificantDigits # Unset \/ in.maximumSignificantDigits # Unset
HasFraction(in)    == in.minimumFractionDigits # Unset \/ in.maximumFractionDigits # Unset

NeedSignificant(in) == in.roundingPriority = "auto" => HasSignificant(in)

NeedFraction(in, notation) ==
  in.roundingPriority = "auto" => ~HasSignificant(in) /\ (HasFraction(in) \/ notation # "compact")

MinimumSignificant(in) == Or(in.minimumSignificantDigits, 1)
MaximumSignificant(in) == Or(in.maximumSignificantDigits, 21)

\* An omitted bound follows its default, moved to the side of the given one.
MinimumFraction(in, default) ==
  IF in.minimumFractionDigits # Unset THEN in.minimumFractionDigits
  ELSE IF in.maximumFractionDigits # Unset THEN LesserOf(default, in.maximumFractionDigits)
  ELSE default

MaximumFractionAtDefault(in, default) == Or(in.maximumFractionDigits, default)

MaximumFraction(in, default) ==
  IF in.maximumFractionDigits # Unset THEN in.maximumFractionDigits
  ELSE IF in.minimumFractionDigits # Unset THEN GreaterOf(default, in.minimumFractionDigits)
  ELSE default

RoundingType(in, notation) ==
  CASE ~NeedSignificant(in) /\ ~NeedFraction(in, notation)             -> "morePrecision"
    [] in.roundingPriority \in {"morePrecision", "lessPrecision"}      -> in.roundingPriority
    [] in.roundingPriority = "auto" /\ HasSignificant(in)              -> "significantDigits"
    [] in.roundingPriority = "auto" /\ NeedFraction(in, notation)      -> "fractionDigits"

\* The four bounds; compact notation without any asks for two digits.
DigitBounds(in, mnfdDefault, mxfdDefault, notation) ==
  IF ~NeedSignificant(in) /\ ~NeedFraction(in, notation)
  THEN [fraction |-> <<0, 0>>, significant |-> <<1, 2>>]
  ELSE [fraction |-> IF NeedFraction(in, notation)
                     THEN <<MinimumFraction(in, mnfdDefault), MaximumFraction(in, mxfdDefault)>>
                     ELSE <<0, 0>>,
        significant |-> IF NeedSignificant(in)
                        THEN <<MinimumSignificant(in), MaximumSignificant(in)>> ELSE <<0, 0>>]

Resolved(in, bounds, type) ==
  [minimumIntegerDigits     |-> in.minimumIntegerDigits,
   minimumFractionDigits    |-> bounds.fraction[1],
   maximumFractionDigits    |-> bounds.fraction[2],
   minimumSignificantDigits |-> bounds.significant[1],
   maximumSignificantDigits |-> bounds.significant[2],
   roundingIncrement        |-> in.roundingIncrement,
   roundingMode             |-> in.roundingMode,
   roundingPriority         |-> IF type \in {"morePrecision", "lessPrecision"} THEN type ELSE "auto",
   trailingZeroDisplay      |-> in.trailingZeroDisplay,
   roundingType             |-> type]

\* An increment needs fraction digits, a fixed number of them.
IncrementAllowed(resolved) ==
  resolved.roundingIncrement # 1 =>
    /\ resolved.roundingType = "fractionDigits"
    /\ resolved.minimumFractionDigits = resolved.maximumFractionDigits

\* The first option that is rejected, in the order the code looks at them.
FirstInvalid(in, bounds, resolved, notation) ==
  CASE in.minimumIntegerDigits \notin 1 .. 21 -> "minimumIntegerDigits"
    [] OTHER ->
  CASE in.roundingIncrement \notin RoundingIncrements -> "roundingIncrement"
    [] OTHER ->
  CASE NeedSignificant(in) /\ ~InRange(in.minimumSignificantDigits, 1, 21) -> "minimumSignificantDigits"
    [] OTHER ->
  CASE NeedSignificant(in) /\ (\/ ~InRange(in.maximumSignificantDigits, 1, 21)
                               \/ bounds.significant[1] > bounds.significant[2]) -> "maximumSignificantDigits"
    [] OTHER ->
  CASE NeedFraction(in, notation) /\ ~InRange(in.minimumFractionDigits, 0, 100) -> "minimumFractionDigits"
    [] OTHER ->
  CASE NeedFraction(in, notation) /\ (\/ ~InRange(in.maximumFractionDigits, 0, 100)
                                      \/ bounds.fraction[1] > bounds.fraction[2]) -> "maximumFractionDigits"
    [] OTHER -> IF IncrementAllowed(resolved) THEN Unset ELSE "roundingIncrement"

Checked(in, bounds, resolved, notation) ==
  LET invalid == FirstInvalid(in, bounds, resolved, notation)
  IN  IF invalid = Unset THEN resolved ELSE Invalid(invalid)

ResolveBounds(in, bounds, notation) ==
  Checked(in, bounds, Resolved(in, bounds, RoundingType(in, notation)), notation)

SetDigitOptions(in, mnfdDefault, mxfdDefault, notation) ==
  ResolveBounds(in, DigitBounds(in, mnfdDefault, mxfdDefault, notation), notation)

\* An increment makes the default of the maximum that of the minimum.
SetNumberFormatDigitOptions(options, mnfdDefault, mxfdDefault, notation) ==
  LET in == WithDefaults(options)
  IN  SetDigitOptions(in, mnfdDefault,
        IF in.roundingIncrement # 1 THEN mnfdDefault ELSE mxfdDefault, notation)

ResolvedAllProperties(resolved) ==
  [minimumIntegerDigits     |-> resolved.minimumIntegerDigits,
   minimumFractionDigits    |-> resolved.minimumFractionDigits,
   maximumFractionDigits    |-> resolved.maximumFractionDigits,
   minimumSignificantDigits |-> resolved.minimumSignificantDigits,
   maximumSignificantDigits |-> resolved.maximumSignificantDigits,
   roundingIncrement        |-> resolved.roundingIncrement,
   roundingMode             |-> resolved.roundingMode,
   roundingPriority         |-> resolved.roundingPriority,
   trailingZeroDisplay      |-> resolved.trailingZeroDisplay]

\* The options ResolvedOptions shows for a resolved state, to construct again.
ResolvedProperties(resolved) ==
  [minimumIntegerDigits     |-> resolved.minimumIntegerDigits,
   minimumFractionDigits    |-> IF resolved.roundingType = "significantDigits" THEN Unset
                                ELSE resolved.minimumFractionDigits,
   maximumFractionDigits    |-> IF resolved.roundingType = "significantDigits" THEN Unset
                                ELSE resolved.maximumFractionDigits,
   minimumSignificantDigits |-> IF resolved.roundingType = "fractionDigits" THEN Unset
                                ELSE resolved.minimumSignificantDigits,
   maximumSignificantDigits |-> IF resolved.roundingType = "fractionDigits" THEN Unset
                                ELSE resolved.maximumSignificantDigits,
   roundingIncrement        |-> resolved.roundingIncrement,
   roundingMode             |-> resolved.roundingMode,
   roundingPriority         |-> resolved.roundingPriority,
   trailingZeroDisplay      |-> resolved.trailingZeroDisplay]
===============================================================================
