---------------------------- MODULE NumberExponents ----------------------------
(***************************************************************************)
(* The exponents of scientific, engineering and compact notation: from the *)
(* magnitude of a value, and again when rounding carries the mantissa to   *)
(* the next magnitude.  NumberFormat and PluralRules both ask for them.    *)
(***************************************************************************)
EXTENDS NumberDigits

CONSTANT CompactEntries   \* the locale's compact patterns: magnitude -> exponent

\* So in every locale: a larger magnitude never has a smaller exponent.
ASSUME CompactConstants ==
  /\ \A m \in DOMAIN CompactEntries : m \in 3 .. 14 /\ CompactEntries[m] \in 0 .. m
  /\ \A m, n \in DOMAIN CompactEntries : m <= n => CompactEntries[m] <= CompactEntries[n]

NoExponent == [ok |-> FALSE, exponent |-> 0]
SomeExponent(e) == [ok |-> TRUE, exponent |-> e]

\* The largest magnitude with a compact pattern that is not above the given one.
CompactMagnitude(magnitude) ==
  CHOOSE m \in DOMAIN CompactEntries :
    m <= magnitude /\ \A n \in DOMAIN CompactEntries : n <= magnitude => n <= m

ExponentForMagnitude(notation, magnitude) ==
  CASE notation = "scientific"  -> SomeExponent(magnitude)
    [] notation = "engineering" -> SomeExponent(magnitude - (magnitude % 3))
    [] notation = "compact"     ->
         IF \E m \in DOMAIN CompactEntries : m <= magnitude
         THEN SomeExponent(CompactEntries[CompactMagnitude(magnitude)]) ELSE NoExponent
    [] notation = "standard"    -> NoExponent

\* Rounding may carry the mantissa to the next magnitude, which may have an
\* exponent of its own.
Carried(notation, exponent, rounded, magnitude) ==
  IF \/ IsZero(rounded)
     \/ Log10Floor(rounded) = magnitude - exponent.exponent
     \/ ~ExponentForMagnitude(notation, magnitude + 1).ok
  THEN exponent ELSE ExponentForMagnitude(notation, magnitude + 1)

WithCarry(f, d, exponent, magnitude) ==
  Carried(f.notation, exponent,
          FormatNumericToString(Scale10(d, -exponent.exponent), f.digits).rounded, magnitude)

ComputeExponentOnce(f, d) ==
  ExponentForMagnitude(f.notation, IF IsZero(d) THEN 0 ELSE Log10Floor(d))

ComputeExponent(f, d) ==
  IF IsZero(d) THEN ExponentForMagnitude(f.notation, 0)
  ELSE WithCarry(f, d, ExponentForMagnitude(f.notation, Log10Floor(d)), Log10Floor(d))
================================================================================
