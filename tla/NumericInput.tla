----------------------------- MODULE NumericInput ------------------------------
(***************************************************************************)
(* Numeric strings: ParseDecimalInput reads ECMAScript's numeric literals  *)
(* exactly, but for what a Number would round to infinity or to zero.      *)
(* An exponent can be far larger than what is worth computing with, so     *)
(* that most extremes are found by their magnitude.                        *)
(* A literal is [form, sign, base, integer, fraction, exponent]: its form  *)
(* is "number", "Infinity", "NaN" or "blank", its digits are tuples.       *)
(***************************************************************************)
EXTENDS NumberText

CONSTANTS
  ErrInvalidDecimal,
  Overflow,                    \* the least value that reads as infinity
  Underflow,                   \* the greatest value that reads as zero
  MaxMagnitude, MinMagnitude,  \* between which values are compared with these
  MinExponent, MaxExponent     \* between which exponents can be stored

\* 2^1024 - 2^970 and 2^-1075 are related to 308 and -324 like this.
ASSUME Extremes ==
  /\ Overflow \in Decimal /\ ~Overflow.negative /\ Underflow \in Decimal /\ ~Underflow.negative
  /\ ~IsZero(Underflow) /\ Cmp(Underflow, Overflow) < 0
  /\ Log10Floor(Overflow) <= MaxMagnitude /\ Log10Floor(Underflow) >= MinMagnitude
  /\ MaxMagnitude \in Nat /\ MinMagnitude \in Int /\ MinMagnitude <= 0
  /\ MinExponent \in Int /\ MaxExponent \in Int /\ MaxMagnitude <= MaxExponent
  /\ ErrInvalidDecimal \notin Decimal \cup {NaN, PosInfinity, NegInfinity}

\* Only decimal literals have a fraction and an exponent, and only their digits are
\* below their base before they are parsed.
IsLiteral(literal) ==
  /\ literal.form \in {"number", "Infinity", "NaN", "blank"} /\ literal.sign \in {"none", "plus", "minus"}
  /\ literal.base \in {2, 8, 10, 16} /\ literal.exponent \in Int
  /\ literal.integer \in Seq(Nat) /\ literal.fraction \in Seq(Nat)
  /\ literal.base = 10 => literal.integer \in Seq(0 .. 9) /\ literal.fraction \in Seq(0 .. 9)
  /\ literal.base # 10 => literal.fraction = <<>> /\ literal.exponent = 0

-------------------------------------------------------------------------------
IsNegative(literal) == literal.sign = "minus"

Infinity(negative) == IF negative THEN NegInfinity ELSE PosInfinity
SignedZero(negative) == WithSign(NewDecimal(0, 0), negative)

NotZero(digit) == digit # 0

\* Both are empty when all digits are zeros.
TrimLeft(digits)  ==
  IF \A i \in DOMAIN digits : digits[i] = 0 THEN <<>>
  ELSE SubSeq(digits, SelectInSeq(digits, NotZero), Len(digits))
TrimRight(digits) == SubSeq(digits, 1, SelectLastInSeq(digits, NotZero))

Coefficient(digits, base) ==
  LET value[n \in 0 .. Len(digits)] == IF n = 0 THEN 0 ELSE value[n - 1] * base + digits[n]
  IN  value[Len(digits)]

NormalizeAboveOverflow(x) ==
  IF Cmp(Abs(x), Overflow) > 0 THEN Infinity(x.negative)
  ELSE IF Cmp(Abs(x), Underflow) <= 0 THEN SignedZero(x.negative)
  ELSE x

\* Ties read as infinity and as zero.
NormalizeStringValue(x) ==
  IF Cmp(Abs(x), Overflow) >= 0 THEN Infinity(x.negative)
  ELSE IF Cmp(Abs(x), Underflow) <= 0 THEN SignedZero(x.negative)
  ELSE x

\* digits start and end with a digit that is not 0.
FiniteDecimal(negative, digits, exponent) ==
  LET magnitude == exponent + Len(digits) - 1
  IN  IF magnitude > MaxMagnitude THEN Infinity(negative)
      ELSE IF magnitude < MinMagnitude THEN SignedZero(negative)
      ELSE IF exponent \notin MinExponent .. MaxExponent THEN ErrInvalidDecimal
      ELSE NormalizeStringValue(
             [negative |-> negative, coeff |-> Coefficient(digits, 10), exp |-> exponent])

ParseFiniteIntlDecimal(literal) ==
  LET digits == TrimLeft(literal.integer \o literal.fraction)
      zeros  == Len(digits) - Len(TrimRight(digits))
  IN  IF digits = <<>> THEN SignedZero(IsNegative(literal))
      ELSE FiniteDecimal(IsNegative(literal), TrimRight(digits),
                         literal.exponent - Len(literal.fraction) + zeros)

\* A literal of another base is a natural number without a sign.
IsRadixInteger(literal) ==
  /\ literal.sign = "none" /\ literal.integer # <<>>
  /\ \A i \in DOMAIN literal.integer : literal.integer[i] < literal.base

HasDigits(literal) == literal.integer \o literal.fraction # <<>>

ParseNumber(literal) ==
  IF literal.base = 10
  THEN IF HasDigits(literal) THEN ParseFiniteIntlDecimal(literal) ELSE ErrInvalidDecimal
  ELSE IF IsRadixInteger(literal)
       THEN NormalizeStringValue(NewDecimal(Coefficient(literal.integer, literal.base), 0))
       ELSE ErrInvalidDecimal

ParseDecimalInput(literal) ==
  CASE literal.form = "blank"    -> SignedZero(FALSE)
    [] literal.form = "Infinity" -> Infinity(IsNegative(literal))
    [] literal.form = "NaN"      -> IF literal.sign = "none" THEN NaN ELSE ErrInvalidDecimal
    [] literal.form = "number"   -> ParseNumber(literal)

-------------------------------------------------------------------------------
(* What a literal denotes, to state what the above achieves.               *)

IsNumeral(literal) ==
  /\ literal.form = "number" /\ HasDigits(literal)
  /\ literal.base = 10 \/ IsRadixInteger(literal)

\* An exponent far from those of the extremes is replaced by a nearer one that is
\* as far beyond them.
Nearby(total, exponent) == GreaterOf(MinMagnitude - total - 1, LesserOf(MaxMagnitude + 2, exponent))

\* What the digits of a literal say.
Denoted(literal) ==
  LET digits == literal.integer \o literal.fraction
  IN  [negative |-> IsNegative(literal),
       coeff    |-> Coefficient(digits, literal.base),
       exp      |-> Nearby(Len(digits), literal.exponent - Len(literal.fraction))]

IsInfinite(x)  == Cmp(Abs(x), Overflow) >= 0
IsVanishing(x) == Cmp(Abs(x), Underflow) <= 0

\* What is left of a number in the range of Numbers: only what one would round to
\* infinity or to zero is that, with the number's sign, ties included.
InNumberRange(exact, value) ==
  IF IsInfinite(exact) THEN value = Infinity(exact.negative)
  ELSE IF IsVanishing(exact) THEN value = SignedZero(exact.negative)
  ELSE Cmp(value, exact) = 0 /\ value.negative = exact.negative

\* A string is read exactly, whatever zeros it is spelled with and however its
\* exponent and its digits share its magnitude, and is refused only when its
\* magnitude is not beyond a Number's but its last digit cannot be stored.
IsRead(exact, value) ==
  IF value = ErrInvalidDecimal
  THEN /\ Log10Floor(exact) \in MinMagnitude .. MaxMagnitude /\ exact.exp < MinExponent
       /\ exact.coeff % PowerOfTen[MinExponent - exact.exp] # 0
  ELSE InNumberRange(exact, value)
===============================================================================
