-------------------------- MODULE PluralRulesProofs ---------------------------
(***************************************************************************)
(* For all locales with the rules that are modelled, all options and all   *)
(* numbers: the operands are those of the number that is written, machine  *)
(* words compute them exactly, the integer path answers what formatting    *)
(* would, and endpoints that are written the same select alike.            *)
(***************************************************************************)
EXTENDS PluralRules, NumberDigitsProofs

\* A PluralRules is made of a caller's options, and a call that has not returned
\* has its answer.
Answers ==
  /\ rules = None \/ \E options \in RuleOptions : rules = New(options)
  /\ call # None =>
       /\ Ready
       /\ \/ \E value \in Values : call = <<value>> /\ answer = Select(rules, value)
          \/ \E start, end \in Values :
               call = <<start, end>> /\ answer = SelectRange(rules, start, end)

LEMMA AnswersInductive ==
  /\ Init => Answers
  /\ Answers /\ [Next]_vars => Answers'
<1>1. Init => Answers
  BY DEF Init, Answers
<1>2. ASSUME Answers, [Next]_vars
      PROVE  Answers'
  <2>1. CASE Construct
    BY <1>2, <2>1 DEF Construct, Answers, Ready
  <2>2. CASE CallSelect
    BY <1>2, <2>2 DEF CallSelect, Answers, Ready
  <2>3. CASE CallSelectRange
    BY <1>2, <2>3 DEF CallSelectRange, Answers, Ready
  <2>4. CASE Return
    BY <1>2, <2>4 DEF Return, Answers
  <2>5. CASE UNCHANGED vars
    BY <1>2, <2>5 DEF vars, Answers, Ready
  <2> QED
    BY <1>2, <2>1, <2>2, <2>3, <2>4, <2>5 DEF Next
<1> QED
  BY <1>1, <1>2

LEMMA AlwaysAnswers == Spec => []Answers
BY AnswersInductive, PTL DEF Spec

\* Rules that were not rejected have resolved digit options.
LEMMA RulesOf ==
  ASSUME NEW options \in RuleOptions, NEW f, f = New(options), ~IsInvalid(f)
  PROVE  /\ IsResolved(f.digits) /\ f.notation \in Notations
         /\ f.integerOperands = CanUseIntegerOperands(f.digits, f.notation)
<1> DEFINE digits == SetNumberFormatDigitOptions(options.digits, 0, 3, options.notation)
<1>1. options.digits \in DigitOptionOverrides /\ options.notation \in Notations
  BY PluralCallers
<1>2. f = Rules(options, digits)
  BY DEF New
<1> HIDE DEF digits
<1>3. ~IsInvalid(digits)
  BY <1>2 DEF Rules
<1>4. digits \in ResolvedDigitOptions /\ IsConsistent(digits)
  <2>1. 0 \in 0 .. 100 /\ 3 \in 0 .. 100 /\ 0 <= 3
    OBVIOUS
  <2> QED
    BY <1>1, <1>3, <2>1, ResolvedIsTyped DEF digits
<1>5. /\ f.digits = digits /\ f.notation = options.notation
      /\ f.integerOperands = CanUseIntegerOperands(digits, options.notation)
  BY <1>2, <1>3 DEF Rules
<1> QED
  BY <1>1, <1>4, <1>5 DEF IsResolved

-------------------------------------------------------------------------------
(* The operands. *)

\* A bound times 10^scale is compared as it is: where the word is too small for
\* the product the bound is larger than any word.
LEMMA WordCompares ==
  ASSUME NEW v, v.units \in Nat, v.scale \in Nat, NEW n \in Nat
  PROVE  CmpOperand(v, n) = CmpBig(v, n)
<1> DEFINE p == PowerOfTen[v.scale]
           q == MaxUint \div p
           b == n * p
           u == v.units
<1>1. p \in Nat \ {0} /\ MaxUint \in Nat /\ b \in Nat /\ u \in Nat
  BY PowerOfTenPositive, WordHoldsLiterals
<1>2. q \in Nat /\ q * p <= MaxUint /\ MaxUint < (q + 1) * p
  BY <1>1, QuotientOf
<1>3. CmpOperand(v, n) =
        IF ~(u <= MaxUint) \/ ~(p <= MaxUint) THEN CmpNumbers(u, b)
        ELSE IF n > q THEN -1 ELSE CmpNumbers(u, b % (MaxUint + 1))
  <2>1. ~(n < 0)
    OBVIOUS
  <2> QED
    BY <2>1 DEF CmpOperand, CmpBig, IsSmall, ScaleFits, WordTimes
<1>4. CmpBig(v, n) = CmpNumbers(u, b)
  BY DEF CmpBig
<1> HIDE DEF p, q, b, u
<1>5. n > q => MaxUint < b
  <2>1. n > q => n = (n - q - 1) + (q + 1) /\ n - q - 1 \in Nat /\ q + 1 \in Nat
    BY <1>2
  <2>2. \A c, d \in Nat : (c + d) * p = c * p + d * p /\ c * p \in Nat /\ d * p \in Nat
    BY <1>1
  <2> QED
    BY <1>1, <1>2, <2>1, <2>2 DEF b
<1>6. n <= q => b <= MaxUint
  <2>1. n <= q => q = n + (q - n) /\ q - n \in Nat
    BY <1>2
  <2>2. \A c, d \in Nat : (c + d) * p = c * p + d * p /\ c * p \in Nat /\ d * p \in Nat
    BY <1>1
  <2> QED
    BY <1>1, <1>2, <2>1, <2>2 DEF b
<1>7. b <= MaxUint => b % (MaxUint + 1) = b
  BY <1>1
<1> QED
  BY <1>1, <1>2, <1>3, <1>4, <1>5, <1>6, <1>7 DEF CmpNumbers

\* So are remainders.
LEMMA WordRemains ==
  ASSUME NEW v, v.units \in Nat, v.scale \in Nat, NEW mod \in Nat \ {0}
  PROVE  ModOperand(v, mod).units = v.units % (mod * PowerOfTen[v.scale])
<1> DEFINE p == PowerOfTen[v.scale]
           q == MaxUint \div p
           b == mod * p
           u == v.units
<1>1. p \in Nat \ {0} /\ MaxUint \in Nat /\ b \in Nat \ {0} /\ u \in Nat
  BY PowerOfTenPositive, WordHoldsLiterals
<1>2. q \in Nat /\ q * p <= MaxUint
  BY <1>1, QuotientOf
<1>3. ModOperand(v, mod).units =
        IF u = 0 THEN 0
        ELSE IF u <= MaxUint /\ p <= MaxUint /\ mod <= q THEN u % (b % (MaxUint + 1))
        ELSE u % b
  <2>1. ~(mod <= 0)
    OBVIOUS
  <2> QED
    BY <2>1 DEF ModOperand, OperandValue, IsSmall, DivisorFits, ScaleFits, WordTimes
<1> HIDE DEF p, q, b, u
<1>4. mod <= q => b <= MaxUint
  <2>1. mod <= q => q = mod + (q - mod) /\ q - mod \in Nat
    BY <1>2
  <2>2. \A c, d \in Nat : (c + d) * p = c * p + d * p /\ c * p \in Nat /\ d * p \in Nat
    BY <1>1
  <2> QED
    BY <1>1, <1>2, <2>1, <2>2 DEF b
<1>5. b <= MaxUint => b % (MaxUint + 1) = b
  BY <1>1
<1>6. u = 0 => u % b = 0
  BY <1>1
<1> QED
  BY <1>3, <1>4, <1>5, <1>6 DEF b, p, u

\* Integer and fraction are the number that is written, without its last zeros.
LEMMA OperandsCohere ==
  ASSUME NEW text, text.units \in Nat, text.scale \in Nat, NEW exponent
  PROVE  AreCoherent(GetOperands(text, exponent))
<1> DEFINE u == text.units
           s == text.scale
           p == PowerOfTen[s]
           f == FractionUnits(text)
           w == VisibleScale(text)
           t == f \div PowerOfTen[s - w]
           o == GetOperands(text, exponent)
<1>1. p \in Nat \ {0} /\ u \in Nat /\ s \in Nat
  BY PowerOfTenPositive
<1>2. f \in Nat /\ f < p /\ u \div p \in Nat /\ u = (u \div p) * p + f
  <2>1. f = u % p
    BY DEF FractionUnits
  <2> HIDE DEF u, p, f
  <2>2. u \div p \in Nat /\ u % p \in 0 .. p - 1 /\ u = (u \div p) * p + (u % p)
    <3>1. u \in Int
      BY <1>1
    <3> QED
      BY <1>1, <3>1, Division
  <2> QED
    BY <1>1, <2>1, <2>2
<1> SUFFICES AreCoherent(o)
  OBVIOUS
<1>3. /\ o.n.units = u /\ o.n.scale = s /\ o.i.units = u \div p /\ o.v = s /\ o.w = w
      /\ o.f.units = f /\ o.t.units = t
  BY DEF GetOperands, OperandValue
<1>4. w = IF f = 0 THEN 0 ELSE TrimmedScale(f, s, 0)
  BY DEF VisibleScale
<1>5. f # 0 =>
        /\ w \in 0 .. s /\ f % PowerOfTen[s - w] = 0
        /\ w > 0 => f % PowerOfTen[s - w + 1] # 0
  <2> DEFINE least == 0
  <2>1. least \in 0 .. s /\ least = 0
    BY <1>1
  <2> HIDE DEF f, s, w, least
  <2>2. LET c == TrimmedScale(f, s, least)
        IN  /\ c \in least .. s
            /\ f % PowerOfTen[s - c] = 0
            /\ c > least => f % PowerOfTen[s - c + 1] # 0
    BY <1>1, <1>2, <2>1, TrimmedIs
  <2>3. f # 0 => w = TrimmedScale(f, s, least)
    BY <1>4, <2>1
  <2> QED
    BY <2>1, <2>2, <2>3
<1> HIDE DEF u, s, p, f, w, t, o
<1>6. CASE f = 0
  <2>1. w = 0 /\ t = 0
    BY <1>1, <1>4, <1>6 DEF t, p
  <2> QED
    BY <1>1, <1>2, <1>3, <1>6, <2>1 DEF AreCoherent, p
<1>7. CASE f # 0
  <2> DEFINE k == s - w
             g == PowerOfTen[k]
  <2>1. w \in Nat /\ k \in Nat /\ k + 1 \in Nat /\ k = s - w
    BY <1>1, <1>5, <1>7
  <2> HIDE DEF k
  <2>2. g \in Nat \ {0} /\ f % g = 0 /\ t = f \div g
    BY <1>5, <1>7, <2>1, PowerOfTenPositive DEF t
  <2>3. f = t * g /\ t \in Nat
    <3> HIDE DEF g
    <3>1. f \in Int /\ f \in Nat /\ g \in Nat \ {0}
      BY <1>2, <2>2
    <3>2. f = (f \div g) * g + (f % g) /\ f \div g \in Nat
      BY <3>1, Division
    <3>3. \A c, d \in Nat : c * d \in Nat /\ c * d + 0 = c * d
      OBVIOUS
    <3> QED
      BY <2>2, <3>1, <3>2, <3>3
  <2>4. w # 0
    <3> SUFFICES ASSUME w = 0 PROVE FALSE
      OBVIOUS
    <3>1. g = p
      BY <1>1, <2>1 DEF p
    <3>2. t # 0 => p <= t * p
      <4>1. \A c \in Nat : (c + 1) * p = c * p + p /\ c * p \in Nat
        BY <1>1
      <4>2. t # 0 => t - 1 \in Nat /\ t = (t - 1) + 1
        BY <2>3
      <4>3. t # 0 => t * p = (t - 1) * p + p /\ (t - 1) * p \in Nat
        BY <4>1, <4>2
      <4> QED
        BY <1>1, <4>3
    <3>3. t = 0 => t * p = 0
      BY <1>1
    <3> HIDE DEF g
    <3> QED
      BY <1>1, <1>2, <1>7, <2>3, <3>1, <3>2, <3>3
  <2>5. t % 10 # 0
    <3>1. f % PowerOfTen[k + 1] # 0
      BY <1>5, <1>7, <2>1, <2>4
    <3> QED
      BY <1>2, <2>1, <2>3, <3>1, LastDigitKept
  <2>6. t # 0
    BY <2>5
  <2> QED
    BY <1>1, <1>2, <1>3, <2>1, <2>3, <2>5, <2>6 DEF AreCoherent, p
<1> QED
  BY <1>6, <1>7

LEMMA OperandsOfText ==
  ASSUME NEW text, text.units \in Nat, text.scale \in Nat, NEW exponent
  PROVE  OperandsAreExact(GetOperands(text, exponent))
<1> DEFINE o == GetOperands(text, exponent)
<1>1. o.n.units = text.units /\ o.n.scale = text.scale
  BY DEF GetOperands, OperandValue
<1>2. AreCoherent(o)
  BY OperandsCohere
<1> HIDE DEF o
<1>3. \A literal \in Nat : CmpOperand(o.n, literal) = CmpBig(o.n, literal)
  BY <1>1, WordCompares
<1>4. \A mod \in Nat \ {0} :
        ModOperand(o.n, mod).units = o.n.units % (mod * PowerOfTen[o.n.scale])
  BY <1>1, WordRemains
<1>5. {0, 1, 2, 10, 11, 19, 100} \subseteq Nat /\ {10, 100} \subseteq Nat \ {0}
  OBVIOUS
<1>6. IsExact(o.n)
  <2>1. \A literal \in {0, 1, 2, 10, 11, 19, 100} : CmpOperand(o.n, literal) = CmpBig(o.n, literal)
    BY <1>3, <1>5
  <2>2. \A mod \in {10, 100} :
          ModOperand(o.n, mod).units = o.n.units % (mod * PowerOfTen[o.n.scale])
    BY <1>4, <1>5
  <2> QED
    BY <2>1, <2>2, Zenon DEF IsExact
<1> QED
  BY <1>2, <1>6 DEF OperandsAreExact, o

\* What the formatting of a finite number returns.
LEMMA ResultText ==
  ASSUME NEW d \in Decimal, NEW opts, IsResolved(opts), NEW text, text = FormatNumericToString(d, opts).text
  PROVE  text \in NumberTexts /\ text.negative = d.negative
<1> DEFINE r == FormatNumericToString(d, opts).rounded
<1>1. /\ IsText(text, r.negative, Abs(r), opts)
      /\ r.negative = d.negative /\ d.negative \in BOOLEAN
  BY ResultWritten, ResultRounds DEF IsWritten, Decimal
<1> HIDE DEF r
<1>2. /\ text.units \in Nat /\ text.scale \in Nat /\ text.width \in Nat /\ text.negative = d.negative
      /\ text.negative \in BOOLEAN
  BY <1>1 DEF IsText
<1>3. text = [negative |-> text.negative, units |-> text.units, scale |-> text.scale, width |-> text.width]
  <2>1. text = GeneralResult(d, opts).text
    BY ShortcutIsGeneral
  <2>2. GeneralResult(d, opts) \in {FixedCandidate(d, opts), SignificantCandidate(d, opts)}
    <3>1. opts.roundingType \in RoundingTypes
      BY ResolvedDigits
    <3> QED
      BY <3>1, GeneralIs
  <2>3. \A negative, units, scale, width :
          LET t == Text(negative, units, scale, width)
          IN  t = [negative |-> t.negative, units |-> t.units, scale |-> t.scale, width |-> t.width]
    BY DEF Text
  <2>4. FixedCandidate(d, opts).text = FixedText(d, RoundFixed(d, opts), opts)
        /\ SignificantCandidate(d, opts).text = SignificantText(d, RoundSignificant(d, opts), opts)
    BY DEF FixedCandidate, SignificantCandidate, Result
  <2>5. \A negative, units, scale, newScale, minimum :
          LET t == Rescaled(negative, units, scale, newScale, minimum)
          IN  t = [negative |-> t.negative, units |-> t.units, scale |-> t.scale, width |-> t.width]
    BY <2>3 DEF Rescaled
  <2>6. \A r1 : LET t == FixedText(d, r1, opts)
                IN  t = [negative |-> t.negative, units |-> t.units, scale |-> t.scale, width |-> t.width]
    BY <2>5 DEF FixedText
  <2>7. \A r1 : LET t == SignificantText(d, r1, opts)
                IN  t = [negative |-> t.negative, units |-> t.units, scale |-> t.scale, width |-> t.width]
    BY <2>5 DEF SignificantText
  <2> QED
    BY <2>1, <2>2, <2>4, <2>6, <2>7
<1> QED
  BY <1>2, <1>3 DEF NumberTexts

\* The operands of what Select and SelectRange resolve a finite number to.
LEMMA ResolvedOperands ==
  ASSUME NEW f, IsResolved(f.digits), NEW number \in Decimal
  PROVE  OperandsAreExact(GetOperands(ResolveDecimal(f, number).text, 0))
<1> DEFINE text == FormatNumericToString(number, f.digits).text
<1>1. text \in NumberTexts
  BY ResultText
<1>2. number \notin Specials
  BY PluralCallers
<1>3. ResolveDecimal(f, number).text = Unsigned(text)
  BY <1>2 DEF ResolveDecimal, SelectedFrom, Selected, Finite
<1> HIDE DEF text
<1>4. Unsigned(text).units \in Nat /\ Unsigned(text).scale \in Nat
  BY <1>1 DEF Unsigned, NumberTexts
<1> QED
  BY <1>3, <1>4, OperandsOfText

\* The operands are those of the number that is written, and comparisons and
\* remainders of them are exact for every size of the machine word
\* (internal/plural/plural.go 116-187, 247-284).
THEOREM AlwaysExactOperands == Spec => []OperandsExact
<1>1. Answers => OperandsExact
  <2> SUFFICES ASSUME Answers, IsSelect, Finite(call[1].number)
               PROVE  OperandsAreExact(GetOperands(Resolution(call[1]).text, 0))
    BY DEF OperandsExact
  <2>1. PICK value \in Values : call = <<value>>
    BY DEF Answers, IsSelect, Answered
  <2>2. call[1] = value /\ value.number \in Decimal
    BY <2>1, PluralCallers DEF Finite
  <2>3. PICK options \in RuleOptions : rules = New(options) /\ ~IsInvalid(rules)
    BY DEF Answers, IsSelect, Answered, Ready
  <2>4. IsResolved(rules.digits)
    BY <2>3, RulesOf
  <2> QED
    BY <2>2, <2>4, ResolvedOperands DEF Resolution
<1> QED
  BY <1>1, AlwaysAnswers, PTL

-------------------------------------------------------------------------------
(* Integers without formatting. *)

LEMMA UnsignedText ==
  ASSUME NEW negative, NEW units, NEW scale, NEW width, NEW text,
         text = Text(negative, units, scale, width), NEW positive \in BOOLEAN, ~positive
  PROVE  Unsigned(text) = Text(positive, units, scale, width)
<1> DEFINE u == Unsigned(text)
<1>1. u.negative = positive /\ u.units = units /\ u.scale = scale /\ u.width = width
  BY DEF Unsigned, Text
<1>2. DOMAIN u = {"negative", "units", "scale", "width"}
  BY DEF Unsigned, Text
<1>3. u = [field \in DOMAIN u |-> u[field]]
  BY DEF Unsigned
<1> HIDE DEF u
<1> QED
  BY <1>1, <1>2, <1>3 DEF Text, u

\* An integer is written as its digits where no fraction digits are asked for.
LEMMA IntegerText ==
  ASSUME NEW d \in Decimal, d.exp = 0, NEW opts, IsResolved(opts),
         NEW notation, CanUseIntegerOperands(opts, notation)
  PROVE  FormatNumericToString(d, opts).text =
           Text(d.negative, d.coeff, 0, GreaterOf(opts.minimumIntegerDigits, IntegerDigits(d.coeff, 0)))
<1> DEFINE n == d.coeff
           scale == opts.maximumFractionDigits
           r == RoundFixed(d, opts)
           p == PowerOfTen[scale]
           u == n * p
<1>1. /\ n \in Nat /\ scale \in Nat /\ opts.minimumIntegerDigits \in Nat
      /\ opts.roundingType = "fractionDigits" /\ opts.minimumFractionDigits = 0
      /\ opts.roundingIncrement = 1 /\ -scale \in Int /\ -scale <= 0
  <2>1. n \in Nat
    BY DEF Decimal
  <2>2. IsBounds(opts)
    BY ResolvedBounds
  <2> QED
    BY <2>1, <2>2 DEF CanUseIntegerOperands, IsBounds
<1>2. p \in Nat \ {0} /\ u \in Nat /\ u % p = 0 /\ u \div p = n
  <2>1. p \in Nat \ {0}
    BY <1>1, PowerOfTenPositive
  <2> HIDE DEF p, n
  <2>2. u % p = 0 /\ u \div p = n
    BY <1>1, <2>1, Multiple
  <2> QED
    BY <1>1, <2>1, <2>2
<1>3. r = Abs(d)
  <2>1. Abs(d).exp = 0 /\ Abs(d).coeff = n
    BY AbsOf
  <2>2. PowerOfTen[0 - (-scale)] \in Nat
    <3>1. 0 - (-scale) \in Nat
      BY <1>1
    <3> QED
      BY <3>1, PowerOfTenPositive
  <2>3. \A a, b \in Nat : (a * b) % 1 = 0
    OBVIOUS
  <2>4. ExactMultiple(Abs(d), 1, -scale)
    BY <1>1, <2>1, <2>2, <2>3 DEF ExactMultiple
  <2> QED
    BY <1>1, <2>4 DEF RoundFixed, QuantizeToIncrement
<1>4. FixedUnits(r, scale) = u
  <2>1. r.exp = 0 /\ r.coeff = n
    BY <1>3, AbsOf
  <2>2. 0 + scale = scale /\ scale >= 0
    BY <1>1
  <2> HIDE DEF r, n, scale
  <2> QED
    BY <2>1, <2>2 DEF FixedUnits
<1>5. TrimFraction(u, opts) = 0
  <2> HIDE DEF u, p
  <2>1. u % PowerOfTen[scale - 0] = 0
    <3>1. scale - 0 = scale
      BY <1>1
    <3> QED
      BY <1>2, <3>1 DEF p
  <2>2. 0 \in 0 .. scale
    BY <1>1
  <2> HIDE DEF scale
  <2>3. TrimmedScale(u, scale, 0) = 0
    BY <1>1, <1>2, <2>1, <2>2, TrimmedAtLeast
  <2> QED
    BY <1>1, <2>3 DEF TrimFraction, scale
<1>6. FixedText(d, r, opts) =
        Text(d.negative, n, 0, GreaterOf(opts.minimumIntegerDigits, IntegerDigits(n, 0)))
  <2>1. ~(0 > scale) /\ scale - 0 = scale
    BY <1>1
  <2>2. FixedText(d, r, opts) = Rescaled(d.negative, u, scale, 0, opts.minimumIntegerDigits)
    BY <1>4, <1>5 DEF FixedText
  <2> HIDE DEF u, scale, n
  <2> QED
    BY <1>2, <2>1, <2>2 DEF Rescaled, p
<1>7. FormatNumericToString(d, opts).text = FixedCandidate(d, opts).text
  <2>1. GeneralResult(d, opts) = FixedCandidate(d, opts)
    BY <1>1, GeneralIs DEF RoundingTypes
  <2> QED
    BY <2>1, ShortcutIsGeneral
<1> QED
  BY <1>6, <1>7 DEF FixedCandidate, Result

\* Its operands are those of its magnitude, so that both ways select one category,
\* and integers are written the same when their magnitudes are.
LEMMA IntegerResolves ==
  ASSUME NEW f, IsResolved(f.digits), CanUseIntegerOperands(f.digits, f.notation),
         NEW value, value.number \in Decimal, value.number.exp = 0
  PROVE  LET n == value.number.coeff
             resolution == ResolveDecimal(f, value.number)
         IN  /\ resolution.category = SelectInteger(f, value)
             /\ resolution.text =
                  Text(FALSE, n, 0, GreaterOf(f.digits.minimumIntegerDigits, IntegerDigits(n, 0)))
<1> DEFINE n == value.number.coeff
           width == GreaterOf(f.digits.minimumIntegerDigits, IntegerDigits(n, 0))
           result == FormatNumericToString(value.number, f.digits)
           text == Text(FALSE, n, 0, width)
<1>1. result.text = Text(value.number.negative, n, 0, width)
  BY IntegerText
<1>2. Unsigned(result.text) = text
  <2> DEFINE written == result.text
             negative == value.number.negative
             least == 0
             positive == FALSE
  <2> HIDE DEF result, n, width, text
  <2>1. written = Text(negative, n, least, width) /\ positive \in BOOLEAN /\ ~positive
    BY <1>1
  <2> HIDE DEF written, negative, least, positive
  <2>2. Unsigned(written) = Text(positive, n, least, width)
    BY <2>1, UnsignedText
  <2> QED
    BY <2>2 DEF written, least, text, positive
<1>3. value.number \notin Specials /\ f.notation = "standard"
  BY PluralCallers DEF CanUseIntegerOperands
<1>4. ResolveDecimal(f, value.number) = Selected(f, text, 0)
  <2>1. ResolveDecimal(f, value.number) = Selected(f, Unsigned(result.text), PluralExponent(f, value.number, result))
    BY <1>3 DEF ResolveDecimal, SelectedFrom, Finite
  <2>2. PluralExponent(f, value.number, result) = 0
    BY <1>3 DEF PluralExponent
  <2> QED
    BY <1>2, <2>1, <2>2
<1>5. GetOperands(text, 0) = GetIntegerOperands(n)
  <2>1. n \in Nat /\ text.units = n /\ text.scale = 0
    BY DEF Text, Decimal
  <2> HIDE DEF text, n
  <2>2. PowerOfTen[0] = 1
    BY PowerOfTenDef
  <2>3. n \div 1 = n /\ n % 1 = 0
    BY <2>1
  <2>4. FractionUnits(text) = 0
    BY <2>1, <2>2, <2>3 DEF FractionUnits
  <2>5. VisibleScale(text) = 0
    BY <2>4 DEF VisibleScale
  <2>6. 0 - 0 = 0 /\ 0 \div 1 = 0
    OBVIOUS
  <2> QED
    BY <2>1, <2>2, <2>3, <2>4, <2>5, <2>6 DEF GetOperands, GetIntegerOperands
<1> HIDE DEF text
<1>6. Selected(f, text, 0).text = text /\ Selected(f, text, 0).category = Rule(f.locale, f.type, GetIntegerOperands(n))
  BY <1>5 DEF Selected
<1> QED
  BY <1>4, <1>6 DEF SelectInteger, text

\* Select and SelectRange answer what they would for decimals.
LEMMA SelectsResolved ==
  ASSUME NEW f, IsResolved(f.digits), f.integerOperands = CanUseIntegerOperands(f.digits, f.notation),
         NEW value \in Values
  PROVE  Select(f, value) = ResolveDecimal(f, value.number).category
<1>1. CASE f.integerOperands /\ IsInteger(value)
  <2>1. value.number \in Decimal /\ value.number.exp = 0
    BY <1>1, PluralCallers DEF IsInteger
  <2> QED
    BY <1>1, <2>1, IntegerResolves DEF Select
<1>2. CASE ~(f.integerOperands /\ IsInteger(value))
  BY <1>2 DEF Select
<1> QED
  BY <1>1, <1>2

LEMMA RangeResolved ==
  ASSUME NEW f, IsResolved(f.digits), f.integerOperands = CanUseIntegerOperands(f.digits, f.notation),
         NEW start \in Values, NEW end \in Values, SelectRange(f, start, end) # Failed
  PROVE  SelectRange(f, start, end) = SelectRangeDecimal(f, start, end)
<1>1. CASE f.integerOperands /\ IsInteger(start) /\ start.kind = end.kind
  <2> DEFINE a == start.number
             b == end.number
             width(n) == GreaterOf(f.digits.minimumIntegerDigits, IntegerDigits(n, 0))
             r == ResolveDecimal(f, a)
             s == ResolveDecimal(f, b)
  <2>1. a \in Decimal /\ a.exp = 0 /\ b \in Decimal /\ b.exp = 0
    BY <1>1, PluralCallers DEF IsInteger
  <2>2. r.category = SelectInteger(f, start) /\ r.text = Text(FALSE, a.coeff, 0, width(a.coeff))
    BY <1>1, <2>1, IntegerResolves
  <2>3. s.category = SelectInteger(f, end) /\ s.text = Text(FALSE, b.coeff, 0, width(b.coeff))
    BY <1>1, <2>1, IntegerResolves
  <2>4. r.text.units = a.coeff /\ s.text.units = b.coeff
    BY <2>2, <2>3 DEF Text
  <2>5. a.coeff = b.coeff => r.text = s.text
    BY <2>2, <2>3
  <2>6. SelectRangeDecimal(f, start, end) =
          IF r.text = s.text THEN r.category ELSE ResolveRange(f.locale, r.category, s.category)
    BY DEF SelectRangeDecimal, SelectRangeResolved
  <2>7. SelectRange(f, start, end) =
          IF a.coeff = b.coeff THEN SelectInteger(f, start)
          ELSE ResolveRange(f.locale, SelectInteger(f, start), SelectInteger(f, end))
    BY <1>1 DEF SelectRange
  <2> HIDE DEF r, s
  <2> QED
    BY <2>2, <2>3, <2>4, <2>5, <2>6, <2>7
<1>2. CASE ~(f.integerOperands /\ IsInteger(start) /\ start.kind = end.kind)
  BY <1>2 DEF SelectRange
<1> QED
  BY <1>1, <1>2

\* The endpoints of the call that returns.
LEMMA CallOf ==
  ASSUME Answers
  PROVE  /\ Answered => IsResolved(rules.digits) /\ rules.notation \in Notations
                        /\ rules.integerOperands = CanUseIntegerOperands(rules.digits, rules.notation)
         /\ IsSelect => call = <<call[1]>> /\ call[1] \in Values /\ answer = Select(rules, call[1])
         /\ IsRange  => /\ call[1] \in Values /\ call[2] \in Values /\ call = <<call[1], call[2]>>
                        /\ answer = SelectRange(rules, call[1], call[2]) /\ answer # Failed
<1>1. ASSUME Answered
      PROVE  /\ IsResolved(rules.digits) /\ rules.notation \in Notations
             /\ rules.integerOperands = CanUseIntegerOperands(rules.digits, rules.notation)
  <2>1. PICK options \in RuleOptions : rules = New(options) /\ ~IsInvalid(rules)
    BY <1>1 DEF Answers, Answered, Ready
  <2> QED
    BY <2>1, RulesOf
<1>2. ASSUME IsSelect
      PROVE  call = <<call[1]>> /\ call[1] \in Values /\ answer = Select(rules, call[1])
  <2>1. PICK value \in Values : call = <<value>> /\ answer = Select(rules, value)
    BY <1>2 DEF Answers, IsSelect, Answered
  <2>2. call[1] = value
    BY <2>1
  <2> QED
    BY <2>1, <2>2
<1>3. ASSUME IsRange
      PROVE  /\ call[1] \in Values /\ call[2] \in Values /\ call = <<call[1], call[2]>>
             /\ answer = SelectRange(rules, call[1], call[2]) /\ answer # Failed
  <2>1. PICK start, end \in Values : call = <<start, end>> /\ answer = SelectRange(rules, start, end)
    BY <1>3 DEF Answers, IsRange, Answered
  <2>2. call[1] = start /\ call[2] = end
    BY <2>1
  <2> QED
    BY <1>3, <2>1, <2>2 DEF IsRange
<1> QED
  BY <1>1, <1>2, <1>3

\* Whatever skips the formatting answers what formatting would, alone and in a
\* range (pluralrules/options.go 175-184).
THEOREM AlwaysIntegerPath == Spec => []IntegerPathAgrees
<1>1. Answers => IntegerPathAgrees
  <2> SUFFICES ASSUME Answers
               PROVE  IntegerPathAgrees
    OBVIOUS
  <2>1. ASSUME IsSelect
        PROVE  answer = Resolution(call[1]).category
    <3>1. call[1] \in Values /\ answer = Select(rules, call[1])
      BY <2>1, CallOf
    <3>2. IsResolved(rules.digits) /\ rules.integerOperands = CanUseIntegerOperands(rules.digits, rules.notation)
      BY <2>1, CallOf DEF IsSelect
    <3> QED
      BY <3>1, <3>2, SelectsResolved DEF Resolution
  <2>2. ASSUME IsRange
        PROVE  answer = SelectRangeDecimal(rules, call[1], call[2])
    <3>1. /\ call[1] \in Values /\ call[2] \in Values
          /\ answer = SelectRange(rules, call[1], call[2]) /\ answer # Failed
      BY <2>2, CallOf
    <3>2. IsResolved(rules.digits) /\ rules.integerOperands = CanUseIntegerOperands(rules.digits, rules.notation)
      BY <2>2, CallOf DEF IsRange
    <3> QED
      BY <3>1, <3>2, RangeResolved
  <2> QED
    BY <2>1, <2>2 DEF IntegerPathAgrees
<1> QED
  BY <1>1, AlwaysAnswers, PTL

-------------------------------------------------------------------------------
(* Endpoints that are written the same. *)

SymmetricModes == {"expand", "trunc", "halfExpand", "halfTrunc", "halfEven"}

\* Values of one magnitude, of whatever sign, are rounded to one magnitude by a
\* mode that does not look at the sign.
SameMagnitude(x, y) == x.coeff = y.coeff /\ x.exp = y.exp

LEMMA MirroredCandidates ==
  ASSUME NEW x \in Decimal, NEW y \in Decimal, SameMagnitude(x, y),
         NEW opts, opts.roundingMode \in SymmetricModes
  PROVE  /\ RoundFixed(x, opts) = RoundFixed(y, opts)
         /\ RoundSignificant(x, opts) = RoundSignificant(y, opts)
         /\ MorePreciseFixed(x, opts) = MorePreciseFixed(y, opts)
<1>1. Abs(x) = Abs(y)
  BY DEF Abs, Decimal, SameMagnitude
<1>2. UnsignedRoundingMode(opts.roundingMode, x.negative) = UnsignedRoundingMode(opts.roundingMode, y.negative)
  BY DEF UnsignedRoundingMode, SymmetricModes
<1>3. /\ IsZero(x) <=> IsZero(y)
      /\ Log10Floor(x) = Log10Floor(y) /\ PlainScale(x) = PlainScale(y) /\ PlainUnits(x) = PlainUnits(y)
  BY DEF SameMagnitude, IsZero, Log10Floor, PlainScale, PlainUnits
<1>4. RoundFixed(x, opts) = RoundFixed(y, opts)
  BY <1>1, <1>2 DEF RoundFixed
<1>5. RoundSignificant(x, opts) = RoundSignificant(y, opts)
  BY <1>1, <1>2, <1>3 DEF RoundSignificant
<1> QED
  BY <1>4, <1>5 DEF MorePreciseFixed

LEMMA MirroredResult ==
  ASSUME NEW x \in Decimal, NEW y \in Decimal, SameMagnitude(x, y), ~IsZero(x),
         NEW opts, IsResolved(opts), opts.roundingMode \in SymmetricModes
  PROVE  SameMagnitude(FormatNumericToString(x, opts).rounded, FormatNumericToString(y, opts).rounded)
<1>1. opts.roundingType \in RoundingTypes
  BY ResolvedDigits
<1>2. CanUseRoundedString(x, opts) <=> CanUseRoundedString(y, opts)
  <2>1. ~IsZero(y) /\ PlainScale(x) = PlainScale(y) /\ PlainUnits(x) = PlainUnits(y)
    BY DEF SameMagnitude, IsZero, PlainScale, PlainUnits
  <2> QED
    BY <2>1 DEF CanUseRoundedString
<1>3. SameMagnitude(GeneralResult(x, opts).rounded, GeneralResult(y, opts).rounded)
  <2>1. /\ RoundFixed(x, opts) = RoundFixed(y, opts)
        /\ RoundSignificant(x, opts) = RoundSignificant(y, opts)
        /\ MorePreciseFixed(x, opts) = MorePreciseFixed(y, opts)
    BY MirroredCandidates
  <2>2. \A r, a, b : SameMagnitude(WithSign(r, a), WithSign(r, b))
    BY DEF SameMagnitude, WithSign
  <2>3. /\ SameMagnitude(FixedCandidate(x, opts).rounded, FixedCandidate(y, opts).rounded)
        /\ SameMagnitude(SignificantCandidate(x, opts).rounded, SignificantCandidate(y, opts).rounded)
    BY <2>1, <2>2 DEF FixedCandidate, SignificantCandidate, Result
  <2>4. \/ /\ GeneralResult(x, opts) = FixedCandidate(x, opts)
           /\ GeneralResult(y, opts) = FixedCandidate(y, opts)
        \/ /\ GeneralResult(x, opts) = SignificantCandidate(x, opts)
           /\ GeneralResult(y, opts) = SignificantCandidate(y, opts)
    BY <1>1, <2>1, GeneralIs
  <2> QED
    BY <2>3, <2>4
<1>4. CASE CanUseRoundedString(x, opts)
  BY <1>2, <1>4 DEF FormatNumericToString, Result
<1>5. CASE ~CanUseRoundedString(x, opts)
  BY <1>2, <1>3, <1>5 DEF FormatNumericToString
<1> QED
  BY <1>4, <1>5

\* Such values have one exponent.
LEMMA MirroredExponent ==
  ASSUME NEW x \in Decimal, NEW y \in Decimal, SameMagnitude(x, y),
         NEW f, IsResolved(f.digits), f.notation \in Notations, f.digits.roundingMode \in SymmetricModes
  PROVE  ComputeExponent(f, x) = ComputeExponent(f, y)
<1>1. (IsZero(x) <=> IsZero(y)) /\ Log10Floor(x) = Log10Floor(y)
  BY DEF SameMagnitude, IsZero, Log10Floor
<1>2. CASE IsZero(x)
  BY <1>1, <1>2 DEF ComputeExponent
<1>3. CASE ~IsZero(x)
  <2> DEFINE exponent == ExponentForMagnitude(f.notation, Log10Floor(x))
             k == -exponent.exponent
             r == FormatNumericToString(Scale10(x, k), f.digits).rounded
             q == FormatNumericToString(Scale10(y, k), f.digits).rounded
  <2>1. k \in Int
    <3>1. Log10Floor(x) \in Int
      BY <1>3, LeadingTyped
    <3> QED
      BY <3>1, ExponentIs
  <2>2. /\ ComputeExponent(f, x) = Carried(f.notation, exponent, r, Log10Floor(x))
        /\ ComputeExponent(f, y) = Carried(f.notation, exponent, q, Log10Floor(x))
    BY <1>1, <1>3 DEF ComputeExponent, WithCarry
  <2> HIDE DEF k
  <2>3. /\ Scale10(x, k) \in Decimal /\ Scale10(y, k) \in Decimal
        /\ SameMagnitude(Scale10(x, k), Scale10(y, k)) /\ ~IsZero(Scale10(x, k))
    BY <1>3, <2>1 DEF Scale10, Decimal, SameMagnitude, IsZero
  <2>4. SameMagnitude(r, q)
    BY <2>3, MirroredResult
  <2> HIDE DEF exponent, r, q
  <2>5. (IsZero(r) <=> IsZero(q)) /\ Log10Floor(r) = Log10Floor(q)
    BY <2>4 DEF SameMagnitude, IsZero, Log10Floor
  <2> QED
    BY <2>2, <2>5 DEF Carried
<1> QED
  BY <1>2, <1>3

\* One mode rounds values that are written the same: each has the exponent the
\* other has.
LEMMA WrittenExponent ==
  ASSUME NEW x \in Decimal, NEW y \in Decimal,
         NEW f, IsResolved(f.digits), f.notation \in Notations,
         \/ f.notation \in {"standard", "compact"}
         \/ f.digits.roundingMode \in SymmetricModes
         \/ x.negative = y.negative,
         NEW a, a = FormatNumericToString(x, f.digits),
         NEW b, b = FormatNumericToString(y, f.digits),
         a.text.units = b.text.units, a.text.scale = b.text.scale
  PROVE  PluralExponent(f, x, a) = PluralExponent(f, y, b)
<1>1. CASE f.notation = "standard"
  BY <1>1 DEF PluralExponent
<1>2. CASE f.notation = "compact"
  <2>1. SourceMagnitude(a.text) = SourceMagnitude(b.text)
    BY DEF SourceMagnitude
  <2> QED
    BY <1>2, <2>1 DEF PluralExponent
<1>3. CASE f.notation \in {"scientific", "engineering"}
  <2> DEFINE r == a.rounded
             q == b.rounded
             w == NewDecimal(a.text.units, -a.text.scale)
  <2>1. r \in Decimal /\ r.negative = x.negative /\ q \in Decimal /\ q.negative = y.negative
    BY ResultRounds
  <2>2. /\ IsText(a.text, r.negative, Abs(r), f.digits)
        /\ IsText(b.text, q.negative, Abs(q), f.digits)
    BY ResultWritten DEF IsWritten
  <2>3. Abs(r) \in Decimal /\ Abs(q) \in Decimal
    BY <2>1, AbsOf
  <2>4. w \in Decimal /\ Cmp(w, Abs(r)) = 0 /\ Cmp(w, Abs(q)) = 0
    BY <2>2 DEF IsText, Says10, NewDecimal, Decimal
  <2> HIDE DEF r, q, w
  <2>5. Cmp(Abs(r), Abs(q)) = 0
    BY <2>3, <2>4, CmpBothWays, CmpTransitive
  <2>6. CASE x.negative = y.negative
    <3>1. Alike(r, q)
      BY <2>1, <2>5, <2>6, AlikeMagnitude DEF Alike
    <3>2. ComputeExponent(f, r) = ComputeExponent(f, q)
      BY <2>1, <3>1, SameExponent
    <3> QED
      BY <1>3, <3>2 DEF PluralExponent, r, q
  <2>7. CASE f.digits.roundingMode \in SymmetricModes
    <3> DEFINE c == WithSign(q, r.negative)
    <3>1. c \in Decimal /\ c.negative = r.negative /\ SameMagnitude(c, q)
      BY <2>1 DEF WithSign, Decimal, SameMagnitude
    <3>2. Abs(c) = Abs(q)
      BY <2>1 DEF Abs, WithSign, Decimal
    <3> HIDE DEF c
    <3>3. Alike(r, c)
      BY <2>1, <2>5, <3>1, <3>2, AlikeMagnitude DEF Alike
    <3>4. ComputeExponent(f, r) = ComputeExponent(f, c)
      BY <2>1, <3>1, <3>3, SameExponent
    <3>5. ComputeExponent(f, c) = ComputeExponent(f, q)
      BY <2>1, <2>7, <3>1, MirroredExponent
    <3> QED
      BY <1>3, <3>4, <3>5 DEF PluralExponent, r, q
  <2> QED
    BY <1>3, <2>6, <2>7
<1> QED
  BY <1>1, <1>2, <1>3 DEF Notations

\* So they resolve to one category; a special value is written like no number.
LEMMA WrittenAlike ==
  ASSUME NEW f, IsResolved(f.digits), f.notation \in Notations,
         NEW x \in Decimal \cup Specials, NEW y \in Decimal \cup Specials,
         ResolveDecimal(f, x).text = ResolveDecimal(f, y).text,
         Finite(x) => \/ f.notation \in {"standard", "compact"}
                      \/ f.digits.roundingMode \in SymmetricModes
                      \/ x.negative = y.negative
  PROVE  ResolveDecimal(f, x).category = ResolveDecimal(f, y).category
<1> DEFINE a == FormatNumericToString(x, f.digits)
           b == FormatNumericToString(y, f.digits)
<1>1. \A number \in Decimal \cup Specials :
        ~Finite(number) => /\ ResolveDecimal(f, number).category = Other
                           /\ ResolveDecimal(f, number).text \notin NumberTexts
  BY PluralCallers DEF Finite, ResolveDecimal
<1>2. \A number \in Decimal \cup Specials :
        Finite(number) => ResolveDecimal(f, number).text \in NumberTexts
  <2> SUFFICES ASSUME NEW number \in Decimal \cup Specials, Finite(number)
               PROVE  ResolveDecimal(f, number).text \in NumberTexts
    OBVIOUS
  <2> DEFINE text == FormatNumericToString(number, f.digits).text
  <2>1. number \in Decimal
    BY DEF Finite
  <2>2. text \in NumberTexts
    BY <2>1, ResultText
  <2>3. ResolveDecimal(f, number).text = Unsigned(text)
    BY DEF ResolveDecimal, SelectedFrom, Selected
  <2> HIDE DEF text
  <2> QED
    BY <2>2, <2>3 DEF Unsigned, NumberTexts
<1>3. CASE ~Finite(x)
  BY <1>1, <1>2, <1>3
<1>4. CASE Finite(x)
  <2>1. Finite(y)
    BY <1>1, <1>2, <1>4
  <2>2. x \in Decimal /\ y \in Decimal
    BY <1>4, <2>1 DEF Finite
  <2>3. /\ ResolveDecimal(f, x) = Selected(f, Unsigned(a.text), PluralExponent(f, x, a))
        /\ ResolveDecimal(f, y) = Selected(f, Unsigned(b.text), PluralExponent(f, y, b))
    BY <1>4, <2>1 DEF ResolveDecimal, SelectedFrom
  <2>4. a.text \in NumberTexts /\ b.text \in NumberTexts
    BY <2>2, ResultText
  <2> HIDE DEF a, b
  <2>5. Unsigned(a.text) = Unsigned(b.text)
    BY <2>3 DEF Selected
  <2>6. a.text.units = b.text.units /\ a.text.scale = b.text.scale
    BY <2>4, <2>5 DEF Unsigned, NumberTexts
  <2>7. PluralExponent(f, x, a) = PluralExponent(f, y, b)
    BY <1>4, <2>2, <2>6, WrittenExponent DEF a, b
  <2> QED
    BY <2>3, <2>5, <2>7
<1> QED
  BY <1>3, <1>4

\* Endpoints that are written the same select what each of them selects, though
\* each is rounded and given an exponent on its own (README.md 536-545).
THEOREM AlwaysSelectsAlike == Spec => []EqualTextsSelectAlike
<1>1. Answers => EqualTextsSelectAlike
  <2> DEFINE start == call[1]
             end == call[2]
  <2> SUFFICES ASSUME Answers, IsRange,
                      Resolution(start).text = Resolution(end).text,
                      Finite(start.number) => RoundedAlike(start.number, end.number),
                      NEW value \in Endpoints
               PROVE  answer = Select(rules, value)
    BY DEF EqualTextsSelectAlike
  <2>1. /\ start \in Values /\ end \in Values /\ call = <<start, end>>
        /\ answer = SelectRange(rules, start, end) /\ answer # Failed
    BY CallOf
  <2>2. /\ IsResolved(rules.digits) /\ rules.notation \in Notations
        /\ rules.integerOperands = CanUseIntegerOperands(rules.digits, rules.notation)
    BY CallOf DEF IsRange
  <2>3. value \in {start, end}
    BY <2>1 DEF Endpoints
  <2>4. start.number \in Decimal \cup Specials /\ end.number \in Decimal \cup Specials
    BY <2>1, PluralCallers
  <2>5. ResolveDecimal(rules, start.number).category = ResolveDecimal(rules, end.number).category
    BY <2>2, <2>4, WrittenAlike DEF Resolution, RoundedAlike, SymmetricModes
  <2>6. answer = ResolveDecimal(rules, start.number).category
    <3>1. answer = SelectRangeDecimal(rules, start, end)
      BY <2>1, <2>2, RangeResolved
    <3> QED
      BY <3>1 DEF SelectRangeDecimal, SelectRangeResolved, Resolution
  <2>7. /\ Select(rules, start) = ResolveDecimal(rules, start.number).category
        /\ Select(rules, end) = ResolveDecimal(rules, end.number).category
    BY <2>1, <2>2, SelectsResolved
  <2> QED
    BY <2>3, <2>5, <2>6, <2>7
<1> QED
  BY <1>1, AlwaysAnswers, PTL
===============================================================================
