------------------------------ MODULE PluralRules ------------------------------
(***************************************************************************)
(* pluralrules: a PluralRules is constructed from a locale, a rule type,   *)
(* a notation and digit options, and selects categories of values and of   *)
(* ranges.  Integers may skip the formatting that determines the operands. *)
(***************************************************************************)
EXTENDS NumberExponents, DigitOptions, PluralOperands, Sequences

CONSTANTS
  RuleOptions,     \* what callers construct with: [locale, type, notation, digits]
  Values,          \* what they select for: [kind, number]
  NaN, PosInfinity, NegInfinity,
  None

Specials == {NaN, PosInfinity, NegInfinity}

ASSUME PluralCallers ==
  /\ \A options \in RuleOptions :
       options.digits \in DigitOptionOverrides /\ options.notation \in Notations
  /\ \A value \in Values :
       \/ value.kind \in {"int", "uint"} /\ value.number \in Decimal /\ value.number.exp = 0
       \/ value.kind = "decimal" /\ value.number \in Decimal \cup Specials
  /\ \A number \in Specials : number \notin Decimal \cup NumberTexts

VARIABLES
  rules,      \* the PluralRules, what its construction rejected, or None
  call,       \* the endpoints of the call that returns, one for Select, or None
  answer      \* its category, or Failed

vars == <<rules, call, answer>>

Failed == "error"

\* Integers can bypass formatting without changing the category.
CanUseIntegerOperandsPadded(digits, notation) ==
  /\ notation = "standard" /\ digits.roundingType = "fractionDigits"
  /\ digits.roundingIncrement = 1 /\ digits.roundingPriority = "auto"

CanUseIntegerOperands(digits, notation) ==
  /\ notation = "standard" /\ digits.roundingType = "fractionDigits"
  /\ digits.minimumFractionDigits = 0
  /\ digits.roundingIncrement = 1 /\ digits.roundingPriority = "auto"

Rule(locale, type, operands) ==
  CASE locale = "en" -> IF type = "ordinal" THEN OrdinalEn(operands) ELSE CardinalEn(operands)
    [] locale = "fr" -> CardinalFr(operands)
    [] locale = "lv" -> CardinalLv(operands)

Rules(options, digits) ==
  IF IsInvalid(digits) THEN digits
  ELSE [ locale |-> options.locale, type |-> options.type, notation |-> options.notation,
         digits |-> digits, integerOperands |-> CanUseIntegerOperands(digits, options.notation) ]

New(options) ==
  Rules(options, SetNumberFormatDigitOptions(options.digits, 0, 3, options.notation))

-------------------------------------------------------------------------------
Finite(number) == number \notin Specials

\* The magnitude of the integer digits of a text; -1 when they are all 0.
SourceMagnitude(text) ==
  LET integer == text.units \div PowerOfTen[text.scale]
  IN  IF integer = 0 THEN -1 ELSE NumDigits(integer) - 1

ExponentOfSource(f, number, result) ==
  IF f.notation = "standard" THEN 0 ELSE ComputeExponentOnce(f, number).exponent

\* The exponent of the rounded value: compact notation reads it off the text.
PluralExponent(f, number, result) ==
  CASE f.notation = "standard" -> 0
    [] f.notation = "compact"  -> ExponentForMagnitude("compact", SourceMagnitude(result.text)).exponent
    [] OTHER                   -> ComputeExponent(f, result.rounded).exponent

Unsigned(text) == [text EXCEPT !.negative = FALSE]

Selected(f, text, exponent) ==
  [text |-> text, exponent |-> exponent,
   category |-> Rule(f.locale, f.type, GetOperands(text, exponent))]

SelectedFrom(f, number, result) ==
  Selected(f, Unsigned(result.text), PluralExponent(f, number, result))

\* resolveDecimal: the text without its sign, and the category.
ResolveDecimal(f, number) ==
  IF Finite(number)
  THEN SelectedFrom(f, number, FormatNumericToString(number, f.digits))
  ELSE [text |-> number, exponent |-> 0, category |-> Other]

IsInteger(value) == value.kind \in {"int", "uint"}
SelectInteger(f, value) == Rule(f.locale, f.type, GetIntegerOperands(value.number.coeff))

Select(f, value) ==
  IF f.integerOperands /\ IsInteger(value) THEN SelectInteger(f, value)
  ELSE ResolveDecimal(f, value.number).category

SelectRangeResolved(f, start, end) ==
  IF start.text = end.text THEN start.category
  ELSE ResolveRange(f.locale, start.category, end.category)

SelectRangeDecimal(f, start, end) ==
  SelectRangeResolved(f, ResolveDecimal(f, start.number), ResolveDecimal(f, end.number))

SelectRange(f, start, end) ==
  IF f.integerOperands /\ IsInteger(start) /\ start.kind = end.kind
  THEN IF start.number.coeff = end.number.coeff THEN SelectInteger(f, start)
       ELSE ResolveRange(f.locale, SelectInteger(f, start), SelectInteger(f, end))
  ELSE IF NaN \in {start.number, end.number} THEN Failed
  ELSE SelectRangeDecimal(f, start, end)

-------------------------------------------------------------------------------
Ready == rules # None /\ ~IsInvalid(rules)

Init == rules = None /\ call = None /\ answer = None

Construct ==
  /\ rules = None
  /\ \E options \in RuleOptions : rules' = New(options)
  /\ UNCHANGED <<call, answer>>

CallSelect ==
  /\ Ready /\ call = None
  /\ \E value \in Values : call' = <<value>> /\ answer' = Select(rules, value)
  /\ UNCHANGED rules

CallSelectRange ==
  /\ Ready /\ call = None
  /\ \E start, end \in Values : /\ call' = <<start, end>>
                                /\ answer' = SelectRange(rules, start, end)
  /\ UNCHANGED rules

Return ==
  /\ call # None
  /\ call' = None /\ answer' = None
  /\ UNCHANGED rules

Next == Construct \/ CallSelect \/ CallSelectRange \/ Return

Spec == Init /\ [][Next]_vars

-------------------------------------------------------------------------------
Answered   == call # None
IsSelect   == Answered /\ Len(call) = 1
IsRange    == Answered /\ Len(call) = 2 /\ answer # Failed
Endpoints  == {call[k] : k \in DOMAIN call}
Resolution(value) == ResolveDecimal(rules, value.number)

\* The integer path never changes an answer: an integer selects, alone and in a
\* range, what the same value selects as a decimal (options.go 175-184).
IntegerPathAgrees ==
  /\ IsSelect => answer = Resolution(call[1]).category
  /\ IsRange  => answer = SelectRangeDecimal(rules, call[1], call[2])

\* One mode rounds both endpoints: a mode that looks at the sign may give what is
\* below zero another exponent than what is above it.
RoundedAlike(start, end) ==
  \/ rules.notation \in {"standard", "compact"}
  \/ rules.digits.roundingMode \in {"expand", "trunc", "halfExpand", "halfTrunc", "halfEven"}
  \/ start.negative = end.negative

\* Endpoints that are written the same are one number: a range of them selects
\* what each of them selects, in every notation, although each is rounded and
\* given an exponent on its own (README.md 536-545). In scientific and engineering
\* notation endpoints of both signs are apart where the mode has a direction.
EqualTextsSelectAlike ==
  /\ IsRange
  /\ Resolution(call[1]).text = Resolution(call[2]).text
  /\ Finite(call[1].number) => RoundedAlike(call[1].number, call[2].number)
  => \A value \in Endpoints : answer = Select(rules, value)

\* Integer and fraction put together are n, and t is f without its v - w zeros.
AreCoherent(o) ==
  /\ o.n.units = o.i.units * PowerOfTen[o.v] + o.f.units /\ o.n.scale = o.v
  /\ o.f.units = o.t.units * PowerOfTen[o.v - o.w]
  /\ o.t.units = 0 => o.w = 0
  /\ o.t.units # 0 => o.t.units % 10 # 0

\* The word agrees with big integers on the literals and moduli of the rules.
IsExact(n) ==
  /\ \A literal \in {0, 1, 2, 10, 11, 19, 100} : CmpOperand(n, literal) = CmpBig(n, literal)
  /\ \A mod \in {10, 100} : ModOperand(n, mod).units = n.units % (mod * PowerOfTen[n.scale])

OperandsAreExact(o) == AreCoherent(o) /\ IsExact(o.n)

\* The operands describe the number that is written, and comparing them and
\* taking remainders is exact: where the machine word is too small for a scaled
\* bound, big integers give the answer (plural.go 116-187, 247-284).
OperandsExact ==
  IsSelect /\ Finite(call[1].number) =>
    OperandsAreExact(GetOperands(Resolution(call[1]).text, 0))
===============================================================================
