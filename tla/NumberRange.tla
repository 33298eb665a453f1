------------------------------ MODULE NumberRange ------------------------------
(***************************************************************************)
(* numberformat: affixes of a style around a formatted number, and ranges  *)
(* of two numbers that share their affixes.  A part is a type and a text;  *)
(* a text is a sequence of runes, since what is shared depends on widths,  *)
(* on equal texts and on bidi marks.  The digits of a number, its groups,  *)
(* decimal sign and exponent are one part: none of them is ever shared.    *)
(***************************************************************************)
EXTENDS NumberText, PluralOperands

CONSTANTS
  OptionBags,   \* the options of callers
  Affixes,      \* a locale's symbols and compiled patterns, those of its style among them
  BidiMarks,    \* the runes that mark direction
  Space,        \* the rune between words
  None

ASSUME SymbolConstants ==
  /\ Space \notin BidiMarks
  /\ \A data \in Affixes : \A name \in DOMAIN data.symbols : data.symbols[name] # <<>>

VARIABLES
  formatter,   \* a NumberFormat, or None
  affixes,     \* its patterns, or None
  ends,        \* the ends of the range last formatted, or None
  range        \* its partition

vars == <<formatter, affixes, ends, range>>

-------------------------------------------------------------------------------
(* Parts. *)

Part(type, text) == [type |-> type, text |-> text]

Literal(text) == IF text = <<>> THEN <<>> ELSE <<Part("literal", text)>>

TextOf(parts) == FlattenSeq([k \in DOMAIN parts |-> parts[k].text])

Width(parts) == Len(TextOf(parts))

Has(parts, types) == \E k \in DOMAIN parts : parts[k].type \in types

First(parts, n) == SubSeq(parts, 1, n)
After(parts, n) == SubSeq(parts, n + 1, Len(parts))
LastParts(parts, n) == SubSeq(parts, Len(parts) - n + 1, Len(parts))

\* How many of 1, 2, ..., n satisfy Test before the first that does not.
CountWhile(n, Test(_)) == Max({m \in 0 .. n : \A k \in 1 .. m : Test(k)})

IsMark(part) == part.type = "literal" /\ \A k \in DOMAIN part.text : part.text[k] \in BidiMarks

LeadingMarks(parts) == CountWhile(Len(parts), LAMBDA k : IsMark(parts[k]))

\* appendBidiSymbol: marks around a symbol are literals of their own.
BidiSymbol(part) ==
  LET text  == part.text
      lead  == CountWhile(Len(text), LAMBDA k : text[k] \in BidiMarks)
      trail == CountWhile(Len(text) - lead, LAMBDA k : text[Len(text) + 1 - k] \in BidiMarks)
  IN  Literal(First(text, lead))
        \o <<Part(part.type, SubSeq(text, lead + 1, Len(text) - trail))>>
        \o Literal(LastParts(text, trail))

NoSign == Part("none", <<>>)

\* splitLeadingSign: a leading sign with the marks around it, and the rest.
SplitLeadingSign(parts) ==
  LET lead == LeadingMarks(parts)
      end  == lead + 1 + LeadingMarks(After(parts, lead + 1))
  IN  IF lead = Len(parts) \/ parts[lead + 1].type \notin {"minusSign", "plusSign"}
      THEN [sign |-> NoSign, rest |-> parts]
      ELSE [sign |-> Part(parts[lead + 1].type, TextOf(First(parts, end))),
            rest |-> After(parts, end)]

WithLeadingSign(sign, parts) == IF sign = NoSign THEN parts ELSE BidiSymbol(sign) \o parts

\* A pattern around a number; some unit patterns of one or two leave it out.
Wrap(pattern, parts) ==
  pattern.prefix \o (IF pattern.hasNumber THEN parts ELSE <<>>) \o pattern.suffix

-------------------------------------------------------------------------------
(* One number with the affixes of its style. *)

SignPart(data, sign) ==
  CASE sign = "minus" -> Part("minusSign", data.symbols.minusSign)
    [] sign = "plus"  -> Part("plusSign", data.symbols.plusSign)
    [] sign = "none"  -> NoSign

IsSpecial(shown) == "special" \in DOMAIN shown

Body(data, shown) ==
  IF IsSpecial(shown)
  THEN IF shown.special = NaN THEN Part("nan", data.symbols.nan) ELSE Part("infinity", data.symbols.infinity)
  ELSE Part("number", <<ToString(shown.text.units), ToString(shown.text.scale),
                        ToString(shown.text.width)>>)

\* pluralFormattedWithExponent: the text with its decimal sign moved.
PluralText(text, exponent) ==
  [units |-> text.units * PowerOfTen[GreaterOf(0, exponent - text.scale)],
   scale |-> GreaterOf(0, text.scale - exponent)]

Rule(locale, operands) ==
  CASE locale = "en" -> CardinalEn(operands)
    [] locale = "da" -> CardinalDa(operands)

StylePluralCategory(data, shown) ==
  IF IsSpecial(shown) THEN Other
  ELSE Rule(data.locale, GetOperands(PluralText(shown.text, shown.exponent), shown.exponent))

\* compactAffixPattern.append: the sign stays in front of the compact pattern.
CompactParts(data, shown, split) ==
  IF IsSpecial(shown) \/ shown.exponent \notin DOMAIN data.compact
  THEN WithLeadingSign(split.sign, split.rest)
  ELSE WithLeadingSign(split.sign, Wrap(data.compact[shown.exponent], split.rest))

\* formatDecimalOperandToPartsAppend: the parts before the style's pattern.
NumberParts(data, shown) ==
  CompactParts(data, shown,
               SplitLeadingSign(WithLeadingSign(SignPart(data, shown.sign), <<Body(data, shown)>>)))

\* currencyPatternSet.applySpacing: space between a currency and a digit.
Spaced(data, parts) ==
  LET at     == CHOOSE k \in DOMAIN parts :
                  /\ parts[k].type = "currency"
                  /\ \A j \in 1 .. k - 1 : parts[j].type # "currency"
      before == at > 1 /\ parts[at - 1].type = "number"
      after  == at < Len(parts) /\ parts[at + 1].type = "number"
  IN  IF ~Has(parts, {"currency"}) THEN parts
      ELSE First(parts, at - 1) \o (IF before THEN Literal(data.spacing.before) ELSE <<>>)
             \o <<parts[at]>>
             \o (IF after THEN Literal(data.spacing.after) ELSE <<>>) \o After(parts, at)

CurrencyParts(data, split) ==
  IF split.sign.type = "minusSign" /\ data.negative # None
  THEN Wrap(data.negative, split.rest)
  ELSE WithLeadingSign(split.sign, Wrap(data.positive, split.rest))

\* applyStylePatternForPlural.
ApplyStylePattern(data, parts, category) ==
  CASE data.style = "decimal"  -> parts
    [] data.style = "unit"     -> Wrap(data.unit[category], parts)
    [] data.style = "percent"  -> Wrap(data.percent[SplitLeadingSign(parts).sign.type],
                                       SplitLeadingSign(parts).rest)
    [] data.style = "currencyName" ->
         IF Has(parts, {"currency"}) THEN parts ELSE Wrap(data.name[category], parts)
    [] data.style = "currency" ->
         Spaced(data, IF Has(parts, {"currency"}) THEN parts
                      ELSE CurrencyParts(data, SplitLeadingSign(parts)))

UsesPluralCategory(data) == data.style \in {"unit", "currencyName"}

OwnCategory(data, shown) ==
  IF UsesPluralCategory(data) THEN StylePluralCategory(data, shown) ELSE Other

OwnParts(data, shown) ==
  ApplyStylePattern(data, NumberParts(data, shown), OwnCategory(data, shown))

-------------------------------------------------------------------------------
(* Two numbers. *)

Collapsible == {"unit", "minusSign", "plusSign", "percentSign", "currency", "literal"}

CommonPrefixCount(start, end) ==
  CountWhile(LesserOf(Len(start), Len(end)),
             LAMBDA k : start[k].type \in Collapsible /\ start[k] = end[k])

CompatibleSuffixCount(start, end) ==
  CountWhile(LesserOf(Len(start), Len(end)),
             LAMBDA k : LET s == start[Len(start) + 1 - k]
                            e == end[Len(end) + 1 - k]
                        IN  /\ s.type \in Collapsible /\ s.type = e.type
                            /\ (s.text = e.text \/ s.type \in {"unit", "currency"}))

SuffixCountOfWhole(start, end, prefixCount) == CompatibleSuffixCount(start, end)

\* The suffix is counted in what the prefix leaves.
SuffixCount(start, end, prefixCount) ==
  CompatibleSuffixCount(After(start, prefixCount), After(end, prefixCount))

\* Affixes are shared in pairs where they can be: a sign only with a percent
\* sign, so that a unit or a name never pulls it off its number.
SharesPairWhenWide(prefix, suffix) == Width(prefix) > 1 /\ Width(suffix) > 1

SharesPair(prefix, suffix) ==
  /\ prefix # <<>> /\ suffix # <<>> /\ Width(prefix) + Width(suffix) > 1
  /\ Has(prefix, {"minusSign", "plusSign"}) => Has(suffix, {"percentSign"})

Collapsed(start, end, prefixCount, suffixCount) ==
  [prefix |-> First(end, prefixCount),
   start  |-> SubSeq(start, prefixCount + 1, Len(start) - suffixCount),
   end    |-> SubSeq(end, prefixCount + 1, Len(end) - suffixCount),
   suffix |-> LastParts(end, suffixCount)]

CollapseCounted(start, end, prefixCount, suffixCount) ==
  IF SharesPair(First(start, prefixCount), LastParts(start, suffixCount))
  THEN Collapsed(start, end, prefixCount, suffixCount)
  ELSE IF Width(LastParts(start, suffixCount)) > 1 \/ Has(LastParts(end, suffixCount), {"unit"})
  THEN Collapsed(start, end, 0, suffixCount)
  ELSE IF Width(First(start, prefixCount)) > 1 THEN Collapsed(start, end, prefixCount, 0)
  ELSE Collapsed(start, end, 0, 0)

Collapse(start, end) ==
  LET prefixCount == CommonPrefixCount(start, end)
  IN  CollapseCounted(start, end, prefixCount, SuffixCount(start, end, prefixCount))

\* A range sign with a space at each side that has none.
Padded(sign) ==
  (IF First(sign, 1) = <<Space>> THEN <<>> ELSE <<Space>>) \o sign
    \o (IF LastParts(sign, 1) = <<Space>> THEN <<>> ELSE <<Space>>)

\* numberRangeSeparator, from what is left of the start.
Separator(data, start) ==
  IF SplitLeadingSign(start).sign # NoSign \/ (start # <<>> /\ start[1].type = "percentSign")
  THEN Padded(data.symbols.range) ELSE data.symbols.range

SeparatorOfWhole(data, start, collapsed) == Separator(data, start)

SeparatorOf(data, start, collapsed) == Separator(data, collapsed.start)

Failed == [outcome |-> "invalid value"]

Approximately(data, parts) ==
  [outcome |-> "approximately",
   parts |-> <<Part("approximatelySign", data.symbols.approximately)>> \o parts]

\* Marks at the front of the end join the separator.
Assembled(data, start, collapsed) ==
  LET moved == LeadingMarks(collapsed.end)
  IN  [outcome   |-> "range",
       prefix    |-> collapsed.prefix,
       start     |-> collapsed.start,
       separator |-> SeparatorOf(data, start, collapsed) \o TextOf(First(collapsed.end, moved)),
       end       |-> After(collapsed.end, moved),
       suffix    |-> collapsed.suffix]

AssembledWith(data, shownStart, shownEnd, category) ==
  LET start == ApplyStylePattern(data, NumberParts(data, shownStart), category)
      end   == ApplyStylePattern(data, NumberParts(data, shownEnd), category)
  IN  Assembled(data, start, Collapse(start, end))

\* The category of the pattern both ends are given.
RangeCategory(data, shownStart, shownEnd) ==
  IF UsesPluralCategory(data)
  THEN ResolveRange(data.locale, OwnCategory(data, shownStart), OwnCategory(data, shownEnd))
  ELSE Other

PartitionShown(data, shownStart, shownEnd) ==
  IF TextOf(OwnParts(data, shownStart)) = TextOf(OwnParts(data, shownEnd))
  THEN Approximately(data, OwnParts(data, shownStart))
  ELSE AssembledWith(data, shownStart, shownEnd, RangeCategory(data, shownStart, shownEnd))

PartitionNumberRange(f, data, start, end) ==
  IF NaN \in {start, end} THEN Failed
  ELSE PartitionShown(data, FormatValue(f, start), FormatValue(f, end))

-------------------------------------------------------------------------------
Init == formatter = None /\ affixes = None /\ ends = None /\ range = None

Construct ==
  /\ formatter = None
  /\ \E options \in OptionBags, data \in Affixes :
       /\ data.style = options.pattern
       /\ ~IsInvalid(New(options))
       /\ formatter' = New(options) /\ affixes' = data
  /\ UNCHANGED <<ends, range>>

FormatRange ==
  /\ formatter # None /\ ends = None
  /\ \E start, end \in Values :
       /\ ends' = <<start, end>>
       /\ range' = PartitionNumberRange(formatter, affixes, start, end)
  /\ UNCHANGED <<formatter, affixes>>

Return ==
  /\ ends # None
  /\ ends' = None /\ range' = None
  /\ UNCHANGED <<formatter, affixes>>

Next == Construct \/ FormatRange \/ Return

Spec == Init /\ [][Next]_vars

-------------------------------------------------------------------------------
IsRange == range # None /\ range.outcome = "range"

ShownEnd(k) == FormatValue(formatter, ends[k])

\* An end as it would be written with the pattern of the whole range.
WholeEnd(k) ==
  ApplyStylePattern(affixes, NumberParts(affixes, ShownEnd(k)),
    IF UsesPluralCategory(affixes)
    THEN ResolveRange(affixes.locale, OwnCategory(affixes, ShownEnd(1)),
                      OwnCategory(affixes, ShownEnd(2)))
    ELSE Other)

\* Put apart again, a range is its two ends: the shared prefix, what is left of
\* one end and the shared suffix are that end, with the affixes of the category
\* of the range; no part is lost, none is shared twice, and no digits are shared.
\* The marks that joined the separator are those of the end.
TakenApart == IsRange =>
  /\ range.prefix \o range.start \o range.suffix = WholeEnd(1)
  /\ LET moved == SelectSeq(range.separator, LAMBDA rune : rune \in BidiMarks)
     IN  TextOf(range.prefix) \o moved \o TextOf(range.end) \o TextOf(range.suffix)
           = TextOf(WholeEnd(2))
  /\ ~Has(range.prefix \o range.suffix, {"number", "infinity"})

\* Parentheses around a negative amount are shared by both ends or written
\* around each: what is left of an end never keeps one half of a pair whose other
\* half is shared (range.go 125-131).
WrappersPaired == IsRange =>
  \A own \in {range.start, range.end} :
    Len(SelectSeq(TextOf(own), LAMBDA rune : rune = "("))
      = Len(SelectSeq(TextOf(own), LAMBDA rune : rune = ")"))

\* The range sign is set off with spaces exactly where the start that is left
\* begins with a sign: one that is shared stands in front of both numbers and
\* needs none (SPECS/20-numberformat.md 422).
SignsSetOff == IsRange =>
  LET visible == After(range.start, LeadingMarks(range.start))
      signed  == visible # <<>> /\ visible[1].type \in {"minusSign", "plusSign", "percentSign"}
  IN  signed <=> Space \in {range.separator[k] : k \in DOMAIN range.separator}

\* What a document says (SPECS/20-numberformat.md 438-439) and the code does not:
\* the numbers of two ends that are not shown alike are parts of their own ends.
NumbersKeepTheirEnds == IsRange =>
  \A own \in {range.start, range.end} : Has(own, {"number", "infinity"})
================================================================================
