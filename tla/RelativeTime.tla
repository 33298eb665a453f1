----------------------------- MODULE RelativeTime -----------------------------
(***************************************************************************)
(* relativetimeformat: a formatter holds a number formatter, a PluralRules *)
(* and the compiled patterns of its locale. The sign of an offset decides  *)
(* the tense, its magnitude is written by the number formatter, and the    *)
(* plural rules round it again to choose the noun. What is a literal of    *)
(* the locale is not written as a number at all.                           *)
(***************************************************************************)
EXTENDS PluralRules

CONSTANTS
  CurrencyDigits, Grouping,  \* of the number formatter
  RelativeOptions,  \* what callers construct with: [locale, style, numeric]
  FieldsFor,        \* CLDR: locale -> unit -> style -> [future, past, relative]
  UnitNames,        \* what callers call a unit
  Offsets           \* ECMAScript numbers

VARIABLES
  relative,   \* the RelativeTimeFormat, what its construction rejected, or None
  relation,   \* [offset, name] of the call that returns, or None
  phrase      \* its parts, or << >> when it fails

relativeVars == <<vars, relative, relation, phrase>>

Numbers == INSTANCE NumberText WITH Values <- Offsets

-------------------------------------------------------------------------------
(* Construction.                                                           *)

RelativeTimeUnits == {"second", "minute", "hour", "day", "week", "month", "quarter", "year"}

PluralName(unit) ==
  CASE unit = "second" -> "seconds" [] unit = "minute" -> "minutes" [] unit = "hour" -> "hours"
    [] unit = "day" -> "days" [] unit = "week" -> "weeks" [] unit = "month" -> "months"
    [] unit = "quarter" -> "quarters" [] unit = "year" -> "years"

MeansUnit(name, unit) == unit \in RelativeTimeUnits /\ name \in {unit, PluralName(unit)}

\* A style that has no data of its own is read from the long one.
SelectRelativeTimeField(styles, style) ==
  IF style \in DOMAIN styles THEN styles[style] ELSE styles["long"]

\* Categories without a pattern have that of other.
CompileRelativeTimePatternSet(patterns) ==
  [category \in {Zero, One, Two, Few, Many, Other} |->
     IF category \in DOMAIN patterns THEN patterns[category] ELSE patterns[Other]]

CompileRelativeTimeField(field) ==
  [future   |-> CompileRelativeTimePatternSet(field.future),
   past     |-> CompileRelativeTimePatternSet(field.past),
   relative |-> field.relative]

HasField(styles, style) == style \in DOMAIN styles \/ "long" \in DOMAIN styles

\* A formatter is refused when its locale lacks one of the units.
IsComplete(units, unit, style) ==
  /\ unit \in DOMAIN units /\ HasField(units[unit], style)
  /\ LET field == SelectRelativeTimeField(units[unit], style)
     IN  Other \in DOMAIN field.future \cap DOMAIN field.past

CompileRelativeTimeFields(units, style) ==
  [unit \in RelativeTimeUnits |->
     CompileRelativeTimeField(SelectRelativeTimeField(units[unit], style))]

NoDigitOptions ==
  [option \in {"minimumIntegerDigits", "minimumFractionDigits", "maximumFractionDigits",
               "minimumSignificantDigits", "maximumSignificantDigits", "roundingIncrement",
               "roundingMode", "roundingPriority", "trailingZeroDisplay"} |-> Unset]

NewNumber ==
  Numbers!New([style |-> "decimal", notation |-> "standard", signDisplay |-> "auto",
               useGrouping |-> Unset, digits |-> NoDigitOptions])

NewPlural(locale) ==
  New([locale |-> locale, type |-> "cardinal", notation |-> "standard", digits |-> NoDigitOptions])

NewRelative(options) ==
  LET units == FieldsFor[options.locale]
  IN  IF \E unit \in RelativeTimeUnits : ~IsComplete(units, unit, options.style)
      THEN Invalid("data")
      ELSE [numeric |-> options.numeric, number |-> NewNumber, plural |-> NewPlural(options.locale),
            fields |-> CompileRelativeTimeFields(units, options.style)]

-------------------------------------------------------------------------------
(* Formatting.                                                             *)

\* The number a literal stands for; both zeros are one.
LiteralKey(offset) ==
  IF offset.negative THEN -(offset.coeff * PowerOfTen[offset.exp]) ELSE offset.coeff * PowerOfTen[offset.exp]

HasLiteral(field, offset) ==
  offset.exp >= 0 /\ LiteralKey(offset) \in DOMAIN field.relative

IsPastBelowZero(offset) == offset.negative /\ offset.coeff # 0

\* The sign bit, of a zero as well.
IsPast(offset) == offset.negative

Pattern(f, field, offset) ==
  LET category == Select(f.plural, [kind |-> "decimal", number |-> offset])
  IN  IF IsPast(offset) THEN field.past[category] ELSE field.future[category]

\* Parts of a phrase: literals, and at most one number.
LiteralPart(value) == [literal |-> value, number |-> {}]
NumberPart(number) ==
  [literal |-> "", number |-> {[text |-> number.text, groups |-> number.groups]}]

RelativeTimePatternParts(pattern, number) ==
  [i \in DOMAIN pattern |-> IF pattern[i] = "{0}" THEN NumberPart(number) ELSE LiteralPart(pattern[i])]

PhraseOf(f, unit, offset) ==
  IF f.numeric = "auto" /\ HasLiteral(f.fields[unit], offset)
  THEN <<LiteralPart(f.fields[unit].relative[LiteralKey(offset)])>>
  ELSE RelativeTimePatternParts(Pattern(f, f.fields[unit], offset),
                                Numbers!FormatValue(f.number, Abs(offset)))

FormatToParts(f, name, offset) ==
  IF ~Finite(offset) \/ ~\E unit \in DOMAIN f.fields : MeansUnit(name, unit) THEN <<>>
  ELSE PhraseOf(f, CHOOSE unit \in DOMAIN f.fields : MeansUnit(name, unit), offset)

-------------------------------------------------------------------------------
RelativeInit == Init /\ relative = None /\ relation = None /\ phrase = <<>>

ConstructRelative ==
  /\ rules = None /\ relative = None
  /\ \E options \in RelativeOptions : relative' = NewRelative(options)
  /\ UNCHANGED <<vars, relation, phrase>>

FormatRelative ==
  /\ relative # None /\ ~IsInvalid(relative) /\ relation = None
  /\ \E offset \in Offsets, name \in UnitNames :
       /\ relation' = [offset |-> offset, name |-> name]
       /\ phrase' = FormatToParts(relative, name, offset)
  /\ UNCHANGED <<vars, relative>>

ReturnRelative ==
  /\ relation # None
  /\ relation' = None /\ phrase' = <<>>
  /\ UNCHANGED <<vars, relative>>

SelectPlural == relative = None /\ Next /\ UNCHANGED <<relative, relation, phrase>>

RelativeNext == SelectPlural \/ ConstructRelative \/ FormatRelative \/ ReturnRelative

RelativeSpec == RelativeInit /\ [][RelativeNext]_relativeVars

-------------------------------------------------------------------------------
Written(offset) == Numbers!FormatValue(relative.number, Abs(offset)).text

\* What two offsets have in common that are said alike.
SaidAlike(field, one, other) ==
  IF relative.numeric = "auto" /\ (HasLiteral(field, one) \/ HasLiteral(field, other))
  THEN HasLiteral(field, one) /\ HasLiteral(field, other) /\ LiteralKey(one) = LiteralKey(other)
  ELSE one.negative = other.negative /\ Written(one) = Written(other)

\* Offsets of one unit have the same phrase exactly when they are of one tense
\* and are written as the same number, or are the same literal: the noun agrees
\* with the number that is shown, although the number formatter rounds the
\* magnitude and the plural rules the signed offset; a literal is never said of
\* an offset that is only near it, and a zero keeps its tense (format.go 58-84,
\* value.go 39-57).
PhrasesTold ==
  phrase # <<>> =>
    \A other \in {offset \in Offsets : Finite(offset)} :
      LET unit == CHOOSE unit \in DOMAIN relative.fields : MeansUnit(relation.name, unit)
      IN  phrase = PhraseOf(relative, unit, other)
            <=> SaidAlike(relative.fields[unit], relation.offset, other)
===============================================================================
