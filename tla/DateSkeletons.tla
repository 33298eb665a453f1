---------------------------- MODULE DateSkeletons ----------------------------
(***************************************************************************)
(* Date-time patterns and the skeletons CLDR keys them by, both as         *)
(* sequences of runs of one letter, and what a matcher candidate says of   *)
(* them: the style of each component and the hour cycle. A literal is a    *)
(* run of width 0, its text in place of the letter.                        *)
(***************************************************************************)
EXTENDS Integers, SequencesExt

Field(char, width) == [char |-> char, width |-> width]
Literal(text)      == [char |-> text, width |-> 0]
IsLiteral(run)     == run.width = 0
IsField(run, char) == ~IsLiteral(run) /\ run.char = char

-------------------------------------------------------------------------------
(* Letters and the components of a format they stand for.                  *)

DateComponents == {"weekday", "era", "year", "month", "day"}
TimeComponents == {"hour", "minute", "second", "dayPeriod", "fraction", "zone"}
Components     == DateComponents \cup TimeComponents

HourLetters == {"h", "H", "K", "k"}
ZoneLetters == {"z", "Z", "O", "v", "V", "x", "X"}

\* The letters a skeleton asks for a component with.
SkeletonLetters ==
  [era |-> {"G"}, year |-> {"y", "Y", "u", "U", "r"}, month |-> {"M", "L"}, day |-> {"d"},
   weekday |-> {"E", "e", "c"}, hour |-> HourLetters, minute |-> {"m"}, second |-> {"s"},
   fraction |-> {"S"}, dayPeriod |-> {"B"}, zone |-> ZoneLetters]

\* The letters whose width is adjusted to the style asked for; minutes and
\* seconds are left as the pattern has them.
AdjustedLetters ==
  [era |-> {"G"}, year |-> {"y"}, month |-> {"M", "L"}, day |-> {"d"},
   weekday |-> {"E", "e", "c"}, hour |-> HourLetters, minute |-> {}, second |-> {},
   fraction |-> {"S"}, dayPeriod |-> {"a", "b", "B"}, zone |-> ZoneLetters]

Owner(run, letters) == { c \in Components : ~IsLiteral(run) /\ run.char \in letters[c] }

CycleOf == [h |-> "h12", H |-> "h23", K |-> "h11", k |-> "h24"]

HourChar(cycle) == CASE cycle = "h11" -> "K" [] cycle = "h23" -> "H" [] cycle = "h24" -> "k"
                     [] OTHER -> "h"

\* The clock an hour cycle implies; none for no cycle.
Clock(cycle) == CASE cycle \in {"h11", "h12"} -> "12" [] cycle \in {"h23", "h24"} -> "24"
                  [] OTHER -> ""

-------------------------------------------------------------------------------
(* Styles and widths.                                                      *)

WidthStyles   == <<"numeric", "2-digit", "short", "long", "narrow">>
DigitStyles   == <<"1", "2", "3">>   \* fractionalSecondDigits
NumericStyles == {"numeric", "2-digit"}

FieldWidthStyle(width) == IF width <= 5 THEN WidthStyles[width] ELSE "narrow"
FieldStyleWidth(style) == CHOOSE w \in 1 .. 5 : WidthStyles[w] = style
DigitCount(style)      == CHOOSE n \in 1 .. 3 : DigitStyles[n] = style
NumericWidth(style)    == IF style = "2-digit" THEN 2 ELSE 1

TextStyle(width) == CASE width = 4 -> "long" [] width = 5 -> "narrow" [] OTHER -> "short"

ZoneStyle(char, width) ==
  CASE char = "z"         -> IF width = 4 THEN "long" ELSE "short"
    [] char \in {"v", "V"} -> IF width = 4 THEN "longGeneric" ELSE "shortGeneric"
    [] OTHER              -> IF width = 4 THEN "longOffset" ELSE "shortOffset"

TimeZonePatternField(style) ==
  CASE style = "long"         -> Field("z", 4)
    [] style = "shortOffset"  -> Field("O", 1)
    [] style = "longOffset"   -> Field("O", 4)
    [] style = "shortGeneric" -> Field("v", 1)
    [] style = "longGeneric"  -> Field("v", 4)
    [] OTHER                  -> Field("z", 1)

TokenStyle(component, run) ==
  CASE component \in {"year", "day", "hour", "minute", "second"} ->
         IF run.width = 2 THEN "2-digit" ELSE "numeric"
    [] component = "month"    -> FieldWidthStyle(run.width)
    [] component = "fraction" -> DigitStyles[run.width]
    [] component = "zone"     -> ZoneStyle(run.char, run.width)
    [] OTHER                  -> TextStyle(run.width)

-------------------------------------------------------------------------------
(* Candidates.                                                             *)

NoStyles == [c \in Components |-> ""]

Candidate(skeleton, pattern) ==
  [skeleton |-> skeleton, pattern |-> pattern, styles |-> NoStyles, cycle |-> ""]

NoFormat == Candidate(<<>>, <<>>)

HasZoneField(pattern) == \E i \in DOMAIN pattern : "zone" \in Owner(pattern[i], AdjustedLetters)

\* A later run of a component replaces what an earlier one said of it.
ApplySkeletonToken(format, run) ==
  [format EXCEPT
     !.styles = [c \in Components |->
                   IF c \in Owner(run, SkeletonLetters) THEN TokenStyle(c, run) ELSE @[c]],
     !.cycle = IF "hour" \in Owner(run, SkeletonLetters) THEN CycleOf[run.char] ELSE @]

Parse(skeleton, pattern) ==
  FoldLeft(ApplySkeletonToken, Candidate(skeleton, pattern), skeleton)

\* What a pattern itself shows.
ParsePattern(pattern) == Parse(pattern, pattern)

Shown(format) == { c \in Components : format.styles[c] # "" }

\* What is asked of the matcher: styles, and an hour cycle whose clock the
\* skeletons should have.
Request(styles, cycle) == [styles |-> styles, cycle |-> cycle]
FormatOptions(format)  == Request(format.styles, format.cycle)
===============================================================================
