----------------------------- MODULE DateMatching -----------------------------
(***************************************************************************)
(* The format matchers: a request is scored against every candidate, the   *)
(* first best one wins, and best fit adjusts the widths of its pattern.    *)
(***************************************************************************)
EXTENDS DateSkeletons

removalPenalty              == 120
additionPenalty             == 20
longMorePenalty             == 6
shortMorePenalty            == 3
longLessPenalty             == 8
shortLessPenalty            == 6
differentNumericTypePenalty == 15
offsetPenalty               == 1

-------------------------------------------------------------------------------
(* Scores.                                                                 *)

StyleIndex == [style \in {"2-digit", "numeric", "narrow", "short", "long"} |->
                 CASE style = "2-digit" -> 0 [] style = "numeric" -> 1 [] style = "narrow" -> 2
                   [] style = "short"   -> 3 [] style = "long"    -> 4]

StylePenalty(want, have) ==
  IF want < have THEN (IF want + 1 = have THEN shortMorePenalty ELSE longMorePenalty)
  ELSE IF want = have + 1 THEN shortLessPenalty ELSE longLessPenalty

ZonePenalty(want, have) ==
  CASE <<want, have>> \in {<<"short", "shortOffset">>, <<"shortGeneric", "shortOffset">>,
                           <<"long", "longOffset">>, <<"longGeneric", "longOffset">>}
         -> offsetPenalty
    [] <<want, have>> \in {<<"short", "longOffset">>, <<"shortGeneric", "longOffset">>}
         -> offsetPenalty + shortMorePenalty
    [] <<want, have>> \in {<<"long", "shortOffset">>, <<"longGeneric", "shortOffset">>}
         -> offsetPenalty + longLessPenalty
    [] <<want, have>> \in {<<"short", "long">>, <<"shortGeneric", "longGeneric">>,
                           <<"shortOffset", "longOffset">>}
         -> shortMorePenalty
    [] <<want, have>> \in {<<"long", "short">>, <<"longGeneric", "shortGeneric">>,
                           <<"longOffset", "shortOffset">>}
         -> longLessPenalty
    [] OTHER -> removalPenalty

PresencePenaltySwapped(want, have) ==
  CASE want # "" /\ have = "" -> additionPenalty
    [] want = "" /\ have # "" -> removalPenalty
    [] OTHER                  -> 0

PresencePenalty(want, have) ==
  CASE want # "" /\ have = "" -> removalPenalty
    [] want = "" /\ have # "" -> additionPenalty
    [] OTHER                  -> 0

BasicPenalty(component, want, have) ==
  IF want = have THEN 0
  ELSE IF "" \in {want, have} THEN PresencePenalty(want, have)
  ELSE CASE component = "zone"     -> ZonePenalty(want, have)
         [] component = "fraction" -> StylePenalty(DigitCount(want), DigitCount(have))
         [] OTHER                  -> StylePenalty(StyleIndex[want], StyleIndex[have])

\* Best fit tells numbers from names, and widths of numbers, apart first.
DifferentNumericType(component, want, have) ==
  /\ "" \notin {want, have} /\ want # have
  /\ \/ component \in {"year", "day", "hour", "minute", "second"}
     \/ /\ component \in {"weekday", "era", "month", "dayPeriod"}
        /\ (want \in NumericStyles) # (have \in NumericStyles)

BestFitPenalty(component, want, have) ==
  IF DifferentNumericType(component, want, have) THEN differentNumericTypePenalty
  ELSE BasicPenalty(component, want, have)

HourCyclePenalty(request, format) ==
  IF "" \in {request.cycle, format.cycle} \/ Clock(request.cycle) = Clock(format.cycle) THEN 0
  ELSE removalPenalty

ScoreBasicFormat(request, format) ==
  -MapThenSumSet(LAMBDA c : BasicPenalty(c, request.styles[c], format.styles[c]), Components)

ScoreBestFitFormat(request, format) ==
  -HourCyclePenalty(request, format)
  - MapThenSumSet(LAMBDA c : BestFitPenalty(c, request.styles[c], format.styles[c]), Components)

\* The first of the formats with the highest score.
SelectFormat(formats, scores) ==
  LET best == Max(ToSet(scores))
  IN  formats[SelectInSeq(scores, LAMBDA score : score = best)]

-------------------------------------------------------------------------------
(* Widths.                                                                 *)

\* A month shown as a number does not become a name.
CanAdjustMonth(pattern, style) ==
  \/ style \in NumericStyles
  \/ ~\E i \in DOMAIN pattern :
        /\ "month" \in Owner(pattern[i], AdjustedLetters)
        /\ \A j \in 1 .. i - 1 : "month" \notin Owner(pattern[j], AdjustedLetters)
        /\ FieldWidthStyle(pattern[i].width) \in NumericStyles

Adjusts(format, request, component) ==
  /\ request.styles[component] \notin {"", format.styles[component]}
  /\ component \notin {"minute", "second"}
  /\ component = "month" => CanAdjustMonth(format.pattern, request.styles.month)

AdjustedField(run, component, style, cycle) ==
  CASE component \in {"year", "day"} -> Field(run.char, NumericWidth(style))
    [] component = "hour"      -> Field(HourChar(cycle), NumericWidth(style))
    [] component = "weekday"   -> Field("E", FieldStyleWidth(style))
    [] component = "dayPeriod" -> Field("B", FieldStyleWidth(style))
    [] component = "fraction"  -> Field("S", DigitCount(style))
    [] component = "zone"      -> TimeZonePatternField(style)
    [] OTHER                   -> Field(run.char, FieldStyleWidth(style))

AdjustRun(run, format, request, adjusted) ==
  LET owner == Owner(run, AdjustedLetters) \cap adjusted
  IN  IF owner = {} THEN run
      ELSE LET c == CHOOSE c \in owner : TRUE
           IN  AdjustedField(run, c, request.styles[c], format.cycle)

AdjustFields(format, request, adjusted) ==
  [format EXCEPT
     !.pattern = [i \in DOMAIN @ |-> AdjustRun(@[i], format, request, adjusted)],
     !.styles  = [c \in Components |-> IF c \in adjusted THEN request.styles[c] ELSE @[c]]]

AdjustFieldTypes(format, request) ==
  AdjustFields(format, request, { c \in Components : Adjusts(format, request, c) })

BasicScores(request, formats) ==
  [i \in DOMAIN formats |-> ScoreBasicFormat(request, formats[i])]
BestFitScores(request, formats) ==
  [i \in DOMAIN formats |-> ScoreBestFitFormat(request, formats[i])]

MatchBasic(request, formats) == SelectFormat(formats, BasicScores(request, formats))
Match(request, formats) ==
  AdjustFieldTypes(SelectFormat(formats, BestFitScores(request, formats)), request)

AdjustHourCycle(format, cycle) ==
  IF cycle = "" \/ format.styles.hour = "" THEN format
  ELSE [format EXCEPT
          !.pattern = [i \in DOMAIN @ |->
                         IF "hour" \in Owner(@[i], AdjustedLetters)
                         THEN Field(HourChar(cycle), @[i].width) ELSE @[i]],
          !.cycle = cycle]

-------------------------------------------------------------------------------
(* The whole match of a request against candidates.                        *)

KeepHourCyclePattern(format, cycle, candidates) == format

\* Basic ignores the clock: the pattern it selected is replaced by the one of the
\* same components on the other clock, unless it shows a flexible day period.
BasicHourCyclePattern(format, cycle, candidates) ==
  IF format.styles.dayPeriod # "" \/ "" \in {Clock(cycle), Clock(format.cycle)}
     \/ Clock(cycle) = Clock(format.cycle)
  THEN format
  ELSE Match(Request(format.styles, cycle),
             SelectSeq(candidates, LAMBDA c : Clock(c.cycle) = Clock(cycle)))

\* {0} and {1} of a pattern that combines two others.
FormatIndexed(text, zero, one) ==
  FlattenSeq([i \in DOMAIN text |-> CASE text[i] = Literal("{0}") -> zero
                                      [] text[i] = Literal("{1}") -> one
                                      [] OTHER -> <<text[i]>>])

AppendTimeZoneName(format, style, item) ==
  [format EXCEPT !.pattern = FormatIndexed(item, @, <<TimeZonePatternField(style)>>),
                 !.skeleton = Append(@, TimeZonePatternField(style)),
                 !.styles.zone = style]

WithTimeZoneName(format, style, item) ==
  IF style = "" \/ HasZoneField(format.pattern) THEN format
  ELSE AppendTimeZoneName(format, style, item)

\* What the pattern shows in the end, under the skeleton it was found by.
EffectiveFormat(format) == [ParsePattern(format.pattern) EXCEPT !.skeleton = format.skeleton]

Selected(matcher, request, candidates) ==
  IF matcher = "basic"
  THEN BasicHourCyclePattern(MatchBasic(request, candidates), request.cycle, candidates)
  ELSE Match(request, candidates)

MatchComponentPattern(matcher, request, candidates, item) ==
  EffectiveFormat(AdjustHourCycle(
    WithTimeZoneName(Selected(matcher, request, candidates), request.styles.zone, item),
    request.cycle))
===============================================================================
