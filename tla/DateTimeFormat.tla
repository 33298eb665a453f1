---------------------------- MODULE DateTimeFormat ----------------------------
(***************************************************************************)
(* datetimeformat: construction resolves the options to patterns and       *)
(* compiles them, with the record its ranges go by; formatting an instant  *)
(* or a range reads the formatter and changes nothing of it.               *)
(***************************************************************************)
EXTENDS DateTimeParts

CONSTANTS
  OptionBags,     \* the options of callers
  Moments,        \* the instants they format
  Ranges,         \* the pairs of instants they format as ranges
  None

VARIABLES
  asked,       \* the options of the formatter
  formatter,   \* a DateTimeFormat, the refusal of its options, or None
  input,       \* the instants being formatted: none, one, or the ends of a range
  output       \* what came of them, or None

vars == <<asked, formatter, input, output>>

-------------------------------------------------------------------------------
(* Options: style of every component, dateStyle, timeStyle, hourCycle,     *)
(* hour12 ("" when not given), formatMatcher, locale, numberingSystem and  *)
(* timeZone.                                                               *)

Given(options) == Shown(options)

StyleConflict(options) ==
  "" # options.dateStyle \o options.timeStyle /\ Given(options) # {}

\* A zone name or an era alone is no choice of fields.
WithDefaultDateFields(options) ==
  IF "" # options.dateStyle \o options.timeStyle \/ Given(options) \ {"era", "zone"} # {}
  THEN options
  ELSE [options EXCEPT !.styles.year = "numeric", !.styles.month = "numeric", !.styles.day = "numeric"]

\* The region's cycles in order of preference; hour12 outdoes hourCycle.
HourCycleFor(l, clock) ==
  LET preferred == SelectSeq(Gregorian[l].hourCycles, LAMBDA cycle : Clock(cycle) = clock)
  IN  IF preferred # <<>> THEN preferred[1] ELSE IF clock = "12" THEN "h12" ELSE "h23"

ResolveHourCycle(options) ==
  CASE options.hour12 # "" -> HourCycleFor(options.locale, options.hour12)
    [] options.hour12 = "" /\ options.hourCycle # "" -> options.hourCycle
    [] OTHER -> Gregorian[options.locale].hourCycles[1]

-------------------------------------------------------------------------------
(* Construction.                                                           *)

LocalizeSeparators(program, decimal) ==
  [i \in DOMAIN program |->
     IF i < Len(program) /\ program[i] = Literal(".") /\ IsField(program[i + 1], "S")
     THEN Literal(decimal) ELSE program[i]]

LocalizeIntervalSeparators(steps, decimal) ==
  LET runs == LocalizeSeparators([i \in DOMAIN steps |-> steps[i].run], decimal)
  IN  [i \in DOMAIN steps |-> [steps[i] EXCEPT !.run = runs[i]]]

\* Candidates have the decimal point of no numbering system.
Localized(f, decimal) ==
  [f EXCEPT
     !.time = LocalizeSeparators(@, decimal),
     !.record.dateFallbacks = [k \in DOMAIN @ |-> LocalizeSeparators(@[k], decimal)],
     !.record.timeFields = [k \in DOMAIN @ |-> LocalizeIntervalSeparators(@[k], decimal)]]

CompileDateTimeProgram(connector) ==
  [i \in DOMAIN connector |-> Literal(NormalizePatternLiteral(connector[i].char))]

\* Of the locale's data, what formatting reads.
DataOfFormatting(gregorian) ==
  [k \in {"dayPeriods", "dayPeriodNames", "intervalFallback"} |-> gregorian[k]]

\* styles: what the formatter resolves to; hour cycle and clock only with an hour.
Compiled(options, selected, styles) ==
  [kind            |-> selected.kind,
   locale          |-> options.locale,
   numberingSystem |-> options.numberingSystem,
   zone            |-> options.timeZone,
   date            |-> CompilePattern(selected.date),
   time            |-> CompilePattern(selected.time),
   connector       |-> CompileDateTimeProgram(selected.dateTime),
   gregorian       |-> DataOfFormatting(Gregorian[options.locale]),
   record          |-> RangePatternRecord(options.locale, options.formatMatcher, selected),
   styles          |-> styles,
   cycle           |-> IF selected.timeFormat.styles.hour = "" THEN "" ELSE options.cycle,
   uses24Hour      |-> selected.timeFormat.styles.hour # "" /\ Clock(options.cycle) = "24"]

ResolvedComponents(options, selected) ==
  IF "" # options.dateStyle \o options.timeStyle THEN options.styles
  ELSE [c \in Components |->
          CASE c \in DateComponents -> selected.dateFormat.styles[c]
            [] c = "zone" /\ selected.timeFormat.styles.zone = "" -> selected.dateFormat.styles.zone
            [] OTHER -> selected.timeFormat.styles[c]]

Rejected(why) == [kind |-> "rejected", why |-> why]

\* Every locale has a decimal sign for every numbering system, if only the Latin one.
Localize(f) ==
  IF f.styles.fraction = "" THEN f
  ELSE Localized(f, Gregorian[f.locale].decimals[f.numberingSystem])

ConstructedFrom(options, selected) ==
  Localize(Compiled(options, selected, ResolvedComponents(options, selected)))

ConstructedOf(options) ==
  ConstructedFrom(options, SelectPattern(options.locale, options.formatMatcher, options))

WithCycle(options) == [cycle |-> ResolveHourCycle(options)] @@ options

New(options) ==
  IF StyleConflict(options) THEN Rejected("dateStyle/timeStyle")
  ELSE ConstructedOf(WithCycle(WithDefaultDateFields(options)))

-------------------------------------------------------------------------------
(* Formatting.                                                             *)

\* The one program of a format without times, or without dates.
Half(f) == IF f.kind = "date" THEN f.date ELSE f.time

PatternParts(f, local) ==
  LET parts(program) == StepParts(f, Steps(program, "shared"), local, local)
  IN  IF f.kind # "dateTime" THEN parts(Half(f)) ELSE InterpolateParts(f.connector, parts(f.time), parts(f.date))

PatternText(f, local) ==
  LET text(program) == StepText(f, Steps(program, "shared"), local, local)
  IN  IF f.kind # "dateTime" THEN text(Half(f)) ELSE InterpolateText(f.connector, text(f.time), text(f.date))

Output(instants, parts, text) == [error |-> FALSE, instants |-> instants, parts |-> parts, text |-> text]
Failure == [error |-> TRUE]

FormatInstant(f, t) ==
  LET local == GregoryLocalTime(f.zone, t)
  IN  Output(<<t>>, PatternParts(f, local), PatternText(f, local))

FractionDigits(f) == IF f.styles.fraction = "" THEN 0 ELSE DigitCount(f.styles.fraction)

PeriodsDiffer(f, start, end) ==
  CASE f.record.periodKind = "standard" -> HalfDay(start) # HalfDay(end)
    [] f.record.periodKind = "flexible" ->
         FlexibleDayPeriodValue(f, start) # FlexibleDayPeriodValue(f, end)
    [] OTHER -> FALSE

FieldsDiffer(f, field, start, end) ==
  CASE field = "period"   -> PeriodsDiffer(f, start, end)
    [] field = "fraction" -> /\ FractionDigits(f) # 0
                             /\ FractionalSecondValue(start.nanos, FractionDigits(f))
                                  # FractionalSecondValue(end.nanos, FractionDigits(f))
    [] OTHER              -> start[field] # end[field]

RangeRelation(f, start, end) ==
  LET differ == [field \in ToSet(DateRangeFields \o TimeRangeFields) |-> FieldsDiffer(f, field, start, end)]
  IN  IF f.kind = "date" THEN DateRelation(f.record, differ) ELSE TimeRelation(f.record, differ)

From(parts, source) == [i \in DOMAIN parts |-> [parts[i] EXCEPT !.source = source]]

\* Equal ends are formatted as one instant.
CollapsedRange(f, start) == FormatInstant(f, start)

IntervalRange(f, steps, start, end) ==
  LET parts == StepParts(f, steps, start, end)
      text  == StepText(f, steps, start, end)
      date  == Steps(f.date, "shared")
  IN  IF f.kind # "dateTime" THEN [parts |-> parts, text |-> text]
      ELSE [parts |-> InterpolateParts(f.connector, parts, StepParts(f, date, start, start)),
            text  |-> InterpolateText(f.connector, text, StepText(f, date, start, start))]

\* Each end in full: by the program that shows what differs, or the own pattern.
EndParts(f, program, local) ==
  IF program = <<>> THEN PatternParts(f, local)
  ELSE StepParts(f, Steps(program, "shared"), local, local)

EndText(f, program, local) ==
  IF program = <<>> THEN PatternText(f, local)
  ELSE StepText(f, Steps(program, "shared"), local, local)

FallbackRange(f, program, start, end) ==
  LET fallback == f.gregorian.intervalFallback
  IN  [parts |-> InterpolateParts(fallback, From(EndParts(f, program, start), "startRange"),
                                            From(EndParts(f, program, end), "endRange")),
       text  |-> InterpolateText(fallback, EndText(f, program, start), EndText(f, program, end))]

RangeBy(f, relation, start, end) ==
  IF relation.program # <<>> THEN IntervalRange(f, relation.program, start, end)
  ELSE FallbackRange(f, relation.fallback, start, end)

OutputOf(instants, shown) == Output(instants, shown.parts, shown.text)

LocalRange(f, instants, start, end, relation) ==
  IF relation.equal THEN CollapsedRange(f, instants[1])
  ELSE OutputOf(instants, RangeBy(f, relation, start, end))

RangeOfLocals(f, instants, start, end) ==
  LocalRange(f, instants, start, end,
             IF instants[1] = instants[2] THEN Collapsed ELSE RangeRelation(f, start, end))

RangeOf(f, instants) ==
  RangeOfLocals(f, instants, GregoryLocalTime(f.zone, instants[1]), GregoryLocalTime(f.zone, instants[2]))

-------------------------------------------------------------------------------
(* Behaviours: a formatter and its calls.                                  *)

IsFormatter == formatter # None /\ formatter.kind # "rejected"

Init == asked \in OptionBags /\ formatter = None /\ input = <<>> /\ output = None

Construct ==
  /\ formatter = None
  /\ formatter' = New(asked)
  /\ UNCHANGED <<asked, input, output>>

Format ==
  /\ IsFormatter /\ input = <<>>
  /\ \E t \in Moments :
       /\ input' = <<t>>
       /\ output' = IF OutOfRange(t) THEN Failure ELSE FormatInstant(formatter, NormalizeInstant(t))
  /\ UNCHANGED <<asked, formatter>>

FormatRange ==
  /\ IsFormatter /\ input = <<>>
  /\ \E range \in Ranges :
       /\ input' = range
       /\ output' = IF \E k \in 1 .. 2 : OutOfRange(range[k]) THEN Failure
                    ELSE RangeOf(formatter, [k \in 1 .. 2 |-> NormalizeInstant(range[k])])
  /\ UNCHANGED <<asked, formatter>>

Return ==
  /\ input # <<>>
  /\ input' = <<>> /\ output' = None
  /\ UNCHANGED <<asked, formatter>>

Next == Construct \/ Format \/ FormatRange \/ Return

Spec == Init /\ [][Next]_vars

-------------------------------------------------------------------------------
(* Properties.                                                             *)

Constructed == IsFormatter /\ input = <<>>
Answered    == IsFormatter /\ input # <<>> /\ ~output.error

FieldsOf(program) == UNION { Owner(program[i], SkeletonLetters) : i \in DOMAIN program }

Requested == Given(WithDefaultDateFields(asked))

CandidatesOf(half) ==
  Range(IF half = DateComponents THEN DateCandidates[asked.locale]
        ELSE TimePatternCandidates(asked.locale, asked.styles.fraction))

\* The sum of penalties over eleven components (matcher.go 182-222) finds a
\* pattern with every component asked for - a day period may go with a 24-hour
\* clock - and, where no zone is asked for, none of the locale's patterns that has
\* them all, on that clock, has fewer others.
FieldsShown ==
  Constructed /\ "" = asked.dateStyle \o asked.timeStyle =>
    LET shown == FieldsOf(formatter.date) \cup FieldsOf(formatter.time)
        clock == Clock(ResolveHourCycle(asked))
    IN  /\ Requested \subseteq shown \cup (IF clock = "24" THEN {"dayPeriod"} ELSE {})
        /\ "zone" \notin Requested =>
             \A half \in {DateComponents, TimeComponents} : \A format \in CandidatesOf(half) :
               /\ Requested \cap half \subseteq Shown(format)
               /\ Clock(format.cycle) \in {"", clock}
               => Cardinality((shown \cap half) \ Requested) <= Cardinality(Shown(format) \ Requested)

HasChar(program, chars) == \E i \in DOMAIN program : ~IsLiteral(program[i]) /\ program[i].char \in chars

\* Every program an hour can be shown by.
TimePrograms ==
  LET runs(steps) == [i \in DOMAIN steps |-> steps[i].run]
  IN  { program \in {formatter.time} \cup Range(formatter.record.dateFallbacks)
                      \cup { runs(steps) : steps \in Range(formatter.record.timeFields) } :
          HasChar(program, HourLetters) }

HourText(hour) == PatternText(formatter, LocalTimeAt(0, 3600 * hour, 0, 0))

\* Whatever is matched, adjusted and compiled, hours are written on the clock of the
\* resolved cycle in the pattern and in each program of its ranges; on a 12-hour
\* clock the half of the day or its period is with them, so that no two hours of a
\* day look alike (patterns.go 305-307).
ClockShown ==
  Constructed =>
    /\ \A program \in TimePrograms :
         /\ \A i \in DOMAIN program :
              "hour" \in Owner(program[i], SkeletonLetters) => program[i].char = HourChar(formatter.cycle)
         /\ Clock(formatter.cycle) = "12" => HasChar(program, {"a", "b", "B"})
    /\ HasChar(formatter.time, HourLetters) =>
         Cardinality({ HourText(hour) : hour \in 0 .. 23 }) = 24

SharedFields(parts) ==
  SelectSeq(parts, LAMBDA part : part.source = "shared" /\ part.type \notin {"literal", "zone"})

SourcesOf(type) ==
  { output.parts[i].source : i \in { j \in DOMAIN output.parts : output.parts[j].type = type } }

LocalInput(k) == GregoryLocalTime(formatter.zone, NormalizeInstant(input[k]))

Reversed == RangeOf(formatter, <<NormalizeInstant(input[2]), NormalizeInstant(input[1])>>)

DatesDiffer ==
  { k \in 1 .. 4 : LocalInput(1)[DateRangeFields[k]] # LocalInput(2)[DateRangeFields[k]] }

\* What a range says is enough to tell its ends apart. A field it shows once is the
\* same from either end, whether the ends are collapsed in one or an interval
\* pattern shares it (zone names aside: a wall time may occur twice). Ends of
\* different dates, of a format with times, both show the largest field the dates
\* differ in. The text and the parts, written apart, say the same
\* (SPECS/30-datetimeformat.md 447-453).
RangeTold ==
  Answered =>
    /\ TextOf(output.parts) = output.text
    /\ Len(input) = 2 => SharedFields(output.parts) = SharedFields(Reversed.parts)
    /\ Len(input) = 2 /\ formatter.kind # "date" /\ DatesDiffer # {} =>
         {"startRange", "endRange"} \subseteq SourcesOf(DateRangeFields[Min(DatesDiffer)])

\* Before or after, as <<day, second, nanos>> are.
Sooner(t, u) ==
  \/ t.day < u.day
  \/ t.day = u.day /\ t.second < u.second
  \/ t.day = u.day /\ t.second = u.second /\ t.nanos < u.nanos

Shifted(whole, millis) == FromMillis(whole.day, whole.second, whole.nanos \div Milli + millis)

\* An instant is formatted as the whole millisecond next to it toward 1970, however
\* its seconds are floored before 1970, and refused exactly beyond the bounds
\* of Date (instant.go 22-27).
InstantTruncated ==
  IsFormatter /\ input # <<>> =>
    /\ output.error = (\E k \in DOMAIN input :
                         \/ Sooner(Instant(MaxDay, 0, 0), input[k])
                         \/ Sooner(input[k], Instant(-MaxDay, 0, 0)))
    /\ ~output.error => \A k \in DOMAIN output.instants :
         LET whole == output.instants[k]
         IN  /\ whole.nanos % Milli = 0
             /\ IF input[k].day < 0
                THEN ~Sooner(whole, input[k]) /\ Sooner(Shifted(whole, -1), input[k])
                ELSE ~Sooner(input[k], whole) /\ Sooner(input[k], Shifted(whole, 1))

\* What a document says (SPECS/31-datetimeformat-skeleton.md 244-246) and the code does
\* not: the week and quarter skeletons that come with the data are never selected,
\* so that no letter of theirs, which no program shows, becomes text.
WeeksNeverSelected ==
  Constructed =>
    Range(formatter.date) \cap { Literal(letter) : letter \in {"w", "W", "Y", "Q"} } = {}
===============================================================================
