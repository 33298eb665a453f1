------------------------------ MODULE DateRanges ------------------------------
(***************************************************************************)
(* Programs: compiled patterns, and compiled interval patterns whose steps *)
(* say which end of a range they show. The range record of a selection has *)
(* a program for each field the ends can differ in first.                  *)
(***************************************************************************)
EXTENDS DatePatterns, FiniteSets

CONSTANT NarrowSpace   \* the narrow no-break space of time patterns

-------------------------------------------------------------------------------
(* Programs.                                                               *)

DatePatternFields == {"G", "y", "M", "L", "d", "E", "e", "c"}
TimePatternFields == HourLetters \cup (ZoneLetters \ {"V"}) \cup {"m", "s", "S", "a", "b", "B"}
ProgramFields     == DatePatternFields \cup TimePatternFields

NormalizePatternLiteral(text) == IF text = NarrowSpace THEN " " ELSE text

\* Letters no program shows are text.
CompileRun(run) ==
  IF IsLiteral(run) THEN <<Literal(NormalizePatternLiteral(run.char))>>
  ELSE IF run.char \in ProgramFields THEN <<run>>
  ELSE [i \in 1 .. run.width |-> Literal(run.char)]

CompilePattern(pattern) == FlattenSeq([i \in DOMAIN pattern |-> CompileRun(pattern[i])])

IntervalFieldKey(char) ==
  CASE char = "L" -> "M" [] char \in {"e", "c"} -> "E" [] char \in {"H", "K", "k"} -> "h"
    [] char \in {"b", "B"} -> "a" [] char \in ZoneLetters \ {"v"} -> "z" [] OTHER -> char

\* A field that occurs twice is shown of the start, then of the end.
OccurrenceSource(program, i) ==
  LET same == { j \in DOMAIN program :
                  /\ ~IsLiteral(program[j])
                  /\ IntervalFieldKey(program[j].char) = IntervalFieldKey(program[i].char) }
  IN  IF Cardinality(same) = 1 THEN "shared" ELSE IF Min(same) = i THEN "startRange" ELSE "endRange"

\* A literal is of the fields around it when these are of one end.
SurroundingSource(program, i) ==
  LET fields  == { j \in DOMAIN program : ~IsLiteral(program[j]) }
      before  == { j \in fields : j < i }
      after   == fields \ before
      nearest == (IF before = {} THEN {} ELSE {Max(before)}) \cup (IF after = {} THEN {} ELSE {Min(after)})
      sources == { OccurrenceSource(program, j) : j \in nearest }
  IN  IF Cardinality(sources) = 1 THEN CHOOSE source \in sources : TRUE ELSE "shared"

CompileIntervalPattern(pattern) ==
  LET program == CompilePattern(pattern)
  IN  [i \in DOMAIN program |->
         [run    |-> program[i],
          source |-> IF IsLiteral(program[i]) THEN SurroundingSource(program, i)
                     ELSE OccurrenceSource(program, i)]]

-------------------------------------------------------------------------------
(* The range record. An empty program is none.                             *)

DateRangeFields == <<"era", "year", "month", "day">>
TimeRangeFields == <<"period", "hour", "minute", "second", "fraction">>

Intervals(l, skeleton) == { row \in Gregorian[l].intervals : row.skeleton = skeleton }

\* The pattern of the first of the letters that has one.
IntervalPattern(rows, letters) ==
  LET having(letter) == { row \in rows : row.field = letter }
      found == SelectSeq(letters, LAMBDA letter : having(letter) # {})
  IN  IF found = <<>> THEN <<>> ELSE (CHOOSE row \in having(found[1]) : TRUE).pattern

AdjustedRangePattern(pattern, format) ==
  CompileIntervalPattern(
    AdjustHourCycle(AdjustFieldTypes(ParsePattern(pattern), FormatOptions(format)), format.cycle).pattern)

\* Fractional candidates have the intervals of their whole seconds.
TimeIntervals(l, skeleton) ==
  IF Intervals(l, skeleton) # {} \/ skeleton = <<>> \/ Last(skeleton).char # "S"
  THEN Intervals(l, skeleton)
  ELSE Intervals(l, Front(skeleton))

DateRangePrograms(l, format) ==
  LET rows == Intervals(l, format.skeleton)
      Program(letter) == AdjustedRangePattern(IntervalPattern(rows, <<letter>>), format)
  IN  <<Program("G"), Program("y"), Program("M"), Program("d")>>

TimeRangePrograms(rows, format) ==
  LET Program(letters) == AdjustedRangePattern(IntervalPattern(rows, letters), format)
  IN  <<Program(<<"B", "a">>), Program(<<"h", "H">>),
        Program(<<"m">>), Program(<<"s">>), Program(<<"S">>)>>

PeriodKind(rows) ==
  IF IntervalPattern(rows, <<"B">>) # <<>> THEN "flexible"
  ELSE IF IntervalPattern(rows, <<"a">>) # <<>> THEN "standard" ELSE "none"

\* An end of a range whose dates differ: the whole date, so that they show it.
EndpointProgram(dateTime, dateFormat, time) ==
  CompilePattern(FormatIndexed(dateTime, time, dateFormat.pattern))

AddedStyle == [era |-> "short", year |-> "numeric", month |-> "numeric", day |-> "numeric"]

\* A time range gets a numeric date, and the era when that differs.
TimeDateOptions(era) ==
  Request([NoStyles EXCEPT !.year = "numeric", !.month = "numeric", !.day = "numeric", !.era = era], "")

WithSmallerMissingFields(format, k) ==
  LET missing == { DateRangeFields[j] : j \in k + 1 .. 4 }
      added   == { c \in missing : format.styles[c] = "" }
  IN  Request([c \in Components |-> IF c \in added THEN AddedStyle[c] ELSE format.styles[c]], format.cycle)

\* A date-time gets what it lacks of the differing field and of smaller ones.
WithMissingFields(format, k) ==
  LET missing == { DateRangeFields[j] : j \in k .. 4 }
      added   == { c \in missing : format.styles[c] = "" }
  IN  Request([c \in Components |-> IF c \in added THEN AddedStyle[c] ELSE format.styles[c]], format.cycle)

DateFallback(l, matcher, selected, k) ==
  CASE selected.kind = "time" ->
         EndpointProgram(DateTimeStylePattern(l, "short"),
                         MatchDate(l, matcher, TimeDateOptions(IF k = 1 THEN "short" ELSE "")),
                         selected.time)
    [] selected.kind = "dateTime" /\ selected.dateFormat.styles[DateRangeFields[k]] = "" ->
         EndpointProgram(selected.dateTime,
                         MatchDate(l, matcher, WithMissingFields(selected.dateFormat, k)),
                         selected.time)
    [] OTHER -> <<>>

RangePatternRecord(l, matcher, selected) ==
  LET rows == TimeIntervals(l, selected.timeFormat.skeleton)
  IN  [dateFields    |-> DateRangePrograms(l, selected.dateFormat),
       dateFallbacks |-> [k \in 1 .. 4 |-> DateFallback(l, matcher, selected, k)],
       timeFields    |-> TimeRangePrograms(rows, selected.timeFormat),
       periodKind    |-> PeriodKind(rows)]

-------------------------------------------------------------------------------
(* Which program a range takes.                                            *)

\* differ: of each field, whether the ends differ in it.
\* Fields are compared in order from one until the programs end, however they
\* go on: the first that differs decides; ends that differ in none are equal.
FirstDifference(programs, fields, from, differ) ==
  LET ended(k)  == programs[k] = <<>> /\ \E j \in from .. k - 1 : programs[j] # <<>>
      reached   == { k \in from .. Len(fields) : \A j \in from .. k : ~ended(j) }
      different == { k \in reached : differ[fields[k]] }
  IN  IF different = {} THEN 0 ELSE Min(different)

Relation(equal, program, fallback) == [equal |-> equal, program |-> program, fallback |-> fallback]
Collapsed == Relation(TRUE, <<>>, <<>>)

DateRelation(record, differ) ==
  LET k == FirstDifference(record.dateFields, DateRangeFields, 1, differ)
  IN  IF k = 0 THEN Collapsed ELSE Relation(FALSE, record.dateFields[k], <<>>)

\* From the first field that has a program; without one, every field but the
\* period counts.
TimeOfDayRelation(record, differ) ==
  LET having == { k \in DOMAIN record.timeFields : record.timeFields[k] # <<>> }
      from   == IF having = {} THEN 2 ELSE Min(having)
      k      == FirstDifference(record.timeFields, TimeRangeFields, from, differ)
  IN  IF k = 0 THEN Collapsed ELSE Relation(FALSE, record.timeFields[k], <<>>)

TimeRelation(record, differ) ==
  LET dates == { k \in 1 .. 4 : differ[DateRangeFields[k]] }
  IN  IF dates # {} THEN Relation(FALSE, <<>>, record.dateFallbacks[Min(dates)])
      ELSE TimeOfDayRelation(record, differ)
===============================================================================
