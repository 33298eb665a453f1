---------------------------- MODULE DateTimeParts ----------------------------
(***************************************************************************)
(* What the programs of a formatter show of a time. A text is a sequence   *)
(* of pieces: a piece is what kind of text it is and which. A number is a  *)
(* piece of the numbering system that writes it; a name, of the list it is *)
(* found in. Parts and text are written by two separate passes.            *)
(***************************************************************************)
EXTENDS DateRanges

CONSTANTS
  Spaces,      \* the texts of literals that are white space
  UtcOffset(_, _)   \* the offset, in seconds, of a time zone at an instant

-------------------------------------------------------------------------------
(* Instants are UTC: a day from 1970-01-01, a second of it and its         *)
(* nanoseconds.                                                            *)

SecondsPerDay == 86400
MaxDay        == 100000000   \* 8.64e15 ms, the bound of Date
Milli         == 1000000

Instant(day, second, nanos) == [day |-> day, second |-> second, nanos |-> nanos]

OutOfRange(t) ==
  \/ t.day > MaxDay \/ t.day < -MaxDay
  \/ t.day = MaxDay /\ (t.second # 0 \/ t.nanos # 0)

\* A count of milliseconds of a second may be a thousand.
FromMillis(day, second, millis) ==
  LET carried == second + millis \div 1000
  IN  Instant(day + carried \div SecondsPerDay, carried % SecondsPerDay, (millis % 1000) * Milli)

FloorInstant(t) == FromMillis(t.day, t.second, t.nanos \div Milli)

\* Truncation toward zero: before 1970 a remainder counts for one more.
NormalizeInstant(t) ==
  FromMillis(t.day, t.second,
             t.nanos \div Milli + (IF t.day < 0 /\ t.nanos % Milli # 0 THEN 1 ELSE 0))

\* The proleptic Gregorian date of a day, by eras of 400 years from March.
CivilDate(day) ==
  LET z   == day + 719468
      doe == z % 146097
      yoe == (doe - doe \div 1460 + doe \div 36524 - doe \div 146096) \div 365
      doy == doe - (365 * yoe + yoe \div 4 - yoe \div 100)
      mp  == (5 * doy + 2) \div 153
      month == IF mp < 10 THEN mp + 3 ELSE mp - 9
  IN  [year  |-> yoe + 400 * (z \div 146097) + (IF month <= 2 THEN 1 ELSE 0),
       month |-> month,
       day   |-> doy - (153 * mp + 2) \div 5 + 1]

LocalTimeAt(day, second, nanos, offset) ==
  LET civil == CivilDate(day)
  IN  [era |-> IF civil.year <= 0 THEN "BC" ELSE "AD", year |-> civil.year,
       month |-> civil.month, day |-> civil.day, weekday |-> (day + 4) % 7,
       hour |-> second \div 3600, minute |-> (second \div 60) % 60, second |-> second % 60,
       nanos |-> nanos, offset |-> offset]

InLocation(t, offset) ==
  LET shifted == t.second + offset
  IN  LocalTimeAt(t.day + shifted \div SecondsPerDay, shifted % SecondsPerDay, t.nanos, offset)

GregoryLocalTime(zone, t) == InLocation(t, UtcOffset(zone, t))

DisplayYear(local) == IF local.year <= 0 THEN 1 - local.year ELSE local.year

-------------------------------------------------------------------------------
(* Values of fields.                                                       *)

Piece(what, text) == <<what, text>>

TwoDigit(value) == IF value < 10 THEN "0" \o ToString(value) ELSE ToString(value)

LocalizedNumericField(f, value, width) ==
  Piece(f.numberingSystem, IF width = 2 THEN TwoDigit(value % 100) ELSE ToString(value))

NameWidth(width) == CASE width = 5 -> "narrow" [] width = 4 -> "wide" [] OTHER -> "abbreviated"

Name(list, width, which) == Piece(list \o " " \o NameWidth(width), which)

MonthName(f, run, month) ==
  IF run.width <= 2 THEN LocalizedNumericField(f, month, run.width)
  ELSE Name(IF run.char = "L" THEN "standalone month" ELSE "month", run.width, ToString(month))

HourPatternValue(f, char, hour) ==
  CASE f.uses24Hour \/ char \in {"H", "k"} -> IF char = "k" /\ hour = 0 THEN 24 ELSE hour
    [] char = "K"                          -> hour % 12
    [] OTHER                               -> IF hour % 12 = 0 THEN 12 ELSE hour % 12

HourWidth(f, run) == IF f.uses24Hour /\ run.char \in {"h", "K"} /\ run.width < 2 THEN 2 ELSE run.width

FractionalSecondValue(nanos, digits) ==
  LET value == nanos \div 10 ^ (9 - digits)
      zeros == digits - Len(ToString(value))
  IN  FoldLeft(LAMBDA text, zero : "0" \o text, ToString(value), [i \in 1 .. zeros |-> "0"])

HalfDay(local) == IF local.hour < 12 THEN "am" ELSE "pm"

\* Points before ranges; a range from late to early goes through midnight.
DayPeriodFor(rules, second) ==
  LET point == { r \in rules : r.from = r.to /\ second = r.from }
      range == { r \in rules : \/ r.from < r.to /\ second >= r.from /\ second < r.to
                               \/ r.from > r.to /\ (second >= r.from \/ second < r.to) }
  IN  CASE point # {} -> (CHOOSE r \in point : TRUE).type
        [] point = {} /\ range # {} -> (CHOOSE r \in range : TRUE).type
        [] OTHER -> ""

\* Minutes and seconds count where the whole format shows them.
FlexibleDayPeriodValue(f, local) ==
  LET Shows(char) == \E i \in DOMAIN f.time : IsField(f.time[i], char)
      period == DayPeriodFor(f.gregorian.dayPeriods,
                             3600 * local.hour + (IF Shows("m") THEN 60 * local.minute ELSE 0)
                                               + (IF Shows("s") THEN local.second ELSE 0))
  IN  IF period = "" THEN HalfDay(local) ELSE period

FlexibleDayPeriodName(f, width, local) ==
  LET period == FlexibleDayPeriodValue(f, local)
  IN  Name("day period", width,
           IF period \in f.gregorian.dayPeriodNames THEN period ELSE HalfDay(local))

ZoneName(f, run, local) ==
  CASE run.char = "z" -> Name("zone name", run.width, ToString(local.offset))
    [] run.char = "v" -> Name("zone", run.width, f.zone)
    [] OTHER -> Piece("offset", IF f.styles.zone = "longOffset" THEN ToString(local.offset) \o " long"
                                ELSE ToString(local.offset))

Owned(run) == CHOOSE c \in Owner(run, [AdjustedLetters EXCEPT !.minute = {"m"}, !.second = {"s"}]) : TRUE

Value(f, run, local) ==
  LET c == Owned(run)
      Number(n) == LocalizedNumericField(f, n, run.width)
  IN  CASE c = "weekday"  -> Name("weekday", run.width, ToString(local.weekday))
        [] c = "month"    -> MonthName(f, run, local.month)
        [] c = "day"      -> Number(local.day)
        [] c = "year"     -> Number(DisplayYear(local))
        [] c = "era"      -> Name("era", run.width, local.era)
        [] c = "hour"     -> LocalizedNumericField(f, HourPatternValue(f, run.char, local.hour), HourWidth(f, run))
        [] c = "minute"   -> Number(local.minute)
        [] c = "second"   -> Number(local.second)
        [] c = "fraction" -> Piece(f.numberingSystem, FractionalSecondValue(local.nanos, run.width))
        [] c = "zone"     -> ZoneName(f, run, local)
        [] run.char = "a" -> Name("day period", run.width, HalfDay(local))
        [] OTHER          -> FlexibleDayPeriodName(f, run.width, local)

\* A 24-hour clock leaves AM and PM out.
IsSkipped(f, run) == run.char = "a" /\ f.uses24Hour

-------------------------------------------------------------------------------
(* Parts. Every part has a source; without a range it is shared.           *)

Part(type, value, source) == [type |-> type, value |-> value, source |-> source]

IsWhite(piece) == piece[1] = "literal" /\ piece[2] \in Spaces

TrimTrailingSpace(text) ==
  LET kept == { n \in 0 .. Len(text) : \A i \in n + 1 .. Len(text) : IsWhite(text[i]) }
  IN  SubSeq(text, 1, Min(kept))

\* A literal joins one of the same end.
AppendLiteralPart(parts, text, source) ==
  IF parts # <<>> /\ Last(parts).type = "literal" /\ Last(parts).source = source
  THEN [parts EXCEPT ![Len(parts)].value = @ \o text]
  ELSE Append(parts, Part("literal", text, source))

TrimTrailingLiteralSpace(parts) ==
  IF parts = <<>> \/ Last(parts).type # "literal" THEN parts
  ELSE LET trimmed == TrimTrailingSpace(Last(parts).value)
       IN  IF trimmed = <<>> THEN Front(parts) ELSE [parts EXCEPT ![Len(parts)].value = trimmed]

Steps(program, source) == [i \in DOMAIN program |-> [run |-> program[i], source |-> source]]

EndOf(step, start, end) == IF step.source = "endRange" THEN end ELSE start

StepParts(f, steps, start, end) ==
  FoldLeft(LAMBDA parts, step :
             IF IsLiteral(step.run)
             THEN AppendLiteralPart(parts, <<Piece("literal", step.run.char)>>, step.source)
             ELSE IF IsSkipped(f, step.run) THEN TrimTrailingLiteralSpace(parts)
             ELSE Append(parts, Part(Owned(step.run), <<Value(f, step.run, EndOf(step, start, end))>>,
                                     step.source)),
           <<>>, steps)

StepText(f, steps, start, end) ==
  FoldLeft(LAMBDA text, step :
             IF IsLiteral(step.run) THEN Append(text, Piece("literal", step.run.char))
             ELSE IF IsSkipped(f, step.run) THEN TrimTrailingSpace(text)
             ELSE Append(text, Value(f, step.run, EndOf(step, start, end))),
           <<>>, steps)

\* {0} and {1} of a connector, and the text between them.
InterpolateParts(connector, zero, one) ==
  FoldLeft(LAMBDA parts, run :
             CASE run = Literal("{0}") -> parts \o zero
               [] run = Literal("{1}") -> parts \o one
               [] OTHER -> AppendLiteralPart(parts, <<Piece("literal", run.char)>>, "shared"),
           <<>>, connector)

InterpolateText(connector, zero, one) ==
  FlattenSeq([i \in DOMAIN connector |->
                CASE connector[i] = Literal("{0}") -> zero
                  [] connector[i] = Literal("{1}") -> one
                  [] OTHER -> <<Piece("literal", connector[i].char)>>])

TextOf(parts) == FlattenSeq([i \in DOMAIN parts |-> parts[i].value])
===============================================================================
