----------------------------- MODULE DatePatterns -----------------------------
(***************************************************************************)
(* Which of a locale's patterns a formatter takes: from the date and time  *)
(* styles, or from the candidates its components match.                    *)
(***************************************************************************)
EXTENDS DateMatching

CONSTANT Gregorian   \* of each locale: its patterns, style by style and skeleton by skeleton

Locales        == DOMAIN Gregorian
DateTimeStyles == {"full", "long", "medium", "short"}

ASSUME GregorianPatterns ==
  \A l \in Locales :
    /\ Gregorian[l].available # <<>>
    /\ \A f \in {"dateFormats", "timeFormats", "dateTimeAt", "dateTimeStandard"} :
         DOMAIN Gregorian[l][f] = DateTimeStyles

-------------------------------------------------------------------------------
(* Candidates, in the order of their skeletons.                            *)

HasDate(format) == Shown(format) \cap DateComponents # {}
HasTime(format) == Shown(format) \cap TimeComponents # {}

AvailableCandidates ==
  [l \in Locales |->
     LET rows == Gregorian[l].available
     IN  [i \in DOMAIN rows |-> Parse(rows[i].skeleton, rows[i].pattern)]]

DateCandidates ==
  [l \in Locales |-> SelectSeq(AvailableCandidates[l], LAMBDA f : HasDate(f) /\ ~HasTime(f))]
TimeCandidates ==
  [l \in Locales |-> SelectSeq(AvailableCandidates[l], LAMBDA f : HasTime(f) /\ ~HasDate(f))]

\* After the first seconds of the pattern, else at its end.
InsertFractionalSecondField(pattern, digits) ==
  LET seconds == { i \in DOMAIN pattern : ~IsLiteral(pattern[i]) /\ pattern[i].char = "s" }
      at      == IF seconds = {} THEN Len(pattern) ELSE Min(seconds)
  IN  SubSeq(pattern, 1, at) \o <<Literal("."), Field("S", digits)>>
        \o SubSeq(pattern, at + 1, Len(pattern))

WithFraction(format, digits) ==
  [format EXCEPT !.skeleton = Append(@, Field("S", digits)),
                 !.pattern = InsertFractionalSecondField(@, digits),
                 !.styles.fraction = DigitStyles[digits]]

FractionalTimeCandidates ==
  [l \in Locales |->
     [digits \in 1 .. 3 |->
        LET whole == SelectSeq(TimeCandidates[l],
                               LAMBDA f : f.styles.second # "" /\ f.styles.fraction = "")
        IN  TimeCandidates[l] \o [i \in DOMAIN whole |-> WithFraction(whole[i], digits)]]]

TimePatternCandidates(l, fraction) ==
  IF fraction = "" THEN TimeCandidates[l] ELSE FractionalTimeCandidates[l][DigitCount(fraction)]

MatchDate(l, matcher, request) ==
  MatchComponentPattern(matcher, request, DateCandidates[l], Gregorian[l].appendZone)

MatchTime(l, matcher, request) ==
  MatchComponentPattern(matcher, request, TimePatternCandidates(l, request.styles.fraction),
                        Gregorian[l].appendZone)

-------------------------------------------------------------------------------
(* Styles.                                                                 *)

DateTimeStylePattern(l, style) ==
  IF Gregorian[l].dateTimeAt[style] # <<>> THEN Gregorian[l].dateTimeAt[style]
  ELSE Gregorian[l].dateTimeStandard[style]

StylePatternOptions(pattern) == FormatOptions(ParsePattern(pattern))

TimeStylePatternOptions(pattern) == [StylePatternOptions(pattern) EXCEPT !.styles.dayPeriod = ""]

StyleDateIntervalFormat(l, matcher, style) ==
  MatchDate(l, matcher, StylePatternOptions(Gregorian[l].dateFormats[style]))

\* The time of a style, and the format its ranges go by. A cycle of the other
\* clock takes the locale's whole pattern for it.
ResolvedTimeStyle(l, matcher, style, cycle) ==
  LET raw        == Gregorian[l].timeFormats[style]
      options    == TimeStylePatternOptions(raw)
      format     == MatchTime(l, matcher, [options EXCEPT !.cycle = cycle])
      sameFamily == Clock(options.cycle) = Clock(cycle)
  IN  [pattern |-> IF sameFamily THEN AdjustHourCycle(ParsePattern(raw), cycle).pattern
                   ELSE format.pattern,
       format  |-> format]

-------------------------------------------------------------------------------
(* The selection. options: styles of components, or dateStyle and          *)
(* timeStyle, and the resolved hour cycle.                                 *)

Selection(kind, date, time, dateTime, dateFormat, timeFormat) ==
  [kind |-> kind, date |-> date, time |-> time, dateTime |-> dateTime,
   dateFormat |-> dateFormat, timeFormat |-> timeFormat]

Only(styles, components) == [c \in Components |-> IF c \in components THEN styles[c] ELSE ""]

\* The date of a date-time is matched without a clock.
DateOnlyMatcherOptions(options) == Request(Only(options.styles, DateComponents), "")
TimeOnlyMatcherOptions(options) == Request(Only(options.styles, TimeComponents), options.cycle)

ComponentDateTimeStyle(options, dateFormat) ==
  IF dateFormat.styles.month = "long"
  THEN IF dateFormat.styles.weekday = "long" THEN "full" ELSE "long"
  ELSE IF options.styles.year = "2-digit" /\ options.styles.month \in NumericStyles THEN "short"
  ELSE "medium"

DatePattern(format) == Selection("date", format.pattern, <<>>, <<>>, format, NoFormat)
TimePattern(format) == Selection("time", <<>>, format.pattern, <<>>, NoFormat, format)

CombinedPattern(l, options, dateFormat, timeFormat) ==
  Selection("dateTime", dateFormat.pattern, timeFormat.pattern,
            DateTimeStylePattern(l, ComponentDateTimeStyle(options, dateFormat)),
            dateFormat, timeFormat)

ComponentPattern(l, matcher, options) ==
  LET request == Request(options.styles, options.cycle)
  IN  CASE HasDate(options) /\ HasTime(options) ->
             CombinedPattern(l, options, MatchDate(l, matcher, DateOnlyMatcherOptions(options)),
                                         MatchTime(l, matcher, TimeOnlyMatcherOptions(options)))
        [] HasDate(options) /\ ~HasTime(options) -> DatePattern(MatchDate(l, matcher, request))
        [] OTHER            -> TimePattern(MatchTime(l, matcher, request))

StyledDate(l, matcher, style) ==
  Selection("date", Gregorian[l].dateFormats[style], <<>>, <<>>,
            StyleDateIntervalFormat(l, matcher, style), NoFormat)

StyledTime(time) == Selection("time", <<>>, time.pattern, <<>>, NoFormat, time.format)

StyledDateTime(l, matcher, style, time) ==
  Selection("dateTime", Gregorian[l].dateFormats[style], time.pattern,
            DateTimeStylePattern(l, style),
            StyleDateIntervalFormat(l, matcher, style), time.format)

SelectPattern(l, matcher, options) ==
  CASE options.dateStyle # "" /\ options.timeStyle # "" ->
         StyledDateTime(l, matcher, options.dateStyle,
                        ResolvedTimeStyle(l, matcher, options.timeStyle, options.cycle))
    [] options.dateStyle # "" /\ options.timeStyle = "" -> StyledDate(l, matcher, options.dateStyle)
    [] options.dateStyle = "" /\ options.timeStyle # "" ->
         StyledTime(ResolvedTimeStyle(l, matcher, options.timeStyle, options.cycle))
    [] OTHER -> ComponentPattern(l, matcher, options)
===============================================================================
