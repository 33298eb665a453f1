---------------------------- MODULE DurationFormat ----------------------------
(***************************************************************************)
(* durationformat: a formatter is constructed from a base style and        *)
(* options of each unit, may be constructed again from the options it      *)
(* resolved, and lays a duration out as groups of numbers: one group for a *)
(* unit in words, one last group for the clock (hours:minutes:seconds),    *)
(* subsecond units joined to the unit before them as its decimal fraction. *)
(* The groups are the elements of a list, whose literals part them.        *)
(* What a number looks like is left to the embedded NumberFormats, except  *)
(* for the truncation and the sign that this package asks of them.         *)
(***************************************************************************)
EXTENDS ListFormat, FiniteSets, FiniteSetsExt

CONSTANTS
  Unset,               \* an option that is not given
  NotIntegral,         \* NaN, an infinity or a number with a fraction
  Rejected,            \* an error
  None,
  NanosecondsPerUnit,  \* of days and shorter units, powers of ten below a minute
  CalendarLimit,       \* durationCalendarUnitMaxAbsExclusive
  NormalizedLimit,     \* nanoseconds, exclusive
  UnitListPatterns,    \* the locale's patterns of lists of units, by style
  Requests,            \* [base, units, fractionalDigits]: what callers construct with
  Durations            \* functions from units to integers or NotIntegral

VARIABLES
  request,    \* the options of the last construction
  formatter,  \* [base, units, fractionalDigits], Rejected, or None before it
  duration,   \* the duration formatted last, or None
  result,     \* its groups, Rejected, or None
  parts       \* the groups as a list: numbers and literals

vars == <<request, formatter, duration, result, parts, listing>>

Units == << "years", "months", "weeks", "days", "hours", "minutes", "seconds",
            "milliseconds", "microseconds", "nanoseconds" >>
UnitSet == ToSet(Units)
Position == [u \in UnitSet |-> CHOOSE i \in DOMAIN Units : Units[i] = u]

DateUnits         == {"years", "months", "weeks", "days"}
CalendarUnits     == {"years", "months", "weeks"}
ClockUnits        == {"hours", "minutes", "seconds"}
ClockContinuation == {"minutes", "seconds"}
Fractional        == {"milliseconds", "microseconds", "nanoseconds"}
TracksPrevious    == UnitSet \ (DateUnits \cup {"nanoseconds"})
DigitalDefault(u) == IF u \in DateUnits THEN "short" ELSE "numeric"

\* Parents have a fractionalChild, the unit after them.
Parents  == {"seconds", "milliseconds", "microseconds"}
Child(u) == Units[Position[u] + 1]

ASSUME Scales ==
  /\ NanosecondsPerUnit \in [UnitSet \ CalendarUnits -> Nat \ {0}]
  /\ NanosecondsPerUnit["nanoseconds"] = 1
  /\ \A u \in Parents : /\ NanosecondsPerUnit[u] % NanosecondsPerUnit[Child(u)] = 0
                        /\ \E width \in 0..9 : NanosecondsPerUnit[u] = 10^width

WordStyles    == {"long", "short", "narrow"}
ClockStyles   == {"numeric", "2-digit"}
StylesOf(u)   == WordStyles \cup (CASE u \in DateUnits  -> {}
                                    [] u \in ClockUnits -> ClockStyles
                                    [] OTHER            -> {"numeric"})

Bases    == WordStyles \cup {"digital"}
Displays == {"auto", "always"}

Digits       == {Unset} \cup 0..9
UnitShape    == [style : WordStyles \cup ClockStyles \cup {"fractional"}, display : Displays]
OptionShape  == [style : WordStyles \cup ClockStyles \cup {Unset}, display : Displays \cup {Unset}]
RequestShape == [base : Bases, units : [UnitSet -> OptionShape], fractionalDigits : Int \cup {Unset}]
Formatters   == [base : Bases, units : [UnitSet -> UnitShape], fractionalDigits : Digits]

ASSUME Options ==
  /\ Requests \subseteq RequestShape
  /\ Durations \subseteq [UnitSet -> Int \cup {NotIntegral}]
  /\ \A style \in WordStyles : HasTemplates(UnitListPatterns[style])
  /\ Unset \notin WordStyles \cup ClockStyles \cup Displays \cup Int
  /\ None # Rejected /\ {None, Rejected} \cap (RequestShape \cup UnitShape \cup Formatters) = {}

-------------------------------------------------------------------------------
(* Construction: the units in order, each looking at the resolved style of *)
(* the one before it.                                                      *)

ContinuesClock(style) == style \in ClockStyles
ContinuesChain(style) == style = "fractional" \/ ContinuesClock(style)

ChosenStyle(u, option, base, prev) ==
  IF option.style # Unset THEN option.style
  ELSE IF base = "digital" THEN DigitalDefault(u)
  ELSE IF ContinuesChain(prev) THEN "numeric" ELSE base

\* Which units a style that was not asked for keeps on display.
AlwaysByDefault(u, option, base, prev) ==
  \/ option.style # Unset
  \/ base = "digital" /\ u \in ClockUnits
  \/ base # "digital" /\ ContinuesChain(prev) /\ u \in ClockContinuation

InternalStyle(u, style) == IF style = "numeric" /\ u \in Fractional THEN "fractional" ELSE style

ValidUnitStyleClockOnly(style, display, prev) ==
  /\ ~(display = "always" /\ style = "fractional")
  /\ ContinuesClock(prev) => style = "fractional" \/ style \in ClockStyles

ValidUnitStyle(style, display, prev) ==
  /\ ~(display = "always" /\ style = "fractional")
  /\ prev = "fractional" => style = "fractional"
  /\ ContinuesClock(prev) => style = "fractional" \/ style \in ClockStyles

UnitOptions(u, option, base, prev) ==
  LET chosen  == ChosenStyle(u, option, base, prev)
      style   == InternalStyle(u, chosen)
      default == IF style # "fractional" /\ AlwaysByDefault(u, option, base, prev)
                 THEN "always" ELSE "auto"
      display == IF option.display = Unset THEN default ELSE option.display
  IN  IF chosen \notin StylesOf(u) \/ ~ValidUnitStyle(style, display, prev)
      THEN Rejected
      ELSE [ style   |-> IF u \in ClockContinuation /\ ContinuesClock(prev)
                         THEN "2-digit" ELSE style,
             display |-> display ]

\* The loop of resolveUnitOptions: what is resolved so far, and prevStyle.
ResolveUnit(req, sofar, u) ==
  IF sofar.rejected THEN sofar
  ELSE LET unit == UnitOptions(u, req.units[u], req.base, sofar.prev)
       IN  IF unit = Rejected THEN [sofar EXCEPT !.rejected = TRUE]
           ELSE [ sofar EXCEPT !.units = [@ EXCEPT ![u] = unit],
                               !.prev  = IF u \in TracksPrevious THEN unit.style ELSE @ ]

ResolveUnits(req) ==
  FoldLeft(LAMBDA sofar, u : ResolveUnit(req, sofar, u),
           [units |-> [u \in UnitSet |-> None], prev |-> "", rejected |-> FALSE], Units)

ValidFractionalDigits(digits) == digits \in Digits

Construct(req) ==
  IF ~ValidFractionalDigits(req.fractionalDigits) THEN Rejected
  ELSE LET resolved == ResolveUnits(req)
       IN  IF resolved.rejected THEN Rejected
           ELSE [ base |-> req.base, units |-> resolved.units,
                  fractionalDigits |-> req.fractionalDigits ]

InternalUnitStyle(style) == style

PublicUnitStyle(style) == IF style = "fractional" THEN "numeric" ELSE style

ResolvedOptions(f) ==
  [ f EXCEPT !.units = [u \in UnitSet |->
      [style |-> PublicUnitStyle(f.units[u].style), display |-> f.units[u].display]] ]

-------------------------------------------------------------------------------
(* Formatting.                                                             *)

Magnitude(n) == IF n < 0 THEN -n ELSE n

Nanoseconds(d) == FoldSet(LAMBDA u, total : total + d[u] * NanosecondsPerUnit[u],
                          0, DOMAIN NanosecondsPerUnit)

MixedSigns(d) == (\E u \in UnitSet : d[u] < 0) /\ (\E u \in UnitSet : d[u] > 0)

ValidDuration(d) ==
  /\ ~MixedSigns(d)
  /\ \A u \in CalendarUnits : Magnitude(d[u]) < CalendarLimit
  /\ Magnitude(Nanoseconds(d)) < NormalizedLimit

Negative(d) == \E u \in UnitSet : d[u] < 0

Shown(f, d, u) == f.units[u].display = "always" \/ d[u] # 0

NextUnitFractional(f, u) == u \in Parents /\ f.units[Child(u)].style = "fractional"

\* A unit and the subsecond units below it, in units of 10^-FractionWidth(u).
FractionWidth(u) == CHOOSE width \in 0..9 : NanosecondsPerUnit[u] = 10^width
Descendants(u)   == {c \in Fractional : Position[c] > Position[u]}
FractionalAmount(d, u) ==
  LET scale == 10^FractionWidth(u)
  IN  FoldSet(LAMBDA c, total :
                total + (Magnitude(d[c]) * scale) \div (NanosecondsPerUnit[u] \div NanosecondsPerUnit[c]),
              Magnitude(d[u]) * scale, Descendants(u))

\* The embedded NumberFormat rounds fractions toward zero.
Truncated(amount, width, digits) ==
  IF digits = Unset \/ digits >= width THEN amount
  ELSE amount - (amount % 10^(width - digits))

IntegerNumber(f, d, u, signAvailable) ==
  [ unit |-> u, style |-> f.units[u].style, amount |-> Magnitude(d[u]), width |-> 0,
    minus |-> Negative(d) /\ signAvailable ]

FractionalNumber(f, d, u, signAvailable) ==
  [ unit |-> u, style |-> f.units[u].style, width |-> FractionWidth(u),
    amount |-> Truncated(FractionalAmount(d, u), FractionWidth(u), f.fractionalDigits),
    minus |-> Negative(d) /\ signAvailable ]

\* durationNumericLayoutFor: the clock units shown, from the first numeric unit on.
HasSubsecondValue(d) == \E u \in Fractional : d[u] # 0
HoursFormatted(f, d, first)   == first = "hours" /\ Shown(f, d, "hours")
SecondsWhenShown(f, d)        == Shown(f, d, "seconds")
SecondsFormatted(f, d)        == Shown(f, d, "seconds") \/ HasSubsecondValue(d)
MinutesWhenShown(f, d, first) == first \in {"hours", "minutes"} /\ Shown(f, d, "minutes")
MinutesFormatted(f, d, first) ==
  /\ first \in {"hours", "minutes"}
  /\ \/ HoursFormatted(f, d, first) /\ SecondsFormatted(f, d)
     \/ Shown(f, d, "minutes")

NumericLayout(f, d, first) ==
  (IF HoursFormatted(f, d, first) THEN <<"hours">> ELSE <<>>)
    \o (IF MinutesFormatted(f, d, first) THEN <<"minutes">> ELSE <<>>)
    \o (IF SecondsFormatted(f, d) THEN <<"seconds">> ELSE <<>>)

NumericUnits(f, d, layout, signAvailable) ==
  [ i \in 1..Len(layout) |->
      IF layout[i] = "seconds"
      THEN FractionalNumber(f, d, "seconds", signAvailable /\ i = 1)
      ELSE IntegerNumber(f, d, layout[i], signAvailable /\ i = 1) ]

\* The loop of partitionDurationFormatPattern: the groups so far, whether the
\* sign is still to be shown, and whether the loop has returned.
AddGroupWithSign(sofar, group, last) ==
  [ groups        |-> IF group = <<>> THEN sofar.groups ELSE Append(sofar.groups, group),
    signAvailable |-> sofar.signAvailable,
    done          |-> last ]
AddGroup(sofar, group, last) ==
  [ groups        |-> IF group = <<>> THEN sofar.groups ELSE Append(sofar.groups, group),
    signAvailable |-> sofar.signAvailable /\ group = <<>>,
    done          |-> last ]

PartitionUnit(f, d, sofar, u) ==
  LET unit       == f.units[u]
      fractional == NextUnitFractional(f, u)
  IN  IF sofar.done \/ unit.style = "fractional" THEN sofar
      ELSE IF unit.style \in ClockStyles
      THEN AddGroup(sofar, NumericUnits(f, d, NumericLayout(f, d, u), sofar.signAvailable), TRUE)
      ELSE IF fractional
      THEN IF unit.display = "auto" /\ FractionalAmount(d, u) = 0
           THEN [sofar EXCEPT !.done = TRUE]
           ELSE AddGroup(sofar, <<FractionalNumber(f, d, u, sofar.signAvailable)>>, TRUE)
      ELSE IF Shown(f, d, u)
      THEN AddGroup(sofar, <<IntegerNumber(f, d, u, sofar.signAvailable)>>, FALSE)
      ELSE sofar

Partition(f, d) ==
  FoldLeft(LAMBDA sofar, u : PartitionUnit(f, d, sofar, u),
           [groups |-> <<>>, signAvailable |-> TRUE, done |-> FALSE], Units).groups

FormatToParts(f, d) ==
  IF \/ \E u \in UnitSet : d[u] = NotIntegral
     \/ ~ValidDuration(d)
  THEN Rejected ELSE Partition(f, d)

\* What a list formatter is asked to join: an empty text for each group.
Placeholders(groups) == [i \in DOMAIN groups |-> <<>>]

ListStyle(base) == IF base = "digital" THEN "short" ELSE base

\* Each element of the list gives its place to a group.
GroupAt(listed, i) == Cardinality({j \in 1..i : listed[j].type = "element"})

DurationListFormatParts(listed, groups) ==
  FlattenSeq([i \in DOMAIN listed |->
    IF listed[i].type = "element" THEN groups[GroupAt(listed, i)] ELSE <<listed[i]>>])

-------------------------------------------------------------------------------
Init ==
  /\ request = None
  /\ formatter = None
  /\ duration = None
  /\ result = None
  /\ parts = <<>>
  /\ listing = <<>>

ConstructWith(req) ==
  /\ request' = req
  /\ formatter' = Construct(req)
  /\ duration' = None
  /\ result' = None
  /\ parts' = <<>>
  /\ listing' = <<>>

New == request = None /\ listing = <<>> /\ \E req \in Requests : ConstructWith(req)

Constructed == formatter # None /\ formatter # Rejected

\* A caller constructs a formatter with the options another one resolved.
Rebuild == Constructed /\ duration = None /\ ConstructWith(ResolvedOptions(formatter))

Format ==
  /\ Constructed
  /\ \E d \in Durations :
       /\ duration' = d
       /\ result' = FormatToParts(formatter, d)
       /\ IF result' \in {Rejected, <<>>} THEN parts' = <<>> /\ listing' = <<>>
          ELSE /\ listing' = Listing(CompileListTemplates(UnitListPatterns[ListStyle(formatter.base)]),
                                    Placeholders(result'))
               /\ parts' = DurationListFormatParts(listing'.parts, result')
  /\ UNCHANGED <<request, formatter>>

\* A list formatter of its own, used by itself.
JoinList ==
  /\ request = None /\ listing = <<>>
  /\ FormatList
  /\ UNCHANGED <<request, formatter, duration, result, parts>>

Next == New \/ Rebuild \/ Format \/ JoinList

Spec == Init /\ [][Next]_vars

-------------------------------------------------------------------------------
(* Properties.                                                             *)

Formatted == result \notin {None, Rejected}
Numbers   == At(parts, {k \in DOMAIN parts : "unit" \in DOMAIN parts[k]})

IsFractional(n) ==
  NextUnitFractional(formatter, n.unit) \/ (n.unit = "seconds" /\ n.style \in ClockStyles)

ShownNanoseconds ==
  FoldLeft(LAMBDA total, n : IF n.unit \in CalendarUnits THEN total
                             ELSE total + n.amount * (NanosecondsPerUnit[n.unit] \div 10^n.width),
           0, Numbers)

\* What fractionalDigits lets the fraction of the last number drop.
Precision ==
  LET last == Numbers[Len(Numbers)]
  IN  IF Numbers = <<>> \/ formatter.fractionalDigits = Unset \/ ~IsFractional(last) THEN 1
      ELSE 10^Max({0, last.width - formatter.fractionalDigits})

\* Formatting loses nothing: units come longest first and at most once, every
\* nonzero calendar unit shows its value, and the other numbers add up to the
\* whole duration, short of the digits fractionalDigits cuts off. Early returns
\* after the clock group and after a fraction, subsecond values above 999 and
\* units that are hidden must all agree for this (format.go 111-159, 200-357).
NothingLost ==
  Formatted =>
    /\ \A i, j \in DOMAIN Numbers : i < j => Position[Numbers[i].unit] < Position[Numbers[j].unit]
    /\ \A u \in CalendarUnits : duration[u] # 0 =>
         \E i \in DOMAIN Numbers : Numbers[i].unit = u /\ Numbers[i].amount = Magnitude(duration[u])
    /\ LET lost == Magnitude(Nanoseconds(duration)) - ShownNanoseconds
       IN  lost \in 0..Precision - 1

\* A negative duration shows its sign once, on the first number whatever that
\* is (a zero as well), and any other duration shows none (format.go 252-268,
\* 432-442).
SignShownOnce ==
  Formatted =>
    {i \in DOMAIN Numbers : Numbers[i].minus} = IF Negative(duration) THEN {1} ELSE {}

\* Groups of more than one number are clocks: only the last group is one, its
\* units are adjacent, every number after the first has two digits, and a
\* fraction ends the whole result. What is shown is what the displays ask for:
\* "always" whatever the duration, "auto" a zero only as the minutes between
\* hours and seconds, without which they would read as minutes and seconds, or
\* as the whole part of a fraction that is not zero (format.go 129-140, 161-221).
ClockIsContiguous ==
  Formatted =>
    /\ \A i \in DOMAIN result : Len(result[i]) > 1 => i = Len(result)
    /\ \A i \in DOMAIN result : \A j \in 1..Len(result[i]) - 1 :
         /\ result[i][j + 1].unit = Child(result[i][j].unit)
         /\ result[i][j + 1].style = "2-digit"
    /\ \A i \in 1..Len(Numbers) - 1 : ~IsFractional(Numbers[i])
    /\ \A u \in UnitSet :
         LET shown == \E i \in DOMAIN Numbers : Numbers[i].unit = u
         IN  /\ formatter.units[u].display = "always" => shown
             /\ formatter.units[u].display = "auto" /\ shown /\ duration[u] = 0 =>
                  \/ /\ u = "minutes"
                     /\ {"hours", "seconds"} \subseteq {Numbers[i].unit : i \in DOMAIN Numbers}
                  \/ u \in Parents /\ \E c \in Descendants(u) : duration[c] # 0

\* A caller's options put a unit in digits when it, or the nearest unit before
\* it that names a style, is in digits; a digital base puts every unit there
\* that names none.
Named(req, u)    == req.units[u].style # Unset
InDigits(req, u) ==
  \/ req.units[u].style \in ClockStyles
  \/ /\ ~Named(req, u)
     /\ \/ req.base = "digital" /\ u \notin DateUnits
        \/ \E w \in TracksPrevious :
             /\ Position[w] < Position[u]
             /\ req.units[w].style \in ClockStyles
             /\ \A v \in UnitSet : Position[v] \in Position[w]+1..Position[u] => ~Named(req, v)

\* The options of a constructor are refused exactly when they break the clock:
\* words directly after digits, a subsecond unit in digits displayed always, a
\* style its unit does not have, or fractionalDigits out of range. In
\* particular no base style is refused on its own (options.go 169-249).
RefusedForABrokenClock ==
  request # None =>
    (formatter = Rejected <=>
       \/ ~ValidFractionalDigits(request.fractionalDigits)
       \/ \E u \in UnitSet : Named(request, u) /\ request.units[u].style \notin StylesOf(u)
       \/ \E u \in Fractional : request.units[u].display = "always" /\ InDigits(request, u)
       \/ \E u \in TracksPrevious : InDigits(request, u) /\ request.units[Child(u)].style \in WordStyles)

\* Constructing again with the options a formatter resolved gives the same
\* formatter: the fractional style is reported as numeric and found again
\* (resolved_options.go 92-155).
RebuildKeepsFormatter == [][formatter # None => formatter' = formatter]_<<request, formatter>>
===============================================================================
