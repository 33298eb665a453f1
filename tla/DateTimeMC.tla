------------------------------ MODULE DateTimeMC ------------------------------
(***************************************************************************)
(* English and French: their patterns as CLDR writes them, in the order of *)
(* the skeletons, without the weeks and quarters. A space is narrow as     *)
(* "_", thin as "~" and unbreakable as "=".                                *)
(***************************************************************************)
EXTENDS DateTimeFormat

-------------------------------------------------------------------------------
(* Patterns, out of their texts.                                           *)

\* The letters of skeletons and patterns, and those of a skeleton's suffix.
Letters == {"G", "y", "Y", "Q", "M", "L", "w", "W", "d", "E", "c", "a", "B", "h", "H", "K", "m", "s", "z", "v",
            "-", "l", "t", "i", "o", "n", "u", "e", "r"}

\* Whether what is at i is text: between quotes, or no letter.
IsText(chars, i) == chars[i] \notin Letters \/ Quantify(1 .. i, LAMBDA j : chars[j] = "'") % 2 = 1

\* Whether a run begins at i, and the run of the letter at i, as far as it goes on.
Begins(chars, i) == chars[i] # "'" /\ (i = 1 \/ IsText(chars, i) \/ chars[i - 1] # chars[i])

RunAt(chars, i) ==
  IF IsText(chars, i) THEN Literal(chars[i])
  ELSE Field(chars[i], Quantify(i .. Len(chars), LAMBDA j : \A k \in i .. j : chars[k] = chars[i]))

\* A sequence ends in << >> for TLC, which keeps the value of a concatenation.
RunsFrom(chars, begin) == [n \in DOMAIN begin |-> RunAt(chars, begin[n])] \o << >>

RunsOf(chars) == RunsFrom(chars, SelectSeq([i \in DOMAIN chars |-> i], LAMBDA i : Begins(chars, i)))

Runs(text) == RunsOf([i \in 1 .. Len(text) |-> SubSeq(text, i, i)] \o << >>)

\* The data of a locale from its texts: the styles, the rows of skeletons and their
\* patterns, and those of skeletons and, by the field that differs, their patterns.
Texts(table) == [style \in DateTimeStyles |-> Runs(table[style])]

Rows(table) ==
  [i \in DOMAIN table |-> [skeleton |-> Runs(table[i][1]), pattern |-> Runs(table[i][2])]] \o << >>

Gaps(table) ==
  UNION { { [skeleton |-> Runs(row[1]), field |-> field, pattern |-> Runs(row[2][field])] :
              field \in DOMAIN row[2] } : row \in table }

Rule(type, from, to) == [type |-> type, from |-> 3600 * from, to |-> 3600 * to]

Joined(text) == <<Literal("{1}"), Literal(text), Literal("{0}")>>

OfStyles(full, long, medium, short) ==
  [full |-> full, long |-> long, medium |-> medium, short |-> short]

AppendZone == <<Literal("{0}"), Literal(" "), Literal("{1}")>>
Dash       == <<Literal("{0}"), Literal(" "), Literal("-"), Literal(" "), Literal("{1}")>>

-------------------------------------------------------------------------------
EnAvailable ==
  <<
    <<"Bh", "h B">>, <<"Bhm", "h:mm B">>, <<"Bhms", "h:mm:ss B">>, <<"E", "ccc">>,
    <<"EBhm", "E h:mm B">>, <<"EHm", "E HH:mm">>, <<"Ed", "d E">>, <<"Gy", "y G">>,
    <<"GyM", "M/y G">>, <<"GyMEd", "E, M/d/y G">>, <<"GyMMM", "MMM y G">>,
    <<"GyMMMEd", "E, MMM d, y G">>, <<"GyMMMd", "MMM d, y G">>, <<"GyMd", "M/d/y G">>,
    <<"H", "HH">>, <<"Hm", "HH:mm">>, <<"Hms", "HH:mm:ss">>, <<"Hmsv", "HH:mm:ss v">>,
    <<"Hmv", "HH:mm v">>, <<"Hv", "HH'h' v">>, <<"M", "L">>, <<"MEd", "E, M/d">>,
    <<"MMM", "LLL">>, <<"MMMEd", "E, MMM d">>, <<"MMMMd", "MMMM d">>, <<"MMMd", "MMM d">>,
    <<"Md", "M/d">>, <<"d", "d">>, <<"h", "h_a">>, <<"h-alt-ascii", "h a">>,
    <<"hm", "h:mm_a">>, <<"hms", "h:mm:ss_a">>, <<"hmsv", "h:mm:ss_a v">>,
    <<"hmv", "h:mm_a v">>, <<"hv", "h_a v">>, <<"ms", "mm:ss">>, <<"y", "y">>,
    <<"yM", "M/y">>, <<"yMEd", "E, M/d/y">>, <<"yMMM", "MMM y">>, <<"yMMMEd", "E, MMM d, y">>,
    <<"yMMMM", "MMMM y">>, <<"yMMMd", "MMM d, y">>, <<"yMd", "M/d/y">>, <<"yQQQ", "QQQ y">> >>

EnIntervals ==
  {
    <<"Bh", [B |-> "h B~-~h B", h |-> "h~-~h B"]>>,
    <<"Bhm", [B |-> "h:mm B~-~h:mm B", h |-> "h:mm~-~h:mm B", m |-> "h:mm~-~h:mm B"]>>,
    <<"Gy", [G |-> "y G~-~y G", y |-> "y~-~y G"]>>,
    <<"GyM", [G |-> "M/y G~-~M/y G", M |-> "M/y~-~M/y G", y |-> "M/y~-~M/y G"]>>,
    <<"GyMEd", [G |-> "E, M/d/y G~-~E, M/d/y G", M |-> "E, M/d/y~-~E, M/d/y G",
      d |-> "E, M/d/y~-~E, M/d/y G", y |-> "E, M/d/y~-~E, M/d/y G"]>>,
    <<"GyMMM", [G |-> "MMM y G~-~MMM y G", M |-> "MMM~-~MMM y G", y |-> "MMM y~-~MMM y G"]>>,
    <<"GyMMMEd", [G |-> "E, MMM d, y G~-~E, MMM d, y G", M |-> "E, MMM d~-~E, MMM d, y G",
      d |-> "E, MMM d~-~E, MMM d, y G", y |-> "E, MMM d, y~-~E, MMM d, y G"]>>,
    <<"GyMMMd", [G |-> "MMM d, y G~-~MMM d, y G", M |-> "MMM d~-~MMM d, y G", d |-> "MMM d~-~d, y G",
      y |-> "MMM d, y~-~MMM d, y G"]>>,
    <<"GyMd", [G |-> "M/d/y G~-~M/d/y G", M |-> "M/d/y~-~M/d/y G", d |-> "M/d/y~-~M/d/y G",
      y |-> "M/d/y~-~M/d/y G"]>>,
    <<"H", [H |-> "HH~-~HH"]>>, <<"Hm", [H |-> "HH:mm~-~HH:mm", m |-> "HH:mm~-~HH:mm"]>>,
    <<"Hmv", [H |-> "HH:mm~-~HH:mm v", m |-> "HH:mm~-~HH:mm v"]>>, <<"Hv", [H |-> "HH~-~HH v"]>>,
    <<"M", [M |-> "M~-~M"]>>, <<"MEd", [M |-> "E, M/d~-~E, M/d", d |-> "E, M/d~-~E, M/d"]>>,
    <<"MMM", [M |-> "MMM~-~MMM"]>>,
    <<"MMMEd", [M |-> "E, MMM d~-~E, MMM d", d |-> "E, MMM d~-~E, MMM d"]>>,
    <<"MMMd", [M |-> "MMM d~-~MMM d", d |-> "MMM d~-~d"]>>,
    <<"Md", [M |-> "M/d~-~M/d", d |-> "M/d~-~M/d"]>>, <<"d", [d |-> "d~-~d"]>>,
    <<"h", [a |-> "h_a~-~h_a", h |-> "h~-~h_a"]>>,
    <<"hm", [a |-> "h:mm_a~-~h:mm_a", h |-> "h:mm~-~h:mm_a", m |-> "h:mm~-~h:mm_a"]>>,
    <<"hmv", [a |-> "h:mm_a~-~h:mm_a v", h |-> "h:mm~-~h:mm_a v", m |-> "h:mm~-~h:mm_a v"]>>,
    <<"hv", [a |-> "h_a~-~h_a v", h |-> "h~-~h_a v"]>>, <<"y", [y |-> "y~-~y"]>>,
    <<"yM", [M |-> "M/y~-~M/y", y |-> "M/y~-~M/y"]>>,
    <<"yMEd", [M |-> "E, M/d/y~-~E, M/d/y", d |-> "E, M/d/y~-~E, M/d/y",
      y |-> "E, M/d/y~-~E, M/d/y"]>>,
    <<"yMMM", [M |-> "MMM~-~MMM y", y |-> "MMM y~-~MMM y"]>>,
    <<"yMMMEd", [M |-> "E, MMM d~-~E, MMM d, y", d |-> "E, MMM d~-~E, MMM d, y",
      y |-> "E, MMM d, y~-~E, MMM d, y"]>>,
    <<"yMMMM", [M |-> "MMMM~-~MMMM y", y |-> "MMMM y~-~MMMM y"]>>,
    <<"yMMMd", [M |-> "MMM d~-~MMM d, y", d |-> "MMM d~-~d, y", y |-> "MMM d, y~-~MMM d, y"]>>,
    <<"yMd", [M |-> "M/d/y~-~M/d/y", d |-> "M/d/y~-~M/d/y", y |-> "M/d/y~-~M/d/y"]>>}

FrAvailable ==
  <<
    <<"Bh", "h B">>, <<"Bhm", "h:mm B">>, <<"Bhms", "h:mm:ss B">>, <<"E", "E">>,
    <<"EBhm", "E h:mm B">>, <<"EHm", "E HH:mm">>, <<"Ed", "E d">>, <<"Gy", "y G">>,
    <<"GyM", "MM/y G">>, <<"GyMEd", "E dd/MM/y GGGGG">>, <<"GyMMM", "MMM y G">>,
    <<"GyMMMEd", "E d MMM y G">>, <<"GyMMMd", "d MMM y G">>, <<"GyMd", "dd/MM/y GGGGG">>,
    <<"H", "HH 'h'">>, <<"Hm", "HH:mm">>, <<"Hms", "HH:mm:ss">>, <<"Hmsv", "HH:mm:ss v">>,
    <<"Hmv", "HH:mm v">>, <<"Hv", "HH 'h' v">>, <<"M", "L">>, <<"MEd", "E dd/MM">>,
    <<"MMM", "LLL">>, <<"MMMEd", "E d MMM">>, <<"MMMMd", "d MMMM">>, <<"MMMd", "d MMM">>,
    <<"Md", "dd/MM">>, <<"d", "d">>, <<"h", "h_a">>, <<"hm", "h:mm_a">>,
    <<"hms", "h:mm:ss_a">>, <<"hmsv", "h:mm:ss_a v">>, <<"hmv", "h:mm_a v">>,
    <<"hv", "h_a v">>, <<"ms", "mm:ss">>, <<"y", "y">>, <<"yM", "MM/y">>,
    <<"yMEd", "E dd/MM/y">>, <<"yMMM", "MMM y">>, <<"yMMMEd", "E d MMM y">>,
    <<"yMMMM", "MMMM y">>, <<"yMMMd", "d MMM y">>, <<"yMd", "dd/MM/y">>, <<"yQQQ", "QQQ y">> >>

FrIntervals ==
  {
    <<"Bh", [B |-> "h B~-~h B", h |-> "h~-~h B"]>>,
    <<"Bhm", [B |-> "h:mm B~-~h:mm B", h |-> "h:mm~-~h:mm B", m |-> "h:mm~-~h:mm B"]>>,
    <<"Gy", [G |-> "y=G 'a' y=G", y |-> "y-y=G"]>>,
    <<"GyM", [G |-> "MM/y G~-~MM/y G", M |-> "MM-MM/y G", y |-> "MM/y~-~MM/y G"]>>,
    <<"GyMEd", [G |-> "E d/MM/y G~-~E d/MM/y G", M |-> "E d/MM~-~E d/MM/y G",
      d |-> "E=d~-~E d/MM/y G", y |-> "E d/MM/y~-~E d/MM/y G"]>>,
    <<"GyMMM", [G |-> "MMM y G~-~MMM y G", M |-> "MMM~-~MMM y G", y |-> "MMM y~-~MMM y G"]>>,
    <<"GyMMMEd", [G |-> "E d MMM y G~-~E d MMM y G", M |-> "E d MMM~-~E d MMM y G",
      d |-> "E d~-~E d MMM y G", y |-> "E d MMM y~-~E d MMM y G"]>>,
    <<"GyMMMd", [G |-> "d MMM y G~-~d MMM y G", M |-> "d MMM~-~d MMM y G", d |-> "d-d=MMM=y=G",
      y |-> "d MMM y~-~d MMM y G"]>>,
    <<"GyMd", [G |-> "d/MM/y G~-~d/MM/y G", M |-> "d/MM~-~d/MM/y G", d |-> "d-d/MM/y G",
      y |-> "d/MM/y~-~d/MM/y G"]>>,
    <<"H", [H |-> "HH~-~HH"]>>, <<"Hm", [H |-> "HH:mm~-~HH:mm", m |-> "HH:mm~-~HH:mm"]>>,
    <<"Hmv", [H |-> "HH:mm~-~HH:mm v", m |-> "HH:mm~-~HH:mm v"]>>, <<"Hv", [H |-> "HH~-~HH v"]>>,
    <<"M", [M |-> "M-M"]>>, <<"MEd", [M |-> "E dd/MM~-~E dd/MM", d |-> "E dd/MM~-~E dd/MM"]>>,
    <<"MMM", [M |-> "MMM-MMM"]>>,
    <<"MMMEd", [M |-> "E d MMM~-~E d MMM", d |-> "E d~-~E d MMM"]>>,
    <<"MMMd", [M |-> "d MMM~-~d MMM", d |-> "d-d MMM"]>>,
    <<"Md", [M |-> "dd/MM~-~dd/MM", d |-> "dd/MM~-~dd/MM"]>>, <<"d", [d |-> "d-d"]>>,
    <<"h", [a |-> "h_a~-~h_a", h |-> "h~-~h_a"]>>,
    <<"hm", [a |-> "h:mm_a~-~h:mm_a", h |-> "h:mm~-~h:mm_a", m |-> "h:mm~-~h:mm_a"]>>,
    <<"hmv", [a |-> "h:mm_a~-~h:mm_a v", h |-> "h:mm~-~h:mm_a v", m |-> "h:mm~-~h:mm_a v"]>>,
    <<"hv", [a |-> "h_a~-~h_a v", h |-> "h~-~h_a v"]>>, <<"y", [y |-> "y-y"]>>,
    <<"yM", [M |-> "MM/y~-~MM/y", y |-> "MM/y~-~MM/y"]>>,
    <<"yMEd", [M |-> "E dd/MM/y~-~E dd/MM/y", d |-> "E dd/MM/y~-~E dd/MM/y",
      y |-> "E dd/MM/y~-~E dd/MM/y"]>>,
    <<"yMMM", [M |-> "MMM-MMM y", y |-> "MMM y~-~MMM y"]>>,
    <<"yMMMEd", [M |-> "E d MMM~-~E d MMM y", d |-> "E d~-~E d MMM y",
      y |-> "E d MMM y~-~E d MMM y"]>>,
    <<"yMMMM", [M |-> "MMMM~-~MMMM y", y |-> "MMMM y~-~MMMM y"]>>,
    <<"yMMMd", [M |-> "d MMM~-~d MMM y", d |-> "d-d MMM y", y |-> "d MMM y~-~d MMM y"]>>,
    <<"yMd", [M |-> "dd/MM/y~-~dd/MM/y", d |-> "dd/MM/y~-~dd/MM/y", y |-> "dd/MM/y~-~dd/MM/y"]>>}

-------------------------------------------------------------------------------
PeriodNames == {"midnight", "noon", "morning1", "afternoon1", "evening1", "night1"}

English ==
  [available        |-> EnAvailable,
   intervals        |-> EnIntervals,
   intervalFallback |-> Dash,
   appendZone       |-> AppendZone,
   dateFormats      |-> OfStyles("EEEE, MMMM d, y", "MMMM d, y", "MMM d, y", "M/d/yy"),
   timeFormats      |-> OfStyles("h:mm:ss_a zzzz", "h:mm:ss_a z", "h:mm:ss_a", "h:mm_a"),
   dateTimeStandard |-> OfStyles(Joined(", "), Joined(", "), Joined(", "), Joined(", ")),
   dateTimeAt       |-> OfStyles(Joined(" at "), Joined(" at "), Joined(", "), Joined(", ")),
   dayPeriods       |-> {Rule("midnight", 0, 0), Rule("noon", 12, 12), Rule("morning1", 0, 12),
                         Rule("afternoon1", 12, 18), Rule("evening1", 18, 21), Rule("night1", 21, 24)},
   dayPeriodNames   |-> PeriodNames,
   hourCycles       |-> <<"h12", "h23">>,
   decimals         |-> [latn |-> ".", arab |-> "."]]

French ==
  [available        |-> FrAvailable,
   intervals        |-> FrIntervals,
   intervalFallback |-> Dash,
   appendZone       |-> AppendZone,
   dateFormats      |-> OfStyles("EEEE d MMMM y", "d MMMM y", "d MMM y", "dd/MM/y"),
   timeFormats      |-> OfStyles("HH:mm:ss zzzz", "HH:mm:ss z", "HH:mm:ss", "HH:mm"),
   dateTimeStandard |-> OfStyles(Joined(", "), Joined(", "), Joined(", "), Joined(" ")),
   dateTimeAt       |-> OfStyles(Joined(" a "), Joined(" a "), Joined(", "), Joined(" ")),
   dayPeriods       |-> {Rule("midnight", 0, 0), Rule("noon", 12, 12), Rule("night1", 0, 4),
                         Rule("morning1", 4, 12), Rule("afternoon1", 12, 18), Rule("evening1", 18, 24)},
   dayPeriodNames   |-> PeriodNames,
   hourCycles       |-> <<"h23", "h12">>,
   decimals         |-> [latn |-> ",", arab |-> ","]]

\* With the week skeletons the data keeps, where they sort.
WithWeeks(rows) ==
  LET at == CHOOSE i \in DOMAIN rows : rows[i][1] = "MMMMd"
  IN  SubSeq(rows, 1, at - 1)
        \o << <<"MMMMW-count-one", "'week' W 'of' MMMM">>, <<"MMMMW-count-other", "'week' W 'of' MMMM">> >>
        \o SubSeq(rows, at, Len(rows))
        \o << <<"yw-count-one", "'week' w 'of' Y">>, <<"yw-count-other", "'week' w 'of' Y">> >>

Data(texts) ==
  [texts EXCEPT !.available = Rows(@), !.intervals = Gaps(@), !.dateFormats = Texts(@), !.timeFormats = Texts(@)]

\* TLC keeps the value of a definition of this module, and reads through the one a constant stands for.
LocaleData == [l \in {"en", "fr"} |-> Data(IF l = "en" THEN English ELSE French)]
WeekData   == [en |-> Data([English EXCEPT !.available = WithWeeks(@)])]

MCGregorian        == LocaleData
MCGregorianOfWeeks == WeekData

-------------------------------------------------------------------------------
(* Moments around what a range compares, and around 1970 and the bounds of *)
(* Date. One zone is fixed; the other turns its clock back an hour.        *)

MCUtcOffset(zone, t) ==
  CASE zone = "UTC"        -> 0
    [] zone = "Kathmandu"  -> 20700
    [] zone = "New York"   -> IF t.day < 18938 \/ (t.day = 18938 /\ t.second < 21600) THEN -14400 ELSE -18000

Fold  == Instant(18938, 20000, 0)            \* 2021-11-07, shown twice in New York
Noon  == Instant(18938, 43200, 0)

MCMoments ==
  {Fold, Noon, Instant(-1, 86399, 999500000), Instant(-1, 86399, 999999999), Instant(-719529, 3600, 0),
   Instant(100000000, 0, 0), Instant(100000000, 0, 1), Instant(-100000000, 0, 1), Instant(-100000001, 86399, 999999999)}

Plus(t, days, seconds, nanos) ==
  LET second == t.second + seconds
  IN  Instant(t.day + days + second \div SecondsPerDay, second % SecondsPerDay, t.nanos + nanos)

MCRanges ==
  { <<Fold, Fold>>, <<Fold, Plus(Fold, 0, 3600, 0)>>, <<Fold, Plus(Fold, 0, 0, 7000000)>>,
    <<Fold, Plus(Fold, 0, 0, 900000000)>>, <<Noon, Plus(Noon, 0, 1, 0)>>, <<Noon, Plus(Noon, 0, 240, 0)>>,
    <<Noon, Plus(Noon, 0, 7200, 0)>>, <<Noon, Plus(Noon, 0, 32000, 0)>>, <<Plus(Noon, 0, 32000, 0), Noon>>,
    <<Noon, Plus(Noon, 1, 0, 0)>>, <<Noon, Plus(Noon, 30, 0, 0)>>, <<Noon, Plus(Noon, 365, 0, 0)>>,
    <<Instant(-719529, 3600, 0), Noon>>, <<Instant(-719529, 3600, 0), Instant(-719100, 3600, 0)>>,
    <<Noon, Instant(100000001, 0, 0)>> }

-------------------------------------------------------------------------------
(* Options.                                                                *)

Options(l, matcher, styles, dateStyle, timeStyle, hourCycle, hour12) ==
  [locale |-> l, formatMatcher |-> matcher, styles |-> styles, dateStyle |-> dateStyle,
   timeStyle |-> timeStyle, hourCycle |-> hourCycle, hour12 |-> hour12,
   numberingSystem |-> IF styles.fraction = "1" THEN "arab" ELSE "latn",
   timeZone |-> IF styles.second = "" THEN "New York" ELSE "Kathmandu"]

Matchers == {"basic", "best fit"}

Dates ==
  { [NoStyles EXCEPT !.era = e, !.year = y, !.month = m, !.day = d, !.weekday = w] :
      e \in {"", "short"}, y \in {"", "numeric", "2-digit"}, m \in {"", "numeric", "2-digit", "short", "long"},
      d \in {"", "numeric", "2-digit"}, w \in {"", "long"} }

Times ==
  { [NoStyles EXCEPT !.hour = h, !.minute = m, !.second = s, !.fraction = f, !.dayPeriod = p, !.zone = z] :
      h \in {"", "numeric"}, m \in {"", "2-digit"}, s \in {"", "numeric"}, f \in {"", "1", "3"},
      p \in {"", "short"}, z \in {"", "short", "longOffset"} }

Both ==
  { [NoStyles EXCEPT !.year = y, !.month = m, !.day = d, !.hour = h, !.minute = n] :
      y \in {"", "2-digit"}, m \in {"", "numeric", "long"}, d \in {"", "numeric"}, h \in {"numeric", "2-digit"},
      n \in {"", "numeric"} }

Cycles == {<<"h11", "">>, <<"h12", "">>, <<"h23", "">>, <<"h24", "">>}
Clocks == {<<"", "">>, <<"h11", "24">>, <<"h23", "12">>, <<"h24", "">>}

MCOptionBags ==
  { Options(l, matcher, styles, "", "", "", "") : l \in Locales, matcher \in Matchers, styles \in Dates }
  \cup { Options(l, matcher, styles, "", "", c[1], c[2]) :
           l \in Locales, matcher \in Matchers, styles \in Times, c \in Cycles }
  \cup { Options(l, matcher, styles, "", "", c[1], c[2]) :
           l \in Locales, matcher \in Matchers, styles \in Both, c \in Clocks }
  \cup { Options(l, matcher, styles, d, t, c[1], c[2]) :
           l \in Locales, matcher \in Matchers, styles \in {NoStyles, [NoStyles EXCEPT !.era = "long"]},
           d, t \in {"", "full", "medium", "short"}, c \in Clocks }
===============================================================================
