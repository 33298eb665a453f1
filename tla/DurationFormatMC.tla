---------------------------- MODULE DurationFormatMC ----------------------------
(***************************************************************************)
(* Options for one or two units at a time and styles for a chain of five;  *)
(* ten subsecond units to the next one, so that overflowing fractions stay *)
(* small.                                                                  *)
(***************************************************************************)
EXTENDS DurationFormat, TLC

MCNanoseconds ==
  "nanoseconds" :> 1 @@ "microseconds" :> 10 @@ "milliseconds" :> 100 @@ "seconds" :> 1000 @@
  "minutes" :> 6000 @@ "hours" :> 36000 @@ "days" :> 100000

NoOption  == [style |-> Unset, display |-> Unset]
NoOptions == [u \in UnitSet |-> NoOption]
Option    == [style : {Unset, "long", "numeric", "2-digit"}, display : {Unset, "auto", "always"}]

TouchedUnits == {"days", "hours", "minutes", "seconds", "milliseconds", "microseconds"}
TwoTouched ==
  { [NoOptions EXCEPT ![u] = o, ![v] = p] :
      u \in TouchedUnits, v \in TouchedUnits, o \in Option, p \in Option }
ChainUnits  == TouchedUnits \ {"days"}
StyleChains ==
  { [u \in UnitSet |-> IF u \in ChainUnits THEN [NoOption EXCEPT !.style = styles[u]] ELSE NoOption] :
      styles \in [ChainUnits -> {Unset, "long", "numeric"}] }

MCRequests ==
  [base : {"long", "digital"}, units : TwoTouched, fractionalDigits : {Unset}]
  \cup [base : {"short", "digital"}, units : StyleChains, fractionalDigits : {Unset, 0, 2, 10}]

Zero     == [u \in UnitSet |-> 0]
Ones     == [u \in UnitSet |-> 1]
MCDurations ==
  { Zero, Ones,
    [u \in UnitSet |-> -1],
    [Zero EXCEPT !["milliseconds"] = -5],
    [Zero EXCEPT !["hours"] = 3, !["seconds"] = 7],
    [Zero EXCEPT !["hours"] = -3, !["nanoseconds"] = -1],
    [Zero EXCEPT !["minutes"] = 2],
    [Zero EXCEPT !["days"] = 4, !["seconds"] = 9, !["milliseconds"] = 25, !["microseconds"] = 40],
    [Zero EXCEPT !["years"] = 1, !["microseconds"] = 90],
    [Zero EXCEPT !["months"] = 1, !["hours"] = -1],
    [Zero EXCEPT !["weeks"] = 2],
    [Zero EXCEPT !["years"] = -3],
    [Zero EXCEPT !["days"] = 19, !["hours"] = 3],
    [Zero EXCEPT !["minutes"] = NotIntegral] }

MCCharacters == {" ", ",", "-", "0", "1", "2", "8", "H", "a", "b", "e", "h", "i", "o", "or", "u", "vav", "y"}

\* Lists as in English, Spanish, Hebrew, Mongolian, with no literals, and with
\* placeholders reversed.
Patterns(language, pair, start, middle, end) ==
  [language |-> language, pair |-> pair, start |-> start, middle |-> middle, end |-> end]

Comma == Connected(<<",", " ">>)
Bare  == <<Placeholder("0"), Placeholder("1")>>
Or    == Append(Connected(<<",", " ">>), Text(<<" ", "or">>))

Turned == <<Text(<<"-">>), Placeholder("1"), Text(<<",", " ">>), Placeholder("0")>>

Joining(language, connector) ==
  Patterns(language, Connected(connector), Comma, Comma, Connected(connector))

Spanish == Joining("es", <<" ", "y", " ">>)

MCListPatterns ==
  { Spanish, Joining("es", <<" ", "o", " ">>), Joining("he", <<" ", "vav">>), Joining("en", <<" ", "y", " ">>),
    Patterns("mn", Connected(<<" ", "o", " ">>), Comma, Comma, Or), Patterns("ja", Bare, Bare, Bare, Bare),
    Patterns("en", Turned, Turned, Comma, Turned), Patterns("en", Comma, Bare, Turned, Comma) }

MCUnitListPatterns ==
  [long |-> Spanish, short |-> Patterns("es", Spanish.pair, Comma, Comma, Comma),
   narrow |-> Joining("es", <<" ">>)]

Elements ==
  { <<>>, <<"i">>, <<"h", "i">>, <<"h", "i", "e">>, <<"H", "o">>, <<"8", "0">>, <<"1", "1">>, <<"1", "1", "2">>, <<"vav">> }

Shorter == { <<>>, <<"h", "i", "a">>, <<"1", "1", " ">>, <<"b">> }

MCLists == BoundedSeq(Elements, 2) \cup BoundedSeq(Shorter, 5)
=================================================================================
