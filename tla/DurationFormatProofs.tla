-------------------------- MODULE DurationFormatProofs --------------------------
(***************************************************************************)
(* What is proved about durationformat and listformat, for every duration, *)
(* option, list and pattern.                                               *)
(***************************************************************************)
EXTENDS DurationFormat, SequenceLemmas

-------------------------------------------------------------------------------
(* Units. *)

\* The units in order, and where each is.
LEMMA UnitOrder ==
  /\ UnitSet = {"years", "months", "weeks", "days", "hours", "minutes", "seconds",
                "milliseconds", "microseconds", "nanoseconds"}
  /\ DOMAIN Units = 1 .. 10 /\ Len(Units) = 10
  /\ \A i \in 1 .. 10 : Units[i] \in UnitSet /\ Position[Units[i]] = i
  /\ \A u \in UnitSet : Position[u] \in 1 .. 10 /\ Units[Position[u]] = u
<1>1. DOMAIN Units = 1 .. 10 /\ Len(Units) = 10
  BY DEF Units
<1>2. UnitSet = {Units[i] : i \in 1 .. 10}
  BY <1>1 DEF UnitSet, ToSet
<1>3. \A i \in 1 .. 10 : i \in {1, 2, 3, 4, 5, 6, 7, 8, 9, 10}
  OBVIOUS
<1>4. UnitSet = {"years", "months", "weeks", "days", "hours", "minutes", "seconds",
                 "milliseconds", "microseconds", "nanoseconds"}
  BY <1>2, <1>3 DEF Units
<1>5. \A i, j \in 1 .. 10 : Units[i] = Units[j] => i = j
  BY <1>3 DEF Units
<1>6. \A i \in 1 .. 10 : Units[i] \in UnitSet
  BY <1>2
<1>7. \A u \in UnitSet : Position[u] \in 1 .. 10 /\ Units[Position[u]] = u
  BY <1>1, <1>2 DEF Position
<1>8. \A i \in 1 .. 10 : Position[Units[i]] = i
  BY <1>5, <1>6, <1>7
<1> QED
  BY <1>1, <1>4, <1>6, <1>7, <1>8

-------------------------------------------------------------------------------
(* Construction. *)

Styles        == WordStyles \cup ClockStyles \cup {"fractional"}
Progress      == [ units : [UnitSet -> UnitShape \cup {None}], prev : Styles \cup {""},
                   rejected : BOOLEAN ]
NothingSofar  == [units |-> [u \in UnitSet |-> None], prev |-> "", rejected |-> FALSE]

\* The chain of resolveUnitOptions' loop: what is resolved after each unit.
Resolving(req, c) ==
  /\ c[0] = NothingSofar
  /\ \A i \in 0 .. 10 : c[i] \in Progress
  /\ \A i \in 1 .. 10 : c[i] = ResolveUnit(req, c[i - 1], Units[i])
  /\ c[10] = ResolveUnits(req)

\* The options of one unit are in shape or refused.
LEMMA UnitOptionsType ==
  ASSUME NEW u \in UnitSet, NEW option \in OptionShape, NEW base \in Bases, NEW prev
  PROVE  UnitOptions(u, option, base, prev) \in UnitShape \cup {Rejected}
<1> DEFINE chosen == ChosenStyle(u, option, base, prev)
           style  == InternalStyle(u, chosen)
<1>1. ASSUME chosen \in StylesOf(u)
      PROVE  style \in Styles
  BY <1>1 DEF StylesOf, InternalStyle, Styles, WordStyles, ClockStyles
<1>2. option.display \in Displays \cup {Unset}
  BY DEF OptionShape
<1> QED
  BY <1>1, <1>2 DEF UnitOptions, UnitShape, Styles, ClockStyles, Displays

LEMMA ResolveUnitType ==
  ASSUME NEW req \in RequestShape, NEW sofar \in Progress, NEW u \in UnitSet
  PROVE  ResolveUnit(req, sofar, u) \in Progress
<1> DEFINE unit == UnitOptions(u, req.units[u], req.base, sofar.prev)
<1>1. req.units[u] \in OptionShape /\ req.base \in Bases
  BY DEF RequestShape
<1>2. unit \in UnitShape \cup {Rejected}
  BY <1>1, UnitOptionsType
<1>3. ASSUME unit # Rejected
      PROVE  /\ [sofar.units EXCEPT ![u] = unit] \in [UnitSet -> UnitShape \cup {None}]
             /\ (IF u \in TracksPrevious THEN unit.style ELSE sofar.prev) \in Styles \cup {""}
  BY <1>2, <1>3 DEF Progress, UnitShape, Styles
<1> HIDE DEF unit
<1> QED
  BY <1>3 DEF ResolveUnit, Progress, unit

LEMMA ResolvingExists ==
  ASSUME NEW req \in RequestShape
  PROVE  \E c : Resolving(req, c)
<1> DEFINE step == [p \in Progress \X (1 .. 10) |-> ResolveUnit(req, p[1], Units[p[2]])]
           F    == CHOOSE it : it = [s \in SUBSET DOMAIN Units |->
                     IF s = {} THEN NothingSofar
                     ELSE LET i == Max(s) IN ResolveUnit(req, it[s \ {i}], Units[i])]
<1>1. NothingSofar \in Progress
  BY DEF NothingSofar, Progress
<1>2. step \in [Progress \X (1 .. 10) -> Progress]
  BY ResolveUnitType, UnitOrder
<1>3. ResolveUnits(req) = F[DOMAIN Units]
  BY DEF ResolveUnits, FoldLeft, MapThenFoldSet, NothingSofar
<1>4. PICK it : LeftFold(it, 10, Progress, NothingSofar, step)
  <2> HIDE DEF step, F
  <2>1. 10 \in Nat
    OBVIOUS
  <2> QED
    BY <1>1, <1>2, <2>1, LeftFoldDefines, Zenon
<1>5. \A s \in SUBSET (1 .. 10) :
        it[s] = IF s = {} THEN NothingSofar
                ELSE LET i == Max(s) IN ResolveUnit(req, it[s \ {i}], Units[i])
  <2> SUFFICES ASSUME NEW s \in SUBSET (1 .. 10), s # {}
               PROVE  it[s] = ResolveUnit(req, it[s \ {Max(s)}], Units[Max(s)])
    BY <1>4 DEF LeftFold
  <2>1. Max(s) \in 1 .. 10
    BY GreatestOf
  <2>2. it[s \ {Max(s)}] \in Progress
    BY <1>4 DEF LeftFold
  <2>3. step[<<it[s \ {Max(s)}], Max(s)>>] = ResolveUnit(req, it[s \ {Max(s)}], Units[Max(s)])
    BY <2>1, <2>2
  <2> QED
    BY <1>4, <2>3 DEF LeftFold
<1>6. it = [s \in SUBSET DOMAIN Units |->
              IF s = {} THEN NothingSofar
              ELSE LET i == Max(s) IN ResolveUnit(req, it[s \ {i}], Units[i])]
  BY <1>4, <1>5, UnitOrder DEF LeftFold
<1>7. F = [s \in SUBSET DOMAIN Units |->
             IF s = {} THEN NothingSofar
             ELSE LET i == Max(s) IN ResolveUnit(req, F[s \ {i}], Units[i])]
  BY <1>6
<1> HIDE DEF F
<1> DEFINE c == [i \in 0 .. 10 |-> F[1 .. i]]
<1>8. c[0] = NothingSofar
  <2>1. 1 .. 0 = {} /\ 1 .. 0 \in SUBSET DOMAIN Units
    BY UnitOrder
  <2> QED
    BY <1>7, <2>1
<1>9. ASSUME NEW i \in 1 .. 10
      PROVE  c[i] = ResolveUnit(req, c[i - 1], Units[i])
  <2>1. /\ 1 .. i \in SUBSET DOMAIN Units /\ 1 .. i # {}
        /\ Max(1 .. i) = i
        /\ (1 .. i) \ {i} = 1 .. i - 1
    <3> HIDE DEF step, c
    <3>1. 10 \in Nat
      OBVIOUS
    <3>2. /\ 1 .. i \in SUBSET (1 .. 10) /\ 1 .. i # {}
          /\ Max(1 .. i) = i
          /\ (1 .. i) \ {i} = 1 .. i - 1
      BY <3>1, IntervalEnds, Zenon
    <3> QED
      BY <3>2, UnitOrder
  <2>2. F[1 .. i] = ResolveUnit(req, F[1 .. i - 1], Units[i])
    BY <1>7, <2>1
  <2>3. i \in 0 .. 10 /\ i - 1 \in 0 .. 10
    OBVIOUS
  <2> QED
    BY <2>2, <2>3
<1>10. c[10] = ResolveUnits(req)
  BY <1>3, UnitOrder
<1> HIDE DEF c
<1>11. \A i \in 0 .. 10 : c[i] \in Progress
  <2> DEFINE Typed == {i \in Nat : i <= 10 => c[i] \in Progress}
  <2>1. 0 \in Typed
    BY <1>1, <1>8
  <2>2. ASSUME NEW i \in Nat, i \in Typed
        PROVE  i + 1 \in Typed
    <3>1. ASSUME i + 1 <= 10
          PROVE  c[i + 1] \in Progress
      <4>1. i + 1 \in 1 .. 10 /\ (i + 1) - 1 = i
        BY <3>1
      <4>2. c[i + 1] = ResolveUnit(req, c[i], Units[i + 1])
        BY <1>9, <4>1
      <4> QED
        BY <2>2, <3>1, <4>1, <4>2, ResolveUnitType, UnitOrder
    <3> QED
      BY <3>1
  <2> HIDE DEF Typed
  <2>3. Nat \subseteq Typed
    BY <2>1, <2>2, Induction
  <2> QED
    BY <2>3 DEF Typed
<1> QED
  BY <1>8, <1>9, <1>10, <1>11 DEF Resolving

\* The step to a unit, and what it leaves alone.
StepOptions(req, c, i) == UnitOptions(Units[i], req.units[Units[i]], req.base, c[i - 1].prev)

LEMMA ResolvingStep ==
  ASSUME NEW req \in RequestShape, NEW c, Resolving(req, c), NEW i \in 1 .. 10
  PROVE  /\ c[i - 1].rejected => c[i] = c[i - 1]
         /\ ~c[i - 1].rejected => (c[i].rejected <=> StepOptions(req, c, i) = Rejected)
         /\ ~c[i].rejected =>
              /\ StepOptions(req, c, i) \in UnitShape
              /\ c[i].units = [c[i - 1].units EXCEPT ![Units[i]] = StepOptions(req, c, i)]
              /\ c[i].prev = IF Units[i] \in TracksPrevious THEN StepOptions(req, c, i).style
                             ELSE c[i - 1].prev
<1> DEFINE unit == StepOptions(req, c, i)
<1>1. i - 1 \in 0 .. 10 /\ Units[i] \in UnitSet
  BY UnitOrder
<1>2. c[i - 1] \in Progress /\ c[i] = ResolveUnit(req, c[i - 1], Units[i])
  BY <1>1 DEF Resolving
<1>3. req.units[Units[i]] \in OptionShape /\ req.base \in Bases
  BY <1>1 DEF RequestShape
<1>4. unit \in UnitShape \cup {Rejected}
  BY <1>1, <1>3, UnitOptionsType DEF StepOptions
<1>5. unit = UnitOptions(Units[i], req.units[Units[i]], req.base, c[i - 1].prev)
  BY DEF StepOptions
<1> HIDE DEF unit
<1>6. CASE c[i - 1].rejected
  BY <1>2, <1>6 DEF ResolveUnit
<1>7. CASE ~c[i - 1].rejected /\ unit = Rejected
  BY <1>2, <1>5, <1>7 DEF ResolveUnit, unit, Progress
<1>8. CASE ~c[i - 1].rejected /\ unit # Rejected
  <2>1. c[i] = [ c[i - 1] EXCEPT !.units = [c[i - 1].units EXCEPT ![Units[i]] = unit],
                    !.prev = IF Units[i] \in TracksPrevious THEN unit.style ELSE c[i - 1].prev ]
    BY <1>2, <1>5, <1>8 DEF ResolveUnit
  <2> QED
    BY <1>2, <1>4, <1>8, <2>1 DEF Progress, unit
<1> QED
  BY <1>6, <1>7, <1>8

\* Once refused, refused.
LEMMA RejectedStays ==
  ASSUME NEW req \in RequestShape, NEW c, Resolving(req, c), NEW i \in 0 .. 10, c[i].rejected
  PROVE  c[10].rejected
<1> DEFINE Refused == {j \in Nat : i + j <= 10 => c[i + j].rejected}
<1>1. 0 \in Refused
  OBVIOUS
<1>2. ASSUME NEW j \in Nat, j \in Refused
      PROVE  j + 1 \in Refused
  <2>1. ASSUME i + (j + 1) <= 10
        PROVE  c[i + (j + 1)].rejected
    <3>1. i + (j + 1) \in 1 .. 10 /\ (i + (j + 1)) - 1 = i + j
      BY <2>1
    <3>2. c[i + j].rejected
      BY <1>2, <2>1
    <3> QED
      BY <3>1, <3>2, ResolvingStep
  <2> QED
    BY <2>1
<1> HIDE DEF Refused
<1>3. Nat \subseteq Refused
  BY <1>1, <1>2, Induction
<1>4. 10 - i \in Refused
  BY <1>3
<1> QED
  BY <1>4 DEF Refused

\* What is accepted is the options of every unit, after the units before it.
LEMMA Accepted ==
  ASSUME NEW req \in RequestShape, NEW c, Resolving(req, c), ~c[10].rejected, NEW i \in 1 .. 10
  PROVE  /\ StepOptions(req, c, i) \in UnitShape
         /\ c[10].units[Units[i]] = StepOptions(req, c, i)
         /\ c[i].prev = IF Units[i] \in TracksPrevious THEN StepOptions(req, c, i).style
                        ELSE c[i - 1].prev
<1>1. \A j \in 0 .. 10 : ~c[j].rejected
  BY RejectedStays
<1>2. /\ StepOptions(req, c, i) \in UnitShape
      /\ c[i].units = [c[i - 1].units EXCEPT ![Units[i]] = StepOptions(req, c, i)]
      /\ c[i].prev = IF Units[i] \in TracksPrevious THEN StepOptions(req, c, i).style
                     ELSE c[i - 1].prev
  <2>1. i \in 0 .. 10
    OBVIOUS
  <2> QED
    BY <1>1, <2>1, ResolvingStep
<1>3. c[i].units[Units[i]] = StepOptions(req, c, i)
  <2>1. i - 1 \in 0 .. 10 /\ Units[i] \in UnitSet
    BY UnitOrder
  <2>2. c[i - 1].units \in [UnitSet -> UnitShape \cup {None}]
    BY <2>1 DEF Resolving, Progress
  <2> QED
    BY <1>2, <2>1, <2>2
<1> DEFINE Kept == {j \in Nat : i + j <= 10 => c[i + j].units[Units[i]] = StepOptions(req, c, i)}
<1>4. 0 \in Kept
  BY <1>3
<1>5. ASSUME NEW j \in Nat, j \in Kept
      PROVE  j + 1 \in Kept
  <2>1. ASSUME i + (j + 1) <= 10
        PROVE  c[i + (j + 1)].units[Units[i]] = StepOptions(req, c, i)
    <3> DEFINE k == i + (j + 1)
    <3>1. k \in 1 .. 10 /\ k - 1 = i + j /\ k # i /\ k \in 0 .. 10 /\ i + j \in 0 .. 10
      BY <2>1
    <3>2. c[i + j].units[Units[i]] = StepOptions(req, c, i)
      BY <1>5, <2>1
    <3> HIDE DEF k
    <3>3. c[k].units = [c[k - 1].units EXCEPT ![Units[k]] = StepOptions(req, c, k)]
      BY <1>1, <3>1, ResolvingStep
    <3>4. Units[k] # Units[i]
      BY <3>1, UnitOrder
    <3>5. c[i + j].units \in [UnitSet -> UnitShape \cup {None}] /\ Units[i] \in UnitSet
      BY <3>1, UnitOrder DEF Resolving, Progress
    <3> QED
      BY <3>1, <3>2, <3>3, <3>4, <3>5 DEF k
  <2> QED
    BY <2>1
<1> HIDE DEF Kept
<1>6. Nat \subseteq Kept
  BY <1>4, <1>5, Induction
<1>7. c[10].units[Units[i]] = StepOptions(req, c, i)
  <2>1. 10 - i \in Kept
    BY <1>6
  <2> QED
    BY <2>1 DEF Kept
<1> QED
  BY <1>2, <1>7

\* What an accepted unit may look like, after the style before it.
LEMMA AcceptedUnit ==
  ASSUME NEW u \in UnitSet, NEW option \in OptionShape, NEW base \in Bases, NEW prev,
         NEW unit, unit = UnitOptions(u, option, base, prev), unit # Rejected
  PROVE  /\ PublicUnitStyle(unit.style) \in StylesOf(u)
         /\ unit.display \in Displays
         /\ InternalStyle(u, PublicUnitStyle(unit.style)) = unit.style
         /\ ValidUnitStyle(unit.style, unit.display, prev)
         /\ u \in ClockContinuation /\ ContinuesClock(prev) => unit.style = "2-digit"
<1> DEFINE chosen  == ChosenStyle(u, option, base, prev)
           style   == InternalStyle(u, chosen)
<1>1. /\ chosen \in StylesOf(u)
      /\ ValidUnitStyle(style, unit.display, prev)
      /\ unit.style = IF u \in ClockContinuation /\ ContinuesClock(prev) THEN "2-digit" ELSE style
      /\ unit.display \in Displays
  BY DEF UnitOptions, OptionShape, Displays
<1> HIDE DEF chosen
<1>2. style \in Styles /\ (style = "fractional" <=> u \in Fractional /\ chosen = "numeric")
  BY <1>1 DEF StylesOf, InternalStyle, Styles, WordStyles, ClockStyles
<1>3. u \in ClockContinuation => u \notin Fractional /\ "2-digit" \in StylesOf(u)
  BY DEF ClockContinuation, Fractional, StylesOf, ClockStyles, ClockUnits, DateUnits
<1>4. CASE u \in ClockContinuation /\ ContinuesClock(prev)
  BY <1>1, <1>3, <1>4 DEF PublicUnitStyle, InternalStyle, ValidUnitStyle, ContinuesClock, ClockStyles
<1>5. CASE ~(u \in ClockContinuation /\ ContinuesClock(prev))
  <2>1. unit.style = style
    BY <1>1, <1>5
  <2>2. style # "fractional" => style = chosen
    BY <1>2 DEF InternalStyle
  <2>3. PublicUnitStyle(style) = chosen
    BY <1>2, <2>2 DEF PublicUnitStyle
  <2> QED
    BY <1>1, <1>5, <2>1, <2>3
<1> QED
  BY <1>4, <1>5

\* The options a formatter reports for a unit are accepted as they are.
LEMMA ReportedUnit ==
  ASSUME NEW u \in UnitSet, NEW option \in OptionShape, NEW base \in Bases, NEW prev,
         NEW unit, unit = UnitOptions(u, option, base, prev), unit \in UnitShape
  PROVE  UnitOptions(u, [style |-> PublicUnitStyle(unit.style), display |-> unit.display],
                     base, prev) = unit
<1> DEFINE public   == PublicUnitStyle(unit.style)
           reported == [style |-> public, display |-> unit.display]
<1>1. unit # Rejected
  BY Options
<1>2. /\ public \in StylesOf(u)
      /\ unit.display \in Displays
      /\ InternalStyle(u, public) = unit.style
      /\ ValidUnitStyle(unit.style, unit.display, prev)
      /\ u \in ClockContinuation /\ ContinuesClock(prev) => unit.style = "2-digit"
  BY <1>1, AcceptedUnit
<1>3. public # Unset /\ unit.display # Unset
  BY <1>2, Options DEF StylesOf, WordStyles, ClockStyles, Displays
<1> HIDE DEF public
<1>4. ChosenStyle(u, reported, base, prev) = public
  BY <1>3 DEF ChosenStyle
<1>5. UnitOptions(u, reported, base, prev) = [style |-> unit.style, display |-> unit.display]
  BY <1>2, <1>3, <1>4 DEF UnitOptions
<1> QED
  BY <1>5 DEF UnitShape, public

LEMMA ResolvedType ==
  ASSUME NEW req \in RequestShape, Construct(req) # Rejected
  PROVE  Construct(req) \in Formatters
<1>1. PICK c : Resolving(req, c)
  BY ResolvingExists
<1>2. ~c[10].rejected /\ req.fractionalDigits \in Digits
  BY <1>1 DEF Construct, Resolving, ValidFractionalDigits
<1>3. ASSUME NEW u \in UnitSet
      PROVE  c[10].units[u] \in UnitShape
  <2>1. PICK i \in 1 .. 10 : u = Units[i]
    BY UnitOrder
  <2> QED
    BY <1>1, <1>2, <2>1, Accepted
<1>4. c[10].units \in [UnitSet -> UnitShape]
  <2>1. c[10] \in Progress
    BY <1>1 DEF Resolving
  <2>2. c[10].units \in [UnitSet -> UnitShape \cup {None}]
    BY <2>1 DEF Progress
  <2> QED
    BY <1>3, <2>2
<1>5. Construct(req) = [ base |-> req.base, units |-> c[10].units,
                         fractionalDigits |-> req.fractionalDigits ]
  BY <1>1, <1>2 DEF Construct, Resolving, ValidFractionalDigits
<1> QED
  BY <1>2, <1>4, <1>5 DEF Formatters, RequestShape

\* A formatter's own options give the formatter again.
LEMMA ResolvesAgain ==
  ASSUME NEW req \in RequestShape, Construct(req) # Rejected
  PROVE  /\ ResolvedOptions(Construct(req)) \in RequestShape
         /\ Construct(ResolvedOptions(Construct(req))) = Construct(req)
<1> DEFINE f     == Construct(req)
           again == ResolvedOptions(f)
<1>1. f \in Formatters
  BY ResolvedType
<1>2. PICK c : Resolving(req, c)
  BY ResolvingExists
<1>3. /\ ~c[10].rejected /\ req.fractionalDigits \in Digits
      /\ f.base = req.base /\ f.units = c[10].units /\ f.fractionalDigits = req.fractionalDigits
  BY <1>2 DEF Construct, Resolving, ValidFractionalDigits
<1> HIDE DEF f
<1>4. /\ again.base = f.base /\ again.fractionalDigits = f.fractionalDigits
      /\ again.units = [u \in UnitSet |->
           [style |-> PublicUnitStyle(f.units[u].style), display |-> f.units[u].display]]
      /\ again = [base |-> again.base, units |-> again.units,
                  fractionalDigits |-> again.fractionalDigits]
  <2> DEFINE reported == [u \in UnitSet |->
               [style |-> PublicUnitStyle(f.units[u].style), display |-> f.units[u].display]]
  <2>1. again = [f EXCEPT !.units = reported]
    BY DEF ResolvedOptions
  <2>2. f = [base |-> f.base, units |-> f.units, fractionalDigits |-> f.fractionalDigits]
    BY <1>1 DEF Formatters
  <2> HIDE DEF reported, again
  <2>3. again = [base |-> f.base, units |-> reported, fractionalDigits |-> f.fractionalDigits]
    BY <2>1, <2>2
  <2> QED
    BY <2>3 DEF reported
<1>5. again \in RequestShape
  <2>1. \A u \in UnitSet : again.units[u] \in OptionShape
    <3> SUFFICES ASSUME NEW u \in UnitSet PROVE again.units[u] \in OptionShape
      OBVIOUS
    <3>1. f.units[u] \in UnitShape
      BY <1>1 DEF Formatters
    <3> HIDE DEF again
    <3> QED
      BY <1>4, <3>1 DEF UnitShape, OptionShape, PublicUnitStyle, ClockStyles
  <2>2. again.units \in [UnitSet -> OptionShape]
    <3> HIDE DEF again
    <3> QED
      BY <1>4, <2>1
  <2>3. again.base \in Bases /\ again.fractionalDigits \in Int \cup {Unset}
    <3> HIDE DEF again
    <3> QED
      BY <1>1, <1>4 DEF Formatters, Digits
  <2> HIDE DEF again
  <2> QED
    BY <1>4, <2>2, <2>3 DEF RequestShape
<1> HIDE DEF again
<1>6. PICK e : Resolving(again, e)
  BY <1>5, ResolvingExists
<1> DEFINE Same == {i \in Nat : i <= 10 => e[i] = c[i]}
<1>7. 0 \in Same
  BY <1>2, <1>6 DEF Resolving
<1>8. ASSUME NEW j \in Nat, j \in Same
      PROVE  j + 1 \in Same
  <2>1. ASSUME j + 1 <= 10
        PROVE  e[j + 1] = c[j + 1]
    <3>1. PICK i \in 1 .. 10 : i = j + 1 /\ i - 1 = j
      BY <2>1
    <3>2. e[i - 1] = c[i - 1]
      BY <1>8, <3>1
    <3> DEFINE u    == Units[i]
               prev == c[i - 1].prev
               unit == UnitOptions(u, req.units[u], req.base, prev)
    <3>3. u \in UnitSet
      BY UnitOrder
    <3>4. unit \in UnitShape /\ f.units[u] = unit
      BY <1>2, <1>3, Accepted DEF StepOptions
    <3>5. req.units[u] \in OptionShape /\ req.base \in Bases
      BY <3>3 DEF RequestShape
    <3> HIDE DEF u, prev
    <3>6. again.units[u] = [style |-> PublicUnitStyle(unit.style), display |-> unit.display]
      BY <1>4, <3>3, <3>4
    <3>7. UnitOptions(u, again.units[u], again.base, prev) = unit
      <4> HIDE DEF unit
      <4>1. UnitOptions(u, [style |-> PublicUnitStyle(unit.style), display |-> unit.display],
                        req.base, prev) = unit
        BY <3>3, <3>4, <3>5, ReportedUnit DEF unit
      <4> QED
        BY <1>3, <1>4, <3>6, <4>1
    <3>8. ResolveUnit(again, c[i - 1], u) = ResolveUnit(req, c[i - 1], u)
      BY <3>7 DEF ResolveUnit, prev
    <3>9. e[i] = ResolveUnit(again, e[i - 1], u) /\ c[i] = ResolveUnit(req, c[i - 1], u)
      BY <1>2, <1>6 DEF Resolving, u
    <3> QED
      BY <3>1, <3>2, <3>8, <3>9
  <2> QED
    BY <2>1
<1> HIDE DEF Same
<1>9. e[10] = c[10]
  <2>1. 10 \in Same
    BY <1>7, <1>8, Induction
  <2> QED
    BY <2>1 DEF Same
<1>10. Construct(again) = [base |-> again.base, units |-> e[10].units,
                          fractionalDigits |-> again.fractionalDigits]
  BY <1>3, <1>4, <1>6, <1>9 DEF Construct, Resolving, ValidFractionalDigits
<1>11. f = [base |-> f.base, units |-> f.units, fractionalDigits |-> f.fractionalDigits]
  BY <1>1 DEF Formatters
<1>12. Construct(again) = f
  BY <1>3, <1>4, <1>9, <1>10, <1>11
<1> QED
  BY <1>5, <1>12 DEF again, f

-------------------------------------------------------------------------------
(* Theorems about construction. *)

\* A formatter is always what its options give.
ConstructedFromRequest ==
  \/ request = None /\ formatter = None
  \/ request \in RequestShape /\ formatter = Construct(request)

THEOREM Construction == Spec => []ConstructedFromRequest
<1>1. Init => ConstructedFromRequest
  BY DEF Init, ConstructedFromRequest
<1>2. ConstructedFromRequest /\ [Next]_vars => ConstructedFromRequest'
  <2> SUFFICES ASSUME ConstructedFromRequest, [Next]_vars
               PROVE  ConstructedFromRequest'
    OBVIOUS
  <2>1. CASE New
    BY <2>1, Options DEF New, ConstructWith, ConstructedFromRequest
  <2>2. CASE Rebuild
    BY <2>2, Options, ResolvesAgain DEF Rebuild, Constructed, ConstructWith, ConstructedFromRequest
  <2>3. CASE Format
    BY <2>3 DEF Format, ConstructedFromRequest
  <2>4. CASE JoinList
    BY <2>4 DEF JoinList, ConstructedFromRequest
  <2>5. CASE UNCHANGED vars
    BY <2>5 DEF vars, ConstructedFromRequest
  <2> QED
    BY <2>1, <2>2, <2>3, <2>4, <2>5 DEF Next
<1> QED
  BY <1>1, <1>2, PTL DEF Spec

\* Constructing again with the options a formatter resolved gives the same
\* formatter, whatever options it came from.
THEOREM Rebuilding == Spec => RebuildKeepsFormatter
<1>1. ConstructedFromRequest /\ [Next]_vars
        => [formatter # None => formatter' = formatter]_<<request, formatter>>
  <2> SUFFICES ASSUME ConstructedFromRequest, [Next]_vars, formatter # None
               PROVE  formatter' = formatter
    OBVIOUS
  <2>1. CASE New
    BY <2>1, Options DEF New, ConstructedFromRequest
  <2>2. CASE Rebuild
    BY <2>2, ResolvesAgain DEF Rebuild, Constructed, ConstructWith, ConstructedFromRequest
  <2>3. CASE Format
    BY <2>3 DEF Format
  <2>4. CASE JoinList
    BY <2>4 DEF JoinList
  <2>5. CASE UNCHANGED vars
    BY <2>5 DEF vars
  <2> QED
    BY <2>1, <2>2, <2>3, <2>4, <2>5 DEF Next
<1> QED
  BY <1>1, Construction, PTL DEF Spec, RebuildKeepsFormatter

-------------------------------------------------------------------------------
(* Refused options. *)

\* Where a unit that continues the one before it stands.
LEMMA Places ==
  /\ \A i \in 2 .. 10 : Units[i - 1] \in TracksPrevious => Units[i] = Child(Units[i - 1])
  /\ \A u \in UnitSet : u \in TracksPrevious <=> Position[u] \in 5 .. 9
  /\ \A u \in UnitSet : u \in DateUnits <=> Position[u] \in 1 .. 4
  /\ \A u \in UnitSet : u \in Fractional <=> Position[u] \in 8 .. 10
  /\ \A u \in UnitSet : u \in ClockContinuation <=> Position[u] \in 6 .. 7
  /\ \A u \in UnitSet : u \in ClockUnits <=> Position[u] \in 5 .. 7
<1>1. \A i \in 1 .. 10 : i \in {1, 2, 3, 4, 5, 6, 7, 8, 9, 10}
  OBVIOUS
<1>2. \A i \in 1 .. 10 :
        /\ Units[i] \in TracksPrevious <=> i \in 5 .. 9
        /\ Units[i] \in DateUnits <=> i \in 1 .. 4
        /\ Units[i] \in Fractional <=> i \in 8 .. 10
        /\ Units[i] \in ClockContinuation <=> i \in 6 .. 7
        /\ Units[i] \in ClockUnits <=> i \in 5 .. 7
  BY <1>1, UnitOrder
  DEF Units, TracksPrevious, DateUnits, Fractional, ClockContinuation, ClockUnits
<1>3. \A i \in 2 .. 10 : Units[i] = Child(Units[i - 1])
  <2> SUFFICES ASSUME NEW i \in 2 .. 10 PROVE Units[i] = Child(Units[i - 1])
    OBVIOUS
  <2>1. i - 1 \in 1 .. 10 /\ (i - 1) + 1 = i
    OBVIOUS
  <2> QED
    BY <2>1, UnitOrder DEF Child
<1> QED
  BY <1>2, <1>3, UnitOrder

\* A unit that names no style is in digits when the one before it is.
LEMMA DigitsContinue ==
  ASSUME NEW req \in RequestShape, NEW i \in 1 .. 10, ~Named(req, Units[i]), req.base # "digital"
  PROVE  InDigits(req, Units[i]) <=>
           i > 1 /\ Units[i - 1] \in TracksPrevious /\ InDigits(req, Units[i - 1])
<1> DEFINE From(w, k) == /\ Position[w] < k
                         /\ req.units[w].style \in ClockStyles
                         /\ \A v \in UnitSet : Position[v] \in Position[w] + 1 .. k => ~Named(req, v)
<1>1. /\ Units[i] \in UnitSet /\ Position[Units[i]] = i
      /\ TracksPrevious \subseteq UnitSet
      /\ \A u \in UnitSet : Position[u] \in 1 .. 10
  BY UnitOrder DEF TracksPrevious
<1>2. req.units[Units[i]].style \notin ClockStyles
  BY Options DEF Named
<1>3. InDigits(req, Units[i]) <=> \E w \in TracksPrevious : From(w, i)
  BY <1>1, <1>2 DEF InDigits
<1>4. ASSUME NEW w \in TracksPrevious, From(w, i)
      PROVE  i > 1 /\ Units[i - 1] \in TracksPrevious /\ InDigits(req, Units[i - 1])
  <2>1. Position[w] \in 5 .. 9 /\ Position[w] < i
    BY <1>1, <1>4, Places
  <2>2. i - 1 \in 1 .. 10 /\ i - 1 \in 5 .. 9 /\ i > 1
    BY <2>1
  <2>3. Units[i - 1] \in UnitSet /\ Position[Units[i - 1]] = i - 1
    BY <2>2, UnitOrder
  <2>4. Units[i - 1] \in TracksPrevious
    BY <2>2, <2>3, Places
  <2>5. CASE Position[w] = i - 1
    <3>1. w = Units[i - 1]
      <4>1. w \in UnitSet
        BY <1>1
      <4>2. Units[Position[w]] = w
        BY <4>1, UnitOrder
      <4> QED
        BY <2>5, <4>2
    <3> QED
      BY <1>4, <2>2, <2>4, <3>1 DEF InDigits
  <2>6. CASE Position[w] < i - 1
    <3>1. ~Named(req, Units[i - 1])
      BY <1>4, <2>1, <2>2, <2>3, <2>6
    <3>2. \A v \in UnitSet : Position[v] \in Position[w] + 1 .. i - 1 => ~Named(req, v)
      BY <1>1, <1>4, <2>1
    <3> QED
      BY <1>4, <2>2, <2>3, <2>4, <2>6, <3>1, <3>2 DEF InDigits
  <2> QED
    BY <2>1, <2>5, <2>6
<1>5. ASSUME i > 1, Units[i - 1] \in TracksPrevious, InDigits(req, Units[i - 1])
      PROVE  \E w \in TracksPrevious : From(w, i)
  <2>1. i - 1 \in 1 .. 10 /\ Units[i - 1] \in UnitSet /\ Position[Units[i - 1]] = i - 1
    BY <1>5, UnitOrder
  <2>2. CASE req.units[Units[i - 1]].style \in ClockStyles
    <3>1. \A v \in UnitSet : Position[v] \in (i - 1) + 1 .. i => v = Units[i]
      BY <1>1, UnitOrder
    <3>2. From(Units[i - 1], i)
      BY <2>1, <2>2, <3>1
    <3> QED
      BY <1>5, <3>2
  <2>3. CASE req.units[Units[i - 1]].style \notin ClockStyles
    <3>1. PICK w \in TracksPrevious : From(w, i - 1)
      BY <1>5, <2>1, <2>3 DEF InDigits
    <3>2. \A v \in UnitSet : Position[v] \in Position[w] + 1 .. i =>
            Position[v] \in Position[w] + 1 .. i - 1 \/ v = Units[i]
      BY <1>1, UnitOrder
    <3>3. From(w, i)
      BY <1>1, <3>1, <3>2
    <3> QED
      BY <3>3
  <2> QED
    BY <2>2, <2>3
<1> QED
  BY <1>3, <1>4, <1>5

\* What makes the loop refuse its i-th unit, in terms of the request.
Breaks(req, i) ==
  \/ Named(req, Units[i]) /\ req.units[Units[i]].style \notin StylesOf(Units[i])
  \/ Units[i] \in Fractional /\ req.units[Units[i]].display = "always" /\ InDigits(req, Units[i])
  \/ /\ i > 1 /\ Units[i - 1] \in TracksPrevious /\ InDigits(req, Units[i - 1])
     /\ req.units[Units[i]].style \in WordStyles

\* What prevStyle tells of the request before the i-th unit.
Tells(req, prev, i) ==
  /\ ContinuesChain(prev) <=>
       i > 1 /\ Units[i - 1] \in TracksPrevious /\ InDigits(req, Units[i - 1])
  /\ prev = "fractional" => Units[i] \in Fractional
  /\ prev \in Styles \cup {""}

LEMMA ChosenInDigits ==
  ASSUME NEW req \in RequestShape, NEW i \in 1 .. 10, NEW prev, Tells(req, prev, i),
         NEW chosen, chosen = ChosenStyle(Units[i], req.units[Units[i]], req.base, prev)
  PROVE  /\ chosen \in ClockStyles <=> InDigits(req, Units[i])
         /\ ~Named(req, Units[i]) => chosen \in StylesOf(Units[i])
         /\ chosen \in WordStyles /\ ContinuesChain(prev) => Named(req, Units[i])
         /\ Named(req, Units[i]) => chosen = req.units[Units[i]].style
<1> DEFINE u == Units[i]
<1>1. /\ u \in UnitSet /\ req.units[u] \in OptionShape /\ req.base \in Bases /\ Position[u] = i
  BY UnitOrder DEF RequestShape
<1>2. ContinuesChain(prev) => u \notin DateUnits
  <2> SUFFICES ASSUME i > 1, Units[i - 1] \in TracksPrevious
               PROVE  u \notin DateUnits
    BY DEF Tells
  <2>1. i - 1 \in 1 .. 10
    OBVIOUS
  <2>2. i - 1 \in 5 .. 9
    BY <2>1, Places, UnitOrder
  <2> QED
    BY <1>1, <2>2, Places
<1>3. u \notin DateUnits => "numeric" \in StylesOf(u)
  BY <1>1 DEF StylesOf, ClockStyles
<1>4. WordStyles \subseteq StylesOf(u) /\ "short" \in WordStyles
  BY DEF StylesOf, WordStyles
<1>5. WordStyles \cap ClockStyles = {} /\ "numeric" \in ClockStyles
  BY DEF ClockStyles, WordStyles
<1>6. CASE Named(req, u)
  BY <1>6, <1>1 DEF Named, ChosenStyle, InDigits
<1>7. CASE ~Named(req, u) /\ req.base = "digital"
  <2>1. chosen = DigitalDefault(u) /\ req.units[u].style \notin ClockStyles
    BY <1>7, Options DEF Named, ChosenStyle
  <2>2. u \notin DateUnits => InDigits(req, u)
    BY <1>7 DEF InDigits
  <2>3. u \in DateUnits => ~InDigits(req, u)
    <3> SUFFICES ASSUME u \in DateUnits, NEW w \in TracksPrevious, Position[w] < Position[u]
                 PROVE  FALSE
      BY <1>7, <2>1 DEF InDigits
    <3>1. w \in UnitSet
      BY DEF TracksPrevious
    <3> QED
      BY <1>1, <3>1, Places
  <2> QED
    BY <1>2, <1>3, <1>4, <1>5, <1>7, <2>1, <2>2, <2>3 DEF DigitalDefault
<1>8. CASE ~Named(req, u) /\ req.base # "digital"
  <2>1. chosen = IF ContinuesChain(prev) THEN "numeric" ELSE req.base
    BY <1>8 DEF Named, ChosenStyle
  <2>2. InDigits(req, u) <=> ContinuesChain(prev)
    BY <1>8, DigitsContinue DEF Tells
  <2>3. req.base \in WordStyles
    BY <1>1, <1>8 DEF Bases
  <2> QED
    BY <1>2, <1>3, <1>4, <1>5, <1>8, <2>1, <2>2, <2>3
<1> QED
  BY <1>6, <1>7, <1>8

\* A unit is refused exactly when the request breaks there.
LEMMA RefusedUnit ==
  ASSUME NEW req \in RequestShape, NEW i \in 1 .. 10, NEW prev, Tells(req, prev, i)
  PROVE  UnitOptions(Units[i], req.units[Units[i]], req.base, prev) = Rejected <=> Breaks(req, i)
<1> DEFINE u       == Units[i]
           option  == req.units[u]
           chosen  == ChosenStyle(u, option, req.base, prev)
           style   == InternalStyle(u, chosen)
           default == IF style # "fractional" /\ AlwaysByDefault(u, option, req.base, prev)
                      THEN "always" ELSE "auto"
           display == IF option.display = Unset THEN default ELSE option.display
<1>1. u \in UnitSet /\ option \in OptionShape /\ req.base \in Bases
  BY UnitOrder DEF RequestShape
<1>2. /\ chosen \in ClockStyles <=> InDigits(req, u)
      /\ ~Named(req, u) => chosen \in StylesOf(u)
      /\ chosen \in WordStyles /\ ContinuesChain(prev) => Named(req, u)
      /\ Named(req, u) => chosen = option.style
  BY ChosenInDigits
<1>3. UnitOptions(u, option, req.base, prev) = Rejected <=>
        chosen \notin StylesOf(u) \/ ~ValidUnitStyle(style, display, prev)
  <2>1. CASE chosen \notin StylesOf(u) \/ ~ValidUnitStyle(style, display, prev)
    BY <2>1 DEF UnitOptions
  <2>2. CASE ~(chosen \notin StylesOf(u) \/ ~ValidUnitStyle(style, display, prev))
    <3>1. style \in Styles /\ display \in Displays
      BY <1>1, <2>2 DEF StylesOf, InternalStyle, Styles, WordStyles, ClockStyles, OptionShape, Displays
    <3>2. UnitOptions(u, option, req.base, prev) \in UnitShape
      BY <2>2, <3>1 DEF UnitOptions, UnitShape, Styles, ClockStyles
    <3> QED
      BY <2>2, <3>2, Options
  <2> QED
    BY <2>1, <2>2
<1>4. ~Named(req, u) => option.style \notin WordStyles \cup ClockStyles
  BY Options DEF Named
<1>5. CASE chosen \notin StylesOf(u)
  <2>1. Named(req, u) /\ option.style \notin StylesOf(u)
    BY <1>2, <1>5
  <2> QED
    BY <1>3, <1>5, <2>1 DEF Breaks
<1>6. CASE chosen \in StylesOf(u)
  <2>1. Named(req, u) => option.style \in StylesOf(u)
    BY <1>2, <1>6
  <2>2. /\ u \in Fractional => chosen \in WordStyles \cup {"numeric"}
        /\ chosen \in WordStyles \cup ClockStyles
        /\ style = IF u \in Fractional /\ chosen = "numeric" THEN "fractional" ELSE chosen
    BY <1>6 DEF StylesOf, InternalStyle, WordStyles, ClockStyles, Fractional, DateUnits, ClockUnits
  <2>3. WordStyles \cap ClockStyles = {} /\ "numeric" \in ClockStyles /\ "fractional" \notin WordStyles \cup ClockStyles
    BY DEF WordStyles, ClockStyles
  <2>4. style = "fractional" <=> u \in Fractional /\ InDigits(req, u)
    BY <1>2, <2>2, <2>3
  <2>5. display = "always" /\ style = "fractional" <=>
          u \in Fractional /\ option.display = "always" /\ InDigits(req, u)
    <3>1. Unset # "always"
      BY Options DEF Displays
    <3> QED
      BY <2>4, <3>1
  <2>6. (ContinuesChain(prev) /\ chosen \in WordStyles) <=>
          ContinuesChain(prev) /\ option.style \in WordStyles
    BY <1>2, <1>4, <2>2, <2>3
  <2>7. ContinuesChain(prev) <=>
          i > 1 /\ Units[i - 1] \in TracksPrevious /\ InDigits(req, Units[i - 1])
    BY DEF Tells
  <2>8. (prev = "fractional" /\ style # "fractional") <=> (prev = "fractional" /\ chosen \in WordStyles)
    BY <2>2, <2>3 DEF Tells
  <2>9. (ContinuesClock(prev) /\ ~(style = "fractional" \/ style \in ClockStyles)) <=>
          (ContinuesClock(prev) /\ chosen \in WordStyles)
    BY <2>2, <2>3
  <2>10. ~ValidUnitStyle(style, display, prev) <=>
           \/ display = "always" /\ style = "fractional"
           \/ ContinuesChain(prev) /\ chosen \in WordStyles
    BY <2>8, <2>9 DEF ValidUnitStyle, ContinuesChain
  <2> QED
    BY <1>3, <1>6, <2>1, <2>5, <2>6, <2>7, <2>10 DEF Breaks
<1> QED
  BY <1>5, <1>6

\* And one that is accepted tells the next unit whether it is in digits.
LEMMA AcceptedTells ==
  ASSUME NEW req \in RequestShape, NEW i \in 1 .. 9, NEW prev, Tells(req, prev, i),
         NEW unit, unit = UnitOptions(Units[i], req.units[Units[i]], req.base, prev),
         unit \in UnitShape,
         NEW next, next = IF Units[i] \in TracksPrevious THEN unit.style ELSE prev
  PROVE  Tells(req, next, i + 1)
<1> DEFINE u      == Units[i]
           chosen == ChosenStyle(u, req.units[u], req.base, prev)
           style  == InternalStyle(u, chosen)
<1>1. i \in 1 .. 10 /\ i + 1 \in 1 .. 10 /\ (i + 1) - 1 = i /\ i + 1 > 1
  OBVIOUS
<1>2. u \in UnitSet /\ Position[u] = i /\ Units[i + 1] \in UnitSet /\ Position[Units[i + 1]] = i + 1
  BY <1>1, UnitOrder
<1>3. CASE u \in TracksPrevious
  <2>1. unit # Rejected
    BY Options
  <2>2. /\ chosen \in StylesOf(u)
        /\ ValidUnitStyle(style, unit.display, prev)
        /\ unit.style = IF u \in ClockContinuation /\ ContinuesClock(prev) THEN "2-digit" ELSE style
    BY <2>1 DEF UnitOptions
  <2>3. chosen \in ClockStyles <=> InDigits(req, u)
    BY <1>1, ChosenInDigits
  <2>4. /\ chosen \in WordStyles \cup ClockStyles
        /\ style = IF u \in Fractional /\ chosen = "numeric" THEN "fractional" ELSE chosen
        /\ u \in Fractional => chosen \in WordStyles \cup {"numeric"}
        /\ u \in ClockContinuation => u \notin Fractional
    BY <2>2 DEF StylesOf, InternalStyle, WordStyles, ClockStyles, Fractional, DateUnits, ClockUnits,
                ClockContinuation
  <2>5. ContinuesChain(unit.style) <=> chosen \in ClockStyles
    BY <2>2, <2>4 DEF ContinuesChain, ContinuesClock, ValidUnitStyle, ClockStyles, WordStyles
  <2>6. unit.style = "fractional" => u \in Fractional
    BY <2>2, <2>4 DEF ClockStyles, WordStyles
  <2>7. u \in Fractional => Units[i + 1] \in Fractional
    <3>1. u \in Fractional => i + 1 \in 8 .. 10
      BY <1>2, Places
    <3> QED
      BY <1>2, <3>1, Places
  <2> QED
    BY <1>1, <1>3, <2>3, <2>5, <2>6, <2>7 DEF Tells, UnitShape, Styles
<1>4. CASE u \notin TracksPrevious
  <2>1. i \in 1 .. 4
    BY <1>2, <1>4, Places
  <2>2. i > 1 => Units[i - 1] \notin TracksPrevious
    <3> SUFFICES ASSUME i > 1 PROVE Units[i - 1] \notin TracksPrevious
      OBVIOUS
    <3>1. PICK k \in 1 .. 10 : k = i - 1 /\ k \notin 5 .. 9
      BY <2>1
    <3>2. Units[k] \in UnitSet /\ Position[Units[k]] = k
      BY UnitOrder
    <3>3. Units[k] \notin TracksPrevious
      BY <3>1, <3>2, Places
    <3> QED
      BY <3>1, <3>3
  <2>3. ~ContinuesChain(prev)
    BY <2>2 DEF Tells
  <2> QED
    BY <1>1, <1>4, <2>3 DEF Tells, ContinuesChain
<1> QED
  BY <1>3, <1>4

\* While nothing is refused, prevStyle tells.
LEMMA ResolvingTells ==
  ASSUME NEW req \in RequestShape, NEW c, Resolving(req, c)
  PROVE  \A i \in 1 .. 10 : ~c[i - 1].rejected => Tells(req, c[i - 1].prev, i)
<1> DEFINE Told == {j \in Nat : j <= 9 => (~c[j].rejected => Tells(req, c[j].prev, j + 1))}
<1>1. 0 \in Told
  <2>1. c[0] = NothingSofar /\ NothingSofar.prev = ""
    BY DEF Resolving, NothingSofar
  <2>2. ~ContinuesChain("") /\ "" # "fractional" /\ "" \in Styles \cup {""}
    BY DEF ContinuesChain, ContinuesClock, ClockStyles
  <2>3. ~(1 > 1)
    OBVIOUS
  <2>4. Tells(req, "", 1)
    <3> DEFINE e == ""
    <3>1. ~ContinuesChain(e) /\ e # "fractional" /\ e \in Styles \cup {""}
      BY <2>2
    <3> HIDE DEF e
    <3>2. Tells(req, e, 1)
      BY <2>3, <3>1 DEF Tells
    <3> QED
      BY <3>2 DEF e
  <2>5. 0 + 1 = 1 /\ 0 <= 9 /\ 0 \in Nat
    OBVIOUS
  <2> QED
    BY <2>1, <2>4, <2>5
<1>2. ASSUME NEW j \in Nat, j \in Told
      PROVE  j + 1 \in Told
  <2>1. ASSUME j + 1 <= 9, ~c[j + 1].rejected
        PROVE  Tells(req, c[j + 1].prev, (j + 1) + 1)
    <3>1. PICK i \in 1 .. 9 : i = j + 1 /\ i - 1 = j /\ i \in 1 .. 10
      BY <2>1
    <3>2. ~c[i - 1].rejected
      BY <2>1, <3>1, ResolvingStep
    <3>3. Tells(req, c[i - 1].prev, i)
      BY <1>2, <2>1, <3>1, <3>2
    <3>4. /\ StepOptions(req, c, i) \in UnitShape
          /\ c[i].prev = IF Units[i] \in TracksPrevious THEN StepOptions(req, c, i).style
                         ELSE c[i - 1].prev
      BY <2>1, <3>1, ResolvingStep
    <3>5. Tells(req, c[i].prev, i + 1)
      BY <3>3, <3>4, AcceptedTells DEF StepOptions
    <3> QED
      BY <3>1, <3>5
  <2> QED
    BY <2>1
<1> HIDE DEF Told
<1>3. Nat \subseteq Told
  BY <1>1, <1>2, Induction
<1>4. ASSUME NEW i \in 1 .. 10, ~c[i - 1].rejected
      PROVE  Tells(req, c[i - 1].prev, i)
  <2>1. i - 1 \in Told /\ i - 1 <= 9 /\ (i - 1) + 1 = i
    BY <1>3
  <2> QED
    BY <1>4, <2>1 DEF Told
<1> QED
  BY <1>4

LEMMA RefusedRequest ==
  ASSUME NEW req \in RequestShape
  PROVE  Construct(req) = Rejected <=>
           ~ValidFractionalDigits(req.fractionalDigits) \/ \E i \in 1 .. 10 : Breaks(req, i)
<1>1. PICK c : Resolving(req, c)
  BY ResolvingExists
<1>2. c[10].rejected \in BOOLEAN
  <2>1. c[10] \in Progress
    BY <1>1 DEF Resolving
  <2> QED
    BY <2>1 DEF Progress
<1>3. Construct(req) = Rejected <=> ~ValidFractionalDigits(req.fractionalDigits) \/ c[10].rejected
  <2>1. CASE ~ValidFractionalDigits(req.fractionalDigits) \/ c[10].rejected
    BY <1>1, <2>1 DEF Construct, Resolving
  <2>2. CASE ValidFractionalDigits(req.fractionalDigits) /\ ~c[10].rejected
    <3>1. Construct(req) = [ base |-> req.base, units |-> c[10].units,
                             fractionalDigits |-> req.fractionalDigits ]
      BY <1>1, <2>2 DEF Construct, Resolving
    <3>2. ASSUME Construct(req) = Rejected PROVE FALSE
      <4>1. \A u \in UnitSet : c[10].units[u] \in UnitShape
        <5> SUFFICES ASSUME NEW u \in UnitSet PROVE c[10].units[u] \in UnitShape
          OBVIOUS
        <5>1. PICK i \in 1 .. 10 : u = Units[i]
          BY UnitOrder
        <5> QED
          BY <1>1, <2>2, <5>1, Accepted
      <4>2. c[10] \in Progress
        BY <1>1 DEF Resolving
      <4>3. c[10].units \in [UnitSet -> UnitShape]
        BY <4>1, <4>2 DEF Progress
      <4>4. Construct(req) \in Formatters
        BY <2>2, <3>1, <4>3 DEF Formatters, RequestShape, ValidFractionalDigits
      <4> QED
        BY <3>2, <4>4, Options
    <3> QED
      BY <2>2, <3>2
  <2> QED
    BY <1>2, <2>1, <2>2
<1>4. ASSUME c[10].rejected
      PROVE  \E i \in 1 .. 10 : Breaks(req, i)
  <2> DEFINE Refused == {i \in Nat : i <= 10 /\ c[i].rejected}
  <2>1. 10 \in Refused
    BY <1>4
  <2>2. PICK i \in Refused : \A j \in Refused : i <= j
    <3>1. Refused \in SUBSET Nat /\ Refused # {}
      BY <2>1
    <3> HIDE DEF Refused
    <3> QED
      BY <3>1, LeastElement
  <2>3. i # 0
    <3>1. ~c[0].rejected
      <4>1. c[0] = NothingSofar /\ ~NothingSofar.rejected
        BY <1>1 DEF Resolving, NothingSofar
      <4> QED
        BY <4>1
    <3>2. c[i].rejected
      BY <2>2
    <3> QED
      BY <3>1, <3>2
  <2>4. i \in 1 .. 10 /\ i - 1 \in 0 .. 10 /\ ~c[i - 1].rejected
    <3>1. i \in 1 .. 10 /\ i - 1 \in Nat /\ i - 1 <= 10
      BY <2>3
    <3>2. i - 1 \notin Refused
      <4> HIDE DEF Refused
      <4> QED
        BY <2>2, <3>1
    <3> QED
      BY <3>1, <3>2
  <2>5. StepOptions(req, c, i) = Rejected
    BY <1>1, <2>4, ResolvingStep
  <2>6. Tells(req, c[i - 1].prev, i)
    BY <1>1, <2>4, ResolvingTells
  <2> QED
    BY <2>4, <2>5, <2>6, RefusedUnit DEF StepOptions
<1>5. ASSUME ~c[10].rejected, NEW i \in 1 .. 10, Breaks(req, i)
      PROVE  FALSE
  <2>1. i - 1 \in 0 .. 10
    OBVIOUS
  <2>2. ~c[i - 1].rejected
    BY <1>1, <1>5, <2>1, RejectedStays
  <2>3. StepOptions(req, c, i) = Rejected
    BY <1>1, <1>5, <2>2, ResolvingTells, RefusedUnit DEF StepOptions
  <2>4. StepOptions(req, c, i) \in UnitShape
    BY <1>1, <1>5, Accepted
  <2> QED
    BY <2>3, <2>4, Options
<1> QED
  BY <1>3, <1>4, <1>5

\* The options of a constructor are refused exactly when they break the clock,
\* whatever they are.
THEOREM Refusals == Spec => []RefusedForABrokenClock
<1>1. ASSUME ConstructedFromRequest
      PROVE  RefusedForABrokenClock
  <2> SUFFICES ASSUME request # None
               PROVE  formatter = Rejected <=>
                        \/ ~ValidFractionalDigits(request.fractionalDigits)
                        \/ \E u \in UnitSet : Named(request, u) /\ request.units[u].style \notin StylesOf(u)
                        \/ \E u \in Fractional : request.units[u].display = "always" /\ InDigits(request, u)
                        \/ \E u \in TracksPrevious :
                             InDigits(request, u) /\ request.units[Child(u)].style \in WordStyles
    BY DEF RefusedForABrokenClock
  <2>1. request \in RequestShape /\ formatter = Construct(request)
    BY <1>1 DEF ConstructedFromRequest
  <2>2. formatter = Rejected <=>
          ~ValidFractionalDigits(request.fractionalDigits) \/ \E i \in 1 .. 10 : Breaks(request, i)
    BY <2>1, RefusedRequest
  <2>3. Fractional \subseteq UnitSet /\ TracksPrevious \subseteq UnitSet
    BY UnitOrder DEF Fractional, TracksPrevious
  <2>4. ASSUME NEW i \in 1 .. 10, Breaks(request, i)
        PROVE  \/ \E u \in UnitSet : Named(request, u) /\ request.units[u].style \notin StylesOf(u)
               \/ \E u \in Fractional : request.units[u].display = "always" /\ InDigits(request, u)
               \/ \E u \in TracksPrevious :
                    InDigits(request, u) /\ request.units[Child(u)].style \in WordStyles
    <3>1. Units[i] \in UnitSet
      BY UnitOrder
    <3>2. i > 1 /\ Units[i - 1] \in TracksPrevious => Units[i] = Child(Units[i - 1])
      BY Places
    <3> QED
      BY <2>4, <3>1, <3>2 DEF Breaks
  <2>5. ASSUME NEW u \in UnitSet,
               \/ Named(request, u) /\ request.units[u].style \notin StylesOf(u)
               \/ u \in Fractional /\ request.units[u].display = "always" /\ InDigits(request, u)
        PROVE  \E i \in 1 .. 10 : Breaks(request, i)
    <3>1. PICK i \in 1 .. 10 : Units[i] = u
      BY UnitOrder
    <3> QED
      BY <2>5, <3>1 DEF Breaks
  <2>6. ASSUME NEW u \in TracksPrevious, InDigits(request, u),
               request.units[Child(u)].style \in WordStyles
        PROVE  \E i \in 1 .. 10 : Breaks(request, i)
    <3>1. Position[u] \in 5 .. 9 /\ Units[Position[u]] = u
      BY <2>3, UnitOrder, Places
    <3>2. PICK i \in 2 .. 10 : i = Position[u] + 1 /\ i - 1 = Position[u] /\ i \in 1 .. 10 /\ i > 1
      BY <3>1
    <3>3. Units[i] = Child(u)
      BY <3>2 DEF Child
    <3> QED
      BY <2>6, <3>1, <3>2, <3>3 DEF Breaks
  <2> QED
    BY <2>2, <2>3, <2>4, <2>5, <2>6
<1> QED
  BY <1>1, Construction, PTL

-------------------------------------------------------------------------------
(* Choosing places of a sequence. *)

\* The chain of At: each place adds its element or nothing.
Choosing(c, s, places) ==
  /\ c[0] = <<>>
  /\ \A k \in 1 .. Len(s) : c[k] = IF k \in places THEN Append(c[k - 1], s[k]) ELSE c[k - 1]
  /\ At(s, places) = c[Len(s)]

LEMMA ChoosingExists ==
  ASSUME NEW R, NEW s \in Seq(R), NEW places
  PROVE  \E c \in [0 .. Len(s) -> Seq(R)] : Choosing(c, s, places)
<1> DEFINE n == Len(s)
           step == [p \in Seq(R) \X (1 .. n) |->
                      IF p[2] \in places THEN Append(p[1], s[p[2]]) ELSE p[1]]
           D == DOMAIN [i \in DOMAIN s |-> i]
           F == CHOOSE it : it = [t \in SUBSET D |->
                  IF t = {} THEN <<>>
                  ELSE LET x == Max(t)
                       IN  IF [i \in DOMAIN s |-> i][x] \in places
                           THEN Append(it[t \ {x}], s[[i \in DOMAIN s |-> i][x]])
                           ELSE it[t \ {x}]]
<1>1. n \in Nat /\ DOMAIN s = 1 .. n /\ D = 1 .. n /\ \A i \in 1 .. n : s[i] \in R
  BY LenProperties, ElementOfSeq
<1>2. At(s, places) = F[D]
  BY DEF At, FoldLeftDomain, FoldLeft, MapThenFoldSet
<1>3. step \in [Seq(R) \X (1 .. n) -> Seq(R)] /\ <<>> \in Seq(R)
  BY <1>1, AppendProperties
<1>4. PICK it : LeftFold(it, n, Seq(R), <<>>, step)
  <2> HIDE DEF n, step
  <2> QED
    BY <1>1, <1>3, LeftFoldDefines
<1> DEFINE Solves(g) == g = [t \in SUBSET D |->
                  IF t = {} THEN <<>>
                  ELSE LET x == Max(t)
                       IN  IF [i \in DOMAIN s |-> i][x] \in places
                           THEN Append(g[t \ {x}], s[[i \in DOMAIN s |-> i][x]])
                           ELSE g[t \ {x}]]
<1>5. Solves(it)
  <2>1. ASSUME NEW t \in SUBSET (1 .. n), t # {}
        PROVE  it[t] = LET x == Max(t)
                       IN  IF [i \in DOMAIN s |-> i][x] \in places
                           THEN Append(it[t \ {x}], s[[i \in DOMAIN s |-> i][x]])
                           ELSE it[t \ {x}]
    <3>1. Max(t) \in 1 .. n
      <4> HIDE DEF n
      <4> QED
        BY <1>1, <2>1, GreatestOf
    <3>2. it[t \ {Max(t)}] \in Seq(R) /\ it[t] = step[<<it[t \ {Max(t)}], Max(t)>>]
      <4> HIDE DEF n, step
      <4> QED
        BY <1>4, <2>1 DEF LeftFold
    <3>3. [i \in DOMAIN s |-> i][Max(t)] = Max(t)
      BY <1>1, <3>1
    <3> QED
      BY <3>1, <3>2, <3>3
  <2>2. it \in [SUBSET (1 .. n) -> Seq(R)] /\ it[{}] = <<>>
    <3> HIDE DEF n, step
    <3> QED
      BY <1>4 DEF LeftFold
  <2> HIDE DEF n, step, F
  <2> QED
    BY <1>1, <2>1, <2>2
<1>6. Solves(F)
  <2> HIDE DEF n, step, D
  <2> QED
    BY <1>5
<1> HIDE DEF F
<1> DEFINE c == [k \in 0 .. n |-> F[1 .. k]]
<1>7. F[1 .. 0] = <<>>
  <2>1. 1 .. 0 = {} /\ 1 .. 0 \in SUBSET (1 .. n)
    BY <1>1
  <2> QED
    BY <1>1, <1>6, <2>1
<1>8. ASSUME NEW k \in 1 .. n
      PROVE  F[1 .. k] = IF k \in places THEN Append(F[1 .. k - 1], s[k]) ELSE F[1 .. k - 1]
  <2>1. /\ 1 .. k \in SUBSET (1 .. n) /\ 1 .. k # {}
        /\ Max(1 .. k) = k
        /\ (1 .. k) \ {k} = 1 .. k - 1
    <3> HIDE DEF n
    <3> QED
      BY <1>1, IntervalEnds
  <2>2. [i \in DOMAIN s |-> i][k] = k
    BY <1>1
  <2> QED
    BY <1>1, <1>6, <2>1, <2>2
<1> HIDE DEF n
<1>9. /\ c[0] = <<>>
      /\ \A k \in 1 .. n : c[k] = IF k \in places THEN Append(c[k - 1], s[k]) ELSE c[k - 1]
      /\ At(s, places) = c[n]
  <2>1. \A k \in 1 .. n : k \in 0 .. n /\ k - 1 \in 0 .. n /\ 0 \in 0 .. n
    BY <1>1
  <2>2. c[n] = F[D]
    BY <1>1
  <2> QED
    BY <1>1, <1>2, <1>7, <1>8, <2>1, <2>2
<1> HIDE DEF c
<1> DEFINE Typed == {k \in Nat : k <= n => c[k] \in Seq(R)}
<1>10. 0 \in Typed
  BY <1>3, <1>9
<1>11. ASSUME NEW k \in Nat, k \in Typed
       PROVE  k + 1 \in Typed
  <2>1. ASSUME NEW j \in 1 .. n, j - 1 = k
        PROVE  c[j] \in Seq(R)
    <3>1. c[k] \in Seq(R) /\ s[j] \in R
      BY <1>1, <1>11, <2>1
    <3>2. c[j] = IF j \in places THEN Append(c[k], s[j]) ELSE c[k]
      BY <1>9, <2>1
    <3> QED
      BY <3>1, <3>2, AppendProperties
  <2>2. k + 1 <= n => k + 1 \in 1 .. n /\ (k + 1) - 1 = k
    BY <1>1
  <2> QED
    BY <2>1, <2>2
<1>12. \A k \in 0 .. n : c[k] \in Seq(R)
  <2> HIDE DEF Typed
  <2>1. Nat \subseteq Typed
    BY <1>10, <1>11, Induction
  <2> QED
    BY <2>1 DEF Typed
<1>13. c \in [0 .. n -> Seq(R)]
  <2>1. c = [k \in 0 .. n |-> c[k]]
    BY DEF c
  <2> QED
    BY <1>12, <2>1
<1> QED
  BY <1>9, <1>13 DEF Choosing, n

\* e lists n places of s in order, and at is what is at them.
InOrder(e, n, s, places) ==
  /\ e \in [1 .. n -> 1 .. Len(s)]
  /\ \A i, j \in 1 .. n : i < j => e[i] < e[j]
  /\ places = {e[i] : i \in 1 .. n}

Listed(at, R, e, n, s) ==
  at \in Seq(R) /\ Len(at) = n /\ \A i \in 1 .. n : at[i] = s[e[i]]

\* Places that are listed in order give their elements in that order.
LEMMA AtPlaces ==
  ASSUME NEW R, NEW s \in Seq(R), NEW n \in Nat, NEW e, NEW places, InOrder(e, n, s, places)
  PROVE  Listed(At(s, places), R, e, n, s)
<1>0. /\ e \in [1 .. n -> 1 .. Len(s)]
      /\ \A i, j \in 1 .. n : i < j => e[i] < e[j]
      /\ places = {e[i] : i \in 1 .. n}
  BY DEF InOrder
<1> USE <1>0
<1> DEFINE l == Len(s)
<1>1. l \in Nat /\ \A i \in 1 .. l : s[i] \in R
  BY LenProperties, ElementOfSeq
<1>2. PICK c \in [0 .. l -> Seq(R)] : Choosing(c, s, places)
  BY ChoosingExists
<1>3. \A k \in 1 .. l : c[k] = IF k \in places THEN Append(c[k - 1], s[k]) ELSE c[k - 1]
  BY <1>2 DEF Choosing
<1> DEFINE Upto(k, m) ==
             /\ Len(c[k]) = m
             /\ \A i \in 1 .. m : e[i] <= k /\ c[k][i] = s[e[i]]
             /\ \A i \in 1 .. n : i > m => e[i] > k
           Chosen == {k \in Nat : k <= l => \E m \in 0 .. n : Upto(k, m)}
<1>4. 0 \in Chosen
  <2>1. c[0] = <<>> /\ Len(c[0]) = 0
    BY <1>2 DEF Choosing
  <2>2. Upto(0, 0) /\ 0 \in 0 .. n
    <3>1. \A i \in 1 .. n : i > 0 => e[i] > 0
      BY <1>1
    <3>2. \A i \in 1 .. 0 : e[i] <= 0 /\ c[0][i] = s[e[i]]
      OBVIOUS
    <3>3. Len(c[0]) = 0
      BY <2>1
    <3> QED
      BY <3>1, <3>2, <3>3
  <2> HIDE DEF Upto
  <2> QED
    BY <2>2
<1>5. ASSUME NEW h \in Nat, h \in Chosen
      PROVE  h + 1 \in Chosen
  <2>1. ASSUME NEW k \in 1 .. l, k - 1 = h
        PROVE  \E m \in 0 .. n : Upto(k, m)
    <3>1. PICK m \in 0 .. n : Upto(h, m)
      <4> HIDE DEF Upto
      <4>1. h <= l
        BY <1>1, <2>1
      <4> QED
        BY <1>5, <4>1
    <3>2. c[h] \in Seq(R) /\ s[k] \in R /\ h \in 0 .. l /\ k = h + 1
      <4>1. h \in 0 .. l /\ k = h + 1
        BY <1>1, <2>1
      <4>2. s[k] \in R
        BY <1>1
      <4> HIDE DEF l
      <4>3. c[h] \in Seq(R)
        BY <4>1
      <4> QED
        BY <4>1, <4>2, <4>3
    <3>3. CASE k \in places
      <4>1. PICK i \in 1 .. n : e[i] = k
        BY <3>3
      <4>2. i > m
        <5> SUFFICES ASSUME ~(i > m)
                     PROVE  FALSE
          OBVIOUS
        <5>1. i \in 1 .. m
          OBVIOUS
        <5>2. e[i] <= h
          BY <3>1, <5>1
        <5> QED
          BY <3>2, <4>1, <5>2
      <4>3. i = m + 1
        <5> SUFFICES ASSUME i > m + 1 PROVE FALSE
          BY <4>2
        <5>1. m + 1 \in 1 .. n /\ m + 1 < i
          BY <4>2
        <5>2. e[m + 1] < e[i] /\ e[m + 1] > h
          BY <3>1, <5>1
        <5>3. e[m + 1] \in Nat
          BY <1>1, <5>1
        <5> QED
          BY <3>2, <4>1, <5>2, <5>3
      <4>4. c[k] = Append(c[h], s[k])
        BY <1>3, <2>1, <3>3
      <4>5. /\ Len(c[k]) = m + 1
            /\ \A j \in 1 .. m : c[k][j] = c[h][j]
            /\ c[k][m + 1] = s[k]
        BY <3>1, <3>2, <4>4, AppendProperties
      <4>6. \A j \in 1 .. m + 1 : j \in 1 .. m \/ j = m + 1
        OBVIOUS
      <4>7. \A j \in 1 .. m + 1 : e[j] <= k /\ c[k][j] = s[e[j]]
        <5> SUFFICES ASSUME NEW j \in 1 .. m + 1 PROVE e[j] <= k /\ c[k][j] = s[e[j]]
          OBVIOUS
        <5>1. CASE j = m + 1
          BY <3>2, <4>1, <4>3, <4>5, <5>1
        <5>2. CASE j \in 1 .. m
          <6>1. j \in 1 .. n /\ e[j] \in Nat
            BY <1>1, <5>2
          <6> QED
            BY <3>1, <3>2, <4>5, <5>2, <6>1
        <5> QED
          BY <4>6, <5>1, <5>2
      <4>8. \A j \in 1 .. n : j > m + 1 => e[j] > k
        BY <4>1, <4>3
      <4>9. Upto(k, m + 1) /\ m + 1 \in 0 .. n
        BY <4>3, <4>5, <4>7, <4>8
      <4> HIDE DEF Upto
      <4> QED
        BY <4>9
    <3>4. CASE k \notin places
      <4>1. c[k] = c[h]
        BY <1>3, <2>1, <3>4
      <4>2. \A j \in 1 .. n : e[j] # k /\ e[j] \in Nat
        BY <1>1, <3>4
      <4>3. \A j \in 1 .. m : e[j] <= k
        BY <3>1, <3>2, <4>2
      <4>4. \A j \in 1 .. n : j > m => e[j] > k
        BY <3>1, <3>2, <4>2
      <4>5. Upto(k, m)
        BY <3>1, <4>1, <4>3, <4>4
      <4> HIDE DEF Upto
      <4> QED
        BY <4>5
    <3> QED
      BY <3>3, <3>4
  <2> HIDE DEF Upto
  <2>2. h + 1 <= l => h + 1 \in 1 .. l /\ (h + 1) - 1 = h
    BY <1>1
  <2> QED
    BY <2>1, <2>2
<1>6. PICK m \in 0 .. n : Upto(l, m)
  <2> HIDE DEF Chosen
  <2>1. l \in Chosen
    BY <1>1, <1>4, <1>5, Induction
  <2> HIDE DEF Upto
  <2> QED
    BY <1>1, <2>1 DEF Chosen
<1>7. m = n
  <2> SUFFICES ASSUME m < n PROVE FALSE
    OBVIOUS
  <2>1. n \in 1 .. n /\ n > m /\ e[n] \in 1 .. l
    OBVIOUS
  <2> QED
    BY <1>1, <1>6, <2>1
<1>8. At(s, places) = c[l] /\ c[l] \in Seq(R)
  BY <1>1, <1>2 DEF Choosing
<1> QED
  BY <1>6, <1>7, <1>8 DEF Listed

-------------------------------------------------------------------------------
(* Templates. *)

ListPart == [type : {"literal", "element"}, value : Value]

\* Where a template holds its element.
Held(p) == CHOOSE z \in DOMAIN p : p[z].type = "0"

LEMMA TemplateSplit ==
  ASSUME NEW p, IsTemplate(p)
  PROVE  /\ Len(p) \in Nat /\ DOMAIN p = 1 .. Len(p)
         /\ \A k \in 1 .. Len(p) : p[k] \in TemplatePart
         /\ Rest(p) \in 1 .. Len(p) /\ p[Rest(p)].type = "1"
         /\ Held(p) \in 1 .. Len(p) /\ p[Held(p)].type = "0"
         /\ Held(p) # Rest(p) /\ (ElementFirst(p) <=> Held(p) < Rest(p))
         /\ \A k \in 1 .. Len(p) : k # Rest(p) /\ k # Held(p) => p[k].type = "literal"
<1>1. /\ p \in Seq(TemplatePart) /\ Len(p) \in Nat /\ DOMAIN p = 1 .. Len(p)
      /\ \A k \in 1 .. Len(p) : p[k] \in TemplatePart
  <2>1. p \in Seq(TemplatePart)
    BY DEF IsTemplate
  <2> QED
    BY <2>1, LenProperties, ElementOfSeq
<1>2. PICK i \in 1 .. Len(p), j \in 1 .. Len(p) :
        /\ p[i].type = "0" /\ p[j].type = "1"
        /\ \A k \in (1 .. Len(p)) \ {i, j} : p[k].type = "literal"
  BY <1>1 DEF IsTemplate
<1>3. \A k \in 1 .. Len(p) : (p[k].type = "1" <=> k = j) /\ (p[k].type = "0" <=> k = i)
  BY <1>2
<1>4. Held(p) = i
  BY <1>1, <1>3 DEF Held
<1>5. Rest(p) = j
  <2> DEFINE I == {k \in 1 .. Len(p) : p[k].type = "1"}
  <2>1. I = {j}
    BY <1>1, <1>3
  <2>2. Rest(p) = IF I # {} THEN Min(I) ELSE 0
    BY DEF Rest, SelectInSeq
  <2> QED
    BY <2>1, <2>2 DEF Min
<1>6. i # j
  BY <1>2
<1>7. ElementFirst(p) <=> i < j
  BY <1>1, <1>2, <1>3 DEF ElementFirst
<1> QED
  BY <1>1, <1>2, <1>4, <1>5, <1>6, <1>7

LEMMA ListPatternPartType ==
  ASSUME NEW part \in TemplatePart, NEW first \in Value
  PROVE  ListPatternPart(part, first) \in ListPart
BY DEF ListPatternPart, Element, Text, ListPart, TemplatePart

\* A template around what is nested in it: what is before {1}, that, and what is after {1}.
Before(p, first) == [k \in 1 .. Rest(p) - 1 |-> ListPatternPart(p[k], first)]
After(p, first)  == [k \in 1 .. Len(p) - Rest(p) |-> ListPatternPart(p[Rest(p) + k], first)]

LEMMA AroundParts ==
  ASSUME NEW p, IsTemplate(p), NEW first \in Value, NEW rest \in Seq(ListPart)
  PROVE  /\ Before(p, first) \in Seq(ListPart) /\ Len(Before(p, first)) = Rest(p) - 1
         /\ After(p, first) \in Seq(ListPart) /\ Len(After(p, first)) = Len(p) - Rest(p)
         /\ Around(p, first, rest) = (Before(p, first) \o rest) \o After(p, first)
<1> DEFINE seqs == [i \in DOMAIN p |->
                      IF p[i].type = "1" THEN rest ELSE <<ListPatternPart(p[i], first)>>]
           n == Len(p)
           r == Rest(p)
           part == [k \in 1 .. n |-> ListPatternPart(p[k], first)]
<1>1. /\ n \in Nat /\ DOMAIN p = 1 .. n /\ r \in 1 .. n /\ p[r].type = "1"
      /\ \A k \in 1 .. n : p[k] \in TemplatePart /\ (k # r => p[k].type # "1")
  BY TemplateSplit
<1>2. \A k \in 1 .. n : part[k] \in ListPart /\ part[k] = ListPatternPart(p[k], first)
  BY <1>1, ListPatternPartType
<1>3. \A k \in 1 .. n : seqs[k] = IF k = r THEN rest ELSE <<part[k]>>
  BY <1>1
<1>4. seqs \in Seq(Seq(ListPart)) /\ Len(seqs) = n
  <2> HIDE DEF part
  <2>1. \A k \in 1 .. n : seqs[k] \in Seq(ListPart)
    <3> SUFFICES ASSUME NEW k \in 1 .. n PROVE seqs[k] \in Seq(ListPart)
      OBVIOUS
    <3>1. CASE k = r
      BY <1>3, <3>1
    <3>2. CASE k # r
      <4>1. part[k] \in ListPart
        BY <1>2
      <4>2. <<part[k]>> \in Seq(ListPart)
        BY <4>1
      <4> QED
        BY <1>3, <3>2, <4>2
    <3> QED
      BY <3>1, <3>2
  <2>2. seqs = [k \in 1 .. n |-> seqs[k]]
    BY <1>1
  <2> HIDE DEF seqs
  <2> QED
    BY <1>1, <2>1, <2>2
<1>5. PICK f \in [0 .. n -> Seq(ListPart)] : Flattening(f, seqs)
  <2> HIDE DEF seqs
  <2> QED
    BY <1>4, FlatteningExists
<1>6. /\ f[0] = <<>> /\ Around(p, first, rest) = f[n]
      /\ \A k \in 1 .. n : f[k] = f[k - 1] \o seqs[k]
  <2>1. Around(p, first, rest) = FlattenSeq(seqs)
    BY DEF Around
  <2> HIDE DEF seqs
  <2> QED
    BY <1>4, <1>5, <2>1 DEF Flattening
<1> HIDE DEF seqs, n, r, part
<1>7. f[r - 1] = f[0] \o Piece(part, 0, r - 1)
  <2> DEFINE m == 0
             l == r - 1
  <2>1. m \in 0 .. n /\ l \in m .. n
    BY <1>1
  <2>2. AddsOnes(f, part, ListPart, m, l)
    <3>1. \A k \in m + 1 .. l : k \in 1 .. n /\ k # r
      BY <1>1
    <3> HIDE DEF m, l
    <3> QED
      BY <1>2, <1>3, <1>6, <3>1 DEF AddsOnes
  <2> HIDE DEF m, l
  <2>3. n \in Nat
    BY <1>1
  <2>4. AddedUp(f, part, m, l)
    BY <2>1, <2>2, <2>3, SingletonsAddUp
  <2> QED
    BY <2>4 DEF m, l, AddedUp
<1>8. f[n] = f[r] \o Piece(part, r, n)
  <2> DEFINE l == n
  <2>1. r \in 0 .. n /\ l \in r .. n
    BY <1>1
  <2>2. AddsOnes(f, part, ListPart, r, l)
    <3>1. \A k \in r + 1 .. l : k \in 1 .. n /\ k # r
      BY <1>1
    <3> HIDE DEF l
    <3> QED
      BY <1>2, <1>3, <1>6, <3>1 DEF AddsOnes
  <2> HIDE DEF l
  <2>3. n \in Nat
    BY <1>1
  <2>4. AddedUp(f, part, r, l)
    BY <2>1, <2>2, <2>3, SingletonsAddUp
  <2> QED
    BY <2>4 DEF l, AddedUp
<1>9. Piece(part, 0, r - 1) = Before(p, first)
  <2>1. (r - 1) - 0 = r - 1 /\ \A i \in 1 .. r - 1 : i \in 1 .. n /\ 0 + i = i
    BY <1>1
  <2> QED
    BY <1>2, <2>1 DEF Before, Piece, r
<1>10. Piece(part, r, n) = After(p, first)
  <2>1. \A i \in 1 .. n - r : r + i \in 1 .. n
    BY <1>1
  <2> QED
    BY <1>2, <2>1 DEF After, Piece, r, n
<1>11. Before(p, first) \in Seq(ListPart) /\ Len(Before(p, first)) = r - 1
  <2>1. \A i \in 1 .. r - 1 : i \in 1 .. n
    BY <1>1
  <2>2. \A i \in 1 .. r - 1 : ListPatternPart(p[i], first) \in ListPart
    BY <1>2, <2>1
  <2>3. r - 1 \in Nat
    BY <1>1
  <2>4. Before(p, first) \in [1 .. r - 1 -> ListPart]
    BY <2>2 DEF Before, r
  <2> QED
    BY <2>3, <2>4, FunctionIsSeq
<1>12. After(p, first) \in Seq(ListPart) /\ Len(After(p, first)) = n - r
  <2>1. \A i \in 1 .. n - r : r + i \in 1 .. n
    BY <1>1
  <2>2. \A i \in 1 .. n - r : ListPatternPart(p[r + i], first) \in ListPart
    BY <1>2, <2>1
  <2>3. n - r \in Nat
    BY <1>1
  <2>4. After(p, first) \in [1 .. n - r -> ListPart]
    BY <2>2 DEF After, r, n
  <2> QED
    BY <2>3, <2>4, FunctionIsSeq
<1>13. f[r] = Before(p, first) \o rest
  <2>1. r \in 1 .. n
    BY <1>1
  <2>2. f[r] = f[r - 1] \o rest
    BY <1>3, <1>6, <2>1
  <2>3. f[r - 1] = <<>> \o Before(p, first)
    BY <1>6, <1>7, <1>9
  <2>4. f[r - 1] = Before(p, first)
    BY <1>11, <2>3, ConcatEmptySeq
  <2> QED
    BY <2>2, <2>4
<1> QED
  BY <1>6, <1>8, <1>10, <1>11, <1>12, <1>13 DEF n, r

-------------------------------------------------------------------------------
(* Filling the parts, template by template. *)

Fillings(count) ==
  [out : [1 .. count -> ListPart \cup {<<>>}], left : Int, right : Int]

\* The patterns of a list of two or more are templates.
Templated(templates, list) ==
  \A i \in 1 .. Len(list) - 1 : IsTemplate(PatternFor(templates, list, i))

Filling(c, templates, list) ==
  /\ c[0] = Blank(PartCount(templates, list))
  /\ \A i \in 1 .. Len(list) - 1 : c[i] = Fill(c[i - 1], PatternFor(templates, list, i), list[i])
  /\ Filled(templates, list) = c[Len(list) - 1]

LEMMA FillType ==
  ASSUME NEW count \in Nat, NEW s \in Fillings(count), NEW p, IsTemplate(p), NEW first \in Value
  PROVE  Fill(s, p, first) \in Fillings(count)
<1> DEFINE before == Rest(p) - 1
           after  == Len(p) - Rest(p)
           new(k) == IF k \in s.left .. s.left + before - 1
                     THEN ListPatternPart(p[k - s.left + 1], first)
                     ELSE IF k \in s.right - after + 1 .. s.right
                     THEN ListPatternPart(p[Len(p) - (s.right - k)], first)
                     ELSE s.out[k]
<1>1. /\ s.out \in [1 .. count -> ListPart \cup {<<>>}] /\ DOMAIN s.out = 1 .. count
      /\ s.left \in Int /\ s.right \in Int
  BY DEF Fillings
<1>2. /\ Len(p) \in Nat /\ Rest(p) \in 1 .. Len(p)
      /\ \A k \in 1 .. Len(p) : p[k] \in TemplatePart
  BY TemplateSplit
<1>3. ASSUME NEW k \in 1 .. count
      PROVE  new(k) \in ListPart \cup {<<>>}
  <2>1. CASE k \in s.left .. s.left + before - 1
    <3>1. k - s.left + 1 \in 1 .. Len(p)
      BY <1>1, <1>2, <2>1
    <3>2. ListPatternPart(p[k - s.left + 1], first) \in ListPart
      BY <1>2, <3>1, ListPatternPartType
    <3> QED
      BY <2>1, <3>2
  <2>2. CASE k \notin s.left .. s.left + before - 1 /\ k \in s.right - after + 1 .. s.right
    <3>1. Len(p) - (s.right - k) \in 1 .. Len(p)
      BY <1>1, <1>2, <2>2
    <3>2. ListPatternPart(p[Len(p) - (s.right - k)], first) \in ListPart
      BY <1>2, <3>1, ListPatternPartType
    <3> QED
      BY <2>2, <3>2
  <2>3. CASE k \notin s.left .. s.left + before - 1 /\ k \notin s.right - after + 1 .. s.right
    BY <1>1, <2>3
  <2> QED
    BY <2>1, <2>2, <2>3
<1>4. [k \in 1 .. count |-> new(k)] \in [1 .. count -> ListPart \cup {<<>>}]
  <2> HIDE DEF new
  <2> QED
    BY <1>3
<1>5. s.left + before \in Int /\ s.right - after \in Int
  BY <1>1, <1>2
<1>6. Fill(s, p, first) = [out   |-> [k \in 1 .. count |-> new(k)],
                           left  |-> s.left + before,
                           right |-> s.right - after]
  BY <1>1 DEF Fill
<1> HIDE DEF new, before, after
<1> QED
  BY <1>4, <1>5, <1>6 DEF Fillings

LEMMA FillingExists ==
  ASSUME NEW templates, NEW list \in Seq(Value), Len(list) >= 2,
         Templated(templates, list), PartCount(templates, list) \in Nat
  PROVE  \E c \in [0 .. Len(list) - 1 -> Fillings(PartCount(templates, list))] :
           Filling(c, templates, list)
<1> DEFINE n == Len(list) - 1
           T == Fillings(PartCount(templates, list))
           blank == Blank(PartCount(templates, list))
           next(x, i) == Fill(x, PatternFor(templates, list, i), list[i])
           step == [p \in T \X (1 .. n) |-> next(p[1], p[2])]
           s == [i \in DOMAIN Front(list) |-> i]
           D == DOMAIN s
           F == CHOOSE it : it = [t \in SUBSET D |->
                  IF t = {} THEN blank
                  ELSE LET x == Max(t) IN next(it[t \ {x}], s[x])]
<1>1. n \in Nat /\ D = 1 .. n /\ \A i \in 1 .. n : list[i] \in Value /\ s[i] = i
  <2>1. Len(list) \in Nat /\ \A i \in 1 .. Len(list) : list[i] \in Value
    BY LenProperties, ElementOfSeq
  <2>2. Len(list) # 0
    BY <2>1
  <2>3. Front(list) = [i \in 1 .. n |-> list[i]]
    BY <2>1, <2>2 DEF Front
  <2> QED
    BY <2>1, <2>2, <2>3
<1>2. Filled(templates, list) = F[D]
  BY DEF Filled, FoldLeftDomain, FoldLeft, MapThenFoldSet
<1>3. step \in [T \X (1 .. n) -> T]
  <2> SUFFICES ASSUME NEW x \in T, NEW i \in 1 .. n PROVE next(x, i) \in T
    OBVIOUS
  <2>1. IsTemplate(PatternFor(templates, list, i)) /\ list[i] \in Value
    BY <1>1 DEF Templated
  <2> QED
    BY <2>1, FillType
<1>4. blank \in T
  BY DEF Blank, Fillings
<1> HIDE DEF next, blank, T
<1>5. PICK it : LeftFold(it, n, T, blank, step)
  <2> HIDE DEF n, step
  <2> QED
    BY <1>1, <1>3, <1>4, LeftFoldDefines
<1> HIDE DEF s
<1> DEFINE Solves(g) == g = [t \in SUBSET D |->
                  IF t = {} THEN blank
                  ELSE LET x == Max(t) IN next(g[t \ {x}], s[x])]
<1>6. Solves(it)
  <2>1. ASSUME NEW t \in SUBSET (1 .. n), t # {}
        PROVE  it[t] = next(it[t \ {Max(t)}], s[Max(t)])
    <3>1. Max(t) \in 1 .. n
      <4> HIDE DEF n
      <4> QED
        BY <1>1, <2>1, GreatestOf
    <3>2. it[t \ {Max(t)}] \in T /\ it[t] = step[<<it[t \ {Max(t)}], Max(t)>>]
      <4> HIDE DEF n, step
      <4> QED
        BY <1>5, <2>1 DEF LeftFold
    <3> QED
      BY <1>1, <3>1, <3>2
  <2>2. it \in [SUBSET (1 .. n) -> T] /\ it[{}] = blank
    <3> HIDE DEF n, step
    <3> QED
      BY <1>5 DEF LeftFold
  <2> HIDE DEF n, step, F, D
  <2> QED
    BY <1>1, <2>1, <2>2
<1>7. Solves(F)
  <2> HIDE DEF n, step, D
  <2> QED
    BY <1>6
<1> HIDE DEF F
<1>8. F[1 .. 0] = blank
  <2>1. 1 .. 0 = {} /\ 1 .. 0 \in SUBSET (1 .. n)
    BY <1>1
  <2> QED
    BY <1>1, <1>7, <2>1
<1>9. ASSUME NEW k \in 1 .. n
      PROVE  F[1 .. k] = next(F[1 .. k - 1], k)
  <2>1. /\ 1 .. k \in SUBSET (1 .. n) /\ 1 .. k # {}
        /\ Max(1 .. k) = k
        /\ (1 .. k) \ {k} = 1 .. k - 1
    <3> HIDE DEF n
    <3> QED
      BY <1>1, IntervalEnds
  <2>2. s[k] = k
    BY <1>1
  <2> QED
    BY <1>1, <1>7, <2>1, <2>2
<1> HIDE DEF n
<1> DEFINE c == [k \in 0 .. n |-> F[1 .. k]]
<1>10. /\ c[0] = blank
       /\ \A k \in 1 .. n : c[k] = next(c[k - 1], k)
       /\ Filled(templates, list) = c[n]
  <2>1. \A k \in 1 .. n : k \in 0 .. n /\ k - 1 \in 0 .. n /\ 0 \in 0 .. n
    BY <1>1
  <2>2. n \in 0 .. n /\ 0 \in 0 .. n
    BY <1>1
  <2>3. c[n] = F[D]
    BY <1>1, <2>2
  <2> QED
    BY <1>1, <1>2, <1>8, <1>9, <2>1, <2>2, <2>3
<1> HIDE DEF c
<1> DEFINE Typed == {k \in Nat : k <= n => c[k] \in T}
<1>11. 0 \in Typed
  BY <1>4, <1>10
<1>12. ASSUME NEW k \in Nat, k \in Typed
       PROVE  k + 1 \in Typed
  <2>1. ASSUME NEW j \in 1 .. n, j - 1 = k
        PROVE  c[j] \in T
    <3>1. c[k] \in T
      BY <1>1, <1>12, <2>1
    <3>2. c[j] = step[<<c[k], j>>]
      <4> c[j] = next(c[k], j)
        BY <1>10, <2>1
      <4> QED
        BY <3>1
    <3> HIDE DEF step
    <3> QED
      BY <1>3, <3>1, <3>2
  <2>2. k + 1 <= n => k + 1 \in 1 .. n /\ (k + 1) - 1 = k
    BY <1>1
  <2> QED
    BY <2>1, <2>2
<1>13. \A k \in 0 .. n : c[k] \in T
  <2> HIDE DEF Typed
  <2>1. Nat \subseteq Typed
    BY <1>11, <1>12, Induction
  <2> QED
    BY <2>1 DEF Typed
<1>14. c \in [0 .. n -> T]
  <2>1. c = [k \in 0 .. n |-> c[k]]
    BY DEF c
  <2> QED
    BY <1>13, <2>1
<1>15. Filling(c, templates, list)
  BY <1>10 DEF Filling, n, next, blank
<1> QED
  BY <1>14, <1>15 DEF T, n

-------------------------------------------------------------------------------
(* Nesting the templates. *)

LEMMA AroundType ==
  ASSUME NEW p, IsTemplate(p), NEW first \in Value, NEW rest \in Seq(ListPart)
  PROVE  /\ Around(p, first, rest) \in Seq(ListPart)
         /\ Len(Around(p, first, rest)) = Len(rest) + (Len(p) - 1)
<1>1. /\ Before(p, first) \in Seq(ListPart) /\ Len(Before(p, first)) = Rest(p) - 1
      /\ After(p, first) \in Seq(ListPart) /\ Len(After(p, first)) = Len(p) - Rest(p)
      /\ Around(p, first, rest) = (Before(p, first) \o rest) \o After(p, first)
  BY AroundParts
<1>2. Len(p) \in Nat /\ Rest(p) \in 1 .. Len(p)
  BY TemplateSplit
<1>3. /\ Before(p, first) \o rest \in Seq(ListPart)
      /\ Len(Before(p, first) \o rest) = Rest(p) - 1 + Len(rest)
  BY <1>1, ConcatProperties
<1>4. /\ (Before(p, first) \o rest) \o After(p, first) \in Seq(ListPart)
      /\ Len((Before(p, first) \o rest) \o After(p, first))
           = Len(Before(p, first) \o rest) + Len(After(p, first))
  BY <1>1, <1>3, ConcatProperties
<1>5. Len(rest) \in Nat
  BY LenProperties
<1> DEFINE around == Around(p, first, rest)
<1>6. around \in Seq(ListPart) /\ Len(around) = Rest(p) - 1 + Len(rest) + Len(After(p, first))
  BY <1>1, <1>3, <1>4
<1> HIDE DEF around
<1> QED
  BY <1>1, <1>2, <1>5, <1>6 DEF around

Nested(g, p, d, base) ==
  /\ g[Len(d) + 1] = base
  /\ \A i \in 1 .. Len(d) : g[i] = Around(p, d[i], g[i + 1])
  /\ FoldRight(LAMBDA first, rest : Around(p, first, rest), d, base) = g[1]

LEMMA NestedExists ==
  ASSUME NEW p, IsTemplate(p), NEW d \in Seq(Value), NEW base \in Seq(ListPart)
  PROVE  \E g \in [1 .. Len(d) + 1 -> Seq(ListPart)] : Nested(g, p, d, base)
<1> DEFINE m == Len(d)
           T == Seq(ListPart)
           step == [x \in T \X (1 .. m) |-> Around(p, d[x[2]], x[1])]
           D == DOMAIN d
           F == CHOOSE it : it = [t \in SUBSET D |->
                  IF t = {} THEN base
                  ELSE LET x == Min(t) IN Around(p, d[x], it[t \ {x}])]
<1>1. m \in Nat /\ D = 1 .. m /\ \A i \in 1 .. m : d[i] \in Value
  BY LenProperties, ElementOfSeq
<1>2. FoldRight(LAMBDA first, rest : Around(p, first, rest), d, base) = F[D]
  BY DEF FoldRight, MapThenFoldSet
<1>3. step \in [T \X (1 .. m) -> T]
  <2> SUFFICES ASSUME NEW x \in T, NEW i \in 1 .. m PROVE Around(p, d[i], x) \in T
    OBVIOUS
  <2>1. d[i] \in Value
    BY <1>1
  <2> QED
    BY <2>1, AroundType
<1> HIDE DEF T
<1>4. PICK it : RightFold(it, m, T, base, step)
  <2>1. base \in T
    BY DEF T
  <2> HIDE DEF m, step
  <2> QED
    BY <1>1, <1>3, <2>1, RightFoldDefines
<1> DEFINE Solves(h) == h = [t \in SUBSET D |->
                  IF t = {} THEN base
                  ELSE LET x == Min(t) IN Around(p, d[x], h[t \ {x}])]
<1>5. Solves(it)
  <2>1. ASSUME NEW t \in SUBSET (1 .. m), t # {}
        PROVE  it[t] = Around(p, d[Min(t)], it[t \ {Min(t)}])
    <3>1. Min(t) \in 1 .. m
      <4> HIDE DEF m
      <4> QED
        BY <1>1, <2>1, LeastOf
    <3>2. it[t \ {Min(t)}] \in T /\ it[t] = step[<<it[t \ {Min(t)}], Min(t)>>]
      <4> HIDE DEF m, step
      <4> QED
        BY <1>4, <2>1 DEF RightFold
    <3> QED
      BY <3>1, <3>2
  <2>2. it \in [SUBSET (1 .. m) -> T] /\ it[{}] = base
    <3> HIDE DEF m, step
    <3> QED
      BY <1>4 DEF RightFold
  <2> HIDE DEF m, step, F, D
  <2> QED
    BY <1>1, <2>1, <2>2
<1>6. Solves(F)
  <2> HIDE DEF m, step, D
  <2> QED
    BY <1>5
<1> HIDE DEF F
<1> DEFINE g == [k \in 1 .. m + 1 |-> F[k .. m]]
<1>7. g[m + 1] = base
  <2>1. m + 1 .. m = {} /\ m + 1 .. m \in SUBSET (1 .. m) /\ m + 1 \in 1 .. m + 1
    BY <1>1
  <2> QED
    BY <1>1, <1>6, <2>1
<1>8. ASSUME NEW k \in 1 .. m
      PROVE  g[k] = Around(p, d[k], g[k + 1])
  <2>1. /\ k .. m \in SUBSET (1 .. m) /\ k .. m # {}
        /\ Min(k .. m) = k
        /\ (k .. m) \ {k} = k + 1 .. m
    <3> HIDE DEF m
    <3> QED
      BY <1>1, IntervalStarts
  <2>2. k \in 1 .. m + 1 /\ k + 1 \in 1 .. m + 1
    BY <1>1
  <2>3. F[k .. m] = Around(p, d[k], F[k + 1 .. m])
    BY <1>1, <1>6, <2>1
  <2> HIDE DEF F, m
  <2> QED
    BY <2>2, <2>3
<1>9. g[1] = F[D]
  <2>1. 1 \in 1 .. m + 1
    BY <1>1
  <2> QED
    BY <1>1, <2>1
<1> HIDE DEF g
<1> DEFINE Typed == {k \in Nat : k <= m => g[m + 1 - k] \in T}
<1>10. 0 \in Typed
  <2>1. m + 1 - 0 = m + 1
    BY <1>1
  <2> QED
    BY <1>7, <2>1 DEF T
<1>11. ASSUME NEW k \in Nat, k \in Typed
       PROVE  k + 1 \in Typed
  <2>1. ASSUME NEW j \in 1 .. m, j + 1 = m + 1 - k
        PROVE  g[j] \in T
    <3>1. k <= m
      BY <1>1, <2>1
    <3>2. g[j + 1] \in T
      BY <1>11, <2>1, <3>1
    <3>3. g[j] = step[<<g[j + 1], j>>]
      BY <1>8, <3>2
    <3> HIDE DEF step
    <3> QED
      BY <1>3, <3>2, <3>3
  <2>2. k + 1 <= m => m + 1 - (k + 1) \in 1 .. m /\ (m + 1 - (k + 1)) + 1 = m + 1 - k
    BY <1>1
  <2> HIDE DEF m, T
  <2> QED
    BY <2>1, <2>2
<1>12. \A k \in 1 .. m + 1 : g[k] \in T
  <2>1. Nat \subseteq Typed
    <3> HIDE DEF Typed
    <3> QED
      BY <1>10, <1>11, Induction
  <2>2. \A k \in 1 .. m + 1 : m + 1 - k \in Nat /\ m + 1 - k <= m /\ m + 1 - (m + 1 - k) = k
    BY <1>1
  <2> QED
    BY <2>1, <2>2
<1>13. g \in [1 .. m + 1 -> T]
  <2>1. g = [k \in 1 .. m + 1 |-> g[k]]
    BY DEF g
  <2> QED
    BY <1>12, <2>1
<1>14. Nested(g, p, d, base)
  BY <1>2, <1>7, <1>8, <1>9 DEF Nested
<1> QED
  BY <1>13, <1>14 DEF T

\* The list from each place on, in the templates from that place on.
Nesting(R, templates, list) ==
  /\ R[Len(list)] = <<Element(Last(list))>>
  /\ \A i \in 1 .. Len(list) - 1 :
       R[i] = Around(PatternFor(templates, list, i), list[i], R[i + 1])
  /\ CreatePartsFromList(templates, list) = R[1]

LEMMA NestingExists ==
  ASSUME NEW templates, NEW list \in Seq(Value), Len(list) >= 2, Templated(templates, list)
  PROVE  \E R \in [1 .. Len(list) -> Seq(ListPart)] : Nesting(R, templates, list)
<1> DEFINE n == Len(list)
           P(i) == PatternFor(templates, list, i)
           tip == <<Element(Last(list))>>
           inner == Around(P(n - 1), list[n - 1], tip)
<1>1. /\ n \in Nat /\ n >= 2 /\ \A i \in 1 .. n : list[i] \in Value
      /\ \A i \in 1 .. n - 1 : IsTemplate(P(i))
  BY LenProperties, ElementOfSeq DEF Templated
<1>2. tip \in Seq(ListPart)
  <2>1. Last(list) \in Value
    BY <1>1 DEF Last
  <2>2. Element(Last(list)) \in ListPart
    BY <2>1 DEF Element, ListPart
  <2> QED
    BY <2>2
<1>3. inner \in Seq(ListPart)
  <2>1. IsTemplate(P(n - 1)) /\ list[n - 1] \in Value
    <3> n - 1 \in 1 .. n - 1 /\ n - 1 \in 1 .. n
      BY <1>1
    <3> QED
      BY <1>1
  <2> HIDE DEF P, tip
  <2> QED
    BY <1>2, <2>1, AroundType
<1>4. CASE n = 2
  <2> DEFINE R == [i \in 1 .. 2 |-> IF i = 1 THEN inner ELSE tip]
  <2>1. R \in [1 .. n -> Seq(ListPart)]
    <3> HIDE DEF inner, tip
    <3> QED
      BY <1>2, <1>3, <1>4
  <2>2. R[1] = inner /\ R[2] = tip
    OBVIOUS
  <2>3. \A i \in 1 .. n - 1 : i = 1 /\ i = n - 1 /\ i + 1 = 2
    BY <1>4
  <2>4. CreatePartsFromList(templates, list) = inner
    <3>1. n - 1 = 1
      BY <1>4
    <3> QED
      BY <1>4, <3>1 DEF CreatePartsFromList, PatternFor
  <2> HIDE DEF R
  <2>5. Nesting(R, templates, list)
    <3> SUFFICES ASSUME NEW i \in 1 .. n - 1
                 PROVE  R[i] = Around(P(i), list[i], R[i + 1])
      BY <1>4, <2>2, <2>4 DEF Nesting
    <3>1. i = 1 /\ i = n - 1 /\ i + 1 = 2
      BY <2>3
    <3> HIDE DEF P, tip
    <3> QED
      BY <2>2, <3>1
  <2> QED
    BY <2>1, <2>5
<1>5. CASE n # 2
  <2> DEFINE d == SubSeq(list, 2, n - 2)
             p == templates.middle
             core == Around(ForElement(templates.end, Last(list)), list[Len(list) - 1],
                            <<Element(Last(list))>>)
             folded == FoldRight(LAMBDA first, rest : Around(p, first, rest), d, core)
  <2>1. n \in Nat /\ n >= 3
    <3> n \in Nat /\ n >= 2
      BY <1>1
    <3> HIDE DEF n
    <3> QED
      BY <1>5
  <2>0. CreatePartsFromList(templates, list) = Around(templates.start, list[1], folded)
    <3>1. ~(n <= 1) /\ n # 2
      <4> HIDE DEF n
      <4> QED
        BY <2>1
    <3>2. ~(Len(list) <= 1) /\ Len(list) # 2
      BY ONLY <3>1 DEF n
    <3> USE <3>2
    <3> QED
      BY Zenon DEF CreatePartsFromList
  <2> HIDE DEF folded
  <2>2. d \in Seq(Value) /\ Len(d) = n - 3 /\ \A i \in 1 .. n - 3 : d[i] = list[i + 1]
    <3>1. d = [i \in 1 .. n - 3 |-> list[i + 1]]
      BY <1>1, <2>1
    <3>2. \A i \in 1 .. n - 3 : i + 1 \in 1 .. n
      BY <1>1
    <3>3. d \in [1 .. n - 3 -> Value]
      BY <1>1, <3>1, <3>2
    <3>4. n - 3 \in Nat
      BY <1>1, <2>1
    <3> HIDE DEF d
    <3> QED
      BY <3>1, <3>3, <3>4, FunctionIsSeq
  <2>3. /\ P(1) = templates.start
        /\ \A i \in 2 .. n - 2 : P(i) = p
        /\ P(n - 1) = ForElement(templates.end, Last(list))
    BY <1>1, <2>1 DEF PatternFor, EndsAt
  <2>2b. core = inner
    BY <2>3
  <2> HIDE DEF d, inner, tip, P, core
  <2>4. PICK g \in [1 .. n - 2 -> Seq(ListPart)] :
          /\ g[n - 2] = inner
          /\ \A i \in 1 .. n - 3 : g[i] = Around(p, d[i], g[i + 1])
          /\ folded = g[1]
    <3>1. CASE n = 3
      <4> DEFINE g == [i \in 1 .. 1 |-> inner]
      <4>1. /\ g \in [1 .. n - 2 -> Seq(ListPart)] /\ g[n - 2] = inner
            /\ \A i \in 1 .. n - 3 : g[i] = Around(p, d[i], g[i + 1])
        BY <1>3, <3>1
      <4>2. folded = g[1]
        <5>1. d = <<>> /\ DOMAIN d = {}
          BY <2>2, <3>1, EmptySeq
        <5> DEFINE F == CHOOSE it : it = [t \in SUBSET (DOMAIN d) |->
                  IF t = {} THEN core
                  ELSE LET x == Min(t) IN Around(p, d[x], it[t \ {x}])]
                   f == [t \in SUBSET {} |-> inner]
        <5>2. folded = F[DOMAIN d]
          BY DEF folded, FoldRight, MapThenFoldSet
        <5>3. f = [t \in SUBSET (DOMAIN d) |->
                  IF t = {} THEN inner
                  ELSE LET x == Min(t) IN Around(p, d[x], f[t \ {x}])]
          BY <5>1
        <5>4. F = [t \in SUBSET (DOMAIN d) |->
                  IF t = {} THEN core
                  ELSE LET x == Min(t) IN Around(p, d[x], F[t \ {x}])]
          <6> HIDE DEF f
          <6> QED
            BY <2>2b, <5>3
        <5> HIDE DEF F
        <5>5. F[DOMAIN d] = inner
          BY <2>2b, <5>1, <5>4
        <5>6. g[1] = inner
          OBVIOUS
        <5> QED
          BY <5>2, <5>5, <5>6
      <4> HIDE DEF g
      <4> QED
        BY <4>1, <4>2
    <3>2. CASE n # 3
      <4>1. IsTemplate(p)
        <5> 2 \in 2 .. n - 2 /\ 2 \in 1 .. n - 1
          <6> HIDE DEF n
          <6> QED
            BY <2>1, <3>2
        <5> QED
          BY <1>1, <2>3
      <4> HIDE DEF p
      <4>2. PICK g \in [1 .. Len(d) + 1 -> Seq(ListPart)] : Nested(g, p, d, core)
        BY <2>2b, <1>3, <2>2, <4>1, NestedExists
      <4>3. Len(d) + 1 = n - 2
        BY <1>1, <2>2
      <4> QED
        BY <2>2, <2>2b, <4>2, <4>3 DEF Nested, folded
    <3> QED
      BY <3>1, <3>2
  <2> DEFINE R == [i \in 1 .. n |-> IF i = 1 THEN Around(P(1), list[1], g[1])
                                    ELSE IF i = n THEN tip ELSE g[i - 1]]
  <2>5. Around(P(1), list[1], g[1]) \in Seq(ListPart)
    <3>1. 1 \in 1 .. n - 1 /\ 1 \in 1 .. n /\ 1 \in 1 .. n - 2
      BY <2>1
    <3>2. IsTemplate(P(1)) /\ list[1] \in Value /\ g[1] \in Seq(ListPart)
      BY <1>1, <2>4, <3>1
    <3> QED
      BY <3>2, AroundType
  <2>6. R \in [1 .. n -> Seq(ListPart)]
    <3>1. \A i \in 1 .. n : i # 1 /\ i # n => i - 1 \in 1 .. n - 2
      BY <1>1
    <3> QED
      BY <1>2, <2>4, <2>5, <3>1
  <2>7. /\ R[1] = Around(P(1), list[1], g[1]) /\ R[n] = tip
        /\ \A i \in 2 .. n - 1 : R[i] = g[i - 1]
    BY <2>1
  <2> HIDE DEF R
  <2>8. ASSUME NEW i \in 1 .. n - 1
        PROVE  R[i] = Around(P(i), list[i], R[i + 1])
    <3>1. CASE i = 1
      <4>1. 2 \in 2 .. n - 1 /\ i + 1 = 2
        BY <2>1, <3>1
      <4> QED
        BY <2>7, <3>1, <4>1
    <3>2. CASE i = n - 1
      <4>1. i \in 2 .. n - 1 /\ i - 1 = n - 2 /\ i + 1 = n
        BY <2>1, <3>2
      <4>2. R[i] = inner
        BY <2>4, <2>7, <4>1
      <4> QED
        BY <2>7, <3>2, <4>1, <4>2 DEF inner
    <3>3. CASE i # 1 /\ i # n - 1
      <4>1. PICK k \in 1 .. n - 3 : k = i - 1 /\ i = k + 1
        BY <2>1, <3>3
      <4>2. i \in 2 .. n - 1 /\ i \in 2 .. n - 2 /\ i + 1 \in 2 .. n - 1 /\ (i + 1) - 1 = i
        BY <2>1, <3>3
      <4>3. g[k] = Around(p, d[k], g[k + 1]) /\ d[k] = list[k + 1]
        BY <2>2, <2>4
      <4>4. R[i] = g[k] /\ R[i + 1] = g[i]
        BY <2>7, <4>1, <4>2
      <4> QED
        BY <2>3, <4>1, <4>2, <4>3, <4>4
    <3> QED
      BY <3>1, <3>2, <3>3
  <2>9. CreatePartsFromList(templates, list) = R[1]
    BY <2>0, <2>3, <2>4, <2>7
  <2>10. Nesting(R, templates, list)
    BY <2>7, <2>8, <2>9 DEF Nesting, P, tip
  <2> QED
    BY <2>6, <2>10
<1> QED
  BY <1>4, <1>5

\* The parts are as many as are counted beforehand.
LEMMA NestingLength ==
  ASSUME NEW templates, NEW list \in Seq(Value), Len(list) >= 2, Templated(templates, list),
         IsTemplate(templates.middle),
         NEW R \in [1 .. Len(list) -> Seq(ListPart)], Nesting(R, templates, list)
  PROVE  Len(R[1]) = PartCount(templates, list) /\ Len(R[Len(list)]) = 1
<1> DEFINE n == Len(list)
           P(i) == PatternFor(templates, list, i)
           middle == Len(templates.middle) - 1
           end == Len(ForElement(templates.end, Last(list)))
<1>1. n \in Nat /\ n >= 2 /\ \A i \in 1 .. n : list[i] \in Value
  BY LenProperties, ElementOfSeq
<1>2. Len(R[n]) = 1
  BY DEF Nesting
<1>3. ASSUME NEW i \in 1 .. n - 1, NEW j \in 1 .. n, j = i + 1
      PROVE  Len(P(i)) \in Nat /\ Len(R[i]) = Len(R[j]) + (Len(P(i)) - 1)
  <2>1. IsTemplate(P(i)) /\ list[i] \in Value
    BY <1>1 DEF Templated
  <2>2. R[j] \in Seq(ListPart) /\ R[i] = Around(P(i), list[i], R[j])
    BY <1>3, <2>1 DEF Nesting
  <2> HIDE DEF P, n
  <2> QED
    BY <2>1, <2>2, AroundType, TemplateSplit
<1>4. middle \in Int
  BY TemplateSplit
<1>5. CASE n = 2
  <2>1. 1 \in 1 .. n - 1 /\ P(1) = ForElement(templates.pair, Last(list))
    BY <1>5 DEF PatternFor
  <2>2. PartCount(templates, list) = Len(P(1))
    BY <1>5, <2>1 DEF PartCount
  <2> HIDE DEF P, n
  <2>3. Len(P(1)) \in Nat /\ Len(R[1]) = Len(R[n]) + (Len(P(1)) - 1)
    <3> n \in 1 .. n /\ n = 1 + 1
      BY <1>5
    <3> QED
      BY <1>3, <2>1
  <2>4. Len(R[1]) = Len(P(1))
    BY <1>2, <2>3
  <2> QED
    BY <1>2, <2>2, <2>4 DEF n
<1>6. CASE n # 2
  <2>1. n \in Nat /\ n >= 3
    <3> n \in Nat /\ n >= 2
      BY <1>1
    <3> HIDE DEF n
    <3> QED
      BY <1>6
  <2>2. /\ P(1) = templates.start
        /\ \A i \in 2 .. n - 2 : P(i) = templates.middle
        /\ P(n - 1) = ForElement(templates.end, Last(list))
    <3>1. 1 # n - 1 /\ n - 1 # 1 /\ \A i \in 2 .. n - 2 : i # 1 /\ i # n - 1
      <4> HIDE DEF n
      <4> QED
        BY <2>1
    <3> QED
      BY <1>6, <3>1 DEF PatternFor, EndsAt
  <2>3. PartCount(templates, list) = Len(P(1)) + (n - 3) * middle + end - 1
    BY <1>6, <2>2 DEF PartCount
  <2> HIDE DEF P, n
  <2>4. Len(P(1)) \in Nat /\ Len(P(n - 1)) = end /\ end \in Nat
    <3> 1 \in 1 .. n - 1 /\ n - 1 \in 1 .. n - 1 /\ n \in 1 .. n /\ 2 \in 1 .. n /\ 2 = 1 + 1 /\ n = (n - 1) + 1
      BY <2>1
    <3>1. Len(P(1)) \in Nat
      BY <1>3
    <3>2. Len(P(n - 1)) \in Nat
      BY <1>3
    <3> QED
      BY <2>2, <3>1, <3>2
  <2>6. \A i \in 2 .. n - 2 : Len(P(i)) - 1 = middle
    BY <2>2
  <2> HIDE DEF end, middle
  <2> DEFINE Counted == {j \in Nat : j <= n - 3 => Len(R[(n - 1) - j]) = end + j * middle}
  <2>7. 0 \in Counted
    <3>1. n - 1 \in 1 .. n - 1 /\ n \in 1 .. n /\ n = (n - 1) + 1 /\ (n - 1) - 0 = n - 1
      BY <2>1
    <3>2. Len(R[n - 1]) = Len(R[n]) + (Len(P(n - 1)) - 1)
      BY <1>3, <3>1
    <3>3. Len(R[n - 1]) = end
      BY <1>2, <2>4, <3>2
    <3>4. 0 * middle = 0
      BY <1>4
    <3> QED
      BY <2>4, <3>1, <3>3, <3>4
  <2>8. ASSUME NEW j \in Nat, j \in Counted
        PROVE  j + 1 \in Counted
    <3>1. ASSUME NEW i \in 2 .. n - 2, NEW k \in 1 .. n, k = i + 1, k = (n - 1) - j
          PROVE  Len(R[i]) = end + (j + 1) * middle
      <4>1. j <= n - 3
        BY <2>1, <3>1
      <4>2. Len(R[k]) = end + j * middle
        BY <2>8, <3>1, <4>1
      <4>3. Len(R[i]) = Len(R[k]) + (Len(P(i)) - 1)
        <5> i \in 1 .. n - 1
          BY <2>1
        <5> QED
          BY <1>3, <3>1
      <4>4. Len(R[i]) = (end + j * middle) + middle
        BY <2>6, <4>2, <4>3
      <4> QED
        BY <1>4, <2>4, <4>4
    <3>2. j + 1 <= n - 3 =>
            /\ (n - 1) - (j + 1) \in 2 .. n - 2 /\ (n - 1) - j \in 1 .. n
            /\ (n - 1) - j = ((n - 1) - (j + 1)) + 1
      BY <2>1
    <3> QED
      BY <3>1, <3>2
  <2>9. n - 3 \in Counted
    <3>1. Nat \subseteq Counted
      <4> HIDE DEF Counted
      <4> QED
        BY <2>7, <2>8, Induction
    <3>2. n - 3 \in Nat
      BY <2>1
    <3> QED
      BY <3>1, <3>2
  <2>10. Len(R[2]) = end + (n - 3) * middle
    <3>1. n - 3 <= n - 3 /\ (n - 1) - (n - 3) = 2
      BY <2>1
    <3> QED
      BY <2>9, <3>1
  <2>11. Len(R[1]) = Len(R[2]) + (Len(P(1)) - 1)
    <3> 1 \in 1 .. n - 1 /\ 2 \in 1 .. n /\ 2 = 1 + 1
      BY <2>1
    <3> QED
      BY <1>3
  <2>12. (n - 3) * middle \in Int
    BY <1>4, <2>1
  <2>13. Len(R[1]) = PartCount(templates, list)
    BY <2>3, <2>4, <2>10, <2>11, <2>12
  <2> QED
    BY <1>2, <2>13 DEF n
<1> QED
  BY <1>5, <1>6

LEMMA AroundAt ==
  ASSUME NEW p, IsTemplate(p), NEW first \in Value, NEW rest \in Seq(ListPart)
  PROVE  /\ \A j \in 1 .. Rest(p) - 1 : Around(p, first, rest)[j] = ListPatternPart(p[j], first)
         /\ \A j \in 1 .. Len(rest) : Around(p, first, rest)[Rest(p) - 1 + j] = rest[j]
         /\ \A j \in 1 .. Len(p) - Rest(p) :
              Around(p, first, rest)[Rest(p) - 1 + Len(rest) + j] = ListPatternPart(p[Rest(p) + j], first)
<1> DEFINE before == Before(p, first)
           after  == After(p, first)
           r == Rest(p)
           l == Len(rest)
<1>1. /\ before \in Seq(ListPart) /\ Len(before) = r - 1
      /\ after \in Seq(ListPart) /\ Len(after) = Len(p) - r
      /\ Around(p, first, rest) = (before \o rest) \o after
  BY AroundParts
<1>2. Len(p) \in Nat /\ r \in 1 .. Len(p) /\ l \in Nat
  BY TemplateSplit, LenProperties
<1>3. /\ \A j \in 1 .. r - 1 : before[j] = ListPatternPart(p[j], first)
      /\ \A j \in 1 .. Len(p) - r : after[j] = ListPatternPart(p[r + j], first)
  BY DEF Before, After
<1> HIDE DEF before, after, r, l
<1>4. /\ before \o rest \in Seq(ListPart) /\ Len(before \o rest) = r - 1 + l
      /\ \A j \in 1 .. r - 1 + l :
           (before \o rest)[j] = IF j <= r - 1 THEN before[j] ELSE rest[j - (r - 1)]
  BY <1>1, ConcatProperties DEF l
<1>5. \A j \in 1 .. (r - 1 + l) + (Len(p) - r) :
        ((before \o rest) \o after)[j] =
          IF j <= r - 1 + l THEN (before \o rest)[j] ELSE after[j - (r - 1 + l)]
  BY <1>1, <1>4, ConcatProperties
<1>6. ASSUME NEW j \in 1 .. r - 1
      PROVE  Around(p, first, rest)[j] = ListPatternPart(p[j], first)
  <2>1. j \in 1 .. r - 1 + l /\ j \in 1 .. (r - 1 + l) + (Len(p) - r) /\ j <= r - 1 /\ j <= r - 1 + l
    BY <1>2
  <2> QED
    BY <1>1, <1>3, <1>4, <1>5, <2>1
<1>7. ASSUME NEW j \in 1 .. l
      PROVE  Around(p, first, rest)[r - 1 + j] = rest[j]
  <2>1. /\ r - 1 + j \in 1 .. r - 1 + l /\ r - 1 + j \in 1 .. (r - 1 + l) + (Len(p) - r)
        /\ ~(r - 1 + j <= r - 1) /\ r - 1 + j <= r - 1 + l /\ (r - 1 + j) - (r - 1) = j
    BY <1>2
  <2> QED
    BY <1>1, <1>4, <1>5, <2>1
<1>8. ASSUME NEW j \in 1 .. Len(p) - r
      PROVE  Around(p, first, rest)[r - 1 + l + j] = ListPatternPart(p[r + j], first)
  <2>1. /\ r - 1 + l + j \in 1 .. (r - 1 + l) + (Len(p) - r)
        /\ ~(r - 1 + l + j <= r - 1 + l) /\ (r - 1 + l + j) - (r - 1 + l) = j
    BY <1>2
  <2> QED
    BY <1>1, <1>3, <1>5, <2>1
<1> QED
  BY <1>6, <1>7, <1>8 DEF r, l

\* What is filled is in its place; between are the places of what is still to come.
Agrees(s, count, whole, rest) ==
  /\ s.left \in Nat \ {0} /\ s.right \in Nat /\ s.right <= count
  /\ s.right = s.left + Len(rest) - 1
  /\ \A k \in 1 .. count : k < s.left \/ k > s.right => s.out[k] = whole[k]
  /\ \A j \in 1 .. Len(rest) : whole[s.left + j - 1] = rest[j]

LEMMA FillAgrees ==
  ASSUME NEW count \in Nat, NEW s \in Fillings(count), NEW p, IsTemplate(p),
         NEW first \in Value, NEW rest \in Seq(ListPart), NEW whole,
         Agrees(s, count, whole, Around(p, first, rest))
  PROVE  Agrees(Fill(s, p, first), count, whole, rest)
<1> DEFINE around == Around(p, first, rest)
           before == Rest(p) - 1
           after  == Len(p) - Rest(p)
           l == Len(rest)
           t == Fill(s, p, first)
<1>1. /\ s.left \in Nat \ {0} /\ s.right \in Nat /\ s.right <= count
      /\ s.right = s.left + Len(around) - 1
      /\ \A k \in 1 .. count : k < s.left \/ k > s.right => s.out[k] = whole[k]
      /\ \A j \in 1 .. Len(around) : whole[s.left + j - 1] = around[j]
  BY DEF Agrees
<1>2. /\ Len(p) \in Nat /\ Rest(p) \in 1 .. Len(p) /\ l \in Nat
      /\ before \in Nat /\ after \in Nat /\ Len(around) = before + l + after
  <2>1. Len(around) = l + (Len(p) - 1)
    BY AroundType
  <2>2. Len(p) \in Nat /\ Rest(p) \in 1 .. Len(p) /\ l \in Nat
    BY TemplateSplit, LenProperties
  <2> HIDE DEF around, l
  <2> QED
    BY <2>1, <2>2
<1>3. DOMAIN s.out = 1 .. count
  BY DEF Fillings
<1>4. /\ t.left = s.left + before /\ t.right = s.right - after
      /\ \A k \in 1 .. count :
           t.out[k] = IF k \in s.left .. s.left + before - 1
                      THEN ListPatternPart(p[k - s.left + 1], first)
                      ELSE IF k \in s.right - after + 1 .. s.right
                      THEN ListPatternPart(p[Len(p) - (s.right - k)], first)
                      ELSE s.out[k]
  BY <1>3 DEF Fill
<1>5. /\ \A j \in 1 .. before : around[j] = ListPatternPart(p[j], first)
      /\ \A j \in 1 .. l : around[before + j] = rest[j]
      /\ \A j \in 1 .. after : around[before + l + j] = ListPatternPart(p[Rest(p) + j], first)
  BY AroundAt
<1> DEFINE L == s.left
           H == s.right
           m == Len(around)
           n == Len(p)
           r == Rest(p)
           lo == t.left
           hi == t.right
<1>6. /\ L \in Nat /\ L >= 1 /\ H \in Nat /\ H <= count /\ H = L + m - 1
      /\ n \in Nat /\ r \in Nat /\ l \in Nat /\ before \in Nat /\ after \in Nat /\ m = before + l + after
      /\ n - after = r /\ lo = L + before /\ hi = H - after
  <2>1. n - after = r
    BY <1>2
  <2>2. L \in Nat /\ L >= 1
    BY <1>1
  <2>3. H \in Nat /\ H <= count /\ H = L + m - 1
    BY <1>1
  <2>4. lo = L + before /\ hi = H - after
    BY <1>4
  <2>5. n \in Nat /\ r \in Nat
    BY <1>2
  <2>6. l \in Nat /\ before \in Nat /\ after \in Nat /\ m = before + l + after
    BY <1>2
  <2> QED
    BY <2>1, <2>2, <2>3, <2>4, <2>5, <2>6
<1>7. /\ \A k \in 1 .. count : k < L \/ k > H => s.out[k] = whole[k]
      /\ \A j \in 1 .. m : whole[L + j - 1] = around[j]
      /\ \A k \in 1 .. count :
           t.out[k] = IF k \in L .. L + before - 1
                      THEN ListPatternPart(p[k - L + 1], first)
                      ELSE IF k \in H - after + 1 .. H
                      THEN ListPatternPart(p[n - (H - k)], first)
                      ELSE s.out[k]
      /\ \A j \in 1 .. after : around[before + l + j] = ListPatternPart(p[r + j], first)
  BY <1>1, <1>4, <1>5
<1> HIDE DEF around, before, after, l, t, L, H, m, n, r, lo, hi
<1>8. lo \in Nat \ {0} /\ hi \in Nat /\ hi <= count /\ hi = lo + l - 1
  BY <1>6
<1>9. ASSUME NEW j \in 1 .. l
      PROVE  whole[lo + j - 1] = rest[j]
  <2>1. PICK i \in 1 .. m : i = before + j
    BY <1>6
  <2>2. L + i - 1 = lo + j - 1
    BY <1>6, <2>1
  <2> QED
    BY <1>5, <1>7, <2>1, <2>2
<1>10. ASSUME NEW k \in 1 .. count, k < lo
       PROVE  t.out[k] = whole[k]
  <2>1. CASE k < L
    <3>1. k \notin L .. L + before - 1 /\ k \notin H - after + 1 .. H
      BY <1>6, <2>1
    <3> QED
      BY <1>7, <2>1, <3>1
  <2>2. CASE ~(k < L)
    <3>1. PICK j \in 1 .. before : j = k - L + 1
      BY <1>6, <1>10, <2>2
    <3>2. k \in L .. L + before - 1 /\ j \in 1 .. m /\ L + j - 1 = k
      BY <1>6, <1>10, <2>2, <3>1
    <3>3. t.out[k] = ListPatternPart(p[j], first)
      BY <1>7, <3>1, <3>2
    <3>4. whole[k] = around[j]
      BY <1>7, <3>2
    <3> QED
      BY <1>5, <3>3, <3>4
  <2> QED
    BY <2>1, <2>2
<1>11. ASSUME NEW k \in 1 .. count, k > hi
       PROVE  t.out[k] = whole[k]
  <2>1. k \notin L .. L + before - 1
    BY <1>6, <1>11
  <2>2. CASE k > H
    <3>1. k \notin H - after + 1 .. H
      BY <1>6, <2>2
    <3> QED
      BY <1>7, <2>1, <2>2, <3>1
  <2>3. CASE ~(k > H)
    <3>1. PICK j \in 1 .. after : j = k - (H - after)
      BY <1>6, <1>11, <2>3
    <3>2. PICK i \in 1 .. m : i = before + l + j
      BY <1>6
    <3>3. k \in H - after + 1 .. H /\ n - (H - k) = r + j /\ L + i - 1 = k
      BY <1>6, <1>11, <2>3, <3>1, <3>2
    <3>4. t.out[k] = ListPatternPart(p[r + j], first)
      BY <1>7, <2>1, <3>3
    <3>5. whole[k] = around[i]
      BY <1>7, <3>3
    <3> QED
      BY <1>7, <3>2, <3>4, <3>5
  <2> QED
    BY <2>2, <2>3
<1> QED
  BY <1>8, <1>9, <1>10, <1>11 DEF Agrees, t, l, lo, hi

\* Parts filled from both ends are those of the templates nested in each other.
LEMMA PartsNested ==
  ASSUME NEW templates, NEW list \in Seq(Value), Len(list) >= 2, Templated(templates, list),
         IsTemplate(templates.middle),
         NEW R \in [1 .. Len(list) -> Seq(ListPart)], Nesting(R, templates, list)
  PROVE  ListParts(templates, list) = R[1]
<1> DEFINE n == Len(list)
           count == PartCount(templates, list)
           whole == R[1]
           P(i) == PatternFor(templates, list, i)
<1>1. /\ n \in Nat /\ n >= 2 /\ \A i \in 1 .. n : list[i] \in Value
      /\ \A i \in 1 .. n - 1 : IsTemplate(P(i))
  BY LenProperties, ElementOfSeq DEF Templated
<1>2. Len(whole) = count /\ Len(R[n]) = 1 /\ whole \in Seq(ListPart) /\ count \in Nat
  <2>1. Len(whole) = count /\ Len(R[n]) = 1
    BY NestingLength
  <2>2. whole \in Seq(ListPart)
    BY <1>1
  <2> QED
    BY <2>1, <2>2, LenProperties
<1>3. PICK c \in [0 .. n - 1 -> Fillings(count)] : Filling(c, templates, list)
  BY <1>2, FillingExists
<1>4. /\ c[0] = Blank(count)
      /\ \A i \in 1 .. n - 1 : c[i] = Fill(c[i - 1], P(i), list[i])
      /\ Filled(templates, list) = c[n - 1]
  BY <1>3 DEF Filling
<1>5. /\ R[n] = <<Element(Last(list))>>
      /\ \A i \in 1 .. n - 1 : R[i] = Around(P(i), list[i], R[i + 1])
  BY DEF Nesting
<1> HIDE DEF n, count, whole, P
<1> DEFINE Good == {i \in Nat : i <= n - 1 => Agrees(c[i], count, whole, R[i + 1])}
<1>6. 0 \in Good
  <2>1. /\ Blank(count).left = 1 /\ Blank(count).right = count
        /\ Blank(count).out = [k \in 1 .. count |-> <<>>]
    BY DEF Blank
  <2>2. Agrees(c[0], count, whole, R[1])
    BY <1>2, <1>4, <2>1 DEF Agrees, whole
  <2>3. 0 + 1 = 1
    OBVIOUS
  <2> QED
    BY <2>2, <2>3
<1>7. ASSUME NEW i \in Nat, i \in Good
      PROVE  i + 1 \in Good
  <2>1. ASSUME NEW k \in 1 .. n - 1, k = i + 1
        PROVE  Agrees(c[k], count, whole, R[k + 1])
    <3>1. i \in 0 .. n - 1 /\ i <= n - 1 /\ k - 1 = i /\ k \in 1 .. n /\ k + 1 \in 1 .. n
      BY <1>1, <2>1
    <3>2. Agrees(c[i], count, whole, R[k])
      BY <1>7, <2>1, <3>1
    <3>3. /\ IsTemplate(P(k)) /\ list[k] \in Value /\ c[i] \in Fillings(count)
          /\ R[k + 1] \in Seq(ListPart)
      BY <1>1, <3>1 DEF n
    <3>4. R[k] = Around(P(k), list[k], R[k + 1])
      BY <1>5
    <3>5. Agrees(Fill(c[i], P(k), list[k]), count, whole, R[k + 1])
      BY <1>2, <3>2, <3>3, <3>4, FillAgrees
    <3> QED
      BY <1>4, <3>1, <3>5
  <2>2. i + 1 <= n - 1 => i + 1 \in 1 .. n - 1
    BY <1>1
  <2> QED
    BY <2>1, <2>2
<1>8. Agrees(c[n - 1], count, whole, R[n])
  <2>1. Nat \subseteq Good
    <3> HIDE DEF Good
    <3> QED
      BY <1>6, <1>7, Induction
  <2>2. n - 1 \in Nat /\ n - 1 <= n - 1 /\ (n - 1) + 1 = n
    BY <1>1
  <2> QED
    BY <2>1, <2>2
<1> DEFINE s == c[n - 1]
<1>9. s \in Fillings(count)
  BY <1>1
<1>10. ListParts(templates, list) = [s.out EXCEPT ![s.left] = Element(Last(list))]
  <2>1. ~(n <= 1)
    BY <1>1
  <2> QED
    BY <1>4, <2>1 DEF ListParts, n
<1> HIDE DEF s
<1>11. /\ s.left \in 1 .. count /\ s.right = s.left
       /\ \A k \in 1 .. count : k < s.left \/ k > s.right => s.out[k] = whole[k]
       /\ whole[s.left] = Element(Last(list))
  <2>1. /\ s.left \in Nat \ {0} /\ s.right \in Nat /\ s.right <= count
        /\ s.right = s.left + Len(R[n]) - 1
        /\ \A k \in 1 .. count : k < s.left \/ k > s.right => s.out[k] = whole[k]
        /\ \A j \in 1 .. Len(R[n]) : whole[s.left + j - 1] = R[n][j]
    BY <1>8 DEF Agrees, s
  <2>2. 1 \in 1 .. Len(R[n]) /\ R[n][1] = Element(Last(list))
    BY <1>2, <1>5
  <2>3. s.left + 1 - 1 = s.left /\ s.left \in 1 .. count /\ s.right = s.left
    BY <1>2, <2>1
  <2> QED
    BY <2>1, <2>2, <2>3
<1>12. \A k \in 1 .. count : k < s.left \/ k > s.right \/ k = s.left
  BY <1>11
<1>13. s.out \in [1 .. count -> ListPart \cup {<<>>}]
  BY <1>9 DEF Fillings
<1>14. [s.out EXCEPT ![s.left] = Element(Last(list))] = [k \in 1 .. count |-> whole[k]]
  BY <1>11, <1>12, <1>13
<1>15. whole = [k \in 1 .. count |-> whole[k]]
  BY <1>2
<1> QED
  BY <1>10, <1>14, <1>15 DEF whole

\* The elements of the list, from a place on, are in the parts once each, and
\* everything else there is literal.
Shows(e, s, list, i) ==
  /\ e \in [i .. Len(list) -> 1 .. Len(s)]
  /\ \A j, k \in i .. Len(list) : j < k => e[j] # e[k]
  /\ \A j \in i .. Len(list) : s[e[j]] = Element(list[j])
  /\ \A x \in 1 .. Len(s) : s[x].type = "literal" \/ \E j \in i .. Len(list) : e[j] = x

\* Each of them before what follows it in the list if its template has it first.
Sided(e, templates, list, i) ==
  \A j, k \in i .. Len(list) :
    j < k => (e[j] < e[k] <=> ElementFirst(PatternFor(templates, list, j)))

LEMMA AroundShows ==
  ASSUME NEW templates,
         NEW list \in Seq(Value), NEW i \in 1 .. Len(list), NEW h \in 1 .. Len(list), h = i + 1,
         NEW p, IsTemplate(p), p = PatternFor(templates, list, i),
         NEW rest \in Seq(ListPart), NEW e, Shows(e, rest, list, h), Sided(e, templates, list, h)
  PROVE  \E f : Shows(f, Around(p, list[i], rest), list, i) /\ Sided(f, templates, list, i)
<1> DEFINE n == Len(list)
           around == Around(p, list[i], rest)
           r == Rest(p)
           l == Len(rest)
           z == Held(p)
           m == Len(around)
           q == Len(p)
           own == IF z < r THEN z ELSE l + z - 1
           f == [j \in i .. n |-> IF j = i THEN own ELSE r - 1 + e[j]]
<1>1. n \in Nat /\ list[i] \in Value /\ l \in Nat
  BY LenProperties, ElementOfSeq
<1>2. /\ q \in Nat /\ r \in 1 .. q
      /\ \A k \in 1 .. q : p[k] \in TemplatePart
      /\ z \in 1 .. q /\ p[z].type = "0" /\ z # r /\ (ElementFirst(p) <=> z < r)
      /\ \A k \in 1 .. q : k # r /\ k # z => p[k].type = "literal"
  BY TemplateSplit
<1>3. m = l + (q - 1)
  BY <1>1, AroundType
<1>4. /\ \A j \in 1 .. r - 1 : around[j] = ListPatternPart(p[j], list[i])
      /\ \A j \in 1 .. l : around[r - 1 + j] = rest[j]
      /\ \A j \in 1 .. q - r : around[r - 1 + l + j] = ListPatternPart(p[r + j], list[i])
  BY <1>1, AroundAt
<1>5. /\ \A j \in h .. n : e[j] \in 1 .. l /\ rest[e[j]] = Element(list[j])
      /\ \A j, k \in h .. n : j < k => e[j] # e[k]
      /\ \A j, k \in h .. n : j < k => (e[j] < e[k] <=> ElementFirst(PatternFor(templates, list, j)))
      /\ \A x \in 1 .. l : rest[x].type = "literal" \/ \E j \in h .. n : e[j] = x
  BY DEF Shows, Sided
<1> HIDE DEF n, around, r, l, z, m, q
<1>13. /\ own \in 1 .. m /\ own \in Int
       /\ around[own] = ListPatternPart(p[z], list[i])
       /\ \A y \in 1 .. l : r - 1 + y # own /\ (own < r - 1 + y <=> ElementFirst(p))
  <2>1. CASE z < r
    BY <1>1, <1>2, <1>3, <1>4, <2>1
  <2>2. CASE ~(z < r)
    <3>1. PICK y \in 1 .. q - r : y = z - r
      BY <1>1, <1>2, <2>2
    <3>2. own = r - 1 + l + y /\ r + y = z
      BY <1>1, <1>2, <2>2, <3>1
    <3>3. around[own] = ListPatternPart(p[z], list[i])
      BY <1>4, <3>1, <3>2
    <3>4. own \in 1 .. m
      BY <1>1, <1>2, <1>3, <3>1, <3>2
    <3>5. \A x \in 1 .. l : r - 1 + x # own /\ ~(own < r - 1 + x)
      BY <1>1, <1>2, <3>1, <3>2
    <3> QED
      BY <1>2, <2>2, <3>3, <3>4, <3>5
  <2> QED
    BY <2>1, <2>2
<1> HIDE DEF own
<1>6. \A j \in i .. n : j = i \/ (j # i /\ j \in h .. n)
  BY <1>1
<1>7. f[i] = own /\ \A j \in h .. n : j \in i .. n /\ f[j] = r - 1 + e[j]
  <2>1. i \in i .. n /\ \A j \in h .. n : j \in i .. n /\ j # i
    BY <1>1 DEF n
  <2> QED
    BY <2>1
<1>8. f \in [i .. n -> 1 .. m]
  <2> SUFFICES ASSUME NEW j \in i .. n PROVE (IF j = i THEN own ELSE r - 1 + e[j]) \in 1 .. m
    OBVIOUS
  <2>1. own \in 1 .. m
    BY <1>13
  <2>2. ASSUME j # i PROVE r - 1 + e[j] \in 1 .. m
    <3>1. e[j] \in 1 .. l
      BY <1>5, <1>6, <2>2
    <3> QED
      BY <1>1, <1>2, <1>3, <3>1
  <2> QED
    BY <2>1, <2>2
<1> HIDE DEF f
<1>9. ASSUME NEW j \in i .. n, NEW k \in i .. n, j < k
      PROVE  /\ f[j] # f[k]
             /\ f[j] < f[k] <=> ElementFirst(PatternFor(templates, list, j))
  <2>1. k \in h .. n
    BY <1>1, <1>9
  <2>2. e[k] \in 1 .. l /\ f[k] = r - 1 + e[k]
    BY <1>5, <1>7, <2>1
  <2>3. CASE j = i
    BY <1>7, <1>13, <2>2, <2>3
  <2>4. CASE j # i
    <3>1. j \in h .. n
      BY <1>6, <2>4
    <3>2. e[j] \in 1 .. l /\ f[j] = r - 1 + e[j] /\ e[j] # e[k]
      BY <1>5, <1>7, <1>9, <2>1, <3>1
    <3>3. e[j] < e[k] <=> ElementFirst(PatternFor(templates, list, j))
      BY <1>5, <1>9, <2>1, <3>1
    <3>4. f[j] # f[k] /\ (f[j] < f[k] <=> e[j] < e[k])
      BY <1>1, <1>2, <2>2, <3>2
    <3> QED
      BY <3>3, <3>4
  <2> QED
    BY <2>3, <2>4
<1>10. ASSUME NEW j \in i .. n
       PROVE  around[f[j]] = Element(list[j])
  <2>1. CASE j = i
    <3> QED
      BY <1>2, <1>7, <1>13, <2>1 DEF ListPatternPart
  <2>2. CASE j # i
    <3>1. j \in h .. n
      BY <1>6, <2>2
    <3>2. e[j] \in 1 .. l /\ f[j] = r - 1 + e[j] /\ rest[e[j]] = Element(list[j])
      BY <1>5, <1>7, <3>1
    <3> QED
      BY <1>4, <3>2
  <2> QED
    BY <2>1, <2>2
<1>11. ASSUME NEW x \in 1 .. m
       PROVE  around[x].type = "literal" \/ \E j \in i .. n : f[j] = x
  <2>1. i \in i .. n
    BY <1>1 DEF n
  <2>2. \A k \in 1 .. q : k # r /\ k # z => ListPatternPart(p[k], list[i]).type = "literal"
    <3> SUFFICES ASSUME NEW k \in 1 .. q, k # r, k # z
                 PROVE  ListPatternPart(p[k], list[i]).type = "literal"
      OBVIOUS
    <3>1. p[k].type = "literal"
      BY <1>2
    <3> QED
      BY <3>1 DEF ListPatternPart, Text
  <2>3. CASE x \in 1 .. r - 1
    <3>1. around[x] = ListPatternPart(p[x], list[i]) /\ x \in 1 .. q /\ x # r
      BY <1>2, <1>4, <2>3
    <3>2. x = z => own = x
      BY <1>2, <2>3 DEF own
    <3> QED
      BY <1>7, <2>1, <2>2, <3>1, <3>2
  <2>4. CASE x \in r .. r - 1 + l
    <3>1. PICK y \in 1 .. l : x = r - 1 + y
      <4>1. r \in Int /\ l \in Int /\ x \in Int
        BY <1>1, <1>2, <2>4
      <4>2. x - (r - 1) \in 1 .. l /\ x = r - 1 + (x - (r - 1))
        BY <2>4, <4>1
      <4> QED
        BY <4>2
    <3>2. around[x] = rest[y]
      BY <1>4, <3>1
    <3> QED
      BY <1>5, <1>7, <3>1, <3>2
  <2>5. CASE x \in r + l .. m
    <3>1. PICK y \in 1 .. q - r : x = r - 1 + l + y
      <4>1. x \in Int /\ x >= r + l /\ x <= l + (q - 1) /\ r \in Int /\ l \in Int /\ q \in Int
        BY <1>1, <1>2, <1>3, <2>5
      <4>2. x - (r - 1 + l) \in 1 .. q - r /\ x = r - 1 + l + (x - (r - 1 + l))
        BY <4>1
      <4> QED
        BY <4>2
    <3>2. r + y \in 1 .. q /\ r + y # r
      BY <1>2
    <3>3. r + y = z => own = x
      BY <1>1, <1>2, <3>1 DEF own
    <3> QED
      BY <1>4, <1>7, <2>1, <2>2, <3>1, <3>2, <3>3
  <2>6. x \in 1 .. r - 1 \/ x \in r .. r - 1 + l \/ x \in r + l .. m
    BY <1>1, <1>2, <1>3
  <2> QED
    BY <2>3, <2>4, <2>5, <2>6
<1>12. Shows(f, around, list, i) /\ Sided(f, templates, list, i)
  BY <1>8, <1>9, <1>10, <1>11 DEF Shows, Sided, n, m
<1> QED
  BY <1>12 DEF around

LEMMA SameCount ==
  ASSUME NEW S, IsFiniteSet(S), NEW T, NEW e, \A j \in S : e[j] \in T,
         \A j, k \in S : e[j] = e[k] => j = k, \A x \in T : \E j \in S : e[j] = x
  PROVE  IsFiniteSet(T) /\ Cardinality(T) = Cardinality(S)
<1> DEFINE f == [j \in S |-> e[j]]
<1>1. f \in Bijection(S, T)
  BY DEF Bijection, Injection, Surjection, IsInjective
<1>2. ExistsBijection(S, T)
  BY <1>1 DEF ExistsBijection
<1> QED
  BY <1>2, FS_Bijection

\* So there are as many elements in the parts as in the list.
LEMMA ShownPlaces ==
  ASSUME NEW list \in Seq(Value), NEW s \in Seq(ListPart), NEW e, Shows(e, s, list, 1),
         NEW places, places = {k \in DOMAIN s : s[k].type = "element"}
  PROVE  /\ IsFiniteSet(places) /\ Cardinality(places) = Len(list)
         /\ \A j \in 1 .. Len(list) : e[j] \in places /\ s[e[j]].value = list[j]
         /\ \A j, k \in 1 .. Len(list) : e[j] = e[k] => j = k
         /\ \A x \in places : \E j \in 1 .. Len(list) : e[j] = x
<1> DEFINE n == Len(list)
<1>1. n \in Nat /\ Len(s) \in Nat /\ DOMAIN s = 1 .. Len(s)
  BY LenProperties
<1>2. /\ e \in [1 .. n -> 1 .. Len(s)]
      /\ \A j, k \in 1 .. n : j < k => e[j] # e[k]
      /\ \A j \in 1 .. n : s[e[j]] = Element(list[j])
      /\ \A x \in 1 .. Len(s) : s[x].type = "literal" \/ \E j \in 1 .. n : e[j] = x
  BY DEF Shows
<1>3. ASSUME NEW j \in 1 .. n
      PROVE  e[j] \in places /\ s[e[j]].value = list[j]
  <2>1. s[e[j]] = Element(list[j]) /\ e[j] \in 1 .. Len(s)
    BY <1>2
  <2> QED
    BY <1>1, <2>1 DEF Element
<1>4. \A x \in places : \E j \in 1 .. n : e[j] = x
  BY <1>1, <1>2
<1>5. \A j, k \in 1 .. n : e[j] = e[k] => j = k
  BY <1>1, <1>2
<1> HIDE DEF n
<1> DEFINE I == 1 .. n
<1>6. IsFiniteSet(I) /\ Cardinality(I) = n
  <2>1. 1 \in Int /\ n \in Int /\ (IF 1 > n THEN 0 ELSE n - 1 + 1) = n
    BY <1>1
  <2> QED
    BY <2>1, FS_Interval
<1>7. IsFiniteSet(places) /\ Cardinality(places) = n
  <2>1. \A j \in I : e[j] \in places
    BY <1>3
  <2>2. \A x \in places : \E j \in I : e[j] = x
    BY <1>4
  <2>3. \A j, k \in I : e[j] = e[k] => j = k
    BY <1>5
  <2> HIDE DEF I
  <2> QED
    BY <1>6, <2>1, <2>2, <2>3, SameCount
<1> QED
  BY <1>3, <1>4, <1>5, <1>7 DEF n

\* And each has before it those that the templates put there.
Placed(templates, list, s, places) ==
  /\ Cardinality(places) = Len(list)
  /\ \A i \in DOMAIN list : \E k \in places :
       /\ s[k].value = list[i]
       /\ Cardinality({x \in places : x < k}) = Cardinality(ElementsBefore(templates, list, i))

LEMMA ShownElements ==
  ASSUME NEW templates, NEW list \in Seq(Value), NEW s \in Seq(ListPart),
         NEW e, Shows(e, s, list, 1), Sided(e, templates, list, 1),
         NEW places, places = {k \in DOMAIN s : s[k].type = "element"}
  PROVE  Placed(templates, list, s, places)
<1> DEFINE n == Len(list)
<1>1. n \in Nat /\ Len(s) \in Nat /\ DOMAIN s = 1 .. Len(s) /\ DOMAIN list = 1 .. n
  BY LenProperties
<1>2. /\ Cardinality(places) = n
      /\ \A j \in 1 .. n : e[j] \in places /\ s[e[j]].value = list[j]
      /\ \A j, k \in 1 .. n : e[j] = e[k] => j = k
      /\ \A x \in places : \E j \in 1 .. n : e[j] = x
  BY ShownPlaces
<1>3. \A j, k \in 1 .. n : j < k => (e[j] < e[k] <=> ElementFirst(PatternFor(templates, list, j)))
  BY DEF Sided
<1>4. places \subseteq Nat
  BY <1>1
<1> HIDE DEF n
<1>5. ASSUME NEW i \in 1 .. n
      PROVE  Cardinality({x \in places : x < e[i]}) = Cardinality(ElementsBefore(templates, list, i))
  <2> DEFINE S == ElementsBefore(templates, list, i)
             T == {x \in places : x < e[i]}
  <2>1. ASSUME NEW j \in 1 .. n
        PROVE  j \in S <=> e[j] < e[i]
    <3>1. e[j] \in Nat /\ e[i] \in Nat
      BY <1>2, <1>4
    <3>2. CASE j < i
      BY <1>1, <1>3, <3>2 DEF ElementsBefore
    <3>3. CASE i < j
      <4>1. j \in S <=> ~(e[i] < e[j])
        BY <1>1, <1>3, <3>3 DEF ElementsBefore
      <4>2. e[i] # e[j]
        BY <1>1, <1>2, <3>3
      <4> QED
        BY <3>1, <4>1, <4>2
    <3>4. CASE i = j
      <4>1. j \notin S
        BY <1>1, <3>4 DEF ElementsBefore
      <4> QED
        BY <3>1, <3>4, <4>1
    <3> QED
      BY <1>1, <3>2, <3>3, <3>4
  <2>2. S \in SUBSET (1 .. n)
    BY <1>1 DEF ElementsBefore
  <2>3. IsFiniteSet(S)
    <3>1. 1 \in Int /\ n \in Int
      BY <1>1
    <3>2. IsFiniteSet(1 .. n)
      BY <3>1, FS_Interval
    <3> HIDE DEF S
    <3> QED
      BY <2>2, <3>2, FS_Subset
  <2> HIDE DEF S
  <2>4. \A j \in S : e[j] \in T
    BY <1>2, <2>1, <2>2
  <2>5. \A j, k \in S : e[j] = e[k] => j = k
    BY <1>2, <2>2
  <2>6. \A x \in T : \E j \in S : e[j] = x
    BY <1>2, <2>1
  <2> HIDE DEF T
  <2>7. Cardinality(T) = Cardinality(S)
    BY <2>3, <2>4, <2>5, <2>6, SameCount
  <2> QED
    BY <2>7 DEF S, T
<1> QED
  BY <1>1, <1>2, <1>5 DEF Placed, n

LEMMA NestingShows ==
  ASSUME NEW templates, NEW list \in Seq(Value), Len(list) >= 2, Templated(templates, list),
         NEW R \in [1 .. Len(list) -> Seq(ListPart)], Nesting(R, templates, list)
  PROVE  \E e : Shows(e, R[1], list, 1) /\ Sided(e, templates, list, 1)
<1> DEFINE n == Len(list)
           P(i) == PatternFor(templates, list, i)
           Shown1(i) == \E e : Shows(e, R[i], list, i) /\ Sided(e, templates, list, i)
           Good == {j \in Nat : j <= n - 1 => Shown1(n - j)}
<1>1. /\ n \in Nat /\ n >= 2 /\ \A i \in 1 .. n : list[i] \in Value
      /\ \A i \in 1 .. n - 1 : IsTemplate(P(i))
  BY LenProperties, ElementOfSeq DEF Templated
<1>2. /\ R[n] = <<Element(Last(list))>>
      /\ \A i \in 1 .. n - 1 : R[i] = Around(P(i), list[i], R[i + 1])
  BY DEF Nesting
<1>3. Shown1(n)
  <2> DEFINE e == [j \in n .. n |-> 1]
  <2>1. Len(R[n]) = 1 /\ R[n][1] = Element(list[n])
    BY <1>2 DEF Last
  <2>2. \A j \in n .. n : j = n
    BY <1>1
  <2>3. n \in n .. n /\ e[n] = 1
    BY <1>1
  <2>4. Shows(e, R[n], list, n) /\ Sided(e, templates, list, n)
    <3>1. e \in [n .. n -> 1 .. Len(R[n])]
      BY <2>1
    <3>2. \A j, k \in n .. n : ~(j < k)
      BY <1>1
    <3>3. \A x \in 1 .. Len(R[n]) : x = 1
      BY <2>1
    <3> HIDE DEF e
    <3> QED
      BY <2>1, <2>2, <2>3, <3>1, <3>2, <3>3 DEF Shows, Sided
  <2> QED
    BY <2>4
<1> HIDE DEF P
<1>4. 0 \in Good
  <2> n - 0 = n
    BY <1>1
  <2> HIDE DEF Shown1
  <2> QED
    BY <1>3
<1>5. ASSUME NEW j \in Nat, j \in Good
      PROVE  j + 1 \in Good
  <2>1. ASSUME NEW i \in 1 .. n - 1, NEW h \in 1 .. n, h = i + 1, h = n - j, j <= n - 1
        PROVE  Shown1(i)
    <3>1. Shown1(h)
      <4> HIDE DEF Shown1
      <4> QED
        BY <1>5, <2>1
    <3>2. PICK e : Shows(e, R[h], list, h) /\ Sided(e, templates, list, h)
      BY <3>1
    <3>3. IsTemplate(P(i)) /\ i \in 1 .. n /\ R[h] \in Seq(ListPart)
      BY <1>1
    <3>4. R[i] = Around(P(i), list[i], R[h])
      BY <1>2, <2>1
    <3>5. \E f : Shows(f, Around(P(i), list[i], R[h]), list, i) /\ Sided(f, templates, list, i)
      <4>1. P(i) = PatternFor(templates, list, i)
        BY DEF P
      <4> QED
        BY <2>1, <3>2, <3>3, <4>1, AroundShows
    <3> QED
      BY <3>4, <3>5
  <2>2. j + 1 <= n - 1 =>
          /\ n - (j + 1) \in 1 .. n - 1 /\ n - j \in 1 .. n /\ n - j = (n - (j + 1)) + 1
          /\ j <= n - 1
    BY <1>1
  <2> HIDE DEF Shown1
  <2> QED
    BY <2>1, <2>2
<1>6. Shown1(1)
  <2> HIDE DEF Shown1
  <2>1. Nat \subseteq Good
    <3> HIDE DEF Good
    <3> QED
      BY <1>4, <1>5, Induction
  <2>2. n - 1 \in Nat /\ n - 1 <= n - 1 /\ n - (n - 1) = 1
    BY <1>1
  <2> QED
    BY <2>1, <2>2
<1> QED
  BY <1>6

-------------------------------------------------------------------------------
(* Lists. *)

Compiled(templates) ==
  /\ IsTemplate(templates.start) /\ IsTemplate(templates.middle)
  /\ IsTemplate(templates.pair.pattern) /\ IsTemplate(templates.pair.alternate)
  /\ IsTemplate(templates.end.pattern) /\ IsTemplate(templates.end.alternate)

LEMMA CompiledTemplates ==
  ASSUME NEW patterns, HasTemplates(patterns)
  PROVE  Compiled(CompileListTemplates(patterns))
<1>1. ASSUME NEW c \in Value
      PROVE  IsTemplate(Connected(c))
  <2>1. /\ Placeholder("0") \in TemplatePart /\ Text(c) \in TemplatePart
        /\ Placeholder("1") \in TemplatePart
    BY DEF Placeholder, Text, TemplatePart, Value
  <2>2. /\ Connected(c) \in Seq(TemplatePart) /\ DOMAIN Connected(c) = 1 .. 3
        /\ Connected(c)[1] = Placeholder("0") /\ Connected(c)[2] = Text(c)
        /\ Connected(c)[3] = Placeholder("1")
    BY <2>1 DEF Connected
  <2>3. \A k \in 1 .. 3 : k \notin {1, 3} => k = 2
    OBVIOUS
  <2>4. 1 \in 1 .. 3 /\ 3 \in 1 .. 3
    OBVIOUS
  <2>5. Placeholder("0").type = "0" /\ Placeholder("1").type = "1" /\ Text(c).type = "literal"
    BY DEF Placeholder, Text
  <2> QED
    BY <2>2, <2>3, <2>4, <2>5 DEF IsTemplate
<1>2. /\ <<" ", "e", " ">> \in Value /\ <<" ", "u", " ">> \in Value
      /\ <<" ", "vav", "-">> \in Value
  <2>1. \A a, b, c \in Characters : <<a, b, c>> \in Value
    BY DEF Value
  <2>2. /\ " " \in Characters /\ "e" \in Characters /\ "u" \in Characters
        /\ "vav" \in Characters /\ "-" \in Characters
    BY Templates
  <2> QED
    BY <2>1, <2>2
<1>3. ASSUME NEW pattern, IsTemplate(pattern), NEW language
      PROVE  /\ IsTemplate(CompileContextualListTemplate(pattern, language).pattern)
             /\ IsTemplate(CompileContextualListTemplate(pattern, language).alternate)
  <2>1. /\ IsTemplate(Connected(<<" ", "e", " ">>)) /\ IsTemplate(Connected(<<" ", "u", " ">>))
        /\ IsTemplate(Connected(<<" ", "vav", "-">>))
    BY <1>1, <1>2
  <2> QED
    BY <1>3, <2>1 DEF CompileContextualListTemplate, Plain
<1> QED
  BY <1>3 DEF Compiled, CompileListTemplates, HasTemplates

\* Whatever the templates and the list: the parts are nested, the elements at the
\* sides where the templates have them.
LEMMA ListFormatted ==
  ASSUME NEW templates, Compiled(templates), NEW list \in Seq(Value)
  PROVE  /\ ListParts(templates, list) = CreatePartsFromList(templates, list)
         /\ ListParts(templates, list) \in Seq(ListPart)
         /\ \E e : Shows(e, ListParts(templates, list), list, 1) /\ Sided(e, templates, list, 1)
<1>1. Len(list) \in Nat /\ DOMAIN list = 1 .. Len(list) /\ \A i \in 1 .. Len(list) : list[i] \in Value
  BY LenProperties, ElementOfSeq
<1>2. CASE Len(list) <= 1
  <2> DEFINE s == [i \in DOMAIN list |-> Element(list[i])]
             e == [i \in 1 .. Len(list) |-> i]
  <2>1. ListParts(templates, list) = s /\ CreatePartsFromList(templates, list) = s
    BY <1>2 DEF ListParts, CreatePartsFromList
  <2>2. s \in [1 .. Len(list) -> ListPart]
    BY <1>1 DEF Element, ListPart
  <2>3. s \in Seq(ListPart) /\ Len(s) = Len(list)
    <3> HIDE DEF s
    <3> QED
      BY <1>1, <2>2, FunctionIsSeq
  <2>4. Shows(e, s, list, 1) /\ Sided(e, templates, list, 1)
    <3>1. \A i \in 1 .. Len(list) : e[i] = i /\ s[i] = Element(list[i])
      BY <1>1
    <3>2. e \in [1 .. Len(list) -> 1 .. Len(s)]
      BY <2>3
    <3>3. \A j, k \in 1 .. Len(list) : ~(j < k)
      BY <1>1, <1>2
    <3> HIDE DEF e, s
    <3> QED
      BY <2>3, <3>1, <3>2, <3>3 DEF Shows, Sided
  <2> QED
    BY <2>1, <2>3, <2>4
<1>3. CASE Len(list) >= 2
  <2>1. Templated(templates, list)
    BY DEF Templated, Compiled, PatternFor, ForElement
  <2>2. IsTemplate(templates.middle)
    BY DEF Compiled
  <2>3. PICK R \in [1 .. Len(list) -> Seq(ListPart)] : Nesting(R, templates, list)
    BY <1>3, <2>1, NestingExists
  <2>4. ListParts(templates, list) = R[1]
    BY <1>3, <2>1, <2>2, <2>3, PartsNested
  <2>5. CreatePartsFromList(templates, list) = R[1] /\ R[1] \in Seq(ListPart)
    BY <1>1, <1>3, <2>3 DEF Nesting
  <2>6. \E e : Shows(e, R[1], list, 1) /\ Sided(e, templates, list, 1)
    BY <1>3, <2>1, <2>3, NestingShows
  <2> QED
    BY <2>4, <2>5, <2>6
<1> QED
  BY <1>1, <1>2, <1>3

-------------------------------------------------------------------------------
(* Laying a duration out. *)

\* The numbers there can be, the groups of them, and what the loop keeps.
NumbersOf(f, d) ==
  {IntegerNumber(f, d, u, sign) : u \in UnitSet, sign \in BOOLEAN}
    \cup {FractionalNumber(f, d, u, sign) : u \in UnitSet, sign \in BOOLEAN}

Laid(f, d) == [groups : Seq(Seq(NumbersOf(f, d))), signAvailable : BOOLEAN, done : BOOLEAN]

NothingLaid == [groups |-> <<>>, signAvailable |-> TRUE, done |-> FALSE]

\* The chain of partitionDurationFormatPattern's loop.
Laying(f, d, c) ==
  /\ c[0] = NothingLaid
  /\ \A i \in 0 .. 10 : c[i] \in Laid(f, d)
  /\ \A i \in 1 .. 10 : c[i] = PartitionUnit(f, d, c[i - 1], Units[i])
  /\ c[10].groups = Partition(f, d)

LEMMA LayoutShape ==
  ASSUME NEW f, NEW d, NEW u
  PROVE  /\ NumericLayout(f, d, u) \in Seq(UnitSet) /\ Len(NumericLayout(f, d, u)) <= 3
         /\ Len(NumericLayout(f, d, u)) \in Nat
         /\ NumericLayout(f, d, u) \in
              { <<>>, <<"hours">>, <<"minutes">>, <<"seconds">>, <<"hours", "minutes">>,
                <<"hours", "seconds">>, <<"minutes", "seconds">>, <<"hours", "minutes", "seconds">> }
<1> DEFINE a == IF HoursFormatted(f, d, u) THEN <<"hours">> ELSE <<>>
           b == IF MinutesFormatted(f, d, u) THEN <<"minutes">> ELSE <<>>
           e == IF SecondsFormatted(f, d) THEN <<"seconds">> ELSE <<>>
<1>1. NumericLayout(f, d, u) = (a \o b) \o e
  BY DEF NumericLayout
<1>2. a \in {<<>>, <<"hours">>} /\ b \in {<<>>, <<"minutes">>} /\ e \in {<<>>, <<"seconds">>}
  OBVIOUS
<1> HIDE DEF a, b, e
<1> DEFINE Layouts ==
        { <<>>, <<"hours">>, <<"minutes">>, <<"seconds">>, <<"hours", "minutes">>,
          <<"hours", "seconds">>, <<"minutes", "seconds">>, <<"hours", "minutes", "seconds">> }
<1>4. "hours" \in UnitSet /\ "minutes" \in UnitSet /\ "seconds" \in UnitSet
  BY UnitOrder
<1>3. (a \o b) \o e \in Layouts
  <2>2. a \o b \in {<<>>, <<"hours">>, <<"minutes">>, <<"hours", "minutes">>}
    <3>1. /\ <<>> \o <<>> = <<>> /\ <<"hours">> \o <<>> = <<"hours">>
          /\ <<>> \o <<"minutes">> = <<"minutes">>
      OBVIOUS
    <3>2. <<"hours">> \o <<"minutes">> = <<"hours", "minutes">>
      BY <1>4, Joined
    <3> QED
      BY <1>2, <3>1, <3>2
  <2>3. /\ <<>> \o <<>> = <<>> /\ <<"hours">> \o <<>> = <<"hours">>
        /\ <<"minutes">> \o <<>> = <<"minutes">>
        /\ <<"hours", "minutes">> \o <<>> = <<"hours", "minutes">>
    OBVIOUS
  <2>4. /\ <<"hours">> \o <<"seconds">> = <<"hours", "seconds">>
        /\ <<"minutes">> \o <<"seconds">> = <<"minutes", "seconds">>
        /\ <<"hours", "minutes">> \o <<"seconds">> = <<"hours", "minutes", "seconds">>
    BY <1>4, Joined
  <2>5. <<>> \o <<"seconds">> = <<"seconds">>
    OBVIOUS
  <2> QED
    BY <1>2, <2>2, <2>3, <2>4, <2>5
<1>5. /\ <<>> \in Seq(UnitSet) /\ <<"hours">> \in Seq(UnitSet) /\ <<"minutes">> \in Seq(UnitSet)
      /\ <<"seconds">> \in Seq(UnitSet) /\ <<"hours", "minutes">> \in Seq(UnitSet)
      /\ <<"hours", "seconds">> \in Seq(UnitSet) /\ <<"minutes", "seconds">> \in Seq(UnitSet)
      /\ <<"hours", "minutes", "seconds">> \in Seq(UnitSet)
  BY <1>4
<1>6. \A x \in Layouts : Len(x) \in Nat /\ Len(x) <= 3
  OBVIOUS
<1>7. \A x \in Layouts : x \in Seq(UnitSet)
  BY <1>5
<1>8. NumericLayout(f, d, u) \in Layouts
  BY <1>1, <1>3
<1> QED
  BY <1>6, <1>7, <1>8

LEMMA NumericUnitsType ==
  ASSUME NEW f, NEW d, NEW layout \in Seq(UnitSet), NEW sign \in BOOLEAN
  PROVE  /\ NumericUnits(f, d, layout, sign) \in Seq(NumbersOf(f, d))
         /\ Len(NumericUnits(f, d, layout, sign)) = Len(layout)
<1>1. Len(layout) \in Nat /\ \A i \in 1 .. Len(layout) : layout[i] \in UnitSet
  BY LenProperties, ElementOfSeq
<1>2. NumericUnits(f, d, layout, sign) \in [1 .. Len(layout) -> NumbersOf(f, d)]
  <2>1. "seconds" \in UnitSet
    BY UnitOrder
  <2>2. ASSUME NEW i \in 1 .. Len(layout)
        PROVE  (IF layout[i] = "seconds"
                THEN FractionalNumber(f, d, "seconds", sign /\ i = 1)
                ELSE IntegerNumber(f, d, layout[i], sign /\ i = 1)) \in NumbersOf(f, d)
    <3> DEFINE available == sign /\ i = 1
    <3>1. available \in BOOLEAN /\ layout[i] \in UnitSet
      BY <1>1
    <3> HIDE DEF available
    <3>2. /\ FractionalNumber(f, d, "seconds", available) \in NumbersOf(f, d)
          /\ IntegerNumber(f, d, layout[i], available) \in NumbersOf(f, d)
      BY <2>1, <3>1 DEF NumbersOf
    <3> QED
      BY <3>2 DEF available
  <2> QED
    BY <2>2 DEF NumericUnits
<1> QED
  BY <1>1, <1>2, FunctionIsSeq

LEMMA PartitionUnitType ==
  ASSUME NEW f, NEW d, NEW sofar \in Laid(f, d), NEW u \in UnitSet
  PROVE  PartitionUnit(f, d, sofar, u) \in Laid(f, d)
<1> DEFINE G == Seq(NumbersOf(f, d))
<1>1. /\ sofar.groups \in Seq(G) /\ sofar.signAvailable \in BOOLEAN /\ sofar.done \in BOOLEAN
      /\ sofar = [groups |-> sofar.groups, signAvailable |-> sofar.signAvailable, done |-> sofar.done]
  BY DEF Laid
<1>2. /\ IntegerNumber(f, d, u, sofar.signAvailable) \in NumbersOf(f, d)
      /\ FractionalNumber(f, d, u, sofar.signAvailable) \in NumbersOf(f, d)
  BY <1>1 DEF NumbersOf
<1>3. /\ <<IntegerNumber(f, d, u, sofar.signAvailable)>> \in G
      /\ <<FractionalNumber(f, d, u, sofar.signAvailable)>> \in G
  BY <1>2
<1>4. NumericUnits(f, d, NumericLayout(f, d, u), sofar.signAvailable) \in G
  BY <1>1, LayoutShape, NumericUnitsType
<1>5. ASSUME NEW group \in G, NEW last \in BOOLEAN
      PROVE  AddGroup(sofar, group, last) \in Laid(f, d)
  <2>1. Append(sofar.groups, group) \in Seq(G)
    BY <1>1, AppendProperties
  <2> QED
    BY <1>1, <2>1 DEF AddGroup, Laid
<1>6. [sofar EXCEPT !.done = TRUE] \in Laid(f, d)
  BY <1>1 DEF Laid
<1> HIDE DEF G
<1> QED
  BY <1>3, <1>4, <1>5, <1>6 DEF PartitionUnit

LEMMA LayingExists ==
  ASSUME NEW f, NEW d
  PROVE  \E c : Laying(f, d, c)
<1> DEFINE T    == Laid(f, d)
           step == [p \in T \X (1 .. 10) |-> PartitionUnit(f, d, p[1], Units[p[2]])]
           F    == CHOOSE it : it = [s \in SUBSET DOMAIN Units |->
                     IF s = {} THEN NothingLaid
                     ELSE LET i == Max(s) IN PartitionUnit(f, d, it[s \ {i}], Units[i])]
<1>1. NothingLaid \in T
  BY DEF NothingLaid, Laid
<1>2. step \in [T \X (1 .. 10) -> T]
  BY PartitionUnitType, UnitOrder
<1>3. Partition(f, d) = F[DOMAIN Units].groups
  BY DEF Partition, FoldLeft, MapThenFoldSet, NothingLaid
<1> HIDE DEF T
<1>4. PICK it : LeftFold(it, 10, T, NothingLaid, step)
  <2> HIDE DEF step, F
  <2>1. 10 \in Nat
    OBVIOUS
  <2> QED
    BY <1>1, <1>2, <2>1, LeftFoldDefines, Zenon
<1>5. \A s \in SUBSET (1 .. 10) :
        it[s] = IF s = {} THEN NothingLaid
                ELSE LET i == Max(s) IN PartitionUnit(f, d, it[s \ {i}], Units[i])
  <2> SUFFICES ASSUME NEW s \in SUBSET (1 .. 10), s # {}
               PROVE  it[s] = PartitionUnit(f, d, it[s \ {Max(s)}], Units[Max(s)])
    BY <1>4 DEF LeftFold
  <2>1. Max(s) \in 1 .. 10
    BY GreatestOf
  <2>2. it[s \ {Max(s)}] \in T
    BY <1>4 DEF LeftFold
  <2>3. step[<<it[s \ {Max(s)}], Max(s)>>] = PartitionUnit(f, d, it[s \ {Max(s)}], Units[Max(s)])
    BY <2>1, <2>2
  <2> QED
    BY <1>4, <2>3 DEF LeftFold
<1>6. it = [s \in SUBSET DOMAIN Units |->
              IF s = {} THEN NothingLaid
              ELSE LET i == Max(s) IN PartitionUnit(f, d, it[s \ {i}], Units[i])]
  BY <1>4, <1>5, UnitOrder DEF LeftFold
<1>7. F = [s \in SUBSET DOMAIN Units |->
             IF s = {} THEN NothingLaid
             ELSE LET i == Max(s) IN PartitionUnit(f, d, F[s \ {i}], Units[i])]
  BY <1>6
<1> HIDE DEF F
<1> DEFINE c == [i \in 0 .. 10 |-> F[1 .. i]]
<1>8. c[0] = NothingLaid
  <2>1. 1 .. 0 = {} /\ 1 .. 0 \in SUBSET DOMAIN Units
    BY UnitOrder
  <2> QED
    BY <1>7, <2>1
<1>9. ASSUME NEW i \in 1 .. 10
      PROVE  c[i] = PartitionUnit(f, d, c[i - 1], Units[i])
  <2>1. /\ 1 .. i \in SUBSET DOMAIN Units /\ 1 .. i # {}
        /\ Max(1 .. i) = i
        /\ (1 .. i) \ {i} = 1 .. i - 1
    <3> HIDE DEF step, c
    <3>1. 10 \in Nat
      OBVIOUS
    <3>2. /\ 1 .. i \in SUBSET (1 .. 10) /\ 1 .. i # {}
          /\ Max(1 .. i) = i
          /\ (1 .. i) \ {i} = 1 .. i - 1
      BY <3>1, IntervalEnds, Zenon
    <3> QED
      BY <3>2, UnitOrder
  <2>2. F[1 .. i] = PartitionUnit(f, d, F[1 .. i - 1], Units[i])
    BY <1>7, <2>1
  <2>3. i \in 0 .. 10 /\ i - 1 \in 0 .. 10
    OBVIOUS
  <2> QED
    BY <2>2, <2>3
<1>10. c[10].groups = Partition(f, d)
  BY <1>3, UnitOrder
<1> HIDE DEF c
<1>11. \A i \in 0 .. 10 : c[i] \in T
  <2> DEFINE Typed == {i \in Nat : i <= 10 => c[i] \in T}
  <2>1. 0 \in Typed
    BY <1>1, <1>8
  <2>2. ASSUME NEW i \in Nat, i \in Typed
        PROVE  i + 1 \in Typed
    <3>1. ASSUME i + 1 <= 10
          PROVE  c[i + 1] \in T
      <4>1. i + 1 \in 1 .. 10 /\ (i + 1) - 1 = i
        BY <3>1
      <4>2. c[i + 1] = PartitionUnit(f, d, c[i], Units[i + 1])
        BY <1>9, <4>1
      <4> QED
        <5>1. c[i] \in T /\ Units[i + 1] \in UnitSet
          BY <2>2, <3>1, <4>1, UnitOrder
        <5>2. PartitionUnit(f, d, c[i], Units[i + 1]) \in T
          BY <5>1, PartitionUnitType DEF T
        <5> QED
          BY <4>2, <5>2
    <3> QED
      BY <3>1
  <2> HIDE DEF Typed
  <2>3. Nat \subseteq Typed
    BY <2>1, <2>2, Induction
  <2> QED
    BY <2>3 DEF Typed
<1> QED
  BY <1>8, <1>9, <1>10, <1>11 DEF Laying, T

LEMMA PartitionType ==
  ASSUME NEW f, NEW d
  PROVE  Partition(f, d) \in Seq(Seq(NumbersOf(f, d)))
<1>1. PICK c : Laying(f, d, c)
  BY LayingExists
<1>2. c[10] \in Laid(f, d) /\ c[10].groups = Partition(f, d)
  BY <1>1 DEF Laying
<1> QED
  BY <1>2 DEF Laid

-------------------------------------------------------------------------------
(* The theorem about lists. *)

LEMMA ConstructedBase ==
  ASSUME ConstructedFromRequest, Constructed
  PROVE  formatter.base \in Bases
BY Options DEF ConstructedFromRequest, Constructed, Construct, RequestShape

LEMMA ListingNested ==
  ASSUME NEW patterns, HasTemplates(patterns), NEW list \in Seq(Value),
         listing' = Listing(CompileListTemplates(patterns), list)
  PROVE  ListsNested'
<1> DEFINE templates == listing'.templates
           named == listing'.list
           made  == listing'.parts
<1>1. templates = CompileListTemplates(patterns) /\ named = list /\ made = ListParts(templates, named)
  BY DEF Listing
<1>2. Compiled(templates) /\ named \in Seq(Value)
  BY <1>1, CompiledTemplates
<1> HIDE DEF templates, named, made
<1>3. /\ made = CreatePartsFromList(templates, named) /\ made \in Seq(ListPart)
      /\ \E e : Shows(e, made, named, 1) /\ Sided(e, templates, named, 1)
  BY <1>1, <1>2, ListFormatted
<1> DEFINE places == {k \in DOMAIN made : made[k].type = "element"}
<1>4. PICK p : p = places
  OBVIOUS
<1>5. PICK e : Shows(e, made, named, 1) /\ Sided(e, templates, named, 1)
  BY <1>3
<1>6. p = {k \in DOMAIN made : made[k].type = "element"}
  BY <1>4
<1> HIDE DEF places
<1>7. Placed(templates, named, made, p)
  BY <1>2, <1>3, <1>5, <1>6, ShownElements
<1>8. ElementsPlaced(listing')
  BY <1>6, <1>7 DEF Placed, ElementsPlaced, templates, named, made
<1>9. listing'.parts = CreatePartsFromList(listing'.templates, listing'.list)
  BY <1>3 DEF templates, named, made
<1> QED
  BY <1>8, <1>9 DEF ListsNested

\* Every list, whatever its patterns and elements, is its templates nested in each
\* other and has its elements in order, those of a caller and those of a duration.
THEOREM Nestings == Spec => []ListsNested
<1>1. Init => ListsNested
  BY DEF Init, ListsNested
<1>2. ConstructedFromRequest /\ ListsNested /\ [Next]_vars => ListsNested'
  <2> SUFFICES ASSUME ConstructedFromRequest, ListsNested, [Next]_vars
               PROVE  ListsNested'
    OBVIOUS
  <2>1. CASE New
    BY <2>1 DEF New, ConstructWith, ListsNested
  <2>2. CASE Rebuild
    BY <2>2 DEF Rebuild, ConstructWith, ListsNested
  <2>3. CASE Format
    <3>1. CASE listing' = <<>>
      BY <3>1 DEF ListsNested
    <3>2. CASE listing' # <<>>
      <4> DEFINE patterns == UnitListPatterns[ListStyle(formatter.base)]
                 list == Placeholders(result')
      <4>1. /\ listing' = Listing(CompileListTemplates(patterns), list)
            /\ result' # Rejected
            /\ \E d \in Durations : result' = FormatToParts(formatter, d)
        BY <2>3, <3>2 DEF Format
      <4>2. HasTemplates(patterns)
        <5>1. formatter.base \in Bases
          BY <2>3, ConstructedBase DEF Format
        <5>2. ListStyle(formatter.base) \in WordStyles
          BY <5>1 DEF Bases, ListStyle, WordStyles
        <5> QED
          BY <5>2, Options
      <4>3. PICK d \in Durations : result' = Partition(formatter, d)
        BY <4>1 DEF FormatToParts
      <4>4. list \in Seq(Value)
        <5>1. result' \in Seq(Seq(NumbersOf(formatter, d)))
          BY <4>3, PartitionType
        <5>2. DOMAIN result' = 1 .. Len(result') /\ Len(result') \in Nat
          BY <5>1, LenProperties
        <5>3. <<>> \in Value
          BY DEF Value
        <5>4. list \in [1 .. Len(result') -> Value]
          BY <5>2, <5>3 DEF Placeholders
        <5> HIDE DEF list
        <5> QED
          BY <5>2, <5>4, FunctionIsSeq
      <4> HIDE DEF patterns, list
      <4> QED
        BY <4>1, <4>2, <4>4, ListingNested
    <3> QED
      BY <3>1, <3>2
  <2>4. CASE JoinList
    <3>1. PICK patterns \in ListPatterns, list \in Lists :
            listing' = Listing(CompileListTemplates(patterns), list)
      BY <2>4 DEF JoinList, FormatList
    <3>2. HasTemplates(patterns) /\ list \in Seq(Value)
      BY Templates
    <3> QED
      BY <3>1, <3>2, ListingNested
  <2>5. CASE UNCHANGED vars
    BY <2>5 DEF vars, ListsNested
  <2> QED
    BY <2>1, <2>2, <2>3, <2>4, <2>5 DEF Next
<1> QED
  BY <1>1, <1>2, Construction, PTL DEF Spec

-------------------------------------------------------------------------------
(* What a formatter's units are like when they are laid out. *)

StyleAt(f, i) == f.units[Units[i]].style

Sound(f) ==
  /\ f \in Formatters
  /\ \A u \in UnitSet :
       /\ f.units[u].style = "fractional" => u \in Fractional /\ f.units[u].display = "auto"
       /\ f.units[u].style \in ClockStyles => u \in ClockUnits
  /\ \A i \in 2 .. 10 :
       /\ StyleAt(f, i - 1) = "fractional" => StyleAt(f, i) = "fractional"
       /\ StyleAt(f, i - 1) \in ClockStyles =>
            StyleAt(f, i) = IF Units[i] \in ClockContinuation THEN "2-digit" ELSE "fractional"

LEMMA ConstructedSound ==
  ASSUME NEW req \in RequestShape, Construct(req) # Rejected
  PROVE  Sound(Construct(req))
<1> DEFINE f == Construct(req)
<1>1. f \in Formatters
  BY ResolvedType
<1>2. PICK c : Resolving(req, c)
  BY ResolvingExists
<1>3. ~c[10].rejected /\ f.units = c[10].units
  BY <1>2 DEF Construct, Resolving, ValidFractionalDigits
<1> HIDE DEF f
<1>4. ASSUME NEW i \in 1 .. 10
      PROVE  /\ Units[i] \in UnitSet
             /\ f.units[Units[i]] \in UnitShape
             /\ PublicUnitStyle(StyleAt(f, i)) \in StylesOf(Units[i])
             /\ InternalStyle(Units[i], PublicUnitStyle(StyleAt(f, i))) = StyleAt(f, i)
             /\ ValidUnitStyle(StyleAt(f, i), f.units[Units[i]].display, c[i - 1].prev)
             /\ Units[i] \in ClockContinuation /\ ContinuesClock(c[i - 1].prev) => StyleAt(f, i) = "2-digit"
             /\ Units[i] \in TracksPrevious => c[i].prev = StyleAt(f, i)
  <2> DEFINE u == Units[i]
             unit == StepOptions(req, c, i)
  <2>1. /\ unit \in UnitShape /\ f.units[u] = unit
        /\ c[i].prev = IF u \in TracksPrevious THEN unit.style ELSE c[i - 1].prev
    BY <1>2, <1>3, Accepted
  <2>2. u \in UnitSet /\ req.units[u] \in OptionShape /\ req.base \in Bases
    BY UnitOrder DEF RequestShape
  <2>3. unit = UnitOptions(u, req.units[u], req.base, c[i - 1].prev) /\ unit # Rejected
    BY <2>1, Options DEF StepOptions
  <2> HIDE DEF unit
  <2>4. /\ PublicUnitStyle(unit.style) \in StylesOf(u)
        /\ InternalStyle(u, PublicUnitStyle(unit.style)) = unit.style
        /\ ValidUnitStyle(unit.style, unit.display, c[i - 1].prev)
        /\ u \in ClockContinuation /\ ContinuesClock(c[i - 1].prev) => unit.style = "2-digit"
    BY <2>2, <2>3, AcceptedUnit
  <2>5. StyleAt(f, i) = unit.style
    BY <2>1 DEF StyleAt
  <2> QED
    BY <2>1, <2>2, <2>4, <2>5
<1>5. ASSUME NEW i \in 1 .. 10
      PROVE  /\ StyleAt(f, i) = "fractional" => Units[i] \in Fractional /\ f.units[Units[i]].display = "auto"
             /\ StyleAt(f, i) \in ClockStyles => Units[i] \in ClockUnits
  <2>1. StyleAt(f, i) = "fractional" => Units[i] \in Fractional
    <3>1. StyleAt(f, i) = "fractional" => PublicUnitStyle(StyleAt(f, i)) = "numeric"
      BY DEF PublicUnitStyle
    <3> QED
      BY <1>4, <3>1 DEF InternalStyle
  <2>2. StyleAt(f, i) = "fractional" => f.units[Units[i]].display = "auto"
    BY <1>4 DEF ValidUnitStyle, UnitShape, Displays
  <2>3. StyleAt(f, i) \in ClockStyles => Units[i] \in ClockUnits
    <3> SUFFICES ASSUME StyleAt(f, i) \in ClockStyles, Units[i] \notin ClockUnits PROVE FALSE
      OBVIOUS
    <3>1. StyleAt(f, i) # "fractional" /\ PublicUnitStyle(StyleAt(f, i)) = StyleAt(f, i)
      BY DEF PublicUnitStyle, ClockStyles
    <3>2. Units[i] \notin DateUnits /\ StyleAt(f, i) = "numeric"
      BY <1>4, <3>1 DEF StylesOf, WordStyles, ClockStyles
    <3>3. Units[i] \in Fractional
      <4>1. Units[i] \in UnitSet /\ Position[Units[i]] \in 1 .. 10
        BY UnitOrder
      <4>2. Position[Units[i]] \notin 1 .. 4 /\ Position[Units[i]] \notin 5 .. 7
        BY <3>2, <4>1, Places
      <4>3. Position[Units[i]] \in 8 .. 10
        BY <4>1, <4>2
      <4> QED
        BY <4>1, <4>3, Places
    <3> QED
      BY <1>4, <3>1, <3>2, <3>3 DEF InternalStyle
  <2> QED
    BY <2>1, <2>2, <2>3
<1>6. ASSUME NEW i \in 2 .. 10
      PROVE  /\ StyleAt(f, i - 1) = "fractional" => StyleAt(f, i) = "fractional"
             /\ StyleAt(f, i - 1) \in ClockStyles =>
                  StyleAt(f, i) = IF Units[i] \in ClockContinuation THEN "2-digit" ELSE "fractional"
  <2>1. i \in 1 .. 10 /\ i - 1 \in 1 .. 10 /\ i - 1 \in 1 .. 9
    OBVIOUS
  <2>2. ASSUME StyleAt(f, i - 1) \in ClockStyles \cup {"fractional"}
        PROVE  c[i - 1].prev = StyleAt(f, i - 1)
    <3>1. Units[i - 1] \in ClockUnits \cup Fractional
      BY <1>5, <2>1, <2>2
    <3>2. Units[i - 1] \in TracksPrevious
      <4>1. Units[i - 1] \in UnitSet /\ Position[Units[i - 1]] = i - 1
        BY <2>1, UnitOrder
      <4>2. i - 1 \in 5 .. 7 \/ i - 1 \in 8 .. 10
        BY <3>1, <4>1, Places
      <4>3. i - 1 \in 5 .. 9
        BY <2>1, <4>2
      <4> QED
        BY <4>1, <4>3, Places
    <3> QED
      BY <1>4, <2>1, <3>2
  <2>3. ASSUME StyleAt(f, i - 1) = "fractional"
        PROVE  StyleAt(f, i) = "fractional"
    BY <1>4, <2>1, <2>2, <2>3 DEF ValidUnitStyle
  <2>4. ASSUME StyleAt(f, i - 1) \in ClockStyles
        PROVE  StyleAt(f, i) = IF Units[i] \in ClockContinuation THEN "2-digit" ELSE "fractional"
    <3>1. ContinuesClock(c[i - 1].prev)
      BY <2>2, <2>4 DEF ContinuesClock
    <3>2. CASE Units[i] \in ClockContinuation
      BY <1>4, <2>1, <3>1, <3>2
    <3>3. CASE Units[i] \notin ClockContinuation
      <4>1. StyleAt(f, i) = "fractional" \/ StyleAt(f, i) \in ClockStyles
        BY <1>4, <2>1, <3>1 DEF ValidUnitStyle
      <4>2. Units[i] \notin ClockUnits
        <5>1. Position[Units[i]] = i /\ Units[i] \in UnitSet
          BY <2>1, UnitOrder
        <5>2. Units[i - 1] \in ClockUnits /\ Position[Units[i - 1]] = i - 1 /\ Units[i - 1] \in UnitSet
          BY <1>5, <2>1, <2>4, UnitOrder
        <5>3. i - 1 \in 5 .. 7 /\ i \notin 6 .. 7
          BY <3>3, <5>1, <5>2, Places
        <5> QED
          BY <5>1, <5>3, Places
      <4> QED
        BY <1>5, <2>1, <3>3, <4>1, <4>2
    <3> QED
      BY <3>2, <3>3
  <2> QED
    BY <2>3, <2>4
<1>7. \A u \in UnitSet : \E i \in 1 .. 10 : u = Units[i]
  BY UnitOrder
<1> QED
  BY <1>1, <1>5, <1>6, <1>7 DEF Sound, StyleAt, f

-------------------------------------------------------------------------------
(* The numbers among the parts. *)

Kept(s, K) == At(s, {k \in DOMAIN s : s[k] \in K})

LEMMA KeptConcat ==
  ASSUME NEW R, NEW K, NEW s \in Seq(R), NEW t \in Seq(R)
  PROVE  Kept(s \o t, K) = Kept(s, K) \o Kept(t, K)
<1> DEFINE m == Len(s)
           n == Len(t)
           w == s \o t
           S == {k \in DOMAIN s : s[k] \in K}
           T == {k \in DOMAIN t : t[k] \in K}
           W == {k \in DOMAIN w : w[k] \in K}
<1>1. /\ m \in Nat /\ n \in Nat /\ DOMAIN s = 1 .. m /\ DOMAIN t = 1 .. n
      /\ \A i \in 1 .. m : s[i] \in R
      /\ \A i \in 1 .. n : t[i] \in R
  BY LenProperties, ElementOfSeq
<1>2. /\ w \in Seq(R) /\ Len(w) = m + n /\ DOMAIN w = 1 .. m + n
      /\ \A i \in 1 .. m + n : w[i] = IF i <= m THEN s[i] ELSE t[i - m]
  BY ConcatProperties
<1>3. PICK a \in [0 .. m -> Seq(R)] : Choosing(a, s, S)
  BY ChoosingExists
<1>4. PICK b \in [0 .. n -> Seq(R)] : Choosing(b, t, T)
  BY ChoosingExists
<1>5. PICK c \in [0 .. m + n -> Seq(R)] : Choosing(c, w, W)
  <2> HIDE DEF w, W
  <2>1. \E c \in [0 .. Len(w) -> Seq(R)] : Choosing(c, w, W)
    BY <1>2, ChoosingExists
  <2> QED
    BY <1>2, <2>1
<1>6. /\ a[0] = <<>> /\ At(s, S) = a[m]
      /\ \A k \in 1 .. m : a[k] = IF s[k] \in K THEN Append(a[k - 1], s[k]) ELSE a[k - 1]
  BY <1>1, <1>3 DEF Choosing
<1>7. /\ b[0] = <<>> /\ At(t, T) = b[n]
      /\ \A k \in 1 .. n : b[k] = IF t[k] \in K THEN Append(b[k - 1], t[k]) ELSE b[k - 1]
  BY <1>1, <1>4 DEF Choosing
<1>8. /\ c[0] = <<>> /\ At(w, W) = c[m + n]
      /\ \A k \in 1 .. m + n : c[k] = IF w[k] \in K THEN Append(c[k - 1], w[k]) ELSE c[k - 1]
  BY <1>2, <1>5 DEF Choosing
<1> HIDE DEF m, n, w, S, T, W
<1> DEFINE Same == {i \in Nat : i <= m => c[i] = a[i]}
<1>9. 0 \in Same
  BY <1>6, <1>8
<1>10. ASSUME NEW i \in Nat, i \in Same
       PROVE  i + 1 \in Same
  <2>1. ASSUME NEW k \in 1 .. m, k - 1 = i
        PROVE  c[k] = a[k]
    <3>1. k \in 1 .. m + n /\ k <= m /\ i <= m
      BY <1>1, <2>1
    <3> QED
      BY <1>2, <1>6, <1>8, <1>10, <2>1, <3>1
  <2>2. i + 1 <= m => i + 1 \in 1 .. m /\ (i + 1) - 1 = i
    BY <1>1
  <2> QED
    BY <2>1, <2>2
<1>11. c[m] = a[m] /\ a[m] \in Seq(R)
  <2>1. Nat \subseteq Same
    <3> HIDE DEF Same
    <3> QED
      BY <1>9, <1>10, Induction
  <2> QED
    BY <1>1, <2>1
<1> DEFINE Then == {i \in Nat : i <= n => c[m + i] = a[m] \o b[i]}
<1>12. 0 \in Then
  <2>1. m + 0 = m /\ a[m] \o <<>> = a[m]
    BY <1>1, <1>11, ConcatEmptySeq
  <2> QED
    BY <1>7, <1>11, <2>1
<1>13. ASSUME NEW i \in Nat, i \in Then
       PROVE  i + 1 \in Then
  <2>1. ASSUME NEW j \in 1 .. n, j - 1 = i, NEW k \in 1 .. m + n, k = m + j, k - 1 = m + i
        PROVE  c[k] = a[m] \o b[j]
    <3>1. i <= n /\ i \in 0 .. n /\ ~(k <= m) /\ k - m = j
      BY <1>1, <2>1
    <3>2. c[k - 1] = a[m] \o b[i] /\ b[i] \in Seq(R) /\ t[j] \in R
      BY <1>1, <1>13, <2>1, <3>1
    <3>3. w[k] = t[j]
      BY <1>2, <3>1
    <3>4. CASE t[j] \in K
      <4>1. c[k] = Append(a[m] \o b[i], t[j])
        BY <1>8, <3>2, <3>3, <3>4
      <4>2. b[j] = Append(b[i], t[j])
        BY <1>7, <2>1, <3>4
      <4>3. Append(a[m] \o b[i], t[j]) = a[m] \o Append(b[i], t[j])
        <5> DEFINE x == a[m]
                   y == b[i]
                   z == t[j]
        <5>1. x \in Seq(R) /\ y \in Seq(R) /\ z \in R
          BY <1>11, <3>2
        <5> HIDE DEF x, y, z
        <5>2. LastStays(x, y, z)
          BY <5>1, AppendConcat
        <5> QED
          BY <5>2 DEF x, y, z, LastStays
      <4> QED
        BY <4>1, <4>2, <4>3
    <3>5. CASE t[j] \notin K
      BY <1>7, <1>8, <2>1, <3>2, <3>3, <3>5
    <3> QED
      BY <3>4, <3>5
  <2>2. ASSUME i + 1 <= n
        PROVE  c[m + (i + 1)] = a[m] \o b[i + 1]
    <3> DEFINE j == i + 1
               k == m + j
    <3>1. j \in 1 .. n /\ j - 1 = i /\ k \in 1 .. m + n /\ k = m + j /\ k - 1 = m + i
      BY <1>1, <2>2
    <3> HIDE DEF j, k
    <3>2. c[k] = a[m] \o b[j]
      BY <2>1, <3>1
    <3> QED
      BY <3>2 DEF j, k
  <2>3. i + 1 \in Nat
    OBVIOUS
  <2> QED
    BY <2>2, <2>3
<1>14. c[m + n] = a[m] \o b[n]
  <2>1. Nat \subseteq Then
    <3> HIDE DEF Then
    <3> QED
      BY <1>12, <1>13, Induction
  <2> QED
    BY <1>1, <2>1
<1> QED
  BY <1>6, <1>7, <1>8, <1>14 DEF Kept, S, T, W, w

LEMMA KeptAll ==
  ASSUME NEW R, NEW K, NEW s \in Seq(R), \A k \in DOMAIN s : s[k] \in K
  PROVE  Kept(s, K) = s
<1> DEFINE n == Len(s)
           e == [i \in 1 .. n |-> i]
<1>1. n \in Nat /\ DOMAIN s = 1 .. n
  BY LenProperties
<1> DEFINE places == {k \in DOMAIN s : s[k] \in K}
<1>2. places = {e[i] : i \in 1 .. n}
  BY <1>1
<1>3. e \in [1 .. n -> 1 .. n] /\ \A i \in 1 .. n : e[i] = i
  OBVIOUS
<1>4. \A i, j \in 1 .. n : i < j => e[i] < e[j]
  BY <1>3
<1> HIDE DEF e, places
<1>5. /\ At(s, places) \in Seq(R)
      /\ Len(At(s, places)) = n
      /\ \A i \in 1 .. n : At(s, places)[i] = s[e[i]]
  <2>1. InOrder(e, n, s, places)
    BY <1>1, <1>2, <1>3, <1>4 DEF InOrder
  <2>2. Listed(At(s, places), R, e, n, s)
    BY <1>1, <2>1, AtPlaces
  <2> QED
    BY <2>2 DEF Listed
<1> DEFINE x == At(s, places)
<1>6. \A i \in 1 .. Len(x) : x[i] = s[i]
  <2> HIDE DEF x
  <2>1. Len(x) = n /\ \A i \in 1 .. n : x[i] = s[e[i]]
    BY <1>5 DEF x
  <2> QED
    BY <1>3, <2>1
<1>7. Kept(s, K) = x
  BY DEF Kept, places
<1> HIDE DEF x
<1>8. x \in Seq(R) /\ Len(x) = Len(s)
  BY <1>5 DEF x
<1>9. x = s
  BY <1>6, <1>8, SeqEqual
<1> QED
  BY <1>7, <1>9

LEMMA KeptNone ==
  ASSUME NEW R, NEW K, NEW e \in R, e \notin K
  PROVE  Kept(<<e>>, K) = <<>>
<1> DEFINE s == <<e>>
           places == {k \in DOMAIN s : s[k] \in K}
<1>1. s \in Seq(R) /\ Len(s) = 1 /\ places = {}
  OBVIOUS
<1> HIDE DEF s, places
<1>2. PICK c \in [0 .. Len(s) -> Seq(R)] : Choosing(c, s, places)
  BY <1>1, ChoosingExists
<1>3. 1 \in 1 .. Len(s) /\ 1 - 1 = 0
  BY <1>1
<1>4. c[1] = c[1 - 1]
  BY <1>1, <1>2, <1>3 DEF Choosing
<1>5. At(s, places) = <<>>
  BY <1>1, <1>2, <1>3, <1>4 DEF Choosing
<1> QED
  BY <1>5 DEF Kept, s, places

LEMMA KeptEmpty ==
  ASSUME NEW K
  PROVE  Kept(<<>>, K) = <<>>
<1>1. <<>> \in Seq({}) /\ \A k \in DOMAIN <<>> : <<>>[k] \in K
  OBVIOUS
<1> QED
  BY <1>1, KeptAll

\* Each element of the parts takes the next group.
Counted(listed, n) ==
  /\ GroupAt(listed, 0) = 0 /\ GroupAt(listed, Len(listed)) = n
  /\ \A i \in 0 .. Len(listed) : GroupAt(listed, i) \in 0 .. n
  /\ \A i \in 1 .. Len(listed) :
       GroupAt(listed, i) = IF listed[i].type = "element" THEN GroupAt(listed, i - 1) + 1
                            ELSE GroupAt(listed, i - 1)

LEMMA GroupsCounted ==
  ASSUME NEW listed \in Seq(ListPart), NEW list \in Seq(Value), NEW e, Shows(e, listed, list, 1)
  PROVE  Counted(listed, Len(list))
<1> DEFINE n    == Len(list)
           many == Len(listed)
           S(i) == {j \in 1 .. i : listed[j].type = "element"}
<1>1. n \in Nat /\ many \in Nat /\ DOMAIN listed = 1 .. many
  BY LenProperties
<1>2. \A i : GroupAt(listed, i) = Cardinality(S(i))
  BY DEF GroupAt
<1>3. IsFiniteSet(S(many)) /\ Cardinality(S(many)) = n
  <2>1. S(many) = {j \in DOMAIN listed : listed[j].type = "element"}
    BY <1>1
  <2> HIDE DEF S
  <2> QED
    BY <2>1, ShownPlaces
<1>4. \A i \in 0 .. many : S(i) \in SUBSET S(many)
  BY <1>1
<1>5. S(0) = {}
  OBVIOUS
<1>6. \A i \in 1 .. many :
        IF listed[i].type = "element" THEN S(i) = S(i - 1) \cup {i} /\ i \notin S(i - 1)
        ELSE S(i) = S(i - 1)
  BY <1>1
<1> HIDE DEF n, many, S
<1>7. \A i \in 0 .. many : IsFiniteSet(S(i)) /\ Cardinality(S(i)) \in 0 .. n
  <2>1. \A i \in 0 .. many : IsFiniteSet(S(i)) /\ Cardinality(S(i)) <= n
    BY <1>3, <1>4, FS_Subset
  <2>2. \A i \in 0 .. many : Cardinality(S(i)) \in Nat
    BY <2>1, FS_CardinalityType
  <2> QED
    BY <1>1, <2>1, <2>2
<1>8. Cardinality(S(0)) = 0
  BY <1>5, FS_EmptySet
<1>9. ASSUME NEW i \in 1 .. many
      PROVE  GroupAt(listed, i) = IF listed[i].type = "element" THEN GroupAt(listed, i - 1) + 1
                                  ELSE GroupAt(listed, i - 1)
  <2>1. PICK h \in 0 .. many : h = i - 1
    BY <1>1
  <2>2. IsFiniteSet(S(h))
    BY <1>7
  <2>3. listed[i].type = "element" => Cardinality(S(i)) = Cardinality(S(h)) + 1
    BY <1>6, <2>1, <2>2, FS_AddElement
  <2>4. listed[i].type # "element" => Cardinality(S(i)) = Cardinality(S(h))
    BY <1>6, <2>1
  <2> QED
    BY <1>2, <2>1, <2>3, <2>4
<1> QED
  BY <1>2, <1>3, <1>7, <1>8, <1>9 DEF Counted, n, many

\* The groups woven into a list are there as they were.
Woven(K, listed, groups) ==
  /\ DurationListFormatParts(listed, groups) \in Seq(ListPart \cup K)
  /\ Kept(DurationListFormatParts(listed, groups), K) = FlattenSeq(groups)

LEMMA GroupsWoven ==
  ASSUME NEW K, K \cap ListPart = {}, NEW groups \in Seq(Seq(K)), NEW listed \in Seq(ListPart),
         Counted(listed, Len(groups))
  PROVE  Woven(K, listed, groups)
<1> DEFINE R    == ListPart \cup K
           n    == Len(groups)
           many == Len(listed)
           at   == [i \in 0 .. many |-> GroupAt(listed, i)]
           pieces == [i \in DOMAIN listed |->
                        IF listed[i].type = "element" THEN groups[GroupAt(listed, i)] ELSE <<listed[i]>>]
<1>1. /\ n \in Nat /\ many \in Nat /\ DOMAIN listed = 1 .. many
      /\ \A i \in 1 .. many : listed[i] \in ListPart
      /\ \A i \in 1 .. n : groups[i] \in Seq(K)
  BY LenProperties, ElementOfSeq
<1>2. /\ at[0] = 0 /\ at[many] = n
      /\ \A i \in 0 .. many : at[i] \in 0 .. n
      /\ \A i \in 1 .. many : at[i] = IF listed[i].type = "element" THEN at[i - 1] + 1 ELSE at[i - 1]
      /\ \A i \in 1 .. many : at[i] = GroupAt(listed, i)
  <2>1. \A i \in 1 .. many : i \in 0 .. many /\ i - 1 \in 0 .. many
    BY <1>1
  <2>2. 0 \in 0 .. many /\ many \in 0 .. many
    BY <1>1
  <2> QED
    BY <2>1, <2>2 DEF Counted
<1> HIDE DEF at
<1>3. \A i \in 1 .. many : listed[i].type = "element" => at[i] \in 1 .. n
  <2> SUFFICES ASSUME NEW i \in 1 .. many, listed[i].type = "element" PROVE at[i] \in 1 .. n
    OBVIOUS
  <2>1. PICK h \in 0 .. many : h = i - 1
    BY <1>1
  <2>2. at[i] = at[h] + 1 /\ at[h] \in 0 .. n /\ at[i] \in 0 .. n
    <3>1. i \in 0 .. many
      BY <1>1
    <3> QED
      BY <1>2, <2>1, <3>1
  <2> QED
    BY <1>1, <2>2
<1>4. /\ \A i \in 1 .. many : pieces[i] = IF listed[i].type = "element" THEN groups[at[i]]
                                         ELSE <<listed[i]>>
      /\ \A i \in 1 .. many : pieces[i] \in Seq(R)
      /\ pieces \in Seq(Seq(R)) /\ Len(pieces) = many
  <2> HIDE DEF n, many
  <2>1. \A i \in 1 .. many : pieces[i] = IF listed[i].type = "element" THEN groups[at[i]]
                                         ELSE <<listed[i]>>
    BY <1>1, <1>2
  <2>2. DOMAIN pieces = 1 .. many /\ pieces = [i \in 1 .. many |-> pieces[i]]
    BY <1>1
  <2> HIDE DEF pieces
  <2>3. ASSUME NEW i \in 1 .. many
        PROVE  pieces[i] \in Seq(R)
    <3>1. CASE listed[i].type = "element"
      <4>1. groups[at[i]] \in Seq(K)
        BY <1>1, <1>3, <3>1
      <4>2. Seq(K) \subseteq Seq(R)
        OBVIOUS
      <4> QED
        BY <2>1, <3>1, <4>1, <4>2
    <3>2. CASE listed[i].type # "element"
      <4>1. pieces[i] = <<listed[i]>> /\ listed[i] \in R
        BY <1>1, <2>1, <3>2
      <4> QED
        BY <4>1
    <3> QED
      BY <3>1, <3>2
  <2>4. pieces \in [1 .. many -> Seq(R)]
    BY <2>2, <2>3
  <2>5. pieces \in Seq(Seq(R)) /\ Len(pieces) = many
    BY <1>1, <2>4, FunctionIsSeq
  <2> QED
    BY <2>1, <2>3, <2>5
<1>5. DurationListFormatParts(listed, groups) = FlattenSeq(pieces)
  BY DEF DurationListFormatParts
<1> HIDE DEF pieces, R
<1>6. PICK f \in [0 .. many -> Seq(R)] : Flattening(f, pieces)
  <2>1. \E f \in [0 .. Len(pieces) -> Seq(R)] : Flattening(f, pieces)
    BY <1>4, FlatteningExists
  <2> QED
    BY <1>4, <2>1
<1>7. PICK g \in [0 .. n -> Seq(K)] : Flattening(g, groups)
  BY FlatteningExists
<1> HIDE DEF n, many
<1>8. /\ f[0] = <<>> /\ \A i \in 1 .. many : f[i] = f[i - 1] \o pieces[i]
      /\ FlattenSeq(pieces) = f[many]
  BY <1>4, <1>6 DEF Flattening
<1>9. /\ g[0] = <<>> /\ \A i \in 1 .. n : g[i] = g[i - 1] \o groups[i]
      /\ FlattenSeq(groups) = g[n]
  BY <1>7 DEF Flattening, n
<1>10. ASSUME NEW i \in 1 .. many, NEW h \in 0 .. many, h = i - 1, Kept(f[h], K) = g[at[h]]
       PROVE  Kept(f[i], K) = g[at[i]]
  <2> DEFINE x == f[h]
             y == pieces[i]
  <2>1. x \in Seq(R) /\ y \in Seq(R) /\ f[i] = x \o y
    BY <1>4, <1>8, <1>10
  <2> HIDE DEF x, y
  <2>2. Kept(x \o y, K) = Kept(x, K) \o Kept(y, K)
    BY <2>1, KeptConcat
  <2>3. Kept(x, K) = g[at[h]] /\ g[at[h]] \in Seq(K)
    BY <1>2, <1>10 DEF x
  <2>4. CASE listed[i].type = "element"
    <3>1. at[i] = at[h] + 1 /\ at[i] \in 1 .. n /\ at[h] = at[i] - 1
      <4>1. at[i] = at[h] + 1 /\ at[i] \in 1 .. n
        BY <1>2, <1>3, <1>10, <2>4
      <4>2. at[h] \in Int
        BY <1>2
      <4> QED
        BY <4>1, <4>2
    <3>2. y = groups[at[i]] /\ y \in Seq(K)
      BY <1>1, <1>4, <2>4, <3>1 DEF y, n
    <3>3. Kept(y, K) = y
      <4>1. \A k \in DOMAIN y : y[k] \in K
        BY <3>2, LenProperties, ElementOfSeq
      <4> QED
        BY <2>1, <4>1, KeptAll
    <3>4. g[at[i]] = g[at[h]] \o groups[at[i]]
      BY <1>9, <3>1
    <3> QED
      BY <2>1, <2>2, <2>3, <3>2, <3>3, <3>4
  <2>5. CASE listed[i].type # "element"
    <3>1. at[i] = at[h]
      BY <1>2, <1>10, <2>5
    <3>2. y = <<listed[i]>> /\ listed[i] \in ListPart
      BY <1>1, <1>4, <2>5 DEF y, many
    <3>3. Kept(y, K) = <<>>
      <4>1. listed[i] \notin K
        BY <3>2
      <4> QED
        BY <3>2, <4>1, KeptNone
    <3>4. g[at[h]] \o <<>> = g[at[h]]
      BY <2>3, ConcatEmptySeq
    <3> QED
      BY <2>1, <2>2, <2>3, <3>1, <3>3, <3>4
  <2> QED
    BY <2>4, <2>5
<1> DEFINE Same == {i \in Nat : i <= many => Kept(f[i], K) = g[at[i]]}
<1>11. 0 \in Same
  BY <1>2, <1>8, <1>9, KeptEmpty
<1>12. ASSUME NEW i \in Nat, i \in Same
       PROVE  i + 1 \in Same
  <2>1. ASSUME NEW k \in 1 .. many, i = k - 1
        PROVE  Kept(f[k], K) = g[at[k]]
    <3>1. i \in 0 .. many
      BY <1>1, <2>1 DEF many
    <3> QED
      BY <1>10, <1>12, <2>1, <3>1
  <2>2. i + 1 <= many => i + 1 \in 1 .. many /\ i = (i + 1) - 1
    BY <1>1 DEF many
  <2> QED
    BY <2>1, <2>2
<1>13. Kept(f[many], K) = g[n]
  <2>1. Nat \subseteq Same
    <3> HIDE DEF Same
    <3> QED
      BY <1>11, <1>12, Induction
  <2>2. many \in Nat
    BY <1>1 DEF many
  <2> QED
    BY <1>2, <2>1, <2>2
<1>14. f[many] \in Seq(R)
  BY <1>1, <1>6 DEF many
<1> QED
  BY <1>5, <1>8, <1>9, <1>13, <1>14 DEF Woven, R

LEMMA PlaceholdersType ==
  ASSUME NEW R, NEW groups \in Seq(R)
  PROVE  Placeholders(groups) \in Seq(Value) /\ Len(Placeholders(groups)) = Len(groups)
<1>1. DOMAIN groups = 1 .. Len(groups) /\ Len(groups) \in Nat
  BY LenProperties
<1>2. <<>> \in Value
  BY DEF Value
<1>3. Placeholders(groups) \in [1 .. Len(groups) -> Value]
  BY <1>1, <1>2 DEF Placeholders
<1> QED
  BY <1>1, <1>3, FunctionIsSeq

LEMMA PartsNumbers ==
  ASSUME NEW f, NEW d, NEW groups, groups = Partition(f, d),
         NEW patterns, HasTemplates(patterns), NEW listed,
         listed = Listing(CompileListTemplates(patterns), Placeholders(groups)),
         NEW made, made = DurationListFormatParts(listed.parts, groups)
  PROVE  At(made, {k \in DOMAIN made : "unit" \in DOMAIN made[k]}) = FlattenSeq(groups)
<1> DEFINE K         == NumbersOf(f, d)
           templates == CompileListTemplates(patterns)
           list      == Placeholders(groups)
           shown     == ListParts(templates, list)
<1>1. groups \in Seq(Seq(K))
  BY PartitionType
<1>2. list \in Seq(Value) /\ Len(list) = Len(groups)
  BY <1>1, PlaceholdersType
<1>3. Compiled(templates)
  BY CompiledTemplates
<1>4. listed.parts = shown
  BY DEF Listing
<1> HIDE DEF K, templates, list
<1>5. shown \in Seq(ListPart) /\ \E e : Shows(e, shown, list, 1)
  BY <1>2, <1>3, ListFormatted
<1> HIDE DEF shown
<1>6. Counted(shown, Len(groups))
  <2>1. Counted(shown, Len(list))
    BY <1>2, <1>5, GroupsCounted
  <2> QED
    BY <1>2, <2>1
<1>7. \A n \in K : "unit" \in DOMAIN n
  BY DEF K, NumbersOf, IntegerNumber, FractionalNumber
<1>8. \A p \in ListPart : "unit" \notin DOMAIN p
  BY DEF ListPart
<1>9. K \cap ListPart = {}
  BY <1>7, <1>8
<1>10. Woven(K, shown, groups)
  BY <1>1, <1>5, <1>6, <1>9, GroupsWoven
<1>11. made \in Seq(ListPart \cup K) /\ Kept(made, K) = FlattenSeq(groups)
  BY <1>4, <1>10 DEF Woven
<1>12. {k \in DOMAIN made : "unit" \in DOMAIN made[k]} = {k \in DOMAIN made : made[k] \in K}
  <2>1. \A k \in DOMAIN made : made[k] \in ListPart \cup K
    BY <1>11, LenProperties, ElementOfSeq
  <2> QED
    BY <1>7, <1>8, <2>1
<1> QED
  BY <1>11, <1>12 DEF Kept

\* What is formatted is laid out, and the numbers among its parts are the groups.
LaidOut ==
  Formatted =>
    /\ Sound(formatter)
    /\ duration \in [UnitSet -> Int] /\ ~MixedSigns(duration)
    /\ result = Partition(formatter, duration)
    /\ Numbers = FlattenSeq(result)

LEMMA FormatLaysOut ==
  ASSUME ConstructedFromRequest, Format
  PROVE  LaidOut'
<1> SUFFICES ASSUME Formatted' PROVE LaidOut'
  BY DEF LaidOut
<1>1. PICK d \in Durations :
        /\ duration' = d
        /\ result' = FormatToParts(formatter, d)
        /\ IF result' \in {Rejected, <<>>} THEN parts' = <<>> /\ listing' = <<>>
           ELSE /\ listing' = Listing(CompileListTemplates(UnitListPatterns[ListStyle(formatter.base)]),
                                     Placeholders(result'))
                /\ parts' = DurationListFormatParts(listing'.parts, result')
  BY DEF Format
<1>2. formatter' = formatter /\ result' # Rejected /\ Constructed
  BY DEF Format, Formatted
<1>3. result' = Partition(formatter, d) /\ ValidDuration(d) /\ \A u \in UnitSet : d[u] # NotIntegral
  BY <1>1, <1>2 DEF FormatToParts
<1>4. d \in [UnitSet -> Int] /\ ~MixedSigns(d)
  <2>1. d \in [UnitSet -> Int \cup {NotIntegral}]
    BY Options
  <2> QED
    BY <1>3, <2>1 DEF ValidDuration
<1>5. Sound(formatter)
  BY <1>2, ConstructedSound DEF ConstructedFromRequest, Constructed
<1>6. Numbers' = FlattenSeq(result')
  <2> DEFINE made == parts'
             groups == result'
  <2>1. CASE groups = <<>>
    <3>1. made = <<>>
      BY <1>1, <2>1
    <3>2. Numbers' = At(made, {k \in DOMAIN made : "unit" \in DOMAIN made[k]})
      BY DEF Numbers
    <3> HIDE DEF made
    <3>3. {k \in DOMAIN made : "unit" \in DOMAIN made[k]} = {k \in DOMAIN <<>> : <<>>[k] \in {}}
      BY <3>1
    <3>4. Numbers' = Kept(<<>>, {})
      BY <3>1, <3>2, <3>3 DEF Kept
    <3> QED
      BY <2>1, <3>4, KeptEmpty, FlattenEmpty
  <2>2. CASE groups # <<>>
    <3> DEFINE patterns == UnitListPatterns[ListStyle(formatter.base)]
               listed   == listing'
    <3>1. /\ listed = Listing(CompileListTemplates(patterns), Placeholders(groups))
          /\ made = DurationListFormatParts(listed.parts, groups)
      BY <1>1, <1>2, <2>2
    <3>2. HasTemplates(patterns)
      <4>1. ListStyle(formatter.base) \in WordStyles
        BY <1>2, ConstructedBase DEF Bases, ListStyle, WordStyles
      <4> QED
        BY <4>1, Options
    <3>3. Numbers' = At(made, {k \in DOMAIN made : "unit" \in DOMAIN made[k]})
      BY DEF Numbers
    <3>4. groups = Partition(formatter, d)
      BY <1>3
    <3> HIDE DEF patterns, listed, made, groups
    <3>5. At(made, {k \in DOMAIN made : "unit" \in DOMAIN made[k]}) = FlattenSeq(groups)
      BY <3>1, <3>2, <3>4, PartsNumbers
    <3> QED
      BY <3>3, <3>5 DEF groups
  <2> QED
    BY <2>1, <2>2
<1> QED
  BY <1>1, <1>2, <1>3, <1>4, <1>5, <1>6 DEF LaidOut

LEMMA LayoutInvariant == Spec => []LaidOut
<1>1. Init => LaidOut
  BY DEF Init, LaidOut, Formatted
<1>2. ConstructedFromRequest /\ LaidOut /\ [Next]_vars => LaidOut'
  <2> SUFFICES ASSUME ConstructedFromRequest, LaidOut, [Next]_vars
               PROVE  LaidOut'
    OBVIOUS
  <2>1. CASE New
    BY <2>1 DEF New, ConstructWith, LaidOut, Formatted
  <2>2. CASE Rebuild
    BY <2>2 DEF Rebuild, ConstructWith, LaidOut, Formatted
  <2>3. CASE Format
    BY <2>3, FormatLaysOut
  <2>4. CASE JoinList
    BY <2>4 DEF JoinList, LaidOut, Formatted, Numbers
  <2>5. CASE UNCHANGED vars
    BY <2>5 DEF vars, LaidOut, Formatted, Numbers
  <2> QED
    BY <2>1, <2>2, <2>3, <2>4, <2>5 DEF Next
<1> QED
  BY <1>1, <1>2, Construction, PTL DEF Spec

-------------------------------------------------------------------------------
(* What a duration is worth. *)

\* Each unit in nanoseconds, those of the calendar as nothing.
Worth(d) == [i \in 1 .. 10 |-> IF Units[i] \in CalendarUnits THEN 0
                               ELSE Magnitude(d[Units[i]]) * NanosecondsPerUnit[Units[i]]]

LEMMA TenUnits == IsFiniteSet(1 .. 10)
<1> DEFINE n == 10
<1>1. 1 \in Int /\ n \in Int
  OBVIOUS
<1> HIDE DEF n
<1>2. IsFiniteSet(1 .. n)
  BY <1>1, FS_Interval
<1> QED
  BY <1>2 DEF n

\* The worth of sets of units, added up.
Totals(t, d) == Summing(t, 1 .. 10, 0, Worth(d))

LEMMA Positive ==
  /\ \A x \in Int, k \in Nat \ {0} : Magnitude(x) * k \in Nat /\ (Magnitude(x) * k = 0 <=> x = 0)
  /\ \A x \in Int : Magnitude(x) \in Nat /\ (Magnitude(x) = 0 <=> x = 0)
  /\ \A x \in Int, k \in Nat \ {0} :
       /\ x >= 0 => x * k = Magnitude(x) * k
       /\ x <= 0 => x * k = -(Magnitude(x) * k)
<1>1. \A x \in Int : Magnitude(x) \in Nat /\ (Magnitude(x) = 0 <=> x = 0)
  BY DEF Magnitude
<1>2. \A y \in Nat, k \in Nat \ {0} : y * k \in Nat /\ (y * k = 0 <=> y = 0)
  OBVIOUS
<1>3. ASSUME NEW x \in Int, NEW k \in Nat \ {0}
      PROVE  /\ x >= 0 => x * k = Magnitude(x) * k
             /\ x <= 0 => x * k = -(Magnitude(x) * k)
  <2>1. x >= 0 => Magnitude(x) = x
    BY DEF Magnitude
  <2>2. x <= 0 => Magnitude(x) = -x
    BY DEF Magnitude
  <2>3. (-x) * k = -(x * k) /\ x * k \in Int
    OBVIOUS
  <2> QED
    BY <2>1, <2>2, <2>3
<1> QED
  BY <1>1, <1>2, <1>3

LEMMA CalendarPlaces ==
  /\ \A i \in 1 .. 10 : Units[i] \in CalendarUnits <=> i <= 3
  /\ UnitSet \ CalendarUnits = {"days", "hours", "minutes", "seconds",
                                "milliseconds", "microseconds", "nanoseconds"}
<1>1. \A i \in 1 .. 10 : i \in {1, 2, 3, 4, 5, 6, 7, 8, 9, 10}
  OBVIOUS
<1>2. \A i \in 1 .. 10 : Units[i] \in CalendarUnits <=> i <= 3
  BY <1>1 DEF Units, CalendarUnits
<1> QED
  BY <1>2, UnitOrder DEF CalendarUnits

LEMMA WorthType ==
  ASSUME NEW d \in [UnitSet -> Int]
  PROVE  /\ Worth(d) \in [1 .. 10 -> Nat]
         /\ \A i \in 1 .. 10 : d[Units[i]] = 0 => Worth(d)[i] = 0
         /\ \A i \in 4 .. 10 : Worth(d)[i] = Magnitude(d[Units[i]]) * NanosecondsPerUnit[Units[i]]
         /\ \A i \in 4 .. 10 : Worth(d)[i] = 0 <=> d[Units[i]] = 0
         /\ \A i \in 1 .. 3 : Worth(d)[i] = 0
<1>1. ASSUME NEW i \in 4 .. 10
      PROVE  /\ Worth(d)[i] = Magnitude(d[Units[i]]) * NanosecondsPerUnit[Units[i]]
             /\ Worth(d)[i] \in Nat
             /\ Worth(d)[i] = 0 <=> d[Units[i]] = 0
  <2>1. i \in 1 .. 10 /\ ~(i <= 3)
    OBVIOUS
  <2>2. Units[i] \in UnitSet \ CalendarUnits
    BY <2>1, CalendarPlaces, UnitOrder
  <2>3. d[Units[i]] \in Int /\ NanosecondsPerUnit[Units[i]] \in Nat \ {0}
    BY <2>2, Scales
  <2>4. Worth(d)[i] = Magnitude(d[Units[i]]) * NanosecondsPerUnit[Units[i]]
    BY <2>1, <2>2 DEF Worth
  <2> QED
    BY <2>3, <2>4, Positive
<1>2. ASSUME NEW i \in 1 .. 3
      PROVE  Worth(d)[i] = 0
  BY CalendarPlaces DEF Worth
<1>3. \A i \in 1 .. 10 : i \in 1 .. 3 \/ i \in 4 .. 10
  OBVIOUS
<1>4. Worth(d) = [i \in 1 .. 10 |-> Worth(d)[i]]
  BY DEF Worth
<1>5. \A i \in 1 .. 10 : Worth(d)[i] \in Nat
  BY <1>1, <1>2, <1>3
<1> QED
  BY <1>1, <1>2, <1>3, <1>4, <1>5

LEMMA TotalsExist ==
  ASSUME NEW d \in [UnitSet -> Int]
  PROVE  \E t : Totals(t, d)
<1> DEFINE S == 1 .. 10
           W == Worth(d)
           base == 0
<1>1. W \in [S -> Int] /\ IsFiniteSet(S) /\ base \in Int
  BY WorthType, TenUnits
<1> HIDE DEF S, W, base
<1>2. \E t : Summing(t, S, base, W)
  BY <1>1, SummingExists
<1> QED
  BY <1>2 DEF Totals, S, W, base

\* The totals of intervals, one unit more at a time.
LEMMA TotalsSteps ==
  ASSUME NEW d \in [UnitSet -> Int], NEW t, Totals(t, d)
  PROVE  /\ \A a \in 1 .. 11 : t[a .. a - 1] = 0
         /\ \A a \in 1 .. 10, b \in 1 .. 10 : a <= b => t[a .. b] = t[a .. b - 1] + Worth(d)[b]
         /\ \A a \in 1 .. 11, b \in 0 .. 10 : t[a .. b] \in Nat
<1>1. Worth(d) \in [1 .. 10 -> Nat] /\ IsFiniteSet(1 .. 10) /\ 0 \in Int
  BY WorthType, TenUnits
<1>2. Worth(d) \in [1 .. 10 -> Int]
  BY <1>1
<1>3. \A s \in SUBSET (1 .. 10) : \A x \in s : t[s] = t[s \ {x}] + Worth(d)[x]
  <2> DEFINE S == 1 .. 10
             W == Worth(d)
             base == 0
  <2>1. /\ IsFiniteSet(S) /\ W \in [S -> Int] /\ base \in Int /\ Summing(t, S, base, W)
    BY <1>1, <1>2 DEF Totals
  <2> HIDE DEF S, W, base
  <2>2. AnyLast(t, S, W)
    BY <2>1, SummingAdds
  <2> QED
    BY <2>2 DEF AnyLast, S, W
<1>4. t[{}] = 0
  BY DEF Totals, Summing
<1>5. \A a \in 1 .. 11 : t[a .. a - 1] = 0
  <2>1. \A a \in 1 .. 11 : a .. a - 1 = {}
    OBVIOUS
  <2> QED
    BY <1>4, <2>1
<1>6. ASSUME NEW a \in 1 .. 10, NEW b \in 1 .. 10, a <= b
      PROVE  t[a .. b] = t[a .. b - 1] + Worth(d)[b]
  <2>1. a .. b \in SUBSET (1 .. 10) /\ b \in a .. b /\ (a .. b) \ {b} = a .. b - 1
    BY <1>6
  <2> QED
    BY <1>3, <2>1
<1>7. ASSUME NEW a \in 1 .. 11
      PROVE  \A b \in 0 .. 10 : t[a .. b] \in Nat
  <2> DEFINE Typed == {b \in Nat : b <= 10 => t[a .. b] \in Nat}
  <2>1. \A b \in 0 .. 10 : b < a => a .. b = {}
    OBVIOUS
  <2>2. 0 \in Typed
    BY <1>4, <2>1
  <2>3. ASSUME NEW b \in Nat, b \in Typed
        PROVE  b + 1 \in Typed
    <3>1. ASSUME NEW k \in 1 .. 10, b = k - 1
          PROVE  t[a .. k] \in Nat
      <4>1. CASE a <= k
        <5>1. a \in 1 .. 10 /\ b <= 10
          BY <3>1, <4>1
        <5>2. t[a .. k] = t[a .. b] + Worth(d)[k]
          BY <1>6, <3>1, <4>1, <5>1
        <5>3. t[a .. b] \in Nat /\ Worth(d)[k] \in Nat
          BY <1>1, <2>3, <5>1
        <5> QED
          BY <5>2, <5>3
      <4>2. CASE ~(a <= k)
        BY <1>4, <2>1, <4>2
      <4> QED
        BY <4>1, <4>2
    <3>2. b + 1 <= 10 => b + 1 \in 1 .. 10 /\ b = (b + 1) - 1
      OBVIOUS
    <3> QED
      BY <3>1, <3>2
  <2> HIDE DEF Typed
  <2>4. Nat \subseteq Typed
    BY <2>2, <2>3, Induction
  <2> QED
    BY <2>4 DEF Typed
<1> QED
  BY <1>5, <1>6, <1>7

\* A unit with fractions has the scale of its last digit's power of ten, and is
\* a multiple of the units below it.
LEMMA ScalesNest ==
  ASSUME NEW u \in Parents
  PROVE  /\ FractionWidth(u) \in 0 .. 9 /\ 10^FractionWidth(u) = NanosecondsPerUnit[u]
         /\ \A c \in Descendants(u) : \E q \in Nat \ {0} : NanosecondsPerUnit[u] = q * NanosecondsPerUnit[c]
<1>1. FractionWidth(u) \in 0 .. 9 /\ 10^FractionWidth(u) = NanosecondsPerUnit[u]
  BY Scales DEF FractionWidth
<1>2. /\ Child("seconds") = "milliseconds" /\ Child("milliseconds") = "microseconds"
      /\ Child("microseconds") = "nanoseconds"
  <2>1. /\ Units[7] = "seconds" /\ Units[8] = "milliseconds" /\ Units[9] = "microseconds"
        /\ Units[10] = "nanoseconds"
    BY DEF Units
  <2>2. Position["seconds"] = 7 /\ Position["milliseconds"] = 8 /\ Position["microseconds"] = 9
    BY <2>1, UnitOrder
  <2> QED
    BY <2>1, <2>2 DEF Child
<1> DEFINE s == NanosecondsPerUnit["seconds"]
           l == NanosecondsPerUnit["milliseconds"]
           m == NanosecondsPerUnit["microseconds"]
           n == NanosecondsPerUnit["nanoseconds"]
<1>3. s \in Nat \ {0} /\ l \in Nat \ {0} /\ m \in Nat \ {0} /\ n \in Nat \ {0}
  BY Scales, CalendarPlaces
<1>4. s % l = 0 /\ l % m = 0 /\ m % n = 0
  BY <1>2, Scales DEF Parents
<1> HIDE DEF s, l, m, n
<1>5. \A a \in Nat \ {0}, b \in Nat \ {0} : a % b = 0 => \E q \in Nat \ {0} : a = q * b
  <2> SUFFICES ASSUME NEW a \in Nat \ {0}, NEW b \in Nat \ {0}, a % b = 0
               PROVE  \E q \in Nat \ {0} : a = q * b
    OBVIOUS
  <2>1. PICK q \in Int : a = q * b
    BY MultipleIsProduct
  <2>2. q \in Nat \ {0}
    BY <2>1
  <2> QED
    BY <2>1, <2>2
<1>6. \A p \in Nat \ {0}, q \in Nat \ {0} : p * q \in Nat \ {0}
  OBVIOUS
<1>7. PICK x \in Nat \ {0} : s = x * l
  BY <1>3, <1>4, <1>5
<1>8. PICK y \in Nat \ {0} : l = y * m
  BY <1>3, <1>4, <1>5
<1>9. PICK z \in Nat \ {0} : m = z * n
  BY <1>3, <1>4, <1>5
<1>10. l = (y * z) * n
  BY <1>3, <1>8, <1>9
<1>11. s = (x * y) * m
  BY <1>3, <1>7, <1>8
<1>12. s = (x * (y * z)) * n
  BY <1>3, <1>6, <1>7, <1>10
<1>13. Descendants(u) \subseteq
         IF u = "seconds" THEN {"milliseconds", "microseconds", "nanoseconds"}
         ELSE IF u = "milliseconds" THEN {"microseconds", "nanoseconds"} ELSE {"nanoseconds"}
  <2>1. /\ Position["seconds"] = 7 /\ Position["milliseconds"] = 8
        /\ Position["microseconds"] = 9 /\ Position["nanoseconds"] = 10
    <3>1. /\ Units[7] = "seconds" /\ Units[8] = "milliseconds" /\ Units[9] = "microseconds"
          /\ Units[10] = "nanoseconds"
      BY DEF Units
    <3> QED
      BY <3>1, UnitOrder
  <2> QED
    BY <2>1 DEF Descendants, Fractional, Parents
<1>14. /\ x * y \in Nat \ {0} /\ y * z \in Nat \ {0} /\ x * (y * z) \in Nat \ {0}
  BY <1>6
<1>15. \A c \in Descendants(u) : \E q \in Nat \ {0} : NanosecondsPerUnit[u] = q * NanosecondsPerUnit[c]
  <2> DEFINE xy == x * y
             yz == y * z
             xyz == x * (y * z)
  <2>1. xy \in Nat \ {0} /\ yz \in Nat \ {0} /\ xyz \in Nat \ {0}
    BY <1>14
  <2>2. s = xy * m /\ l = yz * n /\ s = xyz * n
    BY <1>10, <1>11, <1>12
  <2> HIDE DEF xy, yz, xyz
  <2> QED
    BY <1>7, <1>8, <1>9, <1>13, <2>1, <2>2 DEF Parents, s, l, m, n
<1> QED
  BY <1>1, <1>15

LEMMA QuotientOfScales ==
  ASSUME NEW m \in Nat, NEW fine \in Nat \ {0}, NEW q \in Nat \ {0}, NEW coarse, coarse = q * fine
  PROVE  (m * coarse) \div (coarse \div fine) = m * fine
<1>1. coarse \div fine = q
  BY Multiple
<1> DEFINE p == m * fine
<1>2. p \in Int /\ m * coarse = p * q
  OBVIOUS
<1> HIDE DEF p
<1>3. (p * q) \div q = p
  BY <1>2, Multiple
<1> QED
  BY <1>1, <1>2, <1>3 DEF p

LEMMA Below ==
  /\ Units[7] = "seconds" /\ Units[8] = "milliseconds"
  /\ Units[9] = "microseconds" /\ Units[10] = "nanoseconds"
  /\ Position["seconds"] = 7 /\ Position["milliseconds"] = 8
  /\ Position["microseconds"] = 9 /\ Position["nanoseconds"] = 10
  /\ Descendants(Units[7]) = {"milliseconds", "microseconds", "nanoseconds"}
  /\ Descendants(Units[8]) = {"microseconds", "nanoseconds"}
  /\ Descendants(Units[9]) = {"nanoseconds"}
<1>1. /\ Units[7] = "seconds" /\ Units[8] = "milliseconds"
      /\ Units[9] = "microseconds" /\ Units[10] = "nanoseconds"
  BY DEF Units
<1>2. /\ Position["seconds"] = 7 /\ Position["milliseconds"] = 8
      /\ Position["microseconds"] = 9 /\ Position["nanoseconds"] = 10
  BY <1>1, UnitOrder
<1>3. /\ Descendants("seconds") = {"milliseconds", "microseconds", "nanoseconds"}
      /\ Descendants("milliseconds") = {"microseconds", "nanoseconds"}
      /\ Descendants("microseconds") = {"nanoseconds"}
  BY <1>2 DEF Descendants, Fractional
<1> QED
  BY <1>1, <1>2, <1>3

\* The fractions of a unit add up to the worth of the unit and those below it.
LEMMA FractionalWorth ==
  ASSUME NEW d \in [UnitSet -> Int], NEW t, Totals(t, d), NEW p \in 7 .. 9
  PROVE  FractionalAmount(d, Units[p]) = t[p .. 10]
<1> DEFINE u     == Units[p]
           D     == Descendants(u)
           scale == 10^FractionWidth(u)
           base  == Magnitude(d[u]) * scale
           A     == Worth(d)
           W     == [c \in D |-> A[Position[c]]]
           F     == CHOOSE it : it = [s \in SUBSET D |->
                      IF s = {} THEN base
                      ELSE LET x == CHOOSE x \in s : TRUE
                           IN  it[s \ {x}] + (Magnitude(d[x]) * scale)
                                               \div (NanosecondsPerUnit[u] \div NanosecondsPerUnit[x])]
<1>1. FractionalAmount(d, u) = F[D]
  BY DEF FractionalAmount, FoldSet, MapThenFoldSet
<1>2. u \in Parents /\ u \in UnitSet /\ Position[u] = p
  <2>1. p \in {7, 8, 9}
    OBVIOUS
  <2>2. u \in Parents
    BY <2>1 DEF Units, Parents
  <2> QED
    BY <2>2, UnitOrder
<1>3. /\ scale = NanosecondsPerUnit[u]
      /\ \A c \in D : \E q \in Nat \ {0} : NanosecondsPerUnit[u] = q * NanosecondsPerUnit[c]
  BY <1>2, ScalesNest
<1>4. A \in [1 .. 10 -> Nat] /\ \A i \in 4 .. 10 : A[i] = Magnitude(d[Units[i]]) * NanosecondsPerUnit[Units[i]]
  BY WorthType
<1>5. base = A[p] /\ base \in Int
  BY <1>3, <1>4
<1>6. \A c \in D : c \in UnitSet /\ Position[c] \in 8 .. 10 /\ Units[Position[c]] = c
  <2>1. \A c \in D : c \in Fractional /\ c \in UnitSet
    BY UnitOrder DEF Descendants, Fractional
  <2> QED
    BY <2>1, Places, UnitOrder
<1>7. ASSUME NEW c \in D
      PROVE  (Magnitude(d[c]) * scale) \div (NanosecondsPerUnit[u] \div NanosecondsPerUnit[c]) = W[c]
  <2>1. /\ Magnitude(d[c]) \in Nat /\ NanosecondsPerUnit[c] \in Nat \ {0}
        /\ W[c] = Magnitude(d[c]) * NanosecondsPerUnit[c]
    <3>1. Position[c] \in 4 .. 10 /\ Units[Position[c]] = c
      BY <1>6
    <3>2. W[c] = Magnitude(d[c]) * NanosecondsPerUnit[c]
      BY <1>4, <3>1
    <3>3. c \in UnitSet \ CalendarUnits
      <4>1. Position[c] \in 1 .. 10 /\ ~(Position[c] <= 3)
        BY <3>1
      <4> QED
        BY <1>6, <3>1, <4>1, CalendarPlaces
    <3> QED
      BY <3>2, <3>3, Positive, Scales
  <2> DEFINE m      == Magnitude(d[c])
             fine   == NanosecondsPerUnit[c]
             coarse == NanosecondsPerUnit[u]
  <2>2. PICK q \in Nat \ {0} : coarse = q * fine
    BY <1>3
  <2> HIDE DEF m, fine, coarse
  <2>3. m \in Nat /\ fine \in Nat \ {0}
    BY <2>1 DEF m, fine
  <2>4. (m * coarse) \div (coarse \div fine) = m * fine
    BY <2>2, <2>3, QuotientOfScales
  <2> QED
    BY <1>3, <2>1, <2>4 DEF m, fine, coarse
<1>8. W \in [D -> Int] /\ IsFiniteSet(D)
  <2>1. \A c \in D : A[Position[c]] \in Int
    BY <1>4, <1>6
  <2>2. IsFiniteSet(D)
    <3>1. IsFiniteSet({"milliseconds"} \cup {"microseconds"} \cup {"nanoseconds"})
      BY FS_Singleton, FS_Union
    <3>2. D \subseteq {"milliseconds"} \cup {"microseconds"} \cup {"nanoseconds"}
      BY DEF Descendants, Fractional
    <3> HIDE DEF D
    <3> QED
      BY <3>1, <3>2, FS_Subset
  <2> QED
    BY <2>1, <2>2
<1> HIDE DEF W, base
<1>9. Summing(F, D, base, W)
  <2>1. PICK it : Summing(it, D, base, W)
    <3> HIDE DEF D, F
    <3> QED
      BY <1>5, <1>8, SummingExists
  <2>2. it = [s \in SUBSET D |->
                IF s = {} THEN base
                ELSE LET x == CHOOSE x \in s : TRUE
                     IN  it[s \ {x}] + (Magnitude(d[x]) * scale)
                                         \div (NanosecondsPerUnit[u] \div NanosecondsPerUnit[x])]
    <3>1. \A s \in SUBSET D : s # {} => (CHOOSE x \in s : TRUE) \in D
      OBVIOUS
    <3> HIDE DEF D, F, scale, u
    <3> QED
      BY <1>7, <2>1, <3>1 DEF Summing
  <2>3. F = [s \in SUBSET D |->
               IF s = {} THEN base
               ELSE LET x == CHOOSE x \in s : TRUE
                    IN  F[s \ {x}] + (Magnitude(d[x]) * scale)
                                        \div (NanosecondsPerUnit[u] \div NanosecondsPerUnit[x])]
    <3> HIDE DEF D, scale, u
    <3> QED
      BY <2>2
  <2> HIDE DEF F
  <2>4. \A s \in SUBSET D : s # {} => (CHOOSE x \in s : TRUE) \in D
    OBVIOUS
  <2>5. ASSUME NEW s \in SUBSET D, s # {}
        PROVE  F[s] = F[s \ {CHOOSE x \in s : TRUE}] + W[CHOOSE x \in s : TRUE]
    <3> HIDE DEF D, scale, u
    <3> QED
      BY <1>7, <2>3, <2>4, <2>5
  <2>6. F[{}] = base
    BY <2>3
  <2> HIDE DEF D
  <2>7. F = [s \in SUBSET D |-> F[s]]
    BY <2>3
  <2>8. SumRecursion(F, D, base, W)
    BY <2>5, <2>6, <2>7 DEF SumRecursion
  <2> QED
    BY <1>5, <1>8, <2>8, SumRecursionSums
<1> HIDE DEF F, D
<1>10. AnyLast(F, D, W) /\ F[{}] = base
  BY <1>5, <1>8, <1>9, SummingAdds DEF Summing
<1>11. /\ \A a \in 1 .. 10 : t[a .. a - 1] = 0
       /\ \A a \in 1 .. 10, b \in 1 .. 10 : a <= b => t[a .. b] = t[a .. b - 1] + A[b]
       /\ \A i \in 1 .. 10 : A[i] \in Nat
  <2>1. /\ \A a \in 1 .. 11 : t[a .. a - 1] = 0
        /\ \A a \in 1 .. 10, b \in 1 .. 10 : a <= b => t[a .. b] = t[a .. b - 1] + A[b]
    BY TotalsSteps
  <2>2. \A a \in 1 .. 10 : a \in 1 .. 11
    OBVIOUS
  <2> HIDE DEF A
  <2> QED
    BY <1>4, <2>1, <2>2
<1>12. \A x \in D : F[{x}] = base + W[x]
  <2>1. \A x \in D : {x} \in SUBSET D /\ x \in {x} /\ {x} \ {x} = {}
    OBVIOUS
  <2> QED
    BY <1>10, <2>1 DEF AnyLast
<1>13. W = [c \in D |-> A[Position[c]]]
  BY DEF W
<1> HIDE DEF A, u
<1>14. CASE p = 9
  <2>1. D = {"nanoseconds"} /\ Position["nanoseconds"] = 10
    BY <1>14, Below DEF D, u
  <2>2. W["nanoseconds"] = A[10]
    BY <1>13, <2>1
  <2>3. F[D] = A[9] + A[10]
    BY <1>5, <1>12, <1>14, <2>1, <2>2
  <2>4. t[9 .. 10] = t[9 .. 10 - 1] + A[10] /\ t[9 .. 9] = t[9 .. 9 - 1] + A[9] /\ t[9 .. 9 - 1] = 0
    BY <1>11
  <2>5. 10 - 1 = 9 /\ A[9] \in Nat
    BY <1>11
  <2> QED
    BY <1>1, <1>14, <2>3, <2>4, <2>5 DEF u
<1>15. CASE p = 8
  <2>1. /\ D = {"microseconds", "nanoseconds"}
        /\ Position["microseconds"] = 9 /\ Position["nanoseconds"] = 10
    BY <1>15, Below DEF D, u
  <2>2. W["nanoseconds"] = A[10] /\ W["microseconds"] = A[9]
    BY <1>13, <2>1
  <2>3. F[D] = F[{"nanoseconds"}] + W["microseconds"]
    <3>1. D \in SUBSET D /\ "microseconds" \in D /\ D \ {"microseconds"} = {"nanoseconds"}
      BY <2>1
    <3> QED
      BY <1>10, <3>1 DEF AnyLast
  <2>4. F[D] = A[8] + A[10] + A[9]
    BY <1>5, <1>12, <1>15, <2>1, <2>2, <2>3
  <2>5. /\ t[8 .. 10] = t[8 .. 10 - 1] + A[10] /\ t[8 .. 9] = t[8 .. 9 - 1] + A[9]
        /\ t[8 .. 8] = t[8 .. 8 - 1] + A[8] /\ t[8 .. 8 - 1] = 0
    BY <1>11
  <2>6. 10 - 1 = 9 /\ 9 - 1 = 8 /\ A[8] \in Nat /\ A[9] \in Nat /\ A[10] \in Nat
    BY <1>11
  <2> QED
    BY <1>1, <1>15, <2>4, <2>5, <2>6 DEF u
<1>16. CASE p = 7
  <2>1. /\ D = {"milliseconds", "microseconds", "nanoseconds"} /\ Position["milliseconds"] = 8
        /\ Position["microseconds"] = 9 /\ Position["nanoseconds"] = 10
    BY <1>16, Below DEF D, u
  <2>2. W["nanoseconds"] = A[10] /\ W["microseconds"] = A[9] /\ W["milliseconds"] = A[8]
    BY <1>13, <2>1
  <2>3. F[D] = F[{"microseconds", "nanoseconds"}] + W["milliseconds"]
    <3>1. /\ D \in SUBSET D /\ "milliseconds" \in D
          /\ D \ {"milliseconds"} = {"microseconds", "nanoseconds"}
      BY <2>1
    <3> QED
      BY <1>10, <3>1 DEF AnyLast
  <2>4. F[{"microseconds", "nanoseconds"}] = F[{"nanoseconds"}] + W["microseconds"]
    <3> DEFINE r == {"microseconds", "nanoseconds"}
    <3>1. r \in SUBSET D /\ "microseconds" \in r /\ r \ {"microseconds"} = {"nanoseconds"}
      BY <2>1
    <3> HIDE DEF r
    <3>2. F[r] = F[{"nanoseconds"}] + W["microseconds"]
      BY <1>10, <3>1 DEF AnyLast
    <3> QED
      BY <3>2 DEF r
  <2>5. F[D] = A[7] + A[10] + A[9] + A[8]
    BY <1>5, <1>12, <1>16, <2>1, <2>2, <2>3, <2>4
  <2>6. /\ t[7 .. 10] = t[7 .. 10 - 1] + A[10] /\ t[7 .. 9] = t[7 .. 9 - 1] + A[9]
        /\ t[7 .. 8] = t[7 .. 8 - 1] + A[8] /\ t[7 .. 7] = t[7 .. 7 - 1] + A[7] /\ t[7 .. 7 - 1] = 0
    BY <1>11
  <2>7. /\ 10 - 1 = 9 /\ 9 - 1 = 8 /\ 8 - 1 = 7
        /\ A[7] \in Nat /\ A[8] \in Nat /\ A[9] \in Nat /\ A[10] \in Nat
    BY <1>11
  <2> QED
    BY <1>1, <1>16, <2>5, <2>6, <2>7 DEF u
<1> QED
  BY <1>14, <1>15, <1>16 DEF u

\* The totals that the properties are about.
TotalsOf(t, A) ==
  /\ \A i \in 1 .. 10 : A[i] \in Nat
  /\ \A i \in 0 .. 10 : t[1 .. i] \in Nat
  /\ t[7 .. 10] = A[7] + A[8] + A[9] + A[10]
  /\ t[8 .. 10] = A[8] + A[9] + A[10]
  /\ t[9 .. 10] = A[9] + A[10]
  /\ t[1 .. 10] = t[1 .. 8] + t[9 .. 10]
  /\ t[1 .. 10] = t[1 .. 7] + t[8 .. 10]
  /\ t[1 .. 10] = t[1 .. 6] + t[7 .. 10]
  /\ t[1 .. 6] = t[1 .. 5] + A[6]
  /\ t[1 .. 5] = t[1 .. 4] + A[5]
  /\ t[1 .. 4] = A[4]

LEMMA TotalsFollow ==
  ASSUME NEW d \in [UnitSet -> Int], NEW t, Totals(t, d)
  PROVE  TotalsOf(t, Worth(d))
<1> DEFINE A == Worth(d)
<1>1. /\ \A a \in 1 .. 10 : t[a .. a - 1] = 0
      /\ \A a \in 1 .. 10, b \in 1 .. 10 : a <= b => t[a .. b] = t[a .. b - 1] + A[b]
      /\ \A i \in 0 .. 10 : t[1 .. i] \in Nat
      /\ \A i \in 1 .. 10 : A[i] \in Nat
      /\ A[1] = 0 /\ A[2] = 0 /\ A[3] = 0
  BY WorthType, TotalsSteps
<1> HIDE DEF A
<1>2. ASSUME NEW a \in 1 .. 10, a <= 7
      PROVE  /\ t[a .. 10] = t[a .. 9] + A[10] /\ t[a .. 9] = t[a .. 8] + A[9]
             /\ t[a .. 8] = t[a .. 7] + A[8] /\ t[a .. 7] = t[a .. 6] + A[7]
  <2>0. ASSUME NEW b \in 7 .. 10
        PROVE  t[a .. b] = t[a .. b - 1] + A[b]
    <3>1. b \in 1 .. 10 /\ a <= b
      BY <1>2
    <3> QED
      BY <1>1, <3>1
  <2>1. /\ t[a .. 10] = t[a .. 10 - 1] + A[10] /\ t[a .. 9] = t[a .. 9 - 1] + A[9]
        /\ t[a .. 8] = t[a .. 8 - 1] + A[8] /\ t[a .. 7] = t[a .. 7 - 1] + A[7]
    <3>1. 7 \in 7 .. 10 /\ 8 \in 7 .. 10 /\ 9 \in 7 .. 10 /\ 10 \in 7 .. 10
      OBVIOUS
    <3> QED
      BY <2>0, <3>1
  <2>2. 10 - 1 = 9 /\ 9 - 1 = 8 /\ 8 - 1 = 7 /\ 7 - 1 = 6
    OBVIOUS
  <2> QED
    BY <2>1, <2>2
<1>3. t[7 .. 10] = A[7] + A[8] + A[9] + A[10]
  <2>1. /\ t[7 .. 10] = t[7 .. 9] + A[10] /\ t[7 .. 9] = t[7 .. 8] + A[9]
        /\ t[7 .. 8] = t[7 .. 7] + A[8] /\ t[7 .. 7] = t[7 .. 6] + A[7]
    BY <1>2
  <2>2. t[7 .. 7 - 1] = 0 /\ 7 - 1 = 6
    BY <1>1
  <2> QED
    BY <1>1, <2>1, <2>2
<1>4. t[8 .. 10] = A[8] + A[9] + A[10]
  <2>1. /\ t[8 .. 10] = t[8 .. 10 - 1] + A[10] /\ t[8 .. 9] = t[8 .. 9 - 1] + A[9]
        /\ t[8 .. 8] = t[8 .. 8 - 1] + A[8] /\ t[8 .. 8 - 1] = 0
    BY <1>1
  <2>2. 10 - 1 = 9 /\ 9 - 1 = 8
    OBVIOUS
  <2> QED
    BY <1>1, <2>1, <2>2
<1>5. t[9 .. 10] = A[9] + A[10]
  <2>1. /\ t[9 .. 10] = t[9 .. 10 - 1] + A[10] /\ t[9 .. 9] = t[9 .. 9 - 1] + A[9]
        /\ t[9 .. 9 - 1] = 0
    BY <1>1
  <2>2. 10 - 1 = 9
    OBVIOUS
  <2> QED
    BY <1>1, <2>1, <2>2
<1>6. /\ t[1 .. 10] = t[1 .. 9] + A[10] /\ t[1 .. 9] = t[1 .. 8] + A[9]
      /\ t[1 .. 8] = t[1 .. 7] + A[8] /\ t[1 .. 7] = t[1 .. 6] + A[7]
  BY <1>2
<1>7. /\ t[1 .. 6] = t[1 .. 5] + A[6] /\ t[1 .. 5] = t[1 .. 4] + A[5] /\ t[1 .. 4] = A[4]
  <2>1. /\ t[1 .. 6] = t[1 .. 6 - 1] + A[6] /\ t[1 .. 5] = t[1 .. 5 - 1] + A[5]
        /\ t[1 .. 4] = t[1 .. 4 - 1] + A[4] /\ t[1 .. 3] = t[1 .. 3 - 1] + A[3]
        /\ t[1 .. 2] = t[1 .. 2 - 1] + A[2] /\ t[1 .. 1] = t[1 .. 1 - 1] + A[1]
        /\ t[1 .. 1 - 1] = 0
    BY <1>1
  <2>2. 6 - 1 = 5 /\ 5 - 1 = 4 /\ 4 - 1 = 3 /\ 3 - 1 = 2 /\ 2 - 1 = 1
    OBVIOUS
  <2> QED
    BY <1>1, <2>1, <2>2
<1>8. \A i \in {6, 7, 8, 9, 10} : t[1 .. i] \in Nat
  <2>1. \A i \in {6, 7, 8, 9, 10} : i \in 0 .. 10
    OBVIOUS
  <2> HIDE DEF A
  <2> QED
    BY <1>1, <2>1
<1>9. /\ t[1 .. 10] = t[1 .. 8] + t[9 .. 10]
      /\ t[1 .. 10] = t[1 .. 7] + t[8 .. 10]
      /\ t[1 .. 10] = t[1 .. 6] + t[7 .. 10]
  BY <1>1, <1>3, <1>4, <1>5, <1>6, <1>8
<1> QED
  BY <1>1, <1>3, <1>4, <1>5, <1>7, <1>9 DEF TotalsOf, A

\* A duration without mixed signs is worth what its units are, up to its sign.
LEMMA NanosecondsWorth ==
  ASSUME NEW d \in [UnitSet -> Int], ~MixedSigns(d), NEW t, Totals(t, d)
  PROVE  Magnitude(Nanoseconds(d)) = t[1 .. 10]
<1> DEFINE D == DOMAIN NanosecondsPerUnit
           A == Worth(d)
           W == [x \in D |-> d[x] * NanosecondsPerUnit[x]]
           zero == 0
           F == CHOOSE it : it = [s \in SUBSET D |->
                  IF s = {} THEN zero
                  ELSE LET x == CHOOSE x \in s : TRUE
                       IN  it[s \ {x}] + d[x] * NanosecondsPerUnit[x]]
<1>1. Nanoseconds(d) = F[D]
  BY DEF Nanoseconds, FoldSet, MapThenFoldSet
<1>2. D = {"days", "hours", "minutes", "seconds", "milliseconds", "microseconds", "nanoseconds"}
  BY Scales, CalendarPlaces
<1>3. \A x \in D : x \in UnitSet /\ NanosecondsPerUnit[x] \in Nat \ {0} /\ d[x] \in Int
  BY Scales
<1>4. W \in [D -> Int]
  <2>1. \A x \in D : d[x] * NanosecondsPerUnit[x] \in Int
    BY <1>3
  <2> HIDE DEF D
  <2> QED
    BY <2>1
<1>5. IsFiniteSet(D)
  <2> DEFINE long  == {"days"} \cup {"hours"} \cup {"minutes"} \cup {"seconds"}
             short == {"milliseconds"} \cup {"microseconds"} \cup {"nanoseconds"}
  <2>1. IsFiniteSet(long)
    BY FS_Singleton, FS_Union
  <2>2. IsFiniteSet(short)
    BY FS_Singleton, FS_Union
  <2>3. D = long \cup short
    BY <1>2
  <2> HIDE DEF long, short, D
  <2> QED
    BY <2>1, <2>2, <2>3, FS_Union
<1> HIDE DEF D
<1>6. SumRecursion(F, D, zero, W)
  <2>1. PICK it : Summing(it, D, zero, W)
    <3>1. zero \in Int
      OBVIOUS
    <3> HIDE DEF F, W, zero
    <3> QED
      BY <1>4, <1>5, <3>1, SummingExists
  <2>2. \A s \in SUBSET D : s # {} => (CHOOSE x \in s : TRUE) \in D
    OBVIOUS
  <2> HIDE DEF zero
  <2>3. it = [s \in SUBSET D |->
                IF s = {} THEN zero
                ELSE LET x == CHOOSE x \in s : TRUE
                     IN  it[s \ {x}] + d[x] * NanosecondsPerUnit[x]]
    BY <2>1, <2>2 DEF Summing
  <2>4. F = [s \in SUBSET D |->
               IF s = {} THEN zero
               ELSE LET x == CHOOSE x \in s : TRUE
                    IN  F[s \ {x}] + d[x] * NanosecondsPerUnit[x]]
    BY <2>3
  <2> HIDE DEF F
  <2>5. F = [s \in SUBSET D |-> F[s]]
    BY <2>4
  <2>6. F[{}] = zero
    BY <2>4
  <2>7. ASSUME NEW s \in SUBSET D, s # {}
        PROVE  F[s] = F[s \ {CHOOSE x \in s : TRUE}] + W[CHOOSE x \in s : TRUE]
    BY <2>2, <2>4, <2>7
  <2> QED
    BY <2>5, <2>6, <2>7 DEF SumRecursion
<1>7. AnyLast(F, D, W) /\ F[{}] = 0
  <2>1. zero \in Int
    OBVIOUS
  <2> HIDE DEF F, W, zero
  <2>2. Summing(F, D, zero, W)
    BY <1>4, <1>5, <1>6, <2>1, SumRecursionSums
  <2>3. AnyLast(F, D, W)
    BY <1>4, <1>5, <2>1, <2>2, SummingAdds
  <2> QED
    BY <1>6, <2>3 DEF SumRecursion, zero
<1> HIDE DEF F
<1>8. F[D] = W["nanoseconds"] + W["microseconds"] + W["milliseconds"] + W["seconds"]
               + W["minutes"] + W["hours"] + W["days"]
  <2> DEFINE D6 == {"hours", "minutes", "seconds", "milliseconds", "microseconds", "nanoseconds"}
             D5 == {"minutes", "seconds", "milliseconds", "microseconds", "nanoseconds"}
             D4 == {"seconds", "milliseconds", "microseconds", "nanoseconds"}
             D3 == {"milliseconds", "microseconds", "nanoseconds"}
             D2 == {"microseconds", "nanoseconds"}
             D1 == {"nanoseconds"}
  <2>1. /\ D \in SUBSET D /\ "days" \in D /\ D \ {"days"} = D6
        /\ D6 \in SUBSET D /\ "hours" \in D6 /\ D6 \ {"hours"} = D5
    BY <1>2
  <2>2. /\ D5 \in SUBSET D /\ "minutes" \in D5 /\ D5 \ {"minutes"} = D4
        /\ D4 \in SUBSET D /\ "seconds" \in D4 /\ D4 \ {"seconds"} = D3
    BY <1>2
  <2>3. /\ D3 \in SUBSET D /\ "milliseconds" \in D3 /\ D3 \ {"milliseconds"} = D2
        /\ D2 \in SUBSET D /\ "microseconds" \in D2 /\ D2 \ {"microseconds"} = D1
    BY <1>2
  <2>4. D1 \in SUBSET D /\ "nanoseconds" \in D1 /\ D1 \ {"nanoseconds"} = {}
    BY <1>2
  <2> HIDE DEF D6, D5, D4, D3, D2, D1, W
  <2>10. \A r \in SUBSET D, x \in D : x \in r => F[r] = F[r \ {x}] + W[x]
    BY <1>7 DEF AnyLast
  <2>11. /\ F[D] = F[D6] + W["days"]
    BY <2>1, <2>10
  <2>12. F[D6] = F[D5] + W["hours"]
    BY <2>1, <2>10
  <2>13. F[D5] = F[D4] + W["minutes"]
    BY <2>2, <2>10
  <2>14. F[D4] = F[D3] + W["seconds"]
    BY <2>2, <2>10
  <2>15. F[D3] = F[D2] + W["milliseconds"]
    BY <2>3, <2>10
  <2>16. F[D2] = F[D1] + W["microseconds"]
    BY <2>3, <2>10
  <2>17. F[D1] = F[{}] + W["nanoseconds"]
    BY <2>4, <2>10
  <2>5. /\ F[D] = F[D6] + W["days"] /\ F[D6] = F[D5] + W["hours"] /\ F[D5] = F[D4] + W["minutes"]
        /\ F[D4] = F[D3] + W["seconds"] /\ F[D3] = F[D2] + W["milliseconds"]
        /\ F[D2] = F[D1] + W["microseconds"] /\ F[D1] = F[{}] + W["nanoseconds"]
    BY <2>11, <2>12, <2>13, <2>14, <2>15, <2>16, <2>17
  <2>6. /\ W["days"] \in Int /\ W["hours"] \in Int /\ W["minutes"] \in Int /\ W["seconds"] \in Int
        /\ W["milliseconds"] \in Int /\ W["microseconds"] \in Int /\ W["nanoseconds"] \in Int
    BY <1>2, <1>4
  <2> QED
    BY <1>7, <2>5, <2>6
<1>9. /\ A[4] = Magnitude(d["days"]) * NanosecondsPerUnit["days"]
      /\ A[5] = Magnitude(d["hours"]) * NanosecondsPerUnit["hours"]
      /\ A[6] = Magnitude(d["minutes"]) * NanosecondsPerUnit["minutes"]
      /\ A[7] = Magnitude(d["seconds"]) * NanosecondsPerUnit["seconds"]
      /\ A[8] = Magnitude(d["milliseconds"]) * NanosecondsPerUnit["milliseconds"]
      /\ A[9] = Magnitude(d["microseconds"]) * NanosecondsPerUnit["microseconds"]
      /\ A[10] = Magnitude(d["nanoseconds"]) * NanosecondsPerUnit["nanoseconds"]
  <2>1. /\ Units[4] = "days" /\ Units[5] = "hours" /\ Units[6] = "minutes" /\ Units[7] = "seconds"
        /\ Units[8] = "milliseconds" /\ Units[9] = "microseconds" /\ Units[10] = "nanoseconds"
    BY DEF Units
  <2>2. \A i \in 4 .. 10 : A[i] = Magnitude(d[Units[i]]) * NanosecondsPerUnit[Units[i]]
    BY WorthType
  <2> HIDE DEF A
  <2> QED
    BY <2>1, <2>2
<1>10. /\ \A i \in 1 .. 10 : A[i] \in Nat
       /\ t[1 .. 10] = A[4] + A[5] + A[6] + A[7] + A[8] + A[9] + A[10]
  <2>1. TotalsOf(t, A)
    BY TotalsFollow
  <2> HIDE DEF A
  <2>2. /\ t[7 .. 10] = A[7] + A[8] + A[9] + A[10] /\ t[1 .. 10] = t[1 .. 6] + t[7 .. 10]
        /\ t[1 .. 6] = t[1 .. 5] + A[6] /\ t[1 .. 5] = t[1 .. 4] + A[5] /\ t[1 .. 4] = A[4]
        /\ \A i \in 1 .. 10 : A[i] \in Nat
    BY <2>1 DEF TotalsOf
  <2>3. /\ A[4] \in Nat /\ A[5] \in Nat /\ A[6] \in Nat /\ A[7] \in Nat
        /\ A[8] \in Nat /\ A[9] \in Nat /\ A[10] \in Nat
    BY <2>2
  <2> QED
    BY <2>2, <2>3
<1> HIDE DEF A
<1>11. \A x \in D : W[x] = d[x] * NanosecondsPerUnit[x]
  OBVIOUS
<1> HIDE DEF W
<1>12. /\ A[4] \in Nat /\ A[5] \in Nat /\ A[6] \in Nat /\ A[7] \in Nat
       /\ A[8] \in Nat /\ A[9] \in Nat /\ A[10] \in Nat
  BY <1>10
<1>13. CASE \A x \in UnitSet : d[x] >= 0
  <2>1. \A x \in D : W[x] = Magnitude(d[x]) * NanosecondsPerUnit[x]
    BY <1>3, <1>11, <1>13, Positive
  <2>2. /\ W["days"] = A[4] /\ W["hours"] = A[5] /\ W["minutes"] = A[6] /\ W["seconds"] = A[7]
        /\ W["milliseconds"] = A[8] /\ W["microseconds"] = A[9] /\ W["nanoseconds"] = A[10]
    BY <1>2, <1>9, <2>1
  <2> DEFINE x == t[1 .. 10]
             y == F[D]
  <2>3. y = x /\ x >= 0 /\ x \in Int
    BY <1>8, <1>10, <1>12, <2>2
  <2> HIDE DEF x, y
  <2>4. Magnitude(y) = x
    BY <2>3 DEF Magnitude
  <2> QED
    BY <1>1, <2>4 DEF x, y
<1>14. CASE \A x \in UnitSet : d[x] <= 0
  <2>1. \A x \in D : W[x] = -(Magnitude(d[x]) * NanosecondsPerUnit[x])
    BY <1>3, <1>11, <1>14, Positive
  <2>2. /\ W["days"] = -A[4] /\ W["hours"] = -A[5] /\ W["minutes"] = -A[6] /\ W["seconds"] = -A[7]
        /\ W["milliseconds"] = -A[8] /\ W["microseconds"] = -A[9] /\ W["nanoseconds"] = -A[10]
    BY <1>2, <1>9, <2>1
  <2> DEFINE x == t[1 .. 10]
             y == F[D]
  <2>3. y = -x /\ x >= 0 /\ x \in Int
    BY <1>8, <1>10, <1>12, <2>2
  <2> HIDE DEF x, y
  <2>4. Magnitude(y) = x
    BY <2>3 DEF Magnitude
  <2> QED
    BY <1>1, <2>4 DEF x, y
<1> QED
  <2>1. \A x \in UnitSet : d[x] \in Int
    OBVIOUS
  <2> QED
    BY <1>13, <1>14, <2>1 DEF MixedSigns

-------------------------------------------------------------------------------
(* What numbers show. *)

\* What a number counts for, and what a sequence of them adds up to.
NumberWorth(x) ==
  IF x.unit \in CalendarUnits THEN 0 ELSE x.amount * (NanosecondsPerUnit[x.unit] \div 10^x.width)

ShownBy(s) ==
  FoldLeft(LAMBDA total, x : IF x.unit \in CalendarUnits THEN total
                             ELSE total + x.amount * (NanosecondsPerUnit[x.unit] \div 10^x.width),
           0, s)

Telling(s, c) ==
  /\ c[0] = 0
  /\ \A i \in 0 .. Len(s) : c[i] \in Int
  /\ \A i \in 1 .. Len(s) : c[i] = c[i - 1] + NumberWorth(s[i])
  /\ c[Len(s)] = ShownBy(s)

LEMMA TellingExists ==
  ASSUME NEW R, \A x \in R : NumberWorth(x) \in Int, NEW s \in Seq(R)
  PROVE  \E c : Telling(s, c)
<1> DEFINE n    == Len(s)
           base == 0
           step == [p \in Int \X (1 .. n) |-> p[1] + NumberWorth(s[p[2]])]
           next(total, x) == IF x.unit \in CalendarUnits THEN total
                             ELSE total + x.amount * (NanosecondsPerUnit[x.unit] \div 10^x.width)
           F    == CHOOSE it : it = [r \in SUBSET DOMAIN s |->
                     IF r = {} THEN base
                     ELSE LET i == Max(r) IN next(it[r \ {i}], s[i])]
<1>1. n \in Nat /\ DOMAIN s = 1 .. n /\ base \in Int /\ \A i \in 1 .. n : s[i] \in R
  BY LenProperties, ElementOfSeq
<1>2. \A i \in 1 .. n : NumberWorth(s[i]) \in Int
  BY <1>1
<1>3. \A total \in Int, i \in 1 .. n : next(total, s[i]) = total + NumberWorth(s[i])
  BY <1>2 DEF NumberWorth
<1>4. step \in [Int \X (1 .. n) -> Int]
  <2>1. \A p \in Int \X (1 .. n) : p[1] + NumberWorth(s[p[2]]) \in Int
    BY <1>2
  <2> QED
    BY <2>1
<1>5. ShownBy(s) = F[DOMAIN s]
  BY DEF ShownBy, FoldLeft, MapThenFoldSet
<1> HIDE DEF n, base, next
<1>6. PICK it : LeftFold(it, n, Int, base, step)
  <2> HIDE DEF step, F
  <2> QED
    BY <1>1, <1>4, LeftFoldDefines, Zenon
<1>7. \A r \in SUBSET (1 .. n) :
        it[r] = IF r = {} THEN base ELSE LET i == Max(r) IN next(it[r \ {i}], s[i])
  <2> SUFFICES ASSUME NEW r \in SUBSET (1 .. n), r # {}
               PROVE  it[r] = next(it[r \ {Max(r)}], s[Max(r)])
    BY <1>6 DEF LeftFold
  <2>1. Max(r) \in 1 .. n
    BY <1>1, GreatestOf
  <2>2. it[r \ {Max(r)}] \in Int
    BY <1>6 DEF LeftFold
  <2>3. step[<<it[r \ {Max(r)}], Max(r)>>] = it[r \ {Max(r)}] + NumberWorth(s[Max(r)])
    BY <2>1, <2>2
  <2> HIDE DEF step
  <2> QED
    BY <1>3, <1>6, <2>1, <2>2, <2>3 DEF LeftFold
<1>8. it = [r \in SUBSET DOMAIN s |->
              IF r = {} THEN base ELSE LET i == Max(r) IN next(it[r \ {i}], s[i])]
  <2> HIDE DEF step, F
  <2> QED
    BY <1>1, <1>6, <1>7 DEF LeftFold
<1>9. F = [r \in SUBSET DOMAIN s |->
             IF r = {} THEN base ELSE LET i == Max(r) IN next(F[r \ {i}], s[i])]
  <2> HIDE DEF step
  <2> QED
    BY <1>8
<1> HIDE DEF F, step
<1> DEFINE c == [i \in 0 .. n |-> F[1 .. i]]
<1>10. c[0] = base /\ 0 \in 0 .. n
  <2>1. 1 .. 0 = {} /\ 1 .. 0 \in SUBSET DOMAIN s /\ 0 \in 0 .. n
    BY <1>1
  <2> QED
    BY <1>9, <2>1
<1>11. ASSUME NEW i \in 1 .. n
       PROVE  c[i] = next(c[i - 1], s[i])
  <2>1. /\ 1 .. i \in SUBSET DOMAIN s /\ 1 .. i # {}
        /\ Max(1 .. i) = i
        /\ (1 .. i) \ {i} = 1 .. i - 1
    <3> HIDE DEF c
    <3>1. /\ 1 .. i \in SUBSET (1 .. n) /\ 1 .. i # {}
          /\ Max(1 .. i) = i
          /\ (1 .. i) \ {i} = 1 .. i - 1
      BY <1>1, IntervalEnds, Zenon
    <3> QED
      BY <1>1, <3>1
  <2>2. F[1 .. i] = next(F[1 .. i - 1], s[i])
    BY <1>9, <2>1
  <2>3. i \in 0 .. n /\ i - 1 \in 0 .. n
    BY <1>1
  <2> QED
    BY <2>2, <2>3
<1>12. c[n] = ShownBy(s)
  <2>1. n \in 0 .. n
    BY <1>1
  <2> QED
    BY <1>1, <1>5, <2>1
<1> HIDE DEF c
<1>13. \A i \in 0 .. n : c[i] \in Int
  <2> DEFINE Typed == {i \in Nat : i <= n => c[i] \in Int}
  <2>1. 0 \in Typed
    BY <1>1, <1>10
  <2>2. ASSUME NEW i \in Nat, i \in Typed
        PROVE  i + 1 \in Typed
    <3>1. ASSUME i + 1 <= n
          PROVE  c[i + 1] \in Int
      <4>1. i + 1 \in 1 .. n /\ (i + 1) - 1 = i /\ c[i] \in Int
        BY <1>1, <2>2, <3>1
      <4>2. c[i + 1] = next(c[i], s[i + 1])
        BY <1>11, <4>1
      <4>3. c[i + 1] = c[i] + NumberWorth(s[i + 1])
        BY <1>3, <4>1, <4>2
      <4>4. NumberWorth(s[i + 1]) \in Int
        BY <1>2, <4>1
      <4> QED
        BY <4>1, <4>3, <4>4
    <3> QED
      BY <3>1
  <2> HIDE DEF Typed
  <2>3. Nat \subseteq Typed
    BY <2>1, <2>2, Induction
  <2> QED
    BY <2>3 DEF Typed
<1>14. ASSUME NEW i \in 1 .. n
       PROVE  c[i] = c[i - 1] + NumberWorth(s[i])
  <2>1. i - 1 \in 0 .. n
    BY <1>1
  <2> QED
    BY <1>3, <1>11, <1>13, <2>1
<1> QED
  BY <1>10, <1>12, <1>13, <1>14 DEF Telling, n, base

LEMMA ShownAppend ==
  ASSUME NEW R, \A x \in R : NumberWorth(x) \in Int, NEW s \in Seq(R), NEW e \in R
  PROVE  /\ ShownBy(s) \in Int
         /\ ShownBy(Append(s, e)) = ShownBy(s) + NumberWorth(e)
<1> DEFINE n    == Len(s)
           more == Append(s, e)
<1>1. n \in Nat
  BY LenProperties
<1>2. more \in Seq(R) /\ Len(more) = n + 1 /\ more[n + 1] = e /\ \A i \in 1 .. n : more[i] = s[i]
  BY AppendProperties
<1>3. PICK f : Telling(s, f)
  BY TellingExists
<1> HIDE DEF more
<1>4. PICK g : Telling(more, g)
  BY <1>2, TellingExists
<1>5. f[0] = 0 /\ ShownBy(s) = f[n] /\ \A i \in 1 .. n : f[i] = f[i - 1] + NumberWorth(s[i])
  BY <1>3 DEF Telling
<1>6. /\ g[0] = 0 /\ ShownBy(more) = g[n + 1]
      /\ \A i \in 1 .. n + 1 : g[i] = g[i - 1] + NumberWorth(more[i])
  BY <1>2, <1>4 DEF Telling
<1>7. f[n] \in Int
  <2>1. n \in 0 .. n
    BY <1>1
  <2> QED
    BY <1>3, <2>1 DEF Telling
<1> HIDE DEF n
<1> DEFINE Same == {i \in Nat : i <= n => g[i] = f[i]}
<1>8. 0 \in Same
  BY <1>5, <1>6
<1>9. ASSUME NEW i \in Nat, i \in Same
      PROVE  i + 1 \in Same
  <2>1. ASSUME NEW k \in 1 .. n, k - 1 = i
        PROVE  g[k] = f[k]
    <3>1. k \in 1 .. n + 1 /\ i <= n
      BY <1>1, <2>1
    <3> QED
      BY <1>2, <1>5, <1>6, <1>9, <2>1, <3>1
  <2>2. i + 1 <= n => i + 1 \in 1 .. n /\ (i + 1) - 1 = i
    BY <1>1
  <2> QED
    BY <2>1, <2>2
<1>10. g[n] = f[n]
  <2>1. Nat \subseteq Same
    <3> HIDE DEF Same
    <3> QED
      BY <1>8, <1>9, Induction
  <2> QED
    BY <1>1, <2>1
<1>11. n + 1 \in 1 .. n + 1 /\ (n + 1) - 1 = n
  BY <1>1
<1>12. g[n + 1] = g[n] + NumberWorth(e)
  BY <1>2, <1>6, <1>11
<1> QED
  BY <1>5, <1>6, <1>7, <1>10, <1>12 DEF more

LEMMA ShownNothing == ShownBy(<<>>) = 0
<1>1. <<>> \in Seq({}) /\ Len(<<>>) = 0
  OBVIOUS
<1>2. PICK c : Telling(<<>>, c)
  BY <1>1, TellingExists
<1> QED
  BY <1>1, <1>2 DEF Telling

\* A unit's number counts for what the unit is worth.
LEMMA IntegerWorth ==
  ASSUME NEW f, NEW d \in [UnitSet -> Int], NEW i \in 1 .. 10, NEW sign
  PROVE  NumberWorth(IntegerNumber(f, d, Units[i], sign)) = Worth(d)[i]
<1> DEFINE u == Units[i]
<1>1. /\ IntegerNumber(f, d, u, sign).unit = u /\ IntegerNumber(f, d, u, sign).width = 0
      /\ IntegerNumber(f, d, u, sign).amount = Magnitude(d[u])
  BY DEF IntegerNumber
<1>2. CASE u \in CalendarUnits
  BY <1>1, <1>2 DEF NumberWorth, Worth
<1>3. CASE u \notin CalendarUnits
  <2>1. NanosecondsPerUnit[u] \in Nat \ {0}
    BY <1>3, UnitOrder, Scales
  <2>2. 10^0 = 1
    OBVIOUS
  <2>3. \A x \in Nat \ {0} : x \div 1 = x
    OBVIOUS
  <2> QED
    BY <1>1, <1>3, <2>1, <2>2, <2>3 DEF NumberWorth, Worth
<1> QED
  BY <1>2, <1>3

-------------------------------------------------------------------------------
(* The shape of what is laid out: numbers of units in words, each a group  *)
(* of its own, and after them at most one group that ends the result.      *)

Words(f, d, n, w) ==
  /\ w \in Seq(NumbersOf(f, d))
  /\ \A j \in 1 .. n : StyleAt(f, j) \in WordStyles /\ ~NextUnitFractional(f, Units[j])
  /\ \A k \in 1 .. Len(w) :
       \E j \in 1 .. n : Shown(f, d, Units[j]) /\ w[k] = IntegerNumber(f, d, Units[j], k = 1)
  /\ \A k, l \in 1 .. Len(w) : k < l => Position[w[k].unit] < Position[w[l].unit]
  /\ \A j \in 1 .. n : Shown(f, d, Units[j]) =>
       \E k \in 1 .. Len(w) : w[k] = IntegerNumber(f, d, Units[j], k = 1)

\* What numbers tell of the first n units.
Told(d, n, w) == \A t : Totals(t, d) => ShownBy(w) = t[1 .. n]

Singles(groups, w) ==
  Len(groups) = Len(w) /\ \A k \in 1 .. Len(w) : groups[k] = <<w[k]>>

\* The loop before it is done.
InWords(f, d, n, sofar) ==
  /\ Words(f, d, n, FlattenSeq(sofar.groups))
  /\ Told(d, n, FlattenSeq(sofar.groups))
  /\ Singles(sofar.groups, FlattenSeq(sofar.groups))
  /\ sofar.signAvailable <=> FlattenSeq(sofar.groups) = <<>>

LEMMA SameSign ==
  ASSUME NEW f, NEW d, NEW u, NEW sign \in BOOLEAN, NEW other \in BOOLEAN, sign <=> other
  PROVE  /\ IntegerNumber(f, d, u, sign) = IntegerNumber(f, d, u, other)
         /\ FractionalNumber(f, d, u, sign) = FractionalNumber(f, d, u, other)
<1>1. sign = other
  OBVIOUS
<1> QED
  BY <1>1

\* A unit after those in words is one of them, or it ends the loop.
GoesOn(f, d, i, sofar) ==
  /\ StyleAt(f, i) \in WordStyles /\ ~NextUnitFractional(f, Units[i])
  /\ PartitionUnit(f, d, sofar, Units[i]) =
       IF Shown(f, d, Units[i])
       THEN AddGroup(sofar, <<IntegerNumber(f, d, Units[i], sofar.signAvailable)>>, FALSE)
       ELSE sofar

LEMMA NotYetDone ==
  ASSUME NEW f, Sound(f), NEW d, NEW n \in 0 .. 9, NEW i \in 1 .. 10, n = i - 1,
         NEW sofar \in Laid(f, d), InWords(f, d, n, sofar), ~sofar.done,
         ~PartitionUnit(f, d, sofar, Units[i]).done
  PROVE  GoesOn(f, d, i, sofar)
<1> DEFINE u == Units[i]
<1>1. u \in UnitSet /\ Position[u] = i /\ f.units[u] \in UnitShape /\ f.units[u].style = StyleAt(f, i)
  BY UnitOrder DEF Sound, Formatters, StyleAt
<1>2. StyleAt(f, i) # "fractional"
  <2> SUFFICES ASSUME StyleAt(f, i) = "fractional" PROVE FALSE
    OBVIOUS
  <2>1. i \in 8 .. 10
    BY <1>1, Places DEF Sound
  <2>2. n \in 1 .. n /\ n \in 7 .. 9
    BY <2>1
  <2>3. ~NextUnitFractional(f, Units[n])
    BY <2>2 DEF InWords, Words
  <2>4. Units[n] \in Parents
    <3>1. n \in {7, 8, 9}
      BY <2>2
    <3> QED
      BY <3>1 DEF Units, Parents
  <2>5. Child(Units[n]) = u
    <3>1. i - 1 \in 1 .. 10 /\ i \in 2 .. 10
      BY <2>1
    <3>2. Position[Units[n]] = n
      BY <2>2, UnitOrder
    <3>3. n + 1 = i
      OBVIOUS
    <3> QED
      BY <3>2, <3>3 DEF Child
  <2> QED
    BY <1>1, <2>3, <2>4, <2>5 DEF NextUnitFractional
<1> HIDE DEF u
<1>3. /\ \A group : AddGroup(sofar, group, TRUE).done
      /\ [sofar EXCEPT !.done = TRUE].done
  BY DEF AddGroup, Laid
<1>4. StyleAt(f, i) \notin ClockStyles /\ ~NextUnitFractional(f, u)
  BY <1>1, <1>2, <1>3 DEF PartitionUnit, u
<1>5. StyleAt(f, i) \in WordStyles
  BY <1>1, <1>2, <1>4 DEF UnitShape
<1>6. PartitionUnit(f, d, sofar, u) =
        IF Shown(f, d, u)
        THEN AddGroup(sofar, <<IntegerNumber(f, d, u, sofar.signAvailable)>>, FALSE)
        ELSE sofar
  BY <1>1, <1>2, <1>4 DEF PartitionUnit
<1> QED
  BY <1>4, <1>5, <1>6 DEF GoesOn, u

\* One more number.
LEMMA WordsAppend ==
  ASSUME NEW f, NEW d, NEW n \in 0 .. 9, NEW i \in 1 .. 10, n = i - 1,
         NEW w, Words(f, d, n, w),
         StyleAt(f, i) \in WordStyles, ~NextUnitFractional(f, Units[i]),
         NEW sign \in BOOLEAN, sign <=> w = <<>>, Shown(f, d, Units[i])
  PROVE  Words(f, d, i, Append(w, IntegerNumber(f, d, Units[i], sign)))
<1> DEFINE e == IntegerNumber(f, d, Units[i], sign)
           m == Len(w)
           x == Append(w, e)
           K == NumbersOf(f, d)
<1>1. w \in Seq(K) /\ m \in Nat /\ (w = <<>> <=> m = 0)
  BY LenProperties, EmptySeq DEF Words
<1>2. e \in K /\ e.unit = Units[i] /\ Units[i] \in UnitSet
  <2>1. Units[i] \in UnitSet
    BY UnitOrder
  <2>2. e \in K
    BY <2>1 DEF NumbersOf
  <2>3. e.unit = Units[i]
    BY DEF IntegerNumber
  <2> QED
    BY <2>1, <2>2, <2>3
<1>3. \A j \in 1 .. 10 : \A s : IntegerNumber(f, d, Units[j], s).unit = Units[j] /\ Position[Units[j]] = j
  BY UnitOrder DEF IntegerNumber
<1>4. e = IntegerNumber(f, d, Units[i], m + 1 = 1)
  <2> DEFINE other == m + 1 = 1
  <2>1. other \in BOOLEAN /\ (sign <=> other)
    BY <1>1
  <2> HIDE DEF other
  <2>2. e = IntegerNumber(f, d, Units[i], other)
    BY <2>1, SameSign
  <2> QED
    BY <2>2 DEF other
<1> HIDE DEF e, m, K
<1>5. /\ x \in Seq(K) /\ Len(x) = m + 1 /\ x[m + 1] = e
      /\ \A k \in 1 .. m : x[k] = w[k]
  BY <1>1, <1>2, AppendProperties DEF m
<1> HIDE DEF x
<1>6. \A j \in 1 .. i : j \in 1 .. n \/ j = i
  OBVIOUS
<1>7. \A k \in 1 .. m + 1 : k \in 1 .. m \/ k = m + 1
  BY <1>1
<1>8. \A k \in 1 .. m : k \in 1 .. m + 1 /\ k < m + 1
  BY <1>1
<1>9. \A j \in 1 .. n : j \in 1 .. i /\ j < i /\ j \in 1 .. 10
  OBVIOUS
<1>10. /\ \A k \in 1 .. m :
            \E j \in 1 .. n : Shown(f, d, Units[j]) /\ w[k] = IntegerNumber(f, d, Units[j], k = 1)
       /\ \A k, l \in 1 .. m : k < l => Position[w[k].unit] < Position[w[l].unit]
       /\ \A j \in 1 .. n : Shown(f, d, Units[j]) =>
            \E k \in 1 .. m : w[k] = IntegerNumber(f, d, Units[j], k = 1)
  BY DEF Words, m
<1>11. \A j \in 1 .. i : StyleAt(f, j) \in WordStyles /\ ~NextUnitFractional(f, Units[j])
  BY <1>6 DEF Words
<1>12. ASSUME NEW k \in 1 .. m + 1
       PROVE  \E j \in 1 .. i : Shown(f, d, Units[j]) /\ x[k] = IntegerNumber(f, d, Units[j], k = 1)
  <2>1. CASE k \in 1 .. m
    <3>1. PICK j \in 1 .. n : Shown(f, d, Units[j]) /\ w[k] = IntegerNumber(f, d, Units[j], k = 1)
      BY <1>10, <2>1
    <3> QED
      BY <1>5, <1>9, <2>1, <3>1
  <2>2. CASE k = m + 1
    <3>1. i \in 1 .. i
      OBVIOUS
    <3> QED
      BY <1>4, <1>5, <2>2, <3>1
  <2> QED
    BY <1>7, <2>1, <2>2
<1>13. ASSUME NEW k \in 1 .. m + 1, NEW l \in 1 .. m + 1, k < l
       PROVE  Position[x[k].unit] < Position[x[l].unit]
  <2>1. k \in 1 .. m
    BY <1>1, <1>13
  <2>2. CASE l \in 1 .. m
    BY <1>5, <1>10, <1>13, <2>1, <2>2
  <2>3. CASE l = m + 1
    <3>1. PICK j \in 1 .. n : w[k] = IntegerNumber(f, d, Units[j], k = 1)
      BY <1>10, <2>1
    <3>2. x[k].unit = Units[j] /\ Position[Units[j]] = j /\ j < i
      <4>1. j \in 1 .. 10 /\ j < i
        BY <1>9
      <4>2. x[k] = IntegerNumber(f, d, Units[j], k = 1)
        BY <1>5, <2>1, <3>1
      <4>3. Position[Units[j]] = j
        BY <4>1, UnitOrder
      <4>4. IntegerNumber(f, d, Units[j], k = 1).unit = Units[j]
        BY DEF IntegerNumber
      <4> QED
        BY <4>1, <4>2, <4>3, <4>4
    <3>3. x[l].unit = Units[i] /\ Position[Units[i]] = i
      BY <1>2, <1>3, <1>5, <2>3
    <3> QED
      BY <3>2, <3>3
  <2> QED
    BY <1>7, <2>2, <2>3
<1>14. ASSUME NEW j \in 1 .. i, Shown(f, d, Units[j])
       PROVE  \E k \in 1 .. m + 1 : x[k] = IntegerNumber(f, d, Units[j], k = 1)
  <2>1. CASE j \in 1 .. n
    <3>1. PICK k \in 1 .. m : w[k] = IntegerNumber(f, d, Units[j], k = 1)
      BY <1>10, <1>14, <2>1
    <3> QED
      BY <1>5, <1>8, <3>1
  <2>2. CASE j = i
    <3>1. m + 1 \in 1 .. m + 1
      BY <1>1
    <3> QED
      BY <1>4, <1>5, <2>2, <3>1
  <2> QED
    BY <1>6, <2>1, <2>2
<1>15. Words(f, d, i, x)
  BY <1>5, <1>11, <1>12, <1>13, <1>14 DEF Words, K
<1> QED
  BY <1>15 DEF x, e

\* A unit in words that is not shown.
LEMMA WordsPass ==
  ASSUME NEW f, NEW d, NEW n \in 0 .. 9, NEW i \in 1 .. 10, n = i - 1,
         NEW w, Words(f, d, n, w),
         StyleAt(f, i) \in WordStyles, ~NextUnitFractional(f, Units[i]), ~Shown(f, d, Units[i])
  PROVE  Words(f, d, i, w)
<1>1. \A j \in 1 .. i : j \in 1 .. n \/ j = i
  OBVIOUS
<1>2. \A j \in 1 .. n : j \in 1 .. i
  OBVIOUS
<1>3. \A k \in 1 .. Len(w) :
        \E j \in 1 .. i : Shown(f, d, Units[j]) /\ w[k] = IntegerNumber(f, d, Units[j], k = 1)
  <2> SUFFICES ASSUME NEW k \in 1 .. Len(w)
               PROVE  \E j \in 1 .. i : Shown(f, d, Units[j]) /\ w[k] = IntegerNumber(f, d, Units[j], k = 1)
    OBVIOUS
  <2>1. PICK j \in 1 .. n : Shown(f, d, Units[j]) /\ w[k] = IntegerNumber(f, d, Units[j], k = 1)
    BY DEF Words
  <2> QED
    BY <1>2, <2>1
<1> QED
  BY <1>1, <1>3 DEF Words

LEMMA OneMoreUnit ==
  ASSUME NEW d \in [UnitSet -> Int], NEW t, Totals(t, d), NEW i \in 1 .. 10
  PROVE  t[1 .. i] = t[1 .. i - 1] + Worth(d)[i] /\ t[1 .. i - 1] \in Nat
<1> DEFINE a == 1
<1>1. a \in 1 .. 10 /\ a \in 1 .. 11 /\ a <= i /\ i - 1 \in 0 .. 10
  <2>1. a \in 1 .. 10 /\ a \in 1 .. 11
    OBVIOUS
  <2>2. a <= i /\ i - 1 \in 0 .. 10
    OBVIOUS
  <2> QED
    BY <2>1, <2>2
<1> HIDE DEF a
<1>2. \A x \in 1 .. 10, b \in 1 .. 10 : x <= b => t[x .. b] = t[x .. b - 1] + Worth(d)[b]
  BY TotalsSteps
<1>3. \A x \in 1 .. 11, b \in 0 .. 10 : t[x .. b] \in Nat
  BY TotalsSteps
<1>4. t[a .. i] = t[a .. i - 1] + Worth(d)[i] /\ t[a .. i - 1] \in Nat
  BY <1>1, <1>2, <1>3
<1> QED
  BY <1>4 DEF a

\* One unit more is told, by its number or by nothing when it is zero.
LEMMA ToldAppend ==
  ASSUME NEW f, NEW d \in [UnitSet -> Int], NEW n \in 0 .. 9, NEW i \in 1 .. 10, n = i - 1,
         NEW w, Words(f, d, n, w), Told(d, n, w), NEW sign \in BOOLEAN
  PROVE  Told(d, i, Append(w, IntegerNumber(f, d, Units[i], sign)))
<1> DEFINE e == IntegerNumber(f, d, Units[i], sign)
           R == {x \in NumbersOf(f, d) : NumberWorth(x) \in Int}
<1>1. \A s : \A j \in 1 .. 10 : NumberWorth(IntegerNumber(f, d, Units[j], s)) \in Int
  BY IntegerWorth, WorthType
<1>2. e \in R /\ NumberWorth(e) = Worth(d)[i]
  BY <1>1, IntegerWorth, UnitOrder DEF NumbersOf
<1>3. w \in Seq(R)
  <2>1. w \in Seq(NumbersOf(f, d)) /\ Len(w) \in Nat /\ w \in [1 .. Len(w) -> NumbersOf(f, d)]
    BY LenProperties DEF Words
  <2>2. ASSUME NEW k \in 1 .. Len(w)
        PROVE  w[k] \in R
    <3>1. PICK j \in 1 .. n : w[k] = IntegerNumber(f, d, Units[j], k = 1)
      BY DEF Words
    <3>2. j \in 1 .. 10 /\ w[k] \in NumbersOf(f, d)
      BY <2>1
    <3> QED
      BY <1>1, <3>1, <3>2
  <2> HIDE DEF R
  <2>3. w \in [1 .. Len(w) -> R]
    BY <2>1, <2>2
  <2> QED
    BY <2>1, <2>3, FunctionIsSeq
<1>4. \A x \in R : NumberWorth(x) \in Int
  OBVIOUS
<1> HIDE DEF e, R
<1>5. ShownBy(Append(w, e)) = ShownBy(w) + Worth(d)[i]
  BY <1>2, <1>3, <1>4, ShownAppend
<1>6. ASSUME NEW t, Totals(t, d)
      PROVE  ShownBy(Append(w, e)) = t[1 .. i]
  <2>1. ShownBy(w) = t[1 .. i - 1]
    BY <1>6 DEF Told
  <2>3. t[1 .. i] = t[1 .. i - 1] + Worth(d)[i]
    BY <1>6, OneMoreUnit
  <2> QED
    BY <1>5, <2>1, <2>3
<1> QED
  BY <1>6 DEF Told, e

LEMMA ToldPass ==
  ASSUME NEW f, NEW d \in [UnitSet -> Int], NEW n \in 0 .. 9, NEW i \in 1 .. 10, n = i - 1,
         NEW w, Told(d, n, w), ~Shown(f, d, Units[i])
  PROVE  Told(d, i, w)
<1> SUFFICES ASSUME NEW t, Totals(t, d) PROVE ShownBy(w) = t[1 .. i]
  BY DEF Told
<1>1. Worth(d)[i] = 0
  BY WorthType DEF Shown
<1>3. t[1 .. i] = t[1 .. i - 1] + Worth(d)[i] /\ t[1 .. i - 1] \in Nat
  BY OneMoreUnit
<1>6. ShownBy(w) = t[1 .. i - 1]
  BY DEF Told
<1> QED
  BY <1>1, <1>3, <1>6

LEMMA SinglesAppend ==
  ASSUME NEW R, NEW groups \in Seq(Seq(R)), NEW w \in Seq(R), Singles(groups, w), NEW e \in R
  PROVE  Singles(Append(groups, <<e>>), Append(w, e))
<1> DEFINE m == Len(w)
           a == Append(groups, <<e>>)
           b == Append(w, e)
<1>1. /\ m \in Nat /\ Len(groups) = m /\ \A k \in 1 .. m : groups[k] = <<w[k]>>
  BY LenProperties DEF Singles
<1>2. <<e>> \in Seq(R)
  OBVIOUS
<1>3. /\ Len(a) = m + 1 /\ a[m + 1] = <<e>>
      /\ \A k \in 1 .. m : a[k] = groups[k]
  BY <1>1, <1>2, AppendProperties
<1>4. /\ Len(b) = m + 1 /\ b[m + 1] = e
      /\ \A k \in 1 .. m : b[k] = w[k]
  BY AppendProperties
<1> HIDE DEF a, b, m
<1>5. \A k \in 1 .. m + 1 : k \in 1 .. m \/ k = m + 1
  BY <1>1
<1> QED
  BY <1>1, <1>3, <1>4, <1>5 DEF Singles, a, b

LEMMA LayingWords ==
  ASSUME NEW f, Sound(f), NEW d \in [UnitSet -> Int], NEW c, Laying(f, d, c)
  PROVE  \A i \in 0 .. 10 : ~c[i].done => InWords(f, d, i, c[i])
<1> DEFINE K == NumbersOf(f, d)
<1>1. InWords(f, d, 0, c[0])
  <2>1. c[0].groups = <<>> /\ c[0].signAvailable
    BY DEF Laying, NothingLaid
  <2>2. FlattenSeq(c[0].groups) = <<>>
    BY <2>1, FlattenEmpty
  <2>3. Words(f, d, 0, <<>>)
    BY DEF Words
  <2>4. Singles(<<>>, <<>>)
    BY DEF Singles
  <2>5. Told(d, 0, <<>>)
    <3>1. 1 \in 1 .. 11 /\ 1 - 1 = 0
      OBVIOUS
    <3>2. \A t : Totals(t, d) => t[1 .. 1 - 1] = 0
      BY <3>1, TotalsSteps
    <3> QED
      BY <3>1, <3>2, ShownNothing DEF Told
  <2> QED
    BY <2>1, <2>2, <2>3, <2>4, <2>5 DEF InWords
<1>2. ASSUME NEW n \in 0 .. 9, NEW i \in 1 .. 10, n = i - 1, ~c[n].done => InWords(f, d, n, c[n]),
             ~c[i].done
      PROVE  InWords(f, d, i, c[i])
  <2> DEFINE s == c[n]
             t == c[i]
             u == Units[i]
             w == FlattenSeq(s.groups)
             e == IntegerNumber(f, d, u, s.signAvailable)
  <2>1. s \in Laid(f, d) /\ t = PartitionUnit(f, d, s, u) /\ u \in UnitSet
    BY <1>2, UnitOrder DEF Laying
  <2>2. ~s.done
    BY <1>2, <2>1 DEF PartitionUnit
  <2>3. InWords(f, d, n, s)
    BY <1>2, <2>2
  <2>0. ~PartitionUnit(f, d, s, u).done /\ n = i - 1
    BY <1>2, <2>1
  <2> HIDE DEF s, t
  <2>4. /\ StyleAt(f, i) \in WordStyles /\ ~NextUnitFractional(f, u)
        /\ t = IF Shown(f, d, u) THEN AddGroup(s, <<e>>, FALSE) ELSE s
    <3>1. GoesOn(f, d, i, s)
      BY <2>0, <2>1, <2>2, <2>3, NotYetDone
    <3> QED
      BY <2>1, <3>1 DEF GoesOn
  <2>5. CASE ~Shown(f, d, u)
    <3>1. Words(f, d, n, w)
      BY <2>3 DEF InWords
    <3>2. Words(f, d, i, w)
      BY <1>2, <2>4, <2>5, <3>1, WordsPass
    <3>3. Told(d, i, w)
      <4>1. Told(d, n, w)
        BY <2>3 DEF InWords
      <4> HIDE DEF w
      <4> QED
        BY <1>2, <2>5, <4>1, ToldPass
    <3> QED
      BY <2>3, <2>4, <2>5, <3>2, <3>3 DEF InWords, t
  <2>6. CASE Shown(f, d, u)
    <3>1. /\ s.groups \in Seq(Seq(K)) /\ s.signAvailable \in BOOLEAN /\ e \in K
      BY <2>1 DEF Laid, NumbersOf
    <3>2. t.groups = Append(s.groups, <<e>>) /\ ~t.signAvailable
      <4>1. <<e>> # <<>>
        OBVIOUS
      <4> HIDE DEF e
      <4> QED
        BY <2>4, <2>6, <4>1 DEF AddGroup
    <3> HIDE DEF e
    <3>3. w \in Seq(K) /\ FlattenSeq(t.groups) = Append(w, e)
      <4>1. <<e>> \in Seq(K)
        BY <3>1
      <4>2. w \in Seq(K) /\ FlattenSeq(Append(s.groups, <<e>>)) = w \o <<e>>
        BY <3>1, <4>1, FlattenAppend
      <4> HIDE DEF w
      <4> QED
        BY <3>1, <3>2, <4>2, AppendIsConcat
    <3>4. Words(f, d, i, Append(w, e))
      <4>1. Words(f, d, n, w) /\ (s.signAvailable <=> w = <<>>)
        BY <2>3 DEF InWords
      <4> HIDE DEF w
      <4> QED
        BY <1>2, <2>4, <2>6, <3>1, <4>1, WordsAppend DEF e
    <3>7. Told(d, i, Append(w, e))
      <4>1. Words(f, d, n, w) /\ Told(d, n, w)
        BY <2>3 DEF InWords
      <4> HIDE DEF w
      <4> QED
        BY <1>2, <3>1, <4>1, ToldAppend DEF e
    <3>5. Singles(Append(s.groups, <<e>>), Append(w, e))
      <4>1. Singles(s.groups, w)
        BY <2>3 DEF InWords
      <4> HIDE DEF w, K
      <4> QED
        BY <3>1, <3>3, <4>1, SinglesAppend
    <3>6. Append(w, e) # <<>>
      BY <3>1, <3>3, AppendProperties
    <3> QED
      BY <3>2, <3>3, <3>4, <3>5, <3>6, <3>7 DEF InWords, t
  <2> QED
    BY <2>5, <2>6
<1> DEFINE Reached == {i \in Nat : i <= 10 => (~c[i].done => InWords(f, d, i, c[i]))}
<1>3. 0 \in Reached
  BY <1>1
<1>4. ASSUME NEW i \in Nat, i \in Reached
      PROVE  i + 1 \in Reached
  <2>1. ASSUME i + 1 <= 10
        PROVE  ~c[i + 1].done => InWords(f, d, i + 1, c[i + 1])
    <3> DEFINE k == i + 1
    <3>1. k \in 1 .. 10 /\ i = k - 1 /\ i \in 0 .. 9
      BY <2>1
    <3>2. ~c[i].done => InWords(f, d, i, c[i])
      BY <1>4, <2>1
    <3> HIDE DEF k
    <3>3. ~c[k].done => InWords(f, d, k, c[k])
      BY <1>2, <3>1, <3>2
    <3> QED
      BY <3>3 DEF k
  <2> QED
    BY <2>1
<1> QED
  <2>1. Nat \subseteq Reached
    <3> HIDE DEF Reached
    <3> QED
      BY <1>3, <1>4, Induction
  <2> QED
    BY <2>1

\* What ends the loop after n units in words: digits, a fraction, or nothing.
TailInDigits(f, d, n, tail, sign) ==
  \E i \in 1 .. 10 :
    /\ n = i - 1 /\ StyleAt(f, i) \in ClockStyles
    /\ tail = NumericUnits(f, d, NumericLayout(f, d, Units[i]), sign)

TailIsFraction(f, d, n, tail, sign) ==
  \E i \in 1 .. 10 :
    /\ n = i - 1 /\ StyleAt(f, i) \in WordStyles /\ NextUnitFractional(f, Units[i])
    /\ tail = IF f.units[Units[i]].display = "auto" /\ FractionalAmount(d, Units[i]) = 0 THEN <<>>
              ELSE <<FractionalNumber(f, d, Units[i], sign)>>

Ending(f, d, n, tail, sign) ==
  \/ n = 10 /\ tail = <<>>
  \/ TailInDigits(f, d, n, tail, sign)
  \/ TailIsFraction(f, d, n, tail, sign)

\* The groups are those in words and the last one.
Ended(groups, w, tail) ==
  IF tail = <<>> THEN Singles(groups, w)
  ELSE /\ Len(groups) = Len(w) + 1 /\ groups[Len(w) + 1] = tail
       /\ \A k \in 1 .. Len(w) : groups[k] = <<w[k]>>

Shaped(f, d, groups, n, w, tail) ==
  /\ Words(f, d, n, w) /\ Told(d, n, w) /\ tail \in Seq(NumbersOf(f, d)) /\ Ending(f, d, n, tail, w = <<>>)
  /\ FlattenSeq(groups) = w \o tail /\ Ended(groups, w, tail)

\* The last group, added to those in words.
Added(groups, tail, more) == more = IF tail = <<>> THEN groups ELSE Append(groups, tail)
EndsIn(more, w, tail)     == FlattenSeq(more) = w \o tail /\ Ended(more, w, tail)

LEMMA EndedBy ==
  ASSUME NEW K, NEW groups \in Seq(Seq(K)), NEW w \in Seq(K), w = FlattenSeq(groups),
         Singles(groups, w), NEW tail \in Seq(K), NEW more, Added(groups, tail, more)
  PROVE  EndsIn(more, w, tail)
<1> USE DEF Added, EndsIn
<1>1. CASE tail = <<>>
  <2>1. w \o <<>> = w
    BY ConcatEmptySeq
  <2> QED
    BY <1>1, <2>1 DEF Ended
<1>2. CASE tail # <<>>
  <2>1. FlattenSeq(Append(groups, tail)) = FlattenSeq(groups) \o tail
    BY FlattenAppend
  <2>2. /\ Len(Append(groups, tail)) = Len(groups) + 1
        /\ \A i \in 1 .. Len(groups) : Append(groups, tail)[i] = groups[i]
        /\ Append(groups, tail)[Len(groups) + 1] = tail
    BY AppendProperties
  <2>3. more = Append(groups, tail)
    BY <1>2
  <2> HIDE DEF Singles
  <2>4. Len(groups) = Len(w) /\ \A k \in 1 .. Len(w) : groups[k] = <<w[k]>>
    BY DEF Singles
  <2>5. Ended(more, w, tail)
    BY <1>2, <2>2, <2>3, <2>4 DEF Ended
  <2> QED
    BY <2>1, <2>3, <2>5
<1> QED
  BY <1>1, <1>2

\* The step that ends the loop.
EndsHere(f, d, n, sofar, next) ==
  \E tail \in Seq(NumbersOf(f, d)) :
    /\ Ending(f, d, n, tail, sofar.signAvailable)
    /\ next.groups = IF tail = <<>> THEN sofar.groups ELSE Append(sofar.groups, tail)

LEMMA LastStep ==
  ASSUME NEW f, Sound(f), NEW d, NEW n \in 0 .. 9, NEW i \in 1 .. 10, n = i - 1,
         NEW sofar \in Laid(f, d), InWords(f, d, n, sofar), ~sofar.done,
         PartitionUnit(f, d, sofar, Units[i]).done
  PROVE  EndsHere(f, d, n, sofar, PartitionUnit(f, d, sofar, Units[i]))
<1> USE DEF EndsHere
<1> DEFINE u == Units[i]
           K == NumbersOf(f, d)
           sign == sofar.signAvailable
<1>1. u \in UnitSet /\ f.units[u] \in UnitShape /\ f.units[u].style = StyleAt(f, i)
  BY UnitOrder DEF Sound, Formatters, StyleAt
<1>2. sign \in BOOLEAN /\ sofar.groups \in Seq(Seq(K))
  BY DEF Laid
<1>3. FractionalNumber(f, d, u, sign) \in K
  BY <1>1, <1>2 DEF NumbersOf
<1>4. NumericUnits(f, d, NumericLayout(f, d, u), sign) \in Seq(K)
  BY <1>2, LayoutShape, NumericUnitsType
<1> HIDE DEF u, sign, K
<1>5. CASE StyleAt(f, i) \in ClockStyles
  <2> DEFINE tail == NumericUnits(f, d, NumericLayout(f, d, u), sign)
  <2>1. StyleAt(f, i) # "fractional"
    BY <1>5 DEF ClockStyles
  <2>2. PartitionUnit(f, d, sofar, u) = AddGroup(sofar, tail, TRUE)
    BY <1>1, <1>5, <2>1 DEF PartitionUnit, sign
  <2>3. TailInDigits(f, d, n, tail, sign)
    BY <1>5 DEF TailInDigits, u
  <2> HIDE DEF tail
  <2>4. PartitionUnit(f, d, sofar, u).groups = IF tail = <<>> THEN sofar.groups ELSE Append(sofar.groups, tail)
    BY <2>2 DEF AddGroup
  <2>5. tail \in Seq(K)
    BY <1>4 DEF tail
  <2>6. Ending(f, d, n, tail, sign)
    BY <2>3 DEF Ending
  <2> QED
    BY <2>4, <2>5, <2>6 DEF u, sign, K
<1>6. CASE StyleAt(f, i) \notin ClockStyles
  <2> DEFINE empty == f.units[u].display = "auto" /\ FractionalAmount(d, u) = 0
             tail  == IF empty THEN <<>> ELSE <<FractionalNumber(f, d, u, sign)>>
  <2>1. /\ StyleAt(f, i) # "fractional" /\ NextUnitFractional(f, u)
        /\ PartitionUnit(f, d, sofar, u) = IF empty THEN [sofar EXCEPT !.done = TRUE]
                                          ELSE AddGroup(sofar, tail, TRUE)
    <3>1. \A group : AddGroup(sofar, group, FALSE).done = FALSE
      BY DEF AddGroup
    <3> QED
      BY <1>1, <1>6, <3>1 DEF PartitionUnit, sign, u
  <2>2. StyleAt(f, i) \in WordStyles
    BY <1>1, <1>6, <2>1 DEF UnitShape
  <2>3. TailIsFraction(f, d, n, tail, sign)
    BY <2>1, <2>2 DEF TailIsFraction, u
  <2>4. tail \in Seq(K) /\ (tail = <<>> <=> empty)
    BY <1>3
  <2>5. [sofar EXCEPT !.done = TRUE].groups = sofar.groups
    BY DEF Laid
  <2> HIDE DEF tail, empty
  <2>6. PartitionUnit(f, d, sofar, u).groups = IF tail = <<>> THEN sofar.groups ELSE Append(sofar.groups, tail)
    <3>1. CASE empty
      BY <2>1, <2>4, <2>5, <3>1
    <3>2. CASE ~empty
      <4>1. PartitionUnit(f, d, sofar, u) = AddGroup(sofar, tail, TRUE)
        BY <2>1, <3>2
      <4> QED
        BY <2>4, <3>2, <4>1 DEF AddGroup
    <3> QED
      BY <3>1, <3>2
  <2>7. Ending(f, d, n, tail, sign)
    BY <2>3 DEF Ending
  <2> QED
    BY <2>4, <2>6, <2>7 DEF u, sign, K
<1> QED
  BY <1>5, <1>6

LEMMA PartitionShape ==
  ASSUME NEW f, Sound(f), NEW d \in [UnitSet -> Int]
  PROVE  \E n \in 0 .. 10 : \E w, tail : Shaped(f, d, Partition(f, d), n, w, tail)
<1> DEFINE K == NumbersOf(f, d)
<1>1. PICK c : Laying(f, d, c)
  BY LayingExists
<1>2. \A i \in 0 .. 10 : ~c[i].done => InWords(f, d, i, c[i])
  BY <1>1, LayingWords
<1>3. /\ \A i \in 0 .. 10 : c[i] \in Laid(f, d)
      /\ \A i \in 1 .. 10 : c[i] = PartitionUnit(f, d, c[i - 1], Units[i])
      /\ Partition(f, d) = c[10].groups /\ ~c[0].done
  BY <1>1 DEF Laying, NothingLaid
<1> HIDE DEF K
<1>4. CASE ~c[10].done
  <2> DEFINE w == FlattenSeq(c[10].groups)
  <2>1. InWords(f, d, 10, c[10]) /\ c[10].groups \in Seq(Seq(K))
    BY <1>2, <1>3, <1>4 DEF Laid, K
  <2>2. Words(f, d, 10, w) /\ Told(d, 10, w) /\ Singles(c[10].groups, w)
    BY <2>1 DEF InWords
  <2>3. w \in Seq(K) /\ <<>> \in Seq(K)
    BY <2>2 DEF Words, K
  <2>4. w \o <<>> = w
    <3> HIDE DEF w
    <3> QED
      BY <2>3, ConcatEmptySeq
  <2>5. Ending(f, d, 10, <<>>, w = <<>>)
    BY DEF Ending
  <2>6. Ended(c[10].groups, w, <<>>)
    BY <2>2 DEF Ended
  <2>7. FlattenSeq(Partition(f, d)) = w \o <<>>
    BY <1>3, <2>4
  <2> HIDE DEF w
  <2>8. Shaped(f, d, Partition(f, d), 10, w, <<>>)
    BY <1>3, <2>2, <2>3, <2>5, <2>6, <2>7 DEF Shaped, K
  <2> QED
    BY <2>8
<1>5. CASE c[10].done
  <2> DEFINE Finished == {i \in 0 .. 10 : c[i].done}
  <2>1. Finished \in SUBSET Nat /\ 10 \in Finished
    BY <1>5
  <2>2. PICK p \in Finished : \A j \in Finished : p <= j
    <3> HIDE DEF Finished
    <3> QED
      BY <2>1, LeastElement
  <2>3. p \in 1 .. 10 /\ c[p].done
    <3>1. p # 0
      BY <1>3, <2>2
    <3> QED
      BY <2>2, <3>1
  <2>4. PICK n \in 0 .. 9 : n = p - 1
    BY <2>3
  <2>5. ~c[n].done
    <3>1. n \notin Finished
      BY <2>2, <2>3, <2>4
    <3> QED
      BY <3>1
  <2> HIDE DEF Finished
  <2> DEFINE Same == {i \in Nat : p <= i /\ i <= 10 => c[i] = c[p]}
  <2>6. 0 \in Same
    BY <2>3
  <2>7. ASSUME NEW i \in Nat, i \in Same
        PROVE  i + 1 \in Same
    <3>1. ASSUME NEW k \in 1 .. 10, i = k - 1, p <= k
          PROVE  c[k] = c[p]
      <4>1. CASE p = k
        BY <4>1
      <4>2. CASE p # k
        <5>1. p <= i /\ i <= 10
          BY <2>3, <3>1, <4>2
        <5>2. c[i] = c[p]
          BY <2>7, <5>1
        <5>3. c[k] = PartitionUnit(f, d, c[i], Units[k])
          BY <1>3, <3>1
        <5> QED
          BY <2>3, <5>2, <5>3 DEF PartitionUnit
      <4> QED
        BY <4>1, <4>2
    <3>2. i + 1 <= 10 => i + 1 \in 1 .. 10 /\ i = (i + 1) - 1
      OBVIOUS
    <3> QED
      BY <3>1, <3>2
  <2>8. c[10] = c[p]
    <3>1. Nat \subseteq Same
      <4> HIDE DEF Same
      <4> QED
        BY <2>6, <2>7, Induction
    <3> QED
      BY <2>3, <3>1
  <2> HIDE DEF Same
  <2> DEFINE s == c[n]
             w == FlattenSeq(s.groups)
             sign == s.signAvailable
  <2>9. /\ s \in Laid(f, d) /\ InWords(f, d, n, s) /\ ~s.done
        /\ c[p] = PartitionUnit(f, d, s, Units[p])
    BY <1>2, <1>3, <2>3, <2>4, <2>5
  <2> HIDE DEF s
  <2>10. PartitionUnit(f, d, s, Units[p]).done
    BY <2>3, <2>9
  <2>11. PICK tail \in Seq(K) :
           /\ Ending(f, d, n, tail, sign)
           /\ PartitionUnit(f, d, s, Units[p]).groups =
                IF tail = <<>> THEN s.groups ELSE Append(s.groups, tail)
    <3>1. EndsHere(f, d, n, s, PartitionUnit(f, d, s, Units[p]))
      BY <2>3, <2>4, <2>9, <2>10, LastStep
    <3> QED
      BY <3>1 DEF EndsHere, K
  <2>12. /\ Words(f, d, n, w) /\ Told(d, n, w) /\ Singles(s.groups, w) /\ (sign <=> w = <<>>)
         /\ sign \in BOOLEAN /\ s.groups \in Seq(Seq(K)) /\ w \in Seq(K)
    BY <2>9 DEF InWords, Laid, Words, K
  <2>13. sign = (w = <<>>)
    BY <2>12
  <2> DEFINE more == Partition(f, d)
  <2>14. more = IF tail = <<>> THEN s.groups ELSE Append(s.groups, tail)
    BY <1>3, <2>8, <2>9, <2>11
  <2>15. w = FlattenSeq(s.groups)
    OBVIOUS
  <2> HIDE DEF w, sign, more
  <2>16. FlattenSeq(more) = w \o tail /\ Ended(more, w, tail)
    <3> DEFINE groups == s.groups
    <3>1. /\ groups \in Seq(Seq(K)) /\ w = FlattenSeq(groups) /\ Singles(groups, w)
          /\ Added(groups, tail, more)
      BY <2>12, <2>14, <2>15 DEF Added
    <3>2. w \in Seq(K) /\ tail \in Seq(K)
      BY <2>11, <2>12
    <3> HIDE DEF groups
    <3>3. EndsIn(more, w, tail)
      BY <3>1, <3>2, EndedBy
    <3> QED
      BY <3>3 DEF EndsIn
  <2>17. Ending(f, d, n, tail, w = <<>>)
    BY <2>11, <2>13
  <2>18. Shaped(f, d, more, n, w, tail)
    BY <2>11, <2>12, <2>16, <2>17 DEF Shaped, K
  <2>19. n \in 0 .. 10
    OBVIOUS
  <2> QED
    BY <2>18, <2>19 DEF more
<1> QED
  BY <1>4, <1>5

-------------------------------------------------------------------------------
(* The last group. *)

\* After a unit in digits come two-digit units, then fractions; after a fraction
\* come fractions.
LEMMA StylesFollow ==
  ASSUME NEW f, Sound(f), NEW p \in 1 .. 10
  PROVE  /\ StyleAt(f, p) \in ClockStyles =>
              /\ p \in 5 .. 7
              /\ \A i \in p + 1 .. 10 : StyleAt(f, i) = IF i <= 7 THEN "2-digit" ELSE "fractional"
         /\ StyleAt(f, p) = "fractional" => \A i \in p .. 10 : StyleAt(f, i) = "fractional"
<1>1. ASSUME NEW q \in 1 .. 10, NEW k \in 2 .. 10, q = k - 1
      PROVE  /\ StyleAt(f, q) = "fractional" => StyleAt(f, k) = "fractional"
             /\ StyleAt(f, q) \in ClockStyles =>
                  q \in 5 .. 7 /\ StyleAt(f, k) = IF k <= 7 THEN "2-digit" ELSE "fractional"
  <2>1. /\ StyleAt(f, q) = "fractional" => StyleAt(f, k) = "fractional"
        /\ StyleAt(f, q) \in ClockStyles =>
             StyleAt(f, k) = IF Units[k] \in ClockContinuation THEN "2-digit" ELSE "fractional"
    BY <1>1 DEF Sound
  <2>2. Units[k] \in UnitSet /\ Position[Units[k]] = k /\ Units[q] \in UnitSet /\ Position[Units[q]] = q
    BY UnitOrder
  <2>3. StyleAt(f, q) \in ClockStyles => q \in 5 .. 7
    BY <2>2, Places DEF Sound, StyleAt
  <2>4. q \in 5 .. 7 => (Units[k] \in ClockContinuation <=> k <= 7)
    BY <1>1, <2>2, Places
  <2> QED
    BY <2>1, <2>3, <2>4
<1>2. StyleAt(f, p) \in ClockStyles => p \in 5 .. 7
  <2>1. Units[p] \in UnitSet /\ Position[Units[p]] = p
    BY UnitOrder
  <2> QED
    BY <2>1, Places DEF Sound, StyleAt
<1> DEFINE Trailing == {j \in Nat : p + j <= 10 =>
                /\ StyleAt(f, p) \in ClockStyles /\ j # 0 =>
                     StyleAt(f, p + j) = IF p + j <= 7 THEN "2-digit" ELSE "fractional"
                /\ StyleAt(f, p) = "fractional" => StyleAt(f, p + j) = "fractional"}
<1>3. 0 \in Trailing
  OBVIOUS
<1>4. ASSUME NEW j \in Nat, j \in Trailing
      PROVE  j + 1 \in Trailing
  <2>1. ASSUME p + (j + 1) <= 10
        PROVE  /\ StyleAt(f, p) \in ClockStyles /\ j + 1 # 0 =>
                    StyleAt(f, p + (j + 1)) = IF p + (j + 1) <= 7 THEN "2-digit" ELSE "fractional"
               /\ StyleAt(f, p) = "fractional" => StyleAt(f, p + (j + 1)) = "fractional"
    <3> DEFINE q == p + j
               k == p + (j + 1)
    <3>1. q \in 1 .. 10 /\ k \in 2 .. 10 /\ q = k - 1 /\ p + j <= 10 /\ (j = 0 => q = p)
      BY <2>1
    <3>2. /\ StyleAt(f, p) \in ClockStyles /\ j # 0 => StyleAt(f, q) = IF q <= 7 THEN "2-digit" ELSE "fractional"
          /\ StyleAt(f, p) = "fractional" => StyleAt(f, q) = "fractional"
      BY <1>4, <3>1
    <3>4. q >= 5 /\ q <= 7 => q \in 5 .. 7
      BY <3>1
    <3>5. k > 7 <=> ~(k <= 7)
      BY <3>1
    <3>6. q > 7 => ~(k <= 7)
      BY <3>1
    <3>7. ~(q <= 7) => q > 7
      BY <3>1
    <3> HIDE DEF q, k
    <3>3. /\ StyleAt(f, q) = "fractional" => StyleAt(f, k) = "fractional"
          /\ StyleAt(f, q) \in ClockStyles => StyleAt(f, k) = IF k <= 7 THEN "2-digit" ELSE "fractional"
      BY <1>1, <3>1
    <3>8. "2-digit" \in ClockStyles
      BY DEF ClockStyles
    <3>9. /\ StyleAt(f, p) \in ClockStyles => StyleAt(f, k) = IF k <= 7 THEN "2-digit" ELSE "fractional"
          /\ StyleAt(f, p) = "fractional" => StyleAt(f, k) = "fractional"
      BY <3>1, <3>2, <3>3, <3>6, <3>7, <3>8
    <3> QED
      BY <3>9 DEF k
  <2> QED
    BY <2>1
<1>5. Nat \subseteq Trailing
  <2> HIDE DEF Trailing
  <2> QED
    BY <1>3, <1>4, Induction
<1>6. ASSUME NEW i \in p .. 10
      PROVE  /\ StyleAt(f, p) \in ClockStyles /\ i # p =>
                  StyleAt(f, i) = IF i <= 7 THEN "2-digit" ELSE "fractional"
             /\ StyleAt(f, p) = "fractional" => StyleAt(f, i) = "fractional"
  <2>1. PICK j \in Nat : i = p + j /\ p + j <= 10 /\ (i # p => j # 0)
    <3>1. i - p \in Nat /\ i = p + (i - p)
      OBVIOUS
    <3> QED
      BY <3>1
  <2> QED
    BY <1>5, <2>1
<1> HIDE DEF Follows
<1>7. \A i \in p + 1 .. 10 : i \in p .. 10 /\ i # p
  OBVIOUS
<1> QED
  BY <1>2, <1>6, <1>7

\* The clock's layout.
LayoutIs(layout, hours, minutes, seconds) ==
  /\ hours /\ seconds => minutes
  /\ hours /\ minutes /\ seconds => layout = <<"hours", "minutes", "seconds">>
  /\ hours /\ minutes /\ ~seconds => layout = <<"hours", "minutes">>
  /\ hours /\ ~minutes => layout = <<"hours">>
  /\ ~hours /\ minutes /\ seconds => layout = <<"minutes", "seconds">>
  /\ ~hours /\ minutes /\ ~seconds => layout = <<"minutes">>
  /\ ~hours /\ ~minutes /\ seconds => layout = <<"seconds">>
  /\ ~hours /\ ~minutes /\ ~seconds => layout = <<>>

LEMMA LayoutOf ==
  ASSUME NEW f, NEW d, NEW u
  PROVE  LayoutIs(NumericLayout(f, d, u), HoursFormatted(f, d, u), MinutesFormatted(f, d, u),
                  SecondsFormatted(f, d))
<1> DEFINE hours == HoursFormatted(f, d, u)
           minutes == MinutesFormatted(f, d, u)
           seconds == SecondsFormatted(f, d)
           layout == NumericLayout(f, d, u)
<1>1. layout = ((IF hours THEN <<"hours">> ELSE <<>>) \o (IF minutes THEN <<"minutes">> ELSE <<>>))
                 \o (IF seconds THEN <<"seconds">> ELSE <<>>)
  BY DEF NumericLayout
<1>2. hours /\ seconds => minutes
  BY DEF HoursFormatted, MinutesFormatted
<1>3. "hours" \in UnitSet /\ "minutes" \in UnitSet /\ "seconds" \in UnitSet
  BY UnitOrder
<1> HIDE DEF hours, minutes, seconds, layout
<1>4. /\ <<"hours">> \o <<"minutes">> = <<"hours", "minutes">>
      /\ <<"hours", "minutes">> \o <<"seconds">> = <<"hours", "minutes", "seconds">>
      /\ <<"minutes">> \o <<"seconds">> = <<"minutes", "seconds">>
  BY <1>3, Joined
<1>5. /\ <<>> \o <<>> = <<>> /\ <<"hours">> \o <<>> = <<"hours">>
      /\ <<>> \o <<"minutes">> = <<"minutes">> /\ <<"minutes">> \o <<>> = <<"minutes">>
      /\ <<"hours", "minutes">> \o <<>> = <<"hours", "minutes">>
      /\ <<>> \o <<"seconds">> = <<"seconds">>
  OBVIOUS
<1>6. LayoutIs(layout, hours, minutes, seconds)
  BY <1>1, <1>2, <1>4, <1>5 DEF LayoutIs
<1> QED
  BY <1>6 DEF layout, hours, minutes, seconds

\* The numbers of the clock.
ClockNumber(f, d, layout, sign, k, x) ==
  /\ x.unit = layout[k] /\ x.style = f.units[layout[k]].style
  /\ x.minus <=> Negative(d) /\ sign /\ k = 1
  /\ layout[k] # "seconds" => x = IntegerNumber(f, d, layout[k], sign /\ k = 1)
  /\ layout[k] = "seconds" => x = FractionalNumber(f, d, "seconds", sign /\ k = 1)

LEMMA ClockNumbers ==
  ASSUME NEW f, NEW d, NEW layout \in Seq(UnitSet), NEW sign \in BOOLEAN,
         NEW k \in 1 .. Len(layout)
  PROVE  ClockNumber(f, d, layout, sign, k, NumericUnits(f, d, layout, sign)[k])
<1> DEFINE x == NumericUnits(f, d, layout, sign)[k]
           available == sign /\ k = 1
<1>1. x = IF layout[k] = "seconds" THEN FractionalNumber(f, d, "seconds", available)
          ELSE IntegerNumber(f, d, layout[k], available)
  BY DEF NumericUnits
<1> HIDE DEF x
<1>2. /\ FractionalNumber(f, d, "seconds", available).unit = "seconds"
      /\ FractionalNumber(f, d, "seconds", available).style = f.units["seconds"].style
      /\ FractionalNumber(f, d, "seconds", available).minus <=> Negative(d) /\ available
      /\ IntegerNumber(f, d, layout[k], available).unit = layout[k]
      /\ IntegerNumber(f, d, layout[k], available).style = f.units[layout[k]].style
      /\ IntegerNumber(f, d, layout[k], available).minus <=> Negative(d) /\ available
  BY DEF FractionalNumber, IntegerNumber
<1> QED
  BY <1>1, <1>2 DEF x, ClockNumber

\* The amount of a unit with fractions is zero only with all its units.
LEMMA NoFraction ==
  ASSUME NEW d \in [UnitSet -> Int], NEW p \in 7 .. 9
  PROVE  FractionalAmount(d, Units[p]) = 0 <=> \A i \in p .. 10 : d[Units[i]] = 0
<1>1. PICK t : Totals(t, d)
  BY TotalsExist
<1> DEFINE A == Worth(d)
<1>2. FractionalAmount(d, Units[p]) = t[p .. 10]
  BY <1>1, FractionalWorth
<1>3. /\ A[7] \in Nat /\ A[8] \in Nat /\ A[9] \in Nat /\ A[10] \in Nat
      /\ t[7 .. 10] = A[7] + A[8] + A[9] + A[10]
      /\ t[8 .. 10] = A[8] + A[9] + A[10]
      /\ t[9 .. 10] = A[9] + A[10]
  <2>1. TotalsOf(t, A)
    BY <1>1, TotalsFollow
  <2>2. 7 \in 1 .. 10 /\ 8 \in 1 .. 10 /\ 9 \in 1 .. 10 /\ 10 \in 1 .. 10
    OBVIOUS
  <2> HIDE DEF A
  <2> QED
    BY <2>1, <2>2 DEF TotalsOf
<1>4. \A i \in 4 .. 10 : A[i] = 0 <=> d[Units[i]] = 0
  BY WorthType
<1> HIDE DEF A
<1>5. 7 .. 10 = {7, 8, 9, 10} /\ 8 .. 10 = {8, 9, 10} /\ 9 .. 10 = {9, 10}
  OBVIOUS
<1>6. /\ A[7] = 0 <=> d[Units[7]] = 0
      /\ A[8] = 0 <=> d[Units[8]] = 0
      /\ A[9] = 0 <=> d[Units[9]] = 0
      /\ A[10] = 0 <=> d[Units[10]] = 0
  <2>1. 7 \in 4 .. 10 /\ 8 \in 4 .. 10 /\ 9 \in 4 .. 10 /\ 10 \in 4 .. 10
    OBVIOUS
  <2> QED
    BY <1>4, <2>1
<1>7. CASE p = 7
  <2> DEFINE a == A[7]
             b == A[8]
             c == A[9]
             e == A[10]
             all == t[p .. 10]
  <2>0. a \in Nat /\ b \in Nat /\ c \in Nat /\ e \in Nat /\ all = a + b + c + e
    BY <1>3, <1>7
  <2>1. all = 0 <=> a = 0 /\ b = 0 /\ c = 0 /\ e = 0
    <3> HIDE DEF a, b, c, e, all
    <3> QED
      BY <2>0
  <2>2. (\A i \in p .. 10 : d[Units[i]] = 0)
           <=> d[Units[7]] = 0 /\ d[Units[8]] = 0 /\ d[Units[9]] = 0 /\ d[Units[10]] = 0
    BY <1>5, <1>7
  <2> QED
    BY <1>2, <1>6, <2>1, <2>2
<1>8. CASE p = 8
  <2>1. t[p .. 10] = 0 <=> A[8] = 0 /\ A[9] = 0 /\ A[10] = 0
    BY <1>3, <1>8
  <2>2. (\A i \in p .. 10 : d[Units[i]] = 0)
           <=> d[Units[8]] = 0 /\ d[Units[9]] = 0 /\ d[Units[10]] = 0
    BY <1>5, <1>8
  <2> QED
    BY <1>2, <1>6, <2>1, <2>2
<1>9. CASE p = 9
  <2>1. t[p .. 10] = 0 <=> A[9] = 0 /\ A[10] = 0
    BY <1>3, <1>9
  <2>2. (\A i \in p .. 10 : d[Units[i]] = 0) <=> d[Units[9]] = 0 /\ d[Units[10]] = 0
    BY <1>5, <1>9
  <2> QED
    BY <1>2, <1>6, <2>1, <2>2
<1> QED
  BY <1>7, <1>8, <1>9

LEMMA ClockPlaces ==
  /\ Units[5] = "hours" /\ Units[6] = "minutes" /\ Units[7] = "seconds"
  /\ Position["hours"] = 5 /\ Position["minutes"] = 6 /\ Position["seconds"] = 7
  /\ Child("hours") = "minutes" /\ Child("minutes") = "seconds"
<1>1. Units[5] = "hours" /\ Units[6] = "minutes" /\ Units[7] = "seconds"
  BY DEF Units
<1>2. Position["hours"] = 5 /\ Position["minutes"] = 6 /\ Position["seconds"] = 7
  BY <1>1, UnitOrder
<1>3. Child("hours") = "minutes" /\ Child("minutes") = "seconds"
  BY <1>1, <1>2 DEF Child
<1> QED
  BY <1>1, <1>2, <1>3

\* A layout has the units it is made from, adjacent and in order.
Lays(layout, u) == \E k \in 1 .. Len(layout) : layout[k] = u

Adjacent(layout) ==
  /\ Len(layout) \in 0 .. 3
  /\ \A k \in 1 .. Len(layout) : layout[k] \in ClockUnits
  /\ \A k \in 1 .. Len(layout) - 1 : layout[k + 1] = Child(layout[k]) /\ layout[k] # "seconds"
  /\ \A k, l \in 1 .. Len(layout) : k < l => Position[layout[k]] < Position[layout[l]]

LEMMA LayoutAdjacent ==
  ASSUME NEW layout, NEW hours \in BOOLEAN, NEW minutes \in BOOLEAN, NEW seconds \in BOOLEAN,
         LayoutIs(layout, hours, minutes, seconds)
  PROVE  /\ Adjacent(layout)
         /\ Lays(layout, "hours") <=> hours
         /\ Lays(layout, "minutes") <=> minutes
         /\ Lays(layout, "seconds") <=> seconds
<1> USE DEF Lays, Adjacent, ClockUnits
<1>1. CASE layout = <<>> /\ ~hours /\ ~minutes /\ ~seconds
  <2>1. Len(layout) = 0 /\ 1 .. 0 = {} /\ 1 .. 0 - 1 = {}
    BY <1>1
  <2> QED
    BY <1>1, <2>1
<1>2. CASE \E u \in ClockUnits : layout = <<u>> /\ (hours <=> u = "hours")
                                 /\ (minutes <=> u = "minutes") /\ (seconds <=> u = "seconds")
  <2>1. PICK u \in ClockUnits : layout = <<u>> /\ (hours <=> u = "hours")
                                 /\ (minutes <=> u = "minutes") /\ (seconds <=> u = "seconds")
    BY <1>2
  <2>2. Len(layout) = 1 /\ layout[1] = u /\ 1 .. 1 = {1} /\ 1 .. 1 - 1 = {}
    BY <2>1
  <2> QED
    BY <2>1, <2>2
<1>3. CASE layout = <<"hours", "minutes">> /\ hours /\ minutes /\ ~seconds
  <2>1. /\ Len(layout) = 2 /\ layout[1] = "hours" /\ layout[2] = "minutes"
        /\ 1 .. 2 = {1, 2} /\ 1 .. 2 - 1 = {1} /\ 1 + 1 = 2
    BY <1>3
  <2> QED
    BY <1>3, <2>1, ClockPlaces
<1>4. CASE layout = <<"minutes", "seconds">> /\ ~hours /\ minutes /\ seconds
  <2>1. /\ Len(layout) = 2 /\ layout[1] = "minutes" /\ layout[2] = "seconds"
        /\ 1 .. 2 = {1, 2} /\ 1 .. 2 - 1 = {1} /\ 1 + 1 = 2
    BY <1>4
  <2> QED
    BY <1>4, <2>1, ClockPlaces
<1>5. CASE layout = <<"hours", "minutes", "seconds">> /\ hours /\ minutes /\ seconds
  <2>1. /\ Len(layout) = 3 /\ layout[1] = "hours" /\ layout[2] = "minutes" /\ layout[3] = "seconds"
        /\ 1 .. 3 = {1, 2, 3} /\ 1 .. 3 - 1 = {1, 2} /\ 1 + 1 = 2 /\ 2 + 1 = 3
    BY <1>5
  <2>2. \A k, l \in {1, 2, 3} : k < l => Position[layout[k]] < Position[layout[l]]
    BY <2>1, ClockPlaces
  <2>3. \A k \in {1, 2} : layout[k + 1] = Child(layout[k]) /\ layout[k] # "seconds"
    BY <2>1, ClockPlaces
  <2> QED
    BY <1>5, <2>1, <2>2, <2>3
<1> QED
  BY <1>1, <1>2, <1>3, <1>4, <1>5 DEF LayoutIs

\* What the last group is like, for the units after the first n.
IsFraction(f, x) ==
  NextUnitFractional(f, x.unit) \/ (x.unit = "seconds" /\ x.style \in ClockStyles)

ShowsUnit(s, u) == \E k \in 1 .. Len(s) : s[k].unit = u

GroupOf(f, d, n, tail, sign) ==
  /\ \A k \in 1 .. Len(tail) :
       /\ tail[k].unit \in UnitSet /\ Position[tail[k].unit] > n
       /\ tail[k].minus <=> Negative(d) /\ sign /\ k = 1
  /\ \A k, l \in 1 .. Len(tail) : k < l => Position[tail[k].unit] < Position[tail[l].unit]
  /\ \A k \in 1 .. Len(tail) - 1 :
       /\ tail[k + 1].unit = Child(tail[k].unit) /\ tail[k + 1].style = "2-digit"
       /\ ~IsFraction(f, tail[k])

ShownWhenAsked(f, d, tail, u) ==
  /\ f.units[u].display = "always" => ShowsUnit(tail, u)
  /\ f.units[u].display = "auto" /\ ShowsUnit(tail, u) /\ d[u] = 0 =>
       \/ u = "minutes" /\ ShowsUnit(tail, "hours") /\ ShowsUnit(tail, "seconds")
       \/ u \in Parents /\ \E c \in Descendants(u) : d[c] # 0
  /\ d[u] # 0 => tail # <<>>

LEMMA ClockGroup ==
  ASSUME NEW f, Sound(f), NEW d \in [UnitSet -> Int], NEW n \in 0 .. 10, NEW tail,
         NEW sign \in BOOLEAN, TailInDigits(f, d, n, tail, sign)
  PROVE  /\ GroupOf(f, d, n, tail, sign)
         /\ \A u \in UnitSet : Position[u] > n => ShownWhenAsked(f, d, tail, u)
<1>1. PICK p \in 1 .. 10 :
        /\ n = p - 1 /\ StyleAt(f, p) \in ClockStyles
        /\ tail = NumericUnits(f, d, NumericLayout(f, d, Units[p]), sign)
  BY DEF TailInDigits
<1> DEFINE first == Units[p]
           layout == NumericLayout(f, d, first)
           hours == HoursFormatted(f, d, first)
           minutes == MinutesFormatted(f, d, first)
           seconds == SecondsFormatted(f, d)
<1>2. /\ p \in 5 .. 7
      /\ \A i \in p + 1 .. 10 : StyleAt(f, i) = IF i <= 7 THEN "2-digit" ELSE "fractional"
  BY <1>1, StylesFollow
<1>3. hours \in BOOLEAN /\ minutes \in BOOLEAN /\ seconds \in BOOLEAN
  BY DEF HoursFormatted, MinutesFormatted, SecondsFormatted
<1>4. /\ Adjacent(layout) /\ (Lays(layout, "hours") <=> hours)
      /\ (Lays(layout, "minutes") <=> minutes) /\ (Lays(layout, "seconds") <=> seconds)
  <2>1. LayoutIs(layout, hours, minutes, seconds)
    BY LayoutOf
  <2> HIDE DEF layout, hours, minutes, seconds
  <2> QED
    BY <1>3, <2>1, LayoutAdjacent
<1>5. layout \in Seq(UnitSet) /\ Len(layout) \in Nat
  BY LayoutShape
<1>6. /\ (first = "hours" <=> p = 5) /\ (first = "minutes" <=> p = 6) /\ (first = "seconds" <=> p = 7)
      /\ Position[first] = p
  BY UnitOrder, ClockPlaces
<1>7. /\ hours <=> p = 5 /\ Shown(f, d, "hours")
      /\ minutes <=> p \in {5, 6} /\ ((hours /\ seconds) \/ Shown(f, d, "minutes"))
      /\ seconds <=> Shown(f, d, "seconds") \/ \E c \in Fractional : d[c] # 0
  BY <1>6 DEF HoursFormatted, MinutesFormatted, SecondsFormatted, HasSubsecondValue
<1>16. tail = NumericUnits(f, d, layout, sign)
  BY <1>1
<1>17. /\ "hours" \in UnitSet /\ "minutes" \in UnitSet /\ "seconds" \in UnitSet
       /\ n < p /\ p <= 7
  BY <1>1, <1>2, UnitOrder
<1> HIDE DEF layout, hours, minutes, seconds, first
<1>8. Len(tail) = Len(layout)
  BY <1>1, <1>5, NumericUnitsType DEF layout, first
<1>9. ASSUME NEW k \in 1 .. Len(tail)
      PROVE  /\ tail[k].unit = layout[k] /\ tail[k].style = f.units[layout[k]].style
             /\ tail[k].minus <=> Negative(d) /\ sign /\ k = 1
             /\ layout[k] \in ClockUnits
  <2>1. k \in 1 .. Len(layout)
    BY <1>8
  <2>2. layout[k] \in ClockUnits
    BY <1>4, <2>1 DEF Adjacent
  <2>3. ClockNumber(f, d, layout, sign, k, tail[k])
    BY <1>5, <1>16, <2>1, ClockNumbers
  <2> QED
    BY <2>2, <2>3 DEF ClockNumber
<1>10. \A u : ShowsUnit(tail, u) <=> Lays(layout, u)
  BY <1>8, <1>9 DEF ShowsUnit, Lays
<1>11. \A u : Lays(layout, u) => u \in ClockUnits
  BY <1>4 DEF Adjacent, Lays
<1>12. ASSUME NEW k \in 1 .. Len(tail)
       PROVE  tail[k].unit \in UnitSet /\ Position[tail[k].unit] > n
  <2>1. layout[k] \in {"hours", "minutes", "seconds"} /\ Lays(layout, layout[k])
    BY <1>8, <1>9 DEF ClockUnits, Lays
  <2>2. CASE layout[k] = "hours"
    <3>1. p = 5
      BY <1>4, <1>7, <2>1, <2>2
    <3> QED
      BY <1>9, <1>17, <2>2, <3>1, ClockPlaces
  <2>3. CASE layout[k] = "minutes"
    <3>1. p <= 6
      BY <1>4, <1>7, <2>1, <2>3
    <3> QED
      BY <1>9, <1>17, <2>3, <3>1, ClockPlaces
  <2>4. CASE layout[k] = "seconds"
    BY <1>9, <1>17, <2>4, ClockPlaces
  <2> QED
    BY <2>1, <2>2, <2>3, <2>4
<1>13. ASSUME NEW k \in 1 .. Len(tail) - 1
       PROVE  /\ tail[k + 1].unit = Child(tail[k].unit) /\ tail[k + 1].style = "2-digit"
              /\ ~IsFraction(f, tail[k])
  <2>1. k \in 1 .. Len(tail) /\ k + 1 \in 1 .. Len(tail) /\ k \in 1 .. Len(layout) - 1
    BY <1>5, <1>8
  <2>2. layout[k + 1] = Child(layout[k]) /\ layout[k] # "seconds"
    BY <1>4, <2>1 DEF Adjacent
  <2>3. layout[k] \in {"hours", "minutes"}
    BY <1>9, <2>1, <2>2 DEF ClockUnits
  <2>4. Position[layout[k]] > n
    BY <1>9, <1>12, <2>1
  <2>5. ~IsFraction(f, tail[k])
    <3>1. layout[k] \notin Parents
      BY <2>3 DEF Parents
    <3> QED
      BY <1>9, <2>1, <2>2, <3>1 DEF IsFraction, NextUnitFractional
  <2>6. f.units[layout[k + 1]].style = "2-digit"
    <3>1. CASE layout[k] = "hours"
      <4>1. p <= 5 /\ 6 \in p + 1 .. 10 /\ 6 <= 7
        BY <1>1, <1>2, <2>4, <3>1, ClockPlaces
      <4>2. StyleAt(f, 6) = "2-digit"
        BY <1>2, <4>1
      <4> QED
        BY <2>2, <3>1, <4>2, ClockPlaces DEF StyleAt
    <3>2. CASE layout[k] = "minutes"
      <4>1. p <= 6 /\ 7 \in p + 1 .. 10 /\ 7 <= 7
        BY <1>1, <1>2, <2>4, <3>2, ClockPlaces
      <4>2. StyleAt(f, 7) = "2-digit"
        BY <1>2, <4>1
      <4> QED
        BY <2>2, <3>2, <4>2, ClockPlaces DEF StyleAt
    <3> QED
      BY <2>3, <3>1, <3>2
  <2> QED
    BY <1>9, <2>1, <2>2, <2>5, <2>6
<1>14. GroupOf(f, d, n, tail, sign)
  <2>1. \A k, l \in 1 .. Len(tail) : k < l => Position[tail[k].unit] < Position[tail[l].unit]
    BY <1>4, <1>8, <1>9 DEF Adjacent
  <2> QED
    BY <1>9, <1>12, <1>13, <2>1 DEF GroupOf
<1>15. ASSUME NEW u \in UnitSet, Position[u] > n
       PROVE  ShownWhenAsked(f, d, tail, u)
  <2>1. Position[u] \in p .. 10 /\ Position[u] \in 1 .. 10 /\ Units[Position[u]] = u
    BY <1>1, <1>15, UnitOrder
  <2>2. Shown(f, d, u) => u \in Fractional \/ ShowsUnit(tail, u)
    <3>1. CASE Position[u] \in 8 .. 10
      BY <3>1, Places
    <3>2. CASE Position[u] = 5
      <4>1. u = "hours" /\ p = 5
        BY <1>2, <2>1, <3>2, ClockPlaces
      <4> QED
        BY <1>4, <1>7, <1>10, <4>1
    <3>3. CASE Position[u] = 6
      <4>1. u = "minutes" /\ p \in {5, 6}
        BY <1>2, <2>1, <3>3, ClockPlaces
      <4> QED
        BY <1>4, <1>7, <1>10, <4>1
    <3>4. CASE Position[u] = 7
      <4>1. u = "seconds"
        BY <2>1, <3>4, ClockPlaces
      <4> QED
        BY <1>4, <1>7, <1>10, <4>1
    <3>5. Position[u] \in 8 .. 10 \/ Position[u] = 5 \/ Position[u] = 6 \/ Position[u] = 7
      BY <1>2, <2>1
    <3> QED
      BY <3>1, <3>2, <3>3, <3>4, <3>5
  <2>3. f.units[u].display = "always" => ShowsUnit(tail, u)
    <3> SUFFICES ASSUME f.units[u].display = "always" PROVE ShowsUnit(tail, u)
      OBVIOUS
    <3>1. u \notin Fractional
      <4> SUFFICES ASSUME u \in Fractional PROVE FALSE
        OBVIOUS
      <4>1. Position[u] \in p + 1 .. 10 /\ ~(Position[u] <= 7)
        BY <1>2, <2>1, Places
      <4>2. StyleAt(f, Position[u]) = "fractional"
        BY <1>2, <4>1
      <4>3. f.units[u].display = "auto"
        BY <2>1, <4>2 DEF StyleAt, Sound
      <4> QED
        BY <4>3
    <3> QED
      BY <2>2, <3>1 DEF Shown
  <2>4. ASSUME f.units[u].display = "auto", ShowsUnit(tail, u), d[u] = 0
        PROVE  \/ u = "minutes" /\ ShowsUnit(tail, "hours") /\ ShowsUnit(tail, "seconds")
               \/ u \in Parents /\ \E c \in Descendants(u) : d[c] # 0
    <3>1. ~Shown(f, d, u)
      BY <2>4 DEF Shown
    <3>2. u \in {"hours", "minutes", "seconds"}
      BY <1>10, <1>11, <2>4 DEF ClockUnits
    <3>3. u # "hours"
      BY <1>4, <1>7, <1>10, <2>4, <3>1
    <3>4. CASE u = "minutes"
      BY <1>4, <1>7, <1>10, <2>4, <3>1, <3>4
    <3>5. CASE u = "seconds"
      <4>1. \E c \in Fractional : d[c] # 0
        BY <1>4, <1>7, <1>10, <2>4, <3>1, <3>5
      <4>2. Descendants(u) = Fractional
        BY <3>5, Below DEF Fractional
      <4> QED
        BY <3>5, <4>1, <4>2 DEF Parents
    <3> QED
      BY <3>2, <3>3, <3>4, <3>5
  <2>5. d[u] # 0 => tail # <<>>
    <3> SUFFICES ASSUME d[u] # 0 PROVE tail # <<>>
      OBVIOUS
    <3>1. \E v : ShowsUnit(tail, v)
      <4>1. CASE u \in Fractional
        BY <1>4, <1>7, <1>10, <4>1
      <4>2. CASE u \notin Fractional
        BY <2>2, <4>2 DEF Shown
      <4> QED
        BY <4>1, <4>2
    <3>2. 1 .. Len(tail) # {}
      BY <3>1 DEF ShowsUnit
    <3> QED
      BY <3>2
  <2> QED
    BY <2>3, <2>4, <2>5 DEF ShownWhenAsked
<1> QED
  BY <1>14, <1>15

LEMMA FractionGroup ==
  ASSUME NEW f, Sound(f), NEW d \in [UnitSet -> Int], NEW n \in 0 .. 10, NEW tail,
         NEW sign \in BOOLEAN, TailIsFraction(f, d, n, tail, sign)
  PROVE  /\ GroupOf(f, d, n, tail, sign)
         /\ \A u \in UnitSet : Position[u] > n => ShownWhenAsked(f, d, tail, u)
<1>1. PICK p \in 1 .. 10 :
        /\ n = p - 1 /\ StyleAt(f, p) \in WordStyles /\ NextUnitFractional(f, Units[p])
        /\ tail = IF f.units[Units[p]].display = "auto" /\ FractionalAmount(d, Units[p]) = 0 THEN <<>>
                  ELSE <<FractionalNumber(f, d, Units[p], sign)>>
  BY DEF TailIsFraction
<1> DEFINE v == Units[p]
           x == FractionalNumber(f, d, v, sign)
<1>2. v \in UnitSet /\ Position[v] = p /\ v \in Parents /\ p \in 7 .. 9 /\ n < p
  <2>1. v \in UnitSet /\ Position[v] = p /\ v \in Parents
    BY <1>1, UnitOrder DEF NextUnitFractional
  <2> QED
    BY <1>1, <2>1, Below DEF Parents
<1>3. \A i \in p + 1 .. 10 : f.units[Units[i]].display = "auto"
  <2>1. PICK q \in 2 .. 10 : q = p + 1
    BY <1>2
  <2>2. StyleAt(f, q) = "fractional"
    BY <1>1, <1>2, <2>1 DEF NextUnitFractional, Child, StyleAt
  <2>3. \A i \in q .. 10 : StyleAt(f, i) = "fractional" /\ i \in 1 .. 10
    BY <2>1, <2>2, StylesFollow
  <2> QED
    BY <2>1, <2>3, UnitOrder DEF StyleAt, Sound
<1>4. x.unit = v /\ (x.minus <=> Negative(d) /\ sign)
  BY DEF FractionalNumber
<1>5. FractionalAmount(d, v) = 0 <=> \A i \in p .. 10 : d[Units[i]] = 0
  BY <1>2, NoFraction
<1> HIDE DEF v, x
<1>6. tail = <<>> \/ (tail = <<x>> /\ Len(tail) = 1 /\ tail[1] = x)
  BY <1>1 DEF v, x
<1>7. tail = <<>> <=> f.units[v].display = "auto" /\ FractionalAmount(d, v) = 0
  BY <1>1 DEF v, x
<1>8. GroupOf(f, d, n, tail, sign)
  <2>1. CASE tail = <<>>
    <3>1. Len(tail) = 0 /\ 1 .. 0 = {} /\ 1 .. 0 - 1 = {}
      BY <2>1
    <3> QED
      BY <3>1 DEF GroupOf
  <2>2. CASE tail # <<>>
    <3>1. Len(tail) = 1 /\ 1 .. 1 = {1} /\ 1 .. 1 - 1 = {} /\ tail[1] = x
      BY <1>6, <2>2
    <3>2. /\ x.unit \in UnitSet /\ Position[x.unit] > n
          /\ x.minus <=> Negative(d) /\ sign /\ 1 = 1
      BY <1>2, <1>4 DEF v
    <3> QED
      BY <3>1, <3>2 DEF GroupOf
  <2> QED
    BY <2>1, <2>2
<1>9. ShowsUnit(tail, v) <=> tail # <<>>
  <2>1. CASE tail = <<>>
    <3>1. 1 .. Len(tail) = {}
      BY <2>1
    <3> QED
      BY <2>1, <3>1 DEF ShowsUnit
  <2>2. CASE tail # <<>>
    <3>1. 1 \in 1 .. Len(tail) /\ tail[1].unit = v
      BY <1>4, <1>6, <2>2
    <3> QED
      BY <2>2, <3>1 DEF ShowsUnit
  <2> QED
    BY <2>1, <2>2
<1>10. \A u : ShowsUnit(tail, u) => u = v
  <2>1. \A k \in 1 .. Len(tail) : tail[k].unit = v
    <3>1. CASE tail = <<>>
      BY <3>1
    <3>2. CASE tail # <<>>
      BY <1>4, <1>6, <3>2
    <3> QED
      BY <3>1, <3>2
  <2> QED
    BY <2>1 DEF ShowsUnit
<1>11. ASSUME NEW u \in UnitSet, Position[u] > n
       PROVE  ShownWhenAsked(f, d, tail, u)
  <2>1. Position[u] \in p .. 10 /\ Units[Position[u]] = u
    <3>1. Position[u] \in 1 .. 10 /\ Units[Position[u]] = u
      BY UnitOrder
    <3>2. \A i \in 1 .. 10 : i > n => i \in p .. 10
      BY <1>1
    <3> QED
      BY <1>11, <3>1, <3>2
  <2>2. f.units[u].display = "always" => ShowsUnit(tail, u)
    <3> SUFFICES ASSUME f.units[u].display = "always" PROVE ShowsUnit(tail, u)
      OBVIOUS
    <3>1. Position[u] \notin p + 1 .. 10
      BY <1>3, <2>1
    <3>2. u = v
      <4>1. Position[u] = p
        BY <2>1, <3>1
      <4> QED
        BY <2>1, <4>1 DEF v
    <3> QED
      BY <1>7, <1>9, <3>2
  <2>3. ASSUME f.units[u].display = "auto", ShowsUnit(tail, u), d[u] = 0
        PROVE  u \in Parents /\ \E c \in Descendants(u) : d[c] # 0
    <3>1. u = v
      BY <1>10, <2>3
    <3>2. PICK i \in p .. 10 : d[Units[i]] # 0
      BY <1>5, <1>7, <1>9, <2>3, <3>1
    <3>3. i # p
      BY <2>3, <3>1, <3>2 DEF v
    <3>4. Units[i] \in UnitSet /\ Position[Units[i]] = i /\ i > p /\ i \in 8 .. 10
      BY <1>2, <3>2, <3>3, UnitOrder
    <3>5. Units[i] \in Descendants(u)
      BY <1>2, <3>1, <3>4, Places DEF Descendants
    <3> QED
      BY <1>2, <3>1, <3>2, <3>5
  <2>4. d[u] # 0 => tail # <<>>
    BY <1>5, <1>7, <2>1
  <2> QED
    BY <2>2, <2>3, <2>4 DEF ShownWhenAsked
<1> QED
  BY <1>8, <1>11

LEMMA EndGroup ==
  ASSUME NEW f, Sound(f), NEW d \in [UnitSet -> Int], NEW n \in 0 .. 10, NEW tail,
         NEW sign \in BOOLEAN, Ending(f, d, n, tail, sign)
  PROVE  /\ GroupOf(f, d, n, tail, sign)
         /\ \A u \in UnitSet : Position[u] > n => ShownWhenAsked(f, d, tail, u)
<1>1. CASE n = 10 /\ tail = <<>>
  <2>1. Len(tail) = 0 /\ 1 .. 0 = {} /\ 1 .. 0 - 1 = {}
    BY <1>1
  <2>2. \A u \in UnitSet : ~(Position[u] > n)
    <3>1. \A u \in UnitSet : Position[u] \in 1 .. 10
      BY UnitOrder
    <3>2. \A i \in 1 .. 10 : ~(i > n)
      BY <1>1
    <3> QED
      BY <3>1, <3>2
  <2> QED
    BY <2>1, <2>2 DEF GroupOf
<1>2. CASE TailInDigits(f, d, n, tail, sign)
  BY <1>2, ClockGroup
<1>3. CASE TailIsFraction(f, d, n, tail, sign)
  BY <1>3, FractionGroup
<1> QED
  BY <1>1, <1>2, <1>3 DEF Ending

-------------------------------------------------------------------------------
(* The numbers, in words and in the last group. *)

\* What is shown: a sequence that a shape splits.
Split(f, d, groups, numbers, n, w, tail) ==
  /\ Shaped(f, d, groups, n, w, tail) /\ numbers = w \o tail
  /\ Len(w) \in Nat /\ Len(tail) \in Nat /\ Len(numbers) = Len(w) + Len(tail)
  /\ DOMAIN numbers = 1 .. Len(w) + Len(tail)
  /\ \A k \in 1 .. Len(w) : numbers[k] = w[k]
  /\ \A k \in 1 .. Len(tail) : numbers[Len(w) + k] = tail[k]
  /\ GroupOf(f, d, n, tail, w = <<>>)
  /\ \A u \in UnitSet : Position[u] > n => ShownWhenAsked(f, d, tail, u)

LEMMA NumbersSplit ==
  ASSUME NEW f, Sound(f), NEW d \in [UnitSet -> Int], NEW groups, groups = Partition(f, d),
         NEW numbers, numbers = FlattenSeq(groups)
  PROVE  \E n \in 0 .. 10 : \E w, tail : Split(f, d, groups, numbers, n, w, tail)
<1>1. PICK n, w, tail : n \in 0 .. 10 /\ Shaped(f, d, groups, n, w, tail)
  BY PartitionShape
<1> DEFINE K == NumbersOf(f, d)
           sign == w = <<>>
<1>2. /\ w \in Seq(K) /\ tail \in Seq(K) /\ numbers = w \o tail /\ Ending(f, d, n, tail, sign)
  BY <1>1 DEF Shaped, Words
<1>3. GroupOf(f, d, n, tail, sign) /\ \A u \in UnitSet : Position[u] > n => ShownWhenAsked(f, d, tail, u)
  <2>1. sign \in BOOLEAN
    OBVIOUS
  <2> HIDE DEF sign
  <2> QED
    BY <1>1, <1>2, <2>1, EndGroup
<1> HIDE DEF K
<1> DEFINE m == Len(w)
           l == Len(tail)
<1>4. m \in Nat /\ l \in Nat
  BY <1>2, LenProperties
<1>5. /\ w \o tail \in Seq(K) /\ Len(w \o tail) = m + l
      /\ \A k \in 1 .. m + l : (w \o tail)[k] = IF k <= m THEN w[k] ELSE tail[k - m]
  BY <1>2, ConcatProperties
<1>6. DOMAIN numbers = 1 .. m + l /\ Len(numbers) = m + l
  BY <1>2, <1>5, LenProperties
<1> HIDE DEF m, l
<1>7. ASSUME NEW k \in 1 .. m
      PROVE  numbers[k] = w[k]
  <2>1. k \in 1 .. m + l /\ k <= m
    BY <1>4
  <2> QED
    BY <1>2, <1>5, <2>1
<1>8. ASSUME NEW k \in 1 .. l
      PROVE  numbers[m + k] = tail[k]
  <2>1. m + k \in 1 .. m + l /\ ~(m + k <= m) /\ (m + k) - m = k
    BY <1>4
  <2> QED
    BY <1>2, <1>5, <2>1
<1>9. Split(f, d, groups, numbers, n, w, tail)
  BY <1>1, <1>2, <1>3, <1>4, <1>6, <1>7, <1>8 DEF Split, m, l
<1> QED
  BY <1>1, <1>9

\* A nonzero unit is among the numbers, or something is shown in its place.
LEMMA NonzeroShows ==
  ASSUME NEW f, NEW d, NEW groups, NEW numbers, NEW n \in 0 .. 10, NEW w, NEW tail,
         Split(f, d, groups, numbers, n, w, tail), NEW u \in UnitSet, d[u] # 0
  PROVE  Len(w) + Len(tail) >= 1
<1>1. Len(w) \in Nat /\ Len(tail) \in Nat /\ Words(f, d, n, w) /\ tail \in Seq(NumbersOf(f, d))
  BY DEF Split, Shaped
<1>2. CASE Position[u] > n
  <2>1. tail # <<>>
    BY <1>2 DEF Split, ShownWhenAsked
  <2>2. Len(tail) # 0
    BY <1>1, <2>1, EmptySeq
  <2> QED
    BY <1>1, <2>2
<1>3. CASE ~(Position[u] > n)
  <2>1. Position[u] \in 1 .. n /\ Units[Position[u]] = u
    <3>1. Position[u] \in 1 .. 10 /\ Units[Position[u]] = u
      BY UnitOrder
    <3>2. \A i \in 1 .. 10 : ~(i > n) => i \in 1 .. n
      OBVIOUS
    <3> QED
      BY <1>3, <3>1, <3>2
  <2>2. Shown(f, d, u)
    BY DEF Shown
  <2>3. \E k \in 1 .. Len(w) : w[k] = IntegerNumber(f, d, Units[Position[u]], k = 1)
    BY <1>1, <2>1, <2>2 DEF Words
  <2> QED
    BY <1>1, <2>3
<1> QED
  BY <1>2, <1>3

SignAt(d, numbers, k) == numbers[k].minus <=> Negative(d) /\ k = 1

LEMMA SignOnFirst ==
  ASSUME NEW f, NEW d, NEW groups, NEW numbers, NEW n \in 0 .. 10, NEW w, NEW tail,
         Split(f, d, groups, numbers, n, w, tail), NEW k \in 1 .. Len(w) + Len(tail)
  PROVE  SignAt(d, numbers, k)
<1> USE DEF SignAt
<1>1. Len(w) \in Nat /\ Len(tail) \in Nat /\ w \in Seq(NumbersOf(f, d))
  BY DEF Split, Shaped, Words
<1>2. CASE k \in 1 .. Len(w)
  <2>1. PICK j \in 1 .. n : w[k] = IntegerNumber(f, d, Units[j], k = 1)
    BY <1>2 DEF Split, Shaped, Words
  <2> DEFINE first == k = 1
  <2>2. numbers[k] = IntegerNumber(f, d, Units[j], first)
    BY <1>2, <2>1 DEF Split
  <2> HIDE DEF first
  <2>3. IntegerNumber(f, d, Units[j], first).minus <=> Negative(d) /\ first
    BY DEF IntegerNumber
  <2> QED
    BY <2>2, <2>3 DEF first
<1>3. CASE k \notin 1 .. Len(w)
  <2>1. PICK j \in 1 .. Len(tail) : k = Len(w) + j
    <3>1. k - Len(w) \in 1 .. Len(tail) /\ k = Len(w) + (k - Len(w))
      BY <1>1, <1>3
    <3> QED
      BY <3>1
  <2>2. numbers[k] = tail[j] /\ (tail[j].minus <=> Negative(d) /\ w = <<>> /\ j = 1)
    BY <2>1 DEF Split, GroupOf
  <2>3. w = <<>> <=> Len(w) = 0
    BY <1>1, EmptySeq
  <2>4. Len(w) = 0 /\ j = 1 <=> k = 1
    BY <1>1, <2>1
  <2> QED
    BY <2>2, <2>3, <2>4
<1> QED
  BY <1>2, <1>3

\* What is laid out shows its sign once.
LEMMA LaidOutSigned ==
  ASSUME LaidOut
  PROVE  SignShownOnce
<1> SUFFICES ASSUME Formatted
             PROVE  {i \in DOMAIN Numbers : Numbers[i].minus} = IF Negative(duration) THEN {1} ELSE {}
  BY DEF SignShownOnce
<1> DEFINE f == formatter
           d == duration
           groups == result
           numbers == Numbers
<1>1. /\ Sound(f) /\ d \in [UnitSet -> Int] /\ groups = Partition(f, d)
      /\ numbers = FlattenSeq(groups)
  BY DEF LaidOut
<1> HIDE DEF f, d, groups, numbers
<1>2. PICK n, w, tail : n \in 0 .. 10 /\ Split(f, d, groups, numbers, n, w, tail)
  BY <1>1, NumbersSplit
<1> DEFINE m == Len(w) + Len(tail)
<1>3. /\ DOMAIN numbers = 1 .. m /\ m \in Nat
  BY <1>2 DEF Split
<1>4. \A k \in 1 .. m : numbers[k].minus <=> Negative(d) /\ k = 1
  <2>1. \A k \in 1 .. m : SignAt(d, numbers, k)
    BY <1>2, SignOnFirst
  <2> QED
    BY <2>1 DEF SignAt
<1>5. Negative(d) => m >= 1
  <2> SUFFICES ASSUME NEW u \in UnitSet, d[u] < 0 PROVE m >= 1
    BY DEF Negative
  <2>1. d[u] # 0
    OBVIOUS
  <2> QED
    BY <1>2, <2>1, NonzeroShows
<1> HIDE DEF m
<1>6. Negative(d) => 1 \in 1 .. m
  BY <1>3, <1>5
<1>7. {i \in DOMAIN numbers : numbers[i].minus} = IF Negative(d) THEN {1} ELSE {}
  BY <1>3, <1>4, <1>6
<1> QED
  BY <1>7 DEF numbers, d

\* A negative duration shows its sign once, on the first number that the
\* formatter lays out, and any other duration shows none.
THEOREM Signs == Spec => []SignShownOnce
<1>1. LaidOut => SignShownOnce
  BY LaidOutSigned
<1> QED
  BY <1>1, LayoutInvariant, PTL

\* The groups of a result.
OneClock(groups, i) ==
  /\ Len(groups[i]) > 1 => i = Len(groups)
  /\ \A j \in 1 .. Len(groups[i]) - 1 :
       /\ groups[i][j + 1].unit = Child(groups[i][j].unit)
       /\ groups[i][j + 1].style = "2-digit"

LEMMA GroupsShape ==
  ASSUME NEW f, NEW d, NEW groups \in Seq(Seq(NumbersOf(f, d))), NEW numbers, NEW n \in 0 .. 10,
         NEW w, NEW tail, Split(f, d, groups, numbers, n, w, tail), NEW i \in 1 .. Len(groups)
  PROVE  OneClock(groups, i)
<1> DEFINE group == groups[i]
<1>1. Len(w) \in Nat /\ Len(groups) \in Nat /\ Ended(groups, w, tail)
  BY LenProperties DEF Split, Shaped
<1>2. CASE i \in 1 .. Len(w)
  <2>1. group = <<w[i]>>
    BY <1>1, <1>2 DEF Ended, Singles
  <2> HIDE DEF group
  <2>2. Len(group) = 1 /\ 1 .. 1 - 1 = {}
    BY <2>1
  <2> QED
    BY <2>2 DEF group, OneClock
<1>3. CASE i \notin 1 .. Len(w)
  <2>1. tail # <<>>
    BY <1>1, <1>3 DEF Ended, Singles
  <2>2. Len(groups) = Len(w) + 1 /\ groups[Len(w) + 1] = tail
    BY <1>1, <2>1 DEF Ended
  <2>3. i = Len(w) + 1
    BY <1>1, <1>3, <2>2
  <2>4. \A j \in 1 .. Len(tail) - 1 :
          tail[j + 1].unit = Child(tail[j].unit) /\ tail[j + 1].style = "2-digit"
    BY DEF Split, GroupOf
  <2> QED
    BY <2>2, <2>3, <2>4 DEF OneClock
<1> QED
  BY <1>2, <1>3

FractionAt(f, numbers, k) == IsFraction(f, numbers[k])

LEMMA FractionIsLast ==
  ASSUME NEW f, NEW d, NEW groups, NEW numbers, NEW n \in 0 .. 10, NEW w, NEW tail,
         Split(f, d, groups, numbers, n, w, tail), NEW k \in 1 .. Len(numbers) - 1
  PROVE  ~FractionAt(f, numbers, k)
<1> USE DEF FractionAt
<1>1. Len(w) \in Nat /\ Len(tail) \in Nat /\ Len(numbers) = Len(w) + Len(tail)
  BY DEF Split
<1>2. CASE k \in 1 .. Len(w)
  <2>1. PICK j \in 1 .. n : w[k] = IntegerNumber(f, d, Units[j], k = 1)
    BY <1>2 DEF Split, Shaped, Words
  <2>2. StyleAt(f, j) \in WordStyles /\ ~NextUnitFractional(f, Units[j])
    BY DEF Split, Shaped, Words
  <2>3. w[k].unit = Units[j] /\ w[k].style = StyleAt(f, j)
    BY <2>1 DEF IntegerNumber, StyleAt
  <2>4. numbers[k] = w[k]
    BY <1>2 DEF Split
  <2>5. StyleAt(f, j) \notin ClockStyles
    BY <2>2 DEF WordStyles, ClockStyles
  <2> QED
    BY <2>2, <2>3, <2>4, <2>5 DEF IsFraction
<1>3. CASE k \notin 1 .. Len(w)
  <2>1. PICK j \in 1 .. Len(tail) - 1 : k = Len(w) + j
    <3>1. k - Len(w) \in 1 .. Len(tail) - 1 /\ k = Len(w) + (k - Len(w))
      BY <1>1, <1>3
    <3> QED
      BY <3>1
  <2>2. j \in 1 .. Len(tail)
    BY <1>1
  <2> QED
    BY <2>1, <2>2 DEF Split, GroupOf
<1> QED
  BY <1>2, <1>3

\* A unit's numbers are in words or in the last group, never in both.
LEMMA ShownWhere ==
  ASSUME NEW f, NEW d, NEW groups, NEW numbers, NEW n \in 0 .. 10, NEW w, NEW tail,
         Split(f, d, groups, numbers, n, w, tail), NEW u \in UnitSet
  PROVE  /\ Position[u] > n => (ShowsUnit(numbers, u) <=> ShowsUnit(tail, u))
         /\ ~(Position[u] > n) => (ShowsUnit(numbers, u) <=> Shown(f, d, u))
<1>1. Len(w) \in Nat /\ Len(tail) \in Nat /\ Len(numbers) = Len(w) + Len(tail)
  BY DEF Split
<1>2. ASSUME NEW k \in 1 .. Len(w)
      PROVE  \E j \in 1 .. n : /\ Shown(f, d, Units[j]) /\ numbers[k].unit = Units[j]
                               /\ Position[Units[j]] = j
  <2>1. PICK j \in 1 .. n : Shown(f, d, Units[j]) /\ w[k] = IntegerNumber(f, d, Units[j], k = 1)
    BY DEF Split, Shaped, Words
  <2>2. w[k].unit = Units[j] /\ numbers[k] = w[k]
    BY <2>1 DEF IntegerNumber, Split
  <2>3. j \in 1 .. 10
    OBVIOUS
  <2> QED
    BY <2>1, <2>2, <2>3, UnitOrder
<1>3. \A k \in 1 .. Len(tail) : numbers[Len(w) + k] = tail[k] /\ Position[tail[k].unit] > n
  BY DEF Split, GroupOf
<1>4. \A k \in 1 .. Len(numbers) : k \in 1 .. Len(w) \/ \E j \in 1 .. Len(tail) : k = Len(w) + j
  <2> SUFFICES ASSUME NEW k \in 1 .. Len(numbers), k \notin 1 .. Len(w)
               PROVE  \E j \in 1 .. Len(tail) : k = Len(w) + j
    OBVIOUS
  <2>1. k - Len(w) \in 1 .. Len(tail) /\ k = Len(w) + (k - Len(w))
    BY <1>1
  <2> QED
    BY <2>1
<1>5. \A k \in 1 .. Len(tail) : Len(w) + k \in 1 .. Len(numbers)
  BY <1>1
<1>6. \A k \in 1 .. Len(w) : k \in 1 .. Len(numbers)
  BY <1>1
<1>7. ASSUME Position[u] > n
      PROVE  ShowsUnit(numbers, u) <=> ShowsUnit(tail, u)
  <2>1. ASSUME NEW k \in 1 .. Len(numbers), numbers[k].unit = u
        PROVE  ShowsUnit(tail, u)
    <3>1. k \notin 1 .. Len(w)
      <4> SUFFICES ASSUME k \in 1 .. Len(w) PROVE FALSE
        OBVIOUS
      <4>1. PICK j \in 1 .. n : u = Units[j] /\ Position[Units[j]] = j
        BY <1>2, <2>1
      <4>2. ~(j > n)
        OBVIOUS
      <4> QED
        BY <1>7, <4>1, <4>2
    <3> QED
      BY <1>3, <1>4, <2>1, <3>1 DEF ShowsUnit
  <2>2. ASSUME NEW k \in 1 .. Len(tail), tail[k].unit = u
        PROVE  ShowsUnit(numbers, u)
    BY <1>3, <1>5, <2>2 DEF ShowsUnit
  <2> QED
    BY <2>1, <2>2 DEF ShowsUnit
<1>8. ASSUME ~(Position[u] > n)
      PROVE  ShowsUnit(numbers, u) <=> Shown(f, d, u)
  <2>1. ASSUME NEW k \in 1 .. Len(numbers), numbers[k].unit = u
        PROVE  Shown(f, d, u)
    <3>1. k \in 1 .. Len(w)
      BY <1>3, <1>4, <1>8, <2>1
    <3> QED
      BY <1>2, <2>1, <3>1
  <2>2. ASSUME Shown(f, d, u)
        PROVE  ShowsUnit(numbers, u)
    <3>1. Position[u] \in 1 .. n /\ Units[Position[u]] = u
      <4>1. Position[u] \in 1 .. 10 /\ Units[Position[u]] = u
        BY UnitOrder
      <4>2. \A i \in 1 .. 10 : ~(i > n) => i \in 1 .. n
        OBVIOUS
      <4> QED
        BY <1>8, <4>1, <4>2
    <3>2. PICK k \in 1 .. Len(w) : w[k] = IntegerNumber(f, d, Units[Position[u]], k = 1)
      BY <2>2, <3>1 DEF Split, Shaped, Words
    <3>3. numbers[k].unit = u
      BY <3>1, <3>2 DEF IntegerNumber, Split
    <3> QED
      BY <1>6, <3>3 DEF ShowsUnit
  <2> QED
    BY <2>1, <2>2 DEF ShowsUnit
<1> QED
  BY <1>7, <1>8

\* What is laid out has one clock at most, at its end.
LEMMA LaidOutContiguous ==
  ASSUME LaidOut
  PROVE  ClockIsContiguous
<1> SUFFICES ASSUME Formatted PROVE ClockIsContiguous
  BY DEF ClockIsContiguous
<1> DEFINE f == formatter
           d == duration
           groups == result
           numbers == Numbers
<1>1. /\ Sound(f) /\ d \in [UnitSet -> Int] /\ groups = Partition(f, d)
      /\ numbers = FlattenSeq(groups)
  BY DEF LaidOut
<1>2. \A k : IsFractional(numbers[k]) <=> FractionAt(f, numbers, k)
  BY DEF IsFractional, FractionAt, IsFraction
<1> HIDE DEF f, d, groups, numbers
<1>3. PICK n, w, tail : n \in 0 .. 10 /\ Split(f, d, groups, numbers, n, w, tail)
  BY <1>1, NumbersSplit
<1>4. groups \in Seq(Seq(NumbersOf(f, d))) /\ DOMAIN groups = 1 .. Len(groups)
  BY <1>1, PartitionType, LenProperties
<1>5. ASSUME NEW i \in DOMAIN groups
      PROVE  /\ Len(groups[i]) > 1 => i = Len(groups)
             /\ \A j \in 1 .. Len(groups[i]) - 1 :
                  /\ groups[i][j + 1].unit = Child(groups[i][j].unit)
                  /\ groups[i][j + 1].style = "2-digit"
  <2>1. OneClock(groups, i)
    BY <1>3, <1>4, GroupsShape
  <2> QED
    BY <2>1 DEF OneClock
<1>6. \A i \in 1 .. Len(numbers) - 1 : ~IsFractional(numbers[i])
  BY <1>2, <1>3, FractionIsLast
<1>7. DOMAIN numbers = 1 .. Len(numbers)
  BY <1>3 DEF Split
<1>8. ASSUME NEW u \in UnitSet
      PROVE  LET shown == \E i \in DOMAIN numbers : numbers[i].unit = u
             IN  /\ f.units[u].display = "always" => shown
                 /\ f.units[u].display = "auto" /\ shown /\ d[u] = 0 =>
                      \/ /\ u = "minutes"
                         /\ {"hours", "seconds"} \subseteq {numbers[i].unit : i \in DOMAIN numbers}
                      \/ u \in Parents /\ \E c \in Descendants(u) : d[c] # 0
  <2>1. \A v : ShowsUnit(numbers, v) <=> \E i \in DOMAIN numbers : numbers[i].unit = v
    BY <1>7 DEF ShowsUnit
  <2>2. CASE Position[u] > n
    <3>1. ShowsUnit(numbers, u) <=> ShowsUnit(tail, u)
      BY <1>3, <2>2, ShownWhere
    <3>2. ShownWhenAsked(f, d, tail, u)
      BY <1>3, <2>2 DEF Split
    <3>3. \A v \in {"hours", "seconds"} : ShowsUnit(tail, v) => ShowsUnit(numbers, v)
      <4> SUFFICES ASSUME NEW v \in {"hours", "seconds"}, ShowsUnit(tail, v) PROVE ShowsUnit(numbers, v)
        OBVIOUS
      <4>1. v \in UnitSet
        BY UnitOrder
      <4>2. Position[v] > n
        BY <1>3 DEF ShowsUnit, Split, GroupOf
      <4> QED
        BY <1>3, <4>1, <4>2, ShownWhere
    <3> QED
      BY <2>1, <3>1, <3>2, <3>3 DEF ShownWhenAsked
  <2>3. CASE ~(Position[u] > n)
    <3>1. ShowsUnit(numbers, u) <=> Shown(f, d, u)
      BY <1>3, <2>3, ShownWhere
    <3> QED
      BY <2>1, <3>1 DEF Shown
  <2> QED
    BY <2>2, <2>3
<1> QED
  BY <1>5, <1>6, <1>8 DEF ClockIsContiguous, f, d, groups, numbers

\* Only the last group of what a formatter lays out is a clock, its units are
\* adjacent and every one after the first has two digits, a fraction ends the
\* result, and what is shown is what the displays ask for.
THEOREM Clocks == Spec => []ClockIsContiguous
<1>1. LaidOut => ClockIsContiguous
  BY LaidOutContiguous
<1> QED
  BY <1>1, LayoutInvariant, PTL

-------------------------------------------------------------------------------
(* What is lost. *)

LEMMA PowersOfTen == \A k \in 0 .. 9 : 10^k \in Nat \ {0}
<1>1. /\ 10^0 = 1 /\ 10^1 = 10 /\ 10^2 = 100 /\ 10^3 = 1000 /\ 10^4 = 10000 /\ 10^5 = 100000
      /\ 10^6 = 1000000 /\ 10^7 = 10000000 /\ 10^8 = 100000000 /\ 10^9 = 1000000000
  OBVIOUS
<1>2. \A k \in 0 .. 9 : k \in {0, 1, 2, 3, 4, 5, 6, 7, 8, 9}
  OBVIOUS
<1> DEFINE power == [k \in 0 .. 9 |-> 10^k]
<1>3. /\ power[0] = 1 /\ power[1] = 10 /\ power[2] = 100 /\ power[3] = 1000 /\ power[4] = 10000
      /\ power[5] = 100000 /\ power[6] = 1000000 /\ power[7] = 10000000
      /\ power[8] = 100000000 /\ power[9] = 1000000000
  BY <1>1
<1>4. \A k \in 0 .. 9 : power[k] = 10^k
  OBVIOUS
<1> HIDE DEF power
<1>5. \A k \in 0 .. 9 : power[k] \in Nat \ {0}
  BY <1>2, <1>3
<1> QED
  BY <1>4, <1>5

\* What cutting a fraction can drop.
DroppedBelow(width, digits) == IF digits = Unset THEN 1 ELSE 10^Max({0, width - digits})

LEMMA CutsBelow ==
  ASSUME NEW amount \in Nat, NEW width \in 0 .. 9, NEW digits \in Digits
  PROVE  /\ Truncated(amount, width, digits) \in Nat
         /\ amount - Truncated(amount, width, digits) \in 0 .. DroppedBelow(width, digits) - 1
<1>1. CASE digits = Unset
  BY <1>1 DEF Truncated, DroppedBelow
<1>2. CASE digits # Unset
  <2>1. digits \in 0 .. 9
    BY <1>2 DEF Digits
  <2>2. PICK k \in -9 .. 9 : k = width - digits
    BY <2>1
  <2>3. Max({0, k}) = IF k <= 0 THEN 0 ELSE k
    BY DEF Max
  <2>4. CASE k <= 0
    <3>1. digits >= width
      BY <2>1, <2>2, <2>4
    <3>2. DroppedBelow(width, digits) = 1
      <4>1. 10^0 = 1
        OBVIOUS
      <4> QED
        BY <1>2, <2>2, <2>3, <2>4, <4>1 DEF DroppedBelow
    <3> QED
      BY <3>1, <3>2 DEF Truncated
  <2>5. CASE ~(k <= 0)
    <3>1. ~(digits >= width) /\ k \in 0 .. 9
      BY <2>1, <2>2, <2>5
    <3> DEFINE power == 10^k
    <3>2. power \in Nat \ {0}
      BY <3>1, PowersOfTen
    <3>3. DroppedBelow(width, digits) = power
      BY <1>2, <2>2, <2>3, <2>5 DEF DroppedBelow
    <3>4. Truncated(amount, width, digits) = amount - (amount % power)
      BY <1>2, <2>2, <3>1 DEF Truncated
    <3> HIDE DEF power
    <3> DEFINE rest == amount % power
    <3>5. rest \in 0 .. power - 1 /\ rest <= amount
      <4>1. amount \div power \in Nat /\ rest \in 0 .. power - 1 /\ amount = (amount \div power) * power + rest
        <5>1. amount \in Int
          OBVIOUS
        <5> QED
          BY <3>2, <5>1, Division
      <4> DEFINE q == amount \div power
      <4>2. q \in Nat /\ q * power \in Nat /\ amount = q * power + rest
        BY <3>2, <4>1
      <4> HIDE DEF q, rest
      <4> QED
        BY <4>1, <4>2
    <3> HIDE DEF rest
    <3>6. amount - rest \in Nat /\ amount - (amount - rest) = rest
      BY <3>5
    <3> QED
      BY <3>3, <3>4, <3>5, <3>6 DEF rest
  <2> QED
    BY <2>4, <2>5
<1> QED
  BY <1>1, <1>2

PrecisionOf(f, numbers) ==
  LET last == numbers[Len(numbers)]
  IN  IF numbers = <<>> \/ ~IsFraction(f, last) THEN 1
      ELSE DroppedBelow(last.width, f.fractionalDigits)

\* What a tail shows, after whatever is before it.
AddsUp(R, tail, s) == \A w \in Seq(R) : ShownBy(w \o tail) = ShownBy(w) + s

Countable(f, d) == {x \in NumbersOf(f, d) : NumberWorth(x) \in Int}

LEMMA ShowsNone ==
  ASSUME NEW R, \A x \in R : NumberWorth(x) \in Int
  PROVE  AddsUp(R, <<>>, 0)
<1> SUFFICES ASSUME NEW w \in Seq(R) PROVE ShownBy(w \o <<>>) = ShownBy(w) + 0
  BY DEF AddsUp
<1>1. PICK c : Telling(w, c)
  BY TellingExists
<1>2. Len(w) \in 0 .. Len(w)
  BY LenProperties
<1>3. ShownBy(w) \in Int
  BY <1>1, <1>2 DEF Telling
<1>4. w \o <<>> = w
  BY ConcatEmptySeq
<1> QED
  BY <1>3, <1>4

LEMMA ShowsMore ==
  ASSUME NEW R, \A x \in R : NumberWorth(x) \in Int, NEW tail \in Seq(R), NEW e \in R,
         NEW s \in Int, AddsUp(R, tail, s)
  PROVE  AddsUp(R, Append(tail, e), s + NumberWorth(e))
<1> SUFFICES ASSUME NEW w \in Seq(R)
             PROVE  ShownBy(w \o Append(tail, e)) = ShownBy(w) + (s + NumberWorth(e))
  BY DEF AddsUp
<1> DEFINE more == w \o tail
<1>1. more \in Seq(R)
  BY ConcatProperties
<1>2. w \o Append(tail, e) = Append(more, e)
  BY AppendConcat DEF LastStays
<1>3. ShownBy(more) = ShownBy(w) + s
  BY DEF AddsUp
<1> HIDE DEF more
<1>4. ShownBy(Append(more, e)) = ShownBy(more) + NumberWorth(e)
  BY <1>1, ShownAppend
<1>5. ShownBy(w) \in Int /\ NumberWorth(e) \in Int
  BY ShownAppend
<1> QED
  BY <1>2, <1>3, <1>4, <1>5

LEMMA ShowsUpToThree ==
  ASSUME NEW R, \A x \in R : NumberWorth(x) \in Int, NEW a \in R, NEW b \in R, NEW c \in R
  PROVE  /\ AddsUp(R, <<a>>, NumberWorth(a))
         /\ AddsUp(R, <<a, b>>, NumberWorth(a) + NumberWorth(b))
         /\ AddsUp(R, <<a, b, c>>, NumberWorth(a) + NumberWorth(b) + NumberWorth(c))
<1> DEFINE x == NumberWorth(a)
           y == NumberWorth(b)
           z == NumberWorth(c)
           zero == 0
           none == <<>>
           one == <<a>>
           two == <<a, b>>
<1>1. x \in Int /\ y \in Int /\ z \in Int /\ zero \in Int
  OBVIOUS
<1>2. none \in Seq(R) /\ one \in Seq(R) /\ two \in Seq(R)
  OBVIOUS
<1>3. /\ Append(none, a) = one /\ Append(one, b) = two /\ Append(two, c) = <<a, b, c>>
  <2>1. none \o <<a>> = one /\ one \o <<b>> = two /\ two \o <<c>> = <<a, b, c>>
    BY Joined
  <2> HIDE DEF none, one, two
  <2>2. /\ none \o <<a>> = Append(none, a) /\ one \o <<b>> = Append(one, b)
        /\ two \o <<c>> = Append(two, c)
    BY <1>2, AppendIsConcat
  <2> QED
    BY <2>1, <2>2
<1>4. AddsUp(R, none, zero)
  BY ShowsNone
<1> HIDE DEF x, y, z, zero, none, one, two
<1>5. AddsUp(R, Append(none, a), zero + NumberWorth(a))
  BY <1>1, <1>2, <1>4, ShowsMore
<1>6. zero + NumberWorth(a) = x /\ AddsUp(R, one, x)
  BY <1>1, <1>3, <1>5 DEF zero, x
<1>7. AddsUp(R, Append(one, b), x + NumberWorth(b))
  BY <1>1, <1>2, <1>6, ShowsMore
<1>8. AddsUp(R, two, x + y) /\ x + y \in Int
  BY <1>1, <1>3, <1>7 DEF y
<1> DEFINE s == x + y
<1>9. s \in Int /\ AddsUp(R, two, s)
  BY <1>8
<1> HIDE DEF s
<1>10. AddsUp(R, Append(two, c), s + NumberWorth(c))
  BY <1>2, <1>9, ShowsMore
<1> QED
  BY <1>3, <1>6, <1>8, <1>10 DEF x, y, z, one, two, s

\* The number of a unit with fractions.
LEMMA FractionCounts ==
  ASSUME NEW f, f.fractionalDigits \in Digits, NEW d \in [UnitSet -> Int], NEW t, Totals(t, d),
         NEW p \in 7 .. 9, NEW sign
  PROVE  LET x == FractionalNumber(f, d, Units[p], sign)
         IN  /\ x.width \in 0 .. 9 /\ x.unit = Units[p] /\ x.style = StyleAt(f, p)
             /\ NumberWorth(x) \in Nat
             /\ t[p .. 10] - NumberWorth(x) \in 0 .. DroppedBelow(x.width, f.fractionalDigits) - 1
<1> DEFINE u == Units[p]
           x == FractionalNumber(f, d, u, sign)
           width == FractionWidth(u)
           amount == FractionalAmount(d, u)
           cut == Truncated(amount, width, f.fractionalDigits)
<1>1. x.width = width /\ x.unit = u /\ x.style = StyleAt(f, p) /\ x.amount = cut
  BY DEF FractionalNumber, StyleAt
<1>2. u \in Parents /\ u \notin CalendarUnits
  <2>1. p \in {7, 8, 9}
    OBVIOUS
  <2> QED
    BY <2>1, Below DEF Parents, CalendarUnits
<1>3. width \in 0 .. 9 /\ 10^width = NanosecondsPerUnit[u] /\ NanosecondsPerUnit[u] \in Nat \ {0}
  <2>1. width \in 0 .. 9 /\ 10^width = NanosecondsPerUnit[u]
    BY <1>2, ScalesNest
  <2> QED
    BY <2>1, PowersOfTen
<1>4. amount = t[p .. 10] /\ amount \in Nat
  <2>1. p \in 1 .. 11
    OBVIOUS
  <2>2. \A a \in 1 .. 11, b \in 0 .. 10 : t[a .. b] \in Nat
    BY TotalsSteps
  <2>3. t[p .. 10] \in Nat
    <3> DEFINE n == 10
    <3>1. n \in 0 .. 10
      OBVIOUS
    <3> HIDE DEF n
    <3>2. t[p .. n] \in Nat
      BY <2>1, <2>2, <3>1
    <3> QED
      BY <3>2 DEF n
  <2> QED
    BY <2>3, FractionalWorth
<1> HIDE DEF x, width, amount
<1>5. /\ cut \in Nat
      /\ amount - cut \in 0 .. DroppedBelow(width, f.fractionalDigits) - 1
  BY <1>3, <1>4, CutsBelow
<1> HIDE DEF cut
<1>6. NumberWorth(x) = cut
  <2>1. \A k \in Nat \ {0} : k \div k = 1
    <3> SUFFICES ASSUME NEW k \in Nat \ {0} PROVE k \div k = 1
      OBVIOUS
    <3>1. 1 \in Int /\ 1 * k = k
      OBVIOUS
    <3>2. (1 * k) \div k = 1
      BY <3>1, Multiple
    <3> QED
      BY <3>1, <3>2
  <2>2. NumberWorth(x) = cut * 1
    BY <1>1, <1>2, <1>3, <2>1 DEF NumberWorth, u
  <2> QED
    BY <1>5, <2>2
<1> QED
  BY <1>1, <1>3, <1>4, <1>5, <1>6 DEF x, u

LEMMA ShortSequences ==
  ASSUME NEW R, NEW s \in Seq(R)
  PROVE  /\ Len(s) = 0 => s = <<>>
         /\ Len(s) = 1 => s[1] \in R /\ s = <<s[1]>>
         /\ Len(s) = 2 => s[1] \in R /\ s[2] \in R /\ s = <<s[1], s[2]>>
         /\ Len(s) = 3 => s[1] \in R /\ s[2] \in R /\ s[3] \in R /\ s = <<s[1], s[2], s[3]>>
<1>1. \A k \in 1 .. Len(s) : s[k] \in R
  BY ElementOfSeq
<1>2. Len(s) = 0 => s = <<>>
  BY EmptySeq
<1>3. ASSUME Len(s) = 1
      PROVE  s[1] \in R /\ s = <<s[1]>>
  <2>1. s[1] \in R
    BY <1>1, <1>3
  <2>2. <<s[1]>> \in Seq(R) /\ Len(<<s[1]>>) = 1
    BY <2>1
  <2>3. \A k \in 1 .. 1 : s[k] = <<s[1]>>[k]
    OBVIOUS
  <2> QED
    BY <1>3, <2>1, <2>2, <2>3, SeqEqual
<1>4. ASSUME Len(s) = 2
      PROVE  s[1] \in R /\ s[2] \in R /\ s = <<s[1], s[2]>>
  <2>1. s[1] \in R /\ s[2] \in R
    BY <1>1, <1>4
  <2> DEFINE r == <<s[1], s[2]>>
  <2>2. r \in Seq(R) /\ Len(r) = 2 /\ r[1] = s[1] /\ r[2] = s[2]
    BY <2>1
  <2> HIDE DEF r
  <2>3. \A k \in 1 .. 2 : s[k] = r[k]
    BY <2>2
  <2>4. s = r
    BY <1>4, <2>2, <2>3, SeqEqual
  <2> QED
    BY <2>1, <2>4 DEF r
<1>5. ASSUME Len(s) = 3
      PROVE  s[1] \in R /\ s[2] \in R /\ s[3] \in R /\ s = <<s[1], s[2], s[3]>>
  <2>1. s[1] \in R /\ s[2] \in R /\ s[3] \in R
    BY <1>1, <1>5
  <2> DEFINE r == <<s[1], s[2], s[3]>>
  <2>2. r \in Seq(R) /\ Len(r) = 3 /\ r[1] = s[1] /\ r[2] = s[2] /\ r[3] = s[3]
    BY <2>1
  <2> HIDE DEF r
  <2>3. \A k \in 1 .. 3 : s[k] = r[k]
    BY <2>2
  <2>4. s = r
    BY <1>5, <2>2, <2>3, SeqEqual
  <2> QED
    BY <2>1, <2>4 DEF r
<1> QED
  BY <1>2, <1>3, <1>4, <1>5

\* The numbers of a layout add up to what its units count for.
CountsFor(tail, layout, h, m, s) ==
  \A k \in 1 .. Len(layout) :
    /\ layout[k] = "hours" => NumberWorth(tail[k]) = h
    /\ layout[k] = "minutes" => NumberWorth(tail[k]) = m
    /\ layout[k] = "seconds" => NumberWorth(tail[k]) = s

LEMMA LayoutShows ==
  ASSUME NEW R, \A x \in R : NumberWorth(x) \in Int, NEW layout,
         NEW hours \in BOOLEAN, NEW minutes \in BOOLEAN, NEW seconds \in BOOLEAN,
         LayoutIs(layout, hours, minutes, seconds),
         NEW tail \in Seq(R), Len(tail) = Len(layout),
         NEW h \in Nat, NEW m \in Nat, NEW s \in Nat, CountsFor(tail, layout, h, m, s)
  PROVE  AddsUp(R, tail, (IF hours THEN h ELSE 0) + (IF minutes THEN m ELSE 0)
                          + (IF seconds THEN s ELSE 0))
<1>1. ASSUME Len(layout) = 0
      PROVE  AddsUp(R, tail, 0)
  <2>1. tail = <<>>
    BY <1>1, ShortSequences
  <2> QED
    BY <2>1, ShowsNone
<1>2. ASSUME Len(layout) = 1
      PROVE  AddsUp(R, tail, NumberWorth(tail[1]))
  <2>1. tail[1] \in R /\ tail = <<tail[1]>>
    BY <1>2, ShortSequences
  <2> DEFINE a == tail[1]
  <2>2. a \in R /\ tail = <<a>>
    BY <2>1
  <2> HIDE DEF a
  <2>3. AddsUp(R, <<a>>, NumberWorth(a))
    BY <2>2, ShowsUpToThree
  <2> QED
    BY <2>2, <2>3 DEF a
<1>3. ASSUME Len(layout) = 2
      PROVE  AddsUp(R, tail, NumberWorth(tail[1]) + NumberWorth(tail[2]))
  <2>1. tail[1] \in R /\ tail[2] \in R /\ tail = <<tail[1], tail[2]>>
    BY <1>3, ShortSequences
  <2> DEFINE a == tail[1]
             b == tail[2]
  <2>2. a \in R /\ b \in R /\ tail = <<a, b>>
    BY <2>1
  <2> HIDE DEF a, b
  <2>3. AddsUp(R, <<a, b>>, NumberWorth(a) + NumberWorth(b))
    BY <2>2, ShowsUpToThree
  <2> QED
    BY <2>2, <2>3 DEF a, b
<1>4. ASSUME Len(layout) = 3
      PROVE  AddsUp(R, tail, NumberWorth(tail[1]) + NumberWorth(tail[2]) + NumberWorth(tail[3]))
  <2>1. tail[1] \in R /\ tail[2] \in R /\ tail[3] \in R /\ tail = <<tail[1], tail[2], tail[3]>>
    BY <1>4, ShortSequences
  <2> DEFINE a == tail[1]
             b == tail[2]
             c == tail[3]
  <2>2. a \in R /\ b \in R /\ c \in R /\ tail = <<a, b, c>>
    BY <2>1
  <2> HIDE DEF a, b, c
  <2>3. AddsUp(R, <<a, b, c>>, NumberWorth(a) + NumberWorth(b) + NumberWorth(c))
    BY <2>2, ShowsUpToThree
  <2> QED
    BY <2>2, <2>3 DEF a, b, c
<1>5. CASE ~hours /\ ~minutes /\ ~seconds
  <2>1. layout = <<>> /\ Len(layout) = 0
    BY <1>5 DEF LayoutIs
  <2> QED
    BY <1>1, <1>5, <2>1
<1>6. CASE hours /\ ~minutes
  <2>1. layout = <<"hours">> /\ Len(layout) = 1 /\ layout[1] = "hours" /\ ~seconds
    BY <1>6 DEF LayoutIs
  <2>2. NumberWorth(tail[1]) = h
    BY <2>1 DEF CountsFor
  <2>3. h + 0 + 0 = h
    OBVIOUS
  <2> QED
    BY <1>2, <1>6, <2>1, <2>2, <2>3
<1>7. CASE ~hours /\ minutes /\ ~seconds
  <2>1. layout = <<"minutes">> /\ Len(layout) = 1 /\ layout[1] = "minutes"
    BY <1>7 DEF LayoutIs
  <2>2. NumberWorth(tail[1]) = m
    BY <2>1 DEF CountsFor
  <2>3. 0 + m + 0 = m
    OBVIOUS
  <2> QED
    BY <1>2, <1>7, <2>1, <2>2, <2>3
<1>8. CASE ~hours /\ ~minutes /\ seconds
  <2>1. layout = <<"seconds">> /\ Len(layout) = 1 /\ layout[1] = "seconds"
    BY <1>8 DEF LayoutIs
  <2>2. NumberWorth(tail[1]) = s
    BY <2>1 DEF CountsFor
  <2>3. 0 + 0 + s = s
    OBVIOUS
  <2> QED
    BY <1>2, <1>8, <2>1, <2>2, <2>3
<1>9. CASE hours /\ minutes /\ ~seconds
  <2>1. layout = <<"hours", "minutes">> /\ Len(layout) = 2 /\ layout[1] = "hours" /\ layout[2] = "minutes"
    BY <1>9 DEF LayoutIs
  <2>2. NumberWorth(tail[1]) = h /\ NumberWorth(tail[2]) = m
    BY <2>1 DEF CountsFor
  <2>3. h + m + 0 = h + m
    OBVIOUS
  <2> QED
    BY <1>3, <1>9, <2>1, <2>2, <2>3
<1>10. CASE ~hours /\ minutes /\ seconds
  <2>1. layout = <<"minutes", "seconds">> /\ Len(layout) = 2 /\ layout[1] = "minutes" /\ layout[2] = "seconds"
    BY <1>10 DEF LayoutIs
  <2>2. NumberWorth(tail[1]) = m /\ NumberWorth(tail[2]) = s
    BY <2>1 DEF CountsFor
  <2>3. 0 + m + s = m + s
    OBVIOUS
  <2> QED
    BY <1>3, <1>10, <2>1, <2>2, <2>3
<1>11. CASE hours /\ minutes /\ seconds
  <2>1. /\ layout = <<"hours", "minutes", "seconds">> /\ Len(layout) = 3 /\ layout[1] = "hours"
        /\ layout[2] = "minutes" /\ layout[3] = "seconds"
    BY <1>11 DEF LayoutIs
  <2>2. NumberWorth(tail[1]) = h /\ NumberWorth(tail[2]) = m /\ NumberWorth(tail[3]) = s
    BY <2>1 DEF CountsFor
  <2> QED
    BY <1>4, <1>11, <2>1, <2>2
<1> QED
  BY <1>5, <1>6, <1>7, <1>8, <1>9, <1>10, <1>11

\* What the last group adds to the words before it leaves less out than its
\* fraction may drop.
Accounts(f, d, n, tail, t) ==
  /\ tail \in Seq(Countable(f, d))
  /\ \E s \in Nat : /\ AddsUp(Countable(f, d), tail, s)
                    /\ t[1 .. 10] - (t[1 .. n] + s) \in 0 .. PrecisionOf(f, tail) - 1

LEMMA SameWorth ==
  ASSUME NEW f, NEW d, NEW u, NEW sign
  PROVE  NumberWorth(FractionalNumber(f, d, u, sign)) = NumberWorth(FractionalNumber(f, d, u, TRUE))
BY DEF NumberWorth, FractionalNumber

\* The precision of what ends in no fraction, and of what ends in one.
LEMMA PrecisionAt ==
  ASSUME NEW f, NEW R, NEW numbers \in Seq(R), NEW x, numbers # <<>>, numbers[Len(numbers)] = x
  PROVE  /\ ~IsFraction(f, x) => PrecisionOf(f, numbers) = 1
         /\ IsFraction(f, x) => PrecisionOf(f, numbers) = DroppedBelow(x.width, f.fractionalDigits)
BY DEF PrecisionOf

\* The seconds with their fraction.
SecondsLeave(f, d, rest, sign) ==
  LET x == FractionalNumber(f, d, "seconds", sign)
  IN  /\ NumberWorth(x) \in Nat
      /\ rest - NumberWorth(x) \in 0 .. DroppedBelow(x.width, f.fractionalDigits) - 1

LEMMA SecondsCount ==
  ASSUME NEW f, f.fractionalDigits \in Digits, NEW d \in [UnitSet -> Int], NEW t, Totals(t, d),
         NEW sign
  PROVE  SecondsLeave(f, d, t[7 .. 10], sign)
<1> DEFINE p == 7
<1>1. p \in 7 .. 9
  OBVIOUS
<1>2. p = 7 /\ Units[p] = "seconds"
  BY ClockPlaces
<1> HIDE DEF p
<1> DEFINE u == Units[p]
           x == FractionalNumber(f, d, u, sign)
           rest == t[p .. 10]
<1>3. /\ NumberWorth(x) \in Nat
      /\ rest - NumberWorth(x) \in 0 .. DroppedBelow(x.width, f.fractionalDigits) - 1
  BY <1>1, FractionCounts
<1>4. x = FractionalNumber(f, d, "seconds", sign) /\ rest = t[7 .. 10]
  BY <1>2
<1> HIDE DEF x, rest
<1> QED
  BY <1>3, <1>4 DEF SecondsLeave

\* What the numbers of the clock count for.
ClockCounts(f, d, h, m, c) ==
  h = Worth(d)[5] /\ m = Worth(d)[6] /\ c = NumberWorth(FractionalNumber(f, d, "seconds", TRUE))

LEMMA ClockCountable ==
  ASSUME NEW f, NEW d \in [UnitSet -> Int], NEW layout \in Seq(UnitSet), Adjacent(layout),
         NEW sign \in BOOLEAN, NEW tail, tail = NumericUnits(f, d, layout, sign),
         NEW h, NEW m, NEW c \in Nat, ClockCounts(f, d, h, m, c)
  PROVE  /\ tail \in Seq(Countable(f, d)) /\ Len(tail) = Len(layout)
         /\ CountsFor(tail, layout, h, m, c)
<1> DEFINE R == Countable(f, d)
           l == Len(layout)
<1>1. l \in Nat
  BY LenProperties
<1>2. Units[5] = "hours" /\ Units[6] = "minutes"
  BY ClockPlaces
<1>3. /\ h = Worth(d)[5] /\ m = Worth(d)[6]
      /\ c = NumberWorth(FractionalNumber(f, d, "seconds", TRUE))
  BY DEF ClockCounts
<1>4. /\ \A s : NumberWorth(IntegerNumber(f, d, "hours", s)) = Worth(d)[5]
      /\ \A s : NumberWorth(IntegerNumber(f, d, "minutes", s)) = Worth(d)[6]
      /\ Worth(d)[5] \in Int /\ Worth(d)[6] \in Int
  <2>1. 5 \in 1 .. 10 /\ 6 \in 1 .. 10
    OBVIOUS
  <2>2. \A s : \A i \in 1 .. 10 : NumberWorth(IntegerNumber(f, d, Units[i], s)) = Worth(d)[i]
    BY IntegerWorth
  <2>3. \A i \in 1 .. 10 : Worth(d)[i] \in Int
    BY WorthType
  <2> QED
    BY <1>2, <2>1, <2>2, <2>3
<1>5. ASSUME NEW k \in 1 .. l
      PROVE  /\ tail[k] \in R
             /\ layout[k] = "hours" => NumberWorth(tail[k]) = h
             /\ layout[k] = "minutes" => NumberWorth(tail[k]) = m
             /\ layout[k] = "seconds" => NumberWorth(tail[k]) = c
  <2> DEFINE available == sign /\ k = 1
  <2>1. ClockNumber(f, d, layout, sign, k, tail[k])
    BY ClockNumbers
  <2>2. /\ layout[k] # "seconds" => tail[k] = IntegerNumber(f, d, layout[k], available)
        /\ layout[k] = "seconds" => tail[k] = FractionalNumber(f, d, "seconds", available)
    BY <2>1 DEF ClockNumber
  <2>3. available \in BOOLEAN /\ layout[k] \in UnitSet /\ layout[k] \in ClockUnits
    BY ElementOfSeq DEF Adjacent
  <2> HIDE DEF available
  <2>4. NumberWorth(FractionalNumber(f, d, "seconds", available)) = c
    BY <1>3, SameWorth
  <2>5. "seconds" \in UnitSet
    BY UnitOrder
  <2>6. tail[k] \in NumbersOf(f, d)
    BY <2>2, <2>3, <2>5 DEF NumbersOf
  <2>7. CASE layout[k] = "seconds"
    BY <2>2, <2>4, <2>6, <2>7 DEF Countable, R
  <2>8. CASE layout[k] # "seconds"
    <3>1. layout[k] \in {"hours", "minutes"}
      BY <2>3, <2>8 DEF ClockUnits
    <3> QED
      BY <1>3, <1>4, <2>2, <2>6, <2>8, <3>1 DEF Countable, R
  <2> QED
    BY <2>7, <2>8
<1>6. tail = [k \in 1 .. l |-> tail[k]]
  BY DEF NumericUnits
<1> HIDE DEF R
<1>7. tail \in [1 .. l -> R]
  BY <1>5, <1>6
<1>8. tail \in Seq(R) /\ Len(tail) = l
  BY <1>1, <1>7, FunctionIsSeq
<1> QED
  BY <1>5, <1>8 DEF R, CountsFor

\* The clock accounts for its units.
LEMMA ClockAccounts ==
  ASSUME NEW f, Sound(f), NEW d \in [UnitSet -> Int], NEW t, Totals(t, d), NEW n \in 0 .. 10,
         NEW tail, NEW sign \in BOOLEAN, TailInDigits(f, d, n, tail, sign)
  PROVE  Accounts(f, d, n, tail, t)
<1>1. PICK p \in 1 .. 10 :
        /\ n = p - 1 /\ StyleAt(f, p) \in ClockStyles
        /\ tail = NumericUnits(f, d, NumericLayout(f, d, Units[p]), sign)
  BY DEF TailInDigits
<1> DEFINE first == Units[p]
           layout == NumericLayout(f, d, first)
           hours == HoursFormatted(f, d, first)
           minutes == MinutesFormatted(f, d, first)
           seconds == SecondsFormatted(f, d)
           R == Countable(f, d)
           x == FractionalNumber(f, d, "seconds", TRUE)
           c == NumberWorth(x)
           drop == DroppedBelow(x.width, f.fractionalDigits)
           h == Worth(d)[5]
           m == Worth(d)[6]
           rest == t[7 .. 10]
<1>2. /\ p \in 5 .. 7
      /\ \A i \in p + 1 .. 10 : StyleAt(f, i) = IF i <= 7 THEN "2-digit" ELSE "fractional"
  BY <1>1, StylesFollow
<1>3. hours \in BOOLEAN /\ minutes \in BOOLEAN /\ seconds \in BOOLEAN
  BY DEF HoursFormatted, MinutesFormatted, SecondsFormatted
<1>4. LayoutIs(layout, hours, minutes, seconds)
  BY LayoutOf
<1>5. layout \in Seq(UnitSet) /\ Len(layout) \in Nat
  BY LayoutShape
<1>6. Adjacent(layout)
  <2> HIDE DEF layout, hours, minutes, seconds
  <2> QED
    BY <1>3, <1>4, LayoutAdjacent
<1>7. f.fractionalDigits \in Digits
  BY DEF Sound, Formatters
<1>8. c \in Nat /\ rest - c \in 0 .. drop - 1
  <2> DEFINE sign1 == TRUE
  <2>1. x = FractionalNumber(f, d, "seconds", sign1)
    OBVIOUS
  <2> HIDE DEF sign1, x
  <2>2. SecondsLeave(f, d, t[7 .. 10], sign1)
    BY <1>7, SecondsCount
  <2> QED
    BY <2>1, <2>2 DEF SecondsLeave
<1>9. tail \in Seq(R) /\ Len(tail) = Len(layout) /\ CountsFor(tail, layout, h, m, c)
  <2>1. tail = NumericUnits(f, d, layout, sign)
    BY <1>1
  <2>2. ClockCounts(f, d, h, m, c)
    BY DEF ClockCounts
  <2> HIDE DEF layout, x, c, h, m
  <2> QED
    BY <1>5, <1>6, <1>8, <2>1, <2>2, ClockCountable
<1>10. h \in Nat /\ m \in Nat /\ rest \in Nat
  <2>1. 5 \in 1 .. 10 /\ 6 \in 1 .. 10
    OBVIOUS
  <2>2. \A i \in 1 .. 10 : Worth(d)[i] \in Nat
    BY WorthType
  <2>3. \A a \in 1 .. 11, b \in 0 .. 10 : t[a .. b] \in Nat
    BY TotalsSteps
  <2>4. 7 \in 1 .. 11 /\ 10 \in 0 .. 10
    OBVIOUS
  <2> QED
    BY <2>1, <2>2, <2>3, <2>4
<1>11. Units[5] = "hours" /\ Units[6] = "minutes" /\ Units[7] = "seconds"
  BY ClockPlaces
<1>12. p = 5 \/ p = 6 \/ p = 7
  BY <1>2
<1>13. /\ hours <=> p = 5 /\ Shown(f, d, "hours")
       /\ minutes => p = 5 \/ p = 6
       /\ (p = 5 \/ p = 6) /\ Shown(f, d, "minutes") => minutes
  <2>1. /\ first = "hours" <=> p = 5
        /\ first = "minutes" <=> p = 6
    BY <1>11, <1>12
  <2> QED
    BY <2>1 DEF HoursFormatted, MinutesFormatted
<1>14. /\ p = 5 /\ ~hours => h = 0
       /\ (p = 5 \/ p = 6) /\ ~minutes => m = 0
       /\ ~seconds => rest = 0
  <2>1. \A i \in 1 .. 10 : d[Units[i]] = 0 => Worth(d)[i] = 0
    BY WorthType
  <2>2. 5 \in 1 .. 10 /\ 6 \in 1 .. 10
    OBVIOUS
  <2>3. ~Shown(f, d, "hours") => h = 0
    BY <1>11, <2>1, <2>2 DEF Shown
  <2>4. ~Shown(f, d, "minutes") => m = 0
    BY <1>11, <2>1, <2>2 DEF Shown
  <2>5. ASSUME ~seconds
        PROVE  rest = 0
    <3>1. d["seconds"] = 0 /\ \A u \in Fractional : d[u] = 0
      BY <2>5 DEF SecondsFormatted, Shown, HasSubsecondValue
    <3>2. Units[8] \in Fractional /\ Units[9] \in Fractional /\ Units[10] \in Fractional
      BY DEF Units, Fractional
    <3>3. d[Units[7]] = 0 /\ d[Units[8]] = 0 /\ d[Units[9]] = 0 /\ d[Units[10]] = 0
      BY <1>11, <3>1, <3>2
    <3>4. 7 \in 1 .. 10 /\ 8 \in 1 .. 10 /\ 9 \in 1 .. 10 /\ 10 \in 1 .. 10
      OBVIOUS
    <3> DEFINE A == Worth(d)
    <3>5. A[7] = 0 /\ A[8] = 0 /\ A[9] = 0 /\ A[10] = 0
      BY <2>1, <3>3, <3>4
    <3> HIDE DEF A
    <3>6. rest = A[7] + A[8] + A[9] + A[10]
      BY TotalsFollow DEF TotalsOf, A
    <3> QED
      BY <3>5, <3>6
  <2> QED
    BY <1>13, <2>3, <2>4, <2>5
<1> DEFINE hh == IF hours THEN h ELSE 0
           mm == IF minutes THEN m ELSE 0
           cc == IF seconds THEN c ELSE 0
           s == hh + mm + cc
           before == t[1 .. n]
           all == t[1 .. 10]
<1>15. before \in Nat /\ all = before + hh + mm + rest
  <2>1. TotalsOf(t, Worth(d))
    BY TotalsFollow
  <2> DEFINE t4 == t[1 .. 4]
             t5 == t[1 .. 5]
             t6 == t[1 .. 6]
  <2>2. /\ all = t6 + rest /\ t6 = t5 + m /\ t5 = t4 + h
    BY <2>1 DEF TotalsOf
  <2>3. t4 \in Nat /\ t5 \in Nat /\ t6 \in Nat
    <3>1. \A i \in 0 .. 10 : t[1 .. i] \in Nat
      BY <2>1 DEF TotalsOf
    <3>2. 4 \in 0 .. 10 /\ 5 \in 0 .. 10 /\ 6 \in 0 .. 10
      OBVIOUS
    <3> QED
      BY <3>1, <3>2
  <2>4. /\ p = 5 => before = t4
        /\ p = 6 => before = t5
        /\ p = 7 => before = t6
    <3>1. /\ p = 5 => n = 4
          /\ p = 6 => n = 5
          /\ p = 7 => n = 6
      BY <1>1
    <3> QED
      BY <3>1
  <2>5. /\ p = 5 => hh = h /\ mm = m
        /\ p = 6 => hh = 0 /\ mm = m
        /\ p = 7 => hh = 0 /\ mm = 0
    BY <1>13, <1>14
  <2> HIDE DEF t4, t5, t6, hh, mm, rest, before, all, h, m
  <2>6. CASE p = 5
    <3>1. before = t4 /\ hh = h /\ mm = m
      BY <2>4, <2>5, <2>6
    <3> QED
      BY <1>10, <2>2, <2>3, <3>1
  <2>7. CASE p = 6
    <3>1. before = t5 /\ hh = 0 /\ mm = m
      BY <2>4, <2>5, <2>7
    <3> QED
      BY <1>10, <2>2, <2>3, <3>1
  <2>8. CASE p = 7
    <3>1. before = t6 /\ hh = 0 /\ mm = 0
      BY <2>4, <2>5, <2>8
    <3> QED
      BY <1>10, <2>2, <2>3, <3>1
  <2> QED
    BY <1>12, <2>6, <2>7, <2>8
<1>16. AddsUp(R, tail, s) /\ s \in Nat
  <2>1. \A y \in R : NumberWorth(y) \in Int
    BY DEF Countable
  <2> HIDE DEF R, layout, hours, minutes, seconds, h, m, c
  <2>2. AddsUp(R, tail, (IF hours THEN h ELSE 0) + (IF minutes THEN m ELSE 0) + (IF seconds THEN c ELSE 0))
    BY <1>3, <1>4, <1>9, <1>8, <1>10, <2>1, LayoutShows
  <2>3. hh \in Nat /\ mm \in Nat /\ cc \in Nat
    BY <1>8, <1>10
  <2> QED
    BY <2>2, <2>3
<1>17. PrecisionOf(f, tail) = IF seconds THEN drop ELSE 1
  <2> HIDE DEF R
  <2>1. CASE Len(layout) = 0
    <3>1. ~seconds
      <4> HIDE DEF layout, hours, minutes, seconds
      <4> QED
        BY <1>3, <1>4, <2>1 DEF LayoutIs
    <3>2. tail = <<>>
      BY <1>9, <2>1, EmptySeq
    <3> QED
      BY <3>1, <3>2 DEF PrecisionOf
  <2>2. CASE Len(layout) # 0
    <3> DEFINE k == Len(layout)
               last == tail[k]
               available == sign /\ k = 1
    <3>1. k \in 1 .. Len(layout)
      BY <1>5, <2>2
    <3>2. tail # <<>> /\ tail[Len(tail)] = last
      BY <1>9, <2>2, EmptySeq
    <3>3. ClockNumber(f, d, layout, sign, k, last)
      <4>1. tail = NumericUnits(f, d, layout, sign)
        BY <1>1
      <4> HIDE DEF layout
      <4> QED
        BY <1>5, <3>1, <4>1, ClockNumbers
    <3>4. layout[k] = "seconds" <=> seconds
      <4> HIDE DEF layout, hours, minutes, seconds
      <4>1. CASE seconds
        <5>1. \/ layout = <<"hours", "minutes", "seconds">>
              \/ layout = <<"minutes", "seconds">>
              \/ layout = <<"seconds">>
          BY <1>4, <4>1 DEF LayoutIs
        <5>2. layout[Len(layout)] = "seconds"
          <6>1. CASE layout = <<"hours", "minutes", "seconds">>
            BY <6>1
          <6>2. CASE layout = <<"minutes", "seconds">>
            BY <6>2
          <6>3. CASE layout = <<"seconds">>
            BY <6>3
          <6> QED
            BY <5>1, <6>1, <6>2, <6>3
        <5> QED
          BY <4>1, <5>2
      <4>2. CASE ~seconds
        <5>1. layout \in {<<"hours", "minutes">>, <<"hours">>, <<"minutes">>, <<>>}
          BY <1>4, <4>2 DEF LayoutIs
        <5>2. layout \in {<<"hours", "minutes">>, <<"hours">>, <<"minutes">>}
          BY <2>2, <5>1
        <5>3. layout[Len(layout)] # "seconds"
          <6>1. CASE layout = <<"hours", "minutes">>
            BY <6>1
          <6>2. CASE layout = <<"hours">>
            BY <6>2
          <6>3. CASE layout = <<"minutes">>
            BY <6>3
          <6> QED
            BY <5>2, <6>1, <6>2, <6>3
        <5> QED
          BY <4>2, <5>3
      <4> QED
        BY <4>1, <4>2
    <3>5. last.unit = layout[k] /\ layout[k] \in ClockUnits
      BY <1>6, <3>1, <3>3 DEF ClockNumber, Adjacent
    <3>6. ASSUME ~seconds PROVE ~IsFraction(f, last)
      <4>1. last.unit \in {"hours", "minutes"}
        BY <3>4, <3>5, <3>6 DEF ClockUnits
      <4> QED
        BY <4>1 DEF IsFraction, NextUnitFractional, Parents
    <3>7. ASSUME seconds PROVE IsFraction(f, last) /\ last.width = x.width
      <4>1. last.unit = "seconds" /\ last.style = f.units["seconds"].style
        BY <3>3, <3>4, <3>5, <3>7 DEF ClockNumber
      <4>2. f.units["seconds"].style = StyleAt(f, 7)
        BY <1>11 DEF StyleAt
      <4>3. StyleAt(f, 7) \in ClockStyles
        <5>1. CASE p = 7
          BY <1>1, <5>1
        <5>2. CASE p # 7
          <6>1. 7 \in p + 1 .. 10
            BY <1>12, <5>2
          <6>2. StyleAt(f, 7) = "2-digit"
            BY <1>2, <6>1
          <6> QED
            BY <6>2 DEF ClockStyles
        <5> QED
          BY <5>1, <5>2
      <4>4. last = FractionalNumber(f, d, "seconds", available)
        BY <3>3, <3>4, <3>7 DEF ClockNumber
      <4> HIDE DEF available, last
      <4>5. last.width = x.width
        BY <4>4 DEF FractionalNumber
      <4> QED
        BY <4>1, <4>2, <4>3, <4>5 DEF IsFraction
    <3> HIDE DEF last, k, drop, x, seconds
    <3>8. /\ ~IsFraction(f, last) => PrecisionOf(f, tail) = 1
          /\ IsFraction(f, last) => PrecisionOf(f, tail) = DroppedBelow(last.width, f.fractionalDigits)
      BY <1>9, <3>2, PrecisionAt
    <3> QED
      BY <3>6, <3>7, <3>8 DEF drop
  <2> QED
    BY <2>1, <2>2
<1>18. all - (before + s) \in 0 .. PrecisionOf(f, tail) - 1
  <2>1. hh \in Nat /\ mm \in Nat
    BY <1>10
  <2>2. cc = (IF seconds THEN c ELSE 0) /\ s = hh + mm + cc
    OBVIOUS
  <2> HIDE DEF hh, mm, cc, s, before, all, rest, c, drop, h, m, seconds, hours, minutes
  <2>3. rest - cc \in 0 .. PrecisionOf(f, tail) - 1 /\ cc \in Nat
    BY <1>8, <1>14, <1>17, <2>2
  <2>4. all - (before + s) = rest - cc
    BY <1>10, <1>15, <2>1, <2>2, <2>3
  <2> QED
    BY <2>3, <2>4
<1> HIDE DEF R, s
<1> QED
  BY <1>9, <1>16, <1>18 DEF Accounts, R

\* A fraction accounts for its unit and those below it.
LEMMA FractionAccounts ==
  ASSUME NEW f, Sound(f), NEW d \in [UnitSet -> Int], NEW t, Totals(t, d), NEW n \in 0 .. 10,
         NEW tail, NEW sign \in BOOLEAN, TailIsFraction(f, d, n, tail, sign)
  PROVE  Accounts(f, d, n, tail, t)
<1>1. PICK p \in 1 .. 10 :
        /\ n = p - 1 /\ StyleAt(f, p) \in WordStyles /\ NextUnitFractional(f, Units[p])
        /\ tail = IF f.units[Units[p]].display = "auto" /\ FractionalAmount(d, Units[p]) = 0 THEN <<>>
                  ELSE <<FractionalNumber(f, d, Units[p], sign)>>
  BY DEF TailIsFraction
<1> DEFINE v == Units[p]
           x == FractionalNumber(f, d, v, sign)
           R == Countable(f, d)
           before == t[1 .. n]
           rest == t[p .. 10]
           all == t[1 .. 10]
<1>2. v \in UnitSet /\ p \in 7 .. 9
  <2>1. v \in UnitSet /\ Position[v] = p /\ v \in Parents
    BY <1>1, UnitOrder DEF NextUnitFractional
  <2> QED
    BY <1>1, <2>1, Below DEF Parents
<1>3. before \in Nat /\ all = before + rest
  <2>1. TotalsOf(t, Worth(d))
    BY TotalsFollow
  <2>2. CASE p = 7
    <3>1. n = 6
      BY <1>1, <2>2
    <3> QED
      BY <2>1, <2>2, <3>1 DEF TotalsOf
  <2>3. CASE p = 8
    <3>1. n = 7
      BY <1>1, <2>3
    <3> QED
      BY <2>1, <2>3, <3>1 DEF TotalsOf
  <2>4. CASE p = 9
    <3>1. n = 8
      BY <1>1, <2>4
    <3> QED
      BY <2>1, <2>4, <3>1 DEF TotalsOf
  <2> QED
    BY <1>2, <2>2, <2>3, <2>4
<1>4. /\ x.width \in 0 .. 9 /\ x.unit = v /\ NumberWorth(x) \in Nat
      /\ rest - NumberWorth(x) \in 0 .. DroppedBelow(x.width, f.fractionalDigits) - 1
  <2>1. f.fractionalDigits \in Digits
    BY DEF Sound, Formatters
  <2> QED
    BY <1>2, <2>1, FractionCounts
<1>5. \A y \in R : NumberWorth(y) \in Int
  BY DEF Countable
<1>6. x \in R
  <2>1. x \in NumbersOf(f, d)
    BY <1>2 DEF NumbersOf
  <2> HIDE DEF x
  <2> QED
    BY <1>4, <2>1 DEF Countable
<1>7. CASE tail = <<>>
  <2>1. rest = 0
    <3>1. FractionalAmount(d, v) = 0
      <4>1. <<x>> # <<>>
        OBVIOUS
      <4> QED
        BY <1>1, <1>7, <4>1
    <3> QED
      BY <1>2, <3>1, FractionalWorth
  <2> HIDE DEF R, before, rest, all
  <2>2. AddsUp(R, <<>>, 0)
    BY <1>5, ShowsNone
  <2>3. all - (before + 0) \in 0 .. 1 - 1
    BY <1>3, <2>1
  <2>4. PrecisionOf(f, tail) = 1
    BY <1>7 DEF PrecisionOf
  <2>5. <<>> \in Seq(R) /\ 0 \in Nat
    OBVIOUS
  <2> QED
    BY <1>7, <2>2, <2>3, <2>4, <2>5 DEF Accounts, R, before, all
<1>8. CASE tail # <<>>
  <2>1. tail = <<x>>
    BY <1>1, <1>8
  <2> HIDE DEF x, R, before, rest, all
  <2>2. AddsUp(R, <<x>>, NumberWorth(x))
    BY <1>5, <1>6, ShowsUpToThree
  <2>3. <<x>> \in Seq(R) /\ Len(<<x>>) = 1 /\ <<x>>[1] = x
    BY <1>6
  <2>4. IsFraction(f, x)
    BY <1>1, <1>4 DEF IsFraction, v
  <2>5. PrecisionOf(f, tail) = DroppedBelow(x.width, f.fractionalDigits)
    <3>1. tail \in Seq(R) /\ tail[Len(tail)] = x
      BY <2>1, <2>3
    <3> QED
      BY <1>8, <2>4, <3>1, PrecisionAt
  <2> DEFINE c == NumberWorth(x)
  <2>6. c \in Nat /\ rest - c \in 0 .. PrecisionOf(f, tail) - 1
    BY <1>4, <2>5
  <2>7. AddsUp(R, tail, c) /\ tail \in Seq(R)
    BY <2>1, <2>2, <2>3
  <2> HIDE DEF c
  <2>8. rest \in Nat
    <3>1. \A a \in 1 .. 11, b \in 0 .. 10 : t[a .. b] \in Nat
      BY TotalsSteps
    <3>2. p \in 1 .. 11 /\ 10 \in 0 .. 10
      OBVIOUS
    <3> QED
      BY <3>1, <3>2 DEF rest
  <2>9. all - (before + c) = rest - c
    BY <1>3, <2>6, <2>8
  <2>10. all - (before + c) \in 0 .. PrecisionOf(f, tail) - 1
    BY <2>6, <2>9
  <2> QED
    BY <2>6, <2>7, <2>10 DEF Accounts, R, before, all
<1> QED
  BY <1>7, <1>8

LEMMA EndAccounts ==
  ASSUME NEW f, Sound(f), NEW d \in [UnitSet -> Int], NEW t, Totals(t, d), NEW n \in 0 .. 10,
         NEW tail, NEW sign \in BOOLEAN, Ending(f, d, n, tail, sign)
  PROVE  Accounts(f, d, n, tail, t)
<1>1. CASE n = 10 /\ tail = <<>>
  <2> DEFINE R == Countable(f, d)
             all == t[1 .. 10]
  <2>1. \A y \in R : NumberWorth(y) \in Int
    BY DEF Countable
  <2>2. all \in Nat
    <3>1. \A i \in 0 .. 10 : t[1 .. i] \in Nat
      BY TotalsFollow DEF TotalsOf
    <3>2. 10 \in 0 .. 10
      OBVIOUS
    <3> QED
      BY <3>1, <3>2
  <2>3. t[1 .. n] = all
    BY <1>1
  <2> HIDE DEF R, all
  <2>4. AddsUp(R, <<>>, 0) /\ <<>> \in Seq(R) /\ 0 \in Nat
    BY <2>1, ShowsNone
  <2>5. all - (all + 0) \in 0 .. 1 - 1
    BY <2>2
  <2>6. PrecisionOf(f, tail) = 1
    BY <1>1 DEF PrecisionOf
  <2> QED
    BY <1>1, <2>3, <2>4, <2>5, <2>6 DEF Accounts, R, all
<1>2. CASE TailInDigits(f, d, n, tail, sign)
  BY <1>2, ClockAccounts
<1>3. CASE TailIsFraction(f, d, n, tail, sign)
  BY <1>3, FractionAccounts
<1> QED
  BY <1>1, <1>2, <1>3 DEF Ending

-------------------------------------------------------------------------------
(* Nothing is lost. *)

LEMMA WordsCountable ==
  ASSUME NEW f, NEW d \in [UnitSet -> Int], NEW n \in 0 .. 10, NEW w, Words(f, d, n, w)
  PROVE  w \in Seq(Countable(f, d))
<1> DEFINE R == Countable(f, d)
<1>1. \A s : \A j \in 1 .. 10 : NumberWorth(IntegerNumber(f, d, Units[j], s)) \in Int
  BY IntegerWorth, WorthType
<1>2. w \in Seq(NumbersOf(f, d)) /\ Len(w) \in Nat /\ w \in [1 .. Len(w) -> NumbersOf(f, d)]
  BY LenProperties DEF Words
<1>3. ASSUME NEW k \in 1 .. Len(w)
      PROVE  w[k] \in R
  <2>1. PICK j \in 1 .. n : w[k] = IntegerNumber(f, d, Units[j], k = 1)
    BY DEF Words
  <2>2. j \in 1 .. 10 /\ w[k] \in NumbersOf(f, d)
    BY <1>2
  <2> QED
    BY <1>1, <2>1, <2>2 DEF Countable
<1> HIDE DEF R
<1>4. w \in [1 .. Len(w) -> R]
  BY <1>2, <1>3
<1>5. w \in Seq(R)
  BY <1>2, <1>4, FunctionIsSeq
<1> QED
  BY <1>5 DEF R

\* No number in words is a fraction.
LEMMA NoFractionInWords ==
  ASSUME NEW f, NEW d, NEW n \in 0 .. 10, NEW w, Words(f, d, n, w), NEW k \in 1 .. Len(w)
  PROVE  ~IsFraction(f, w[k])
<1>1. PICK j \in 1 .. n : w[k] = IntegerNumber(f, d, Units[j], k = 1)
  BY DEF Words
<1> DEFINE u == Units[j]
           x == w[k]
           first == k = 1
<1>2. x = IntegerNumber(f, d, u, first)
  BY <1>1
<1>3. StyleAt(f, j) \in WordStyles /\ ~NextUnitFractional(f, u) /\ f.units[u].style = StyleAt(f, j)
  BY DEF Words, StyleAt
<1> HIDE DEF u, x, first
<1>4. x.unit = u /\ x.style = f.units[u].style
  BY <1>2 DEF IntegerNumber
<1>5. WordStyles \cap ClockStyles = {}
  BY DEF WordStyles, ClockStyles
<1>6. ~IsFraction(f, x)
  BY <1>3, <1>4, <1>5 DEF IsFraction
<1> QED
  BY <1>6 DEF x

LEMMA PrecisionSplit ==
  ASSUME NEW f, NEW d, NEW groups, NEW numbers, NEW n \in 0 .. 10, NEW w, NEW tail,
         Split(f, d, groups, numbers, n, w, tail)
  PROVE  PrecisionOf(f, numbers) = PrecisionOf(f, tail)
<1> DEFINE K == NumbersOf(f, d)
           l == Len(w)
           m == Len(tail)
<1>1. /\ l \in Nat /\ m \in Nat /\ w \in Seq(K) /\ tail \in Seq(K) /\ Words(f, d, n, w)
      /\ numbers = w \o tail /\ Len(numbers) = l + m
      /\ \A k \in 1 .. m : numbers[l + k] = tail[k]
  BY DEF Split, Shaped, Words
<1>2. numbers \in Seq(K)
  BY <1>1, ConcatProperties
<1> HIDE DEF K
<1>3. CASE tail # <<>>
  <2> DEFINE x == tail[m]
  <2>1. m # 0
    BY <1>1, <1>3, EmptySeq
  <2> HIDE DEF l, m
  <2>2. m \in 1 .. m /\ l + m # 0
    BY <1>1, <2>1
  <2>3. numbers[l + m] = x
    BY <1>1, <2>2
  <2>4. numbers # <<>>
    BY <1>1, <1>2, <2>2, EmptySeq
  <2>5. numbers[Len(numbers)] = x /\ tail[Len(tail)] = x
    BY <1>1, <2>3 DEF m
  <2> HIDE DEF x
  <2>6. /\ ~IsFraction(f, x) => PrecisionOf(f, numbers) = 1
        /\ IsFraction(f, x) => PrecisionOf(f, numbers) = DroppedBelow(x.width, f.fractionalDigits)
    BY <1>2, <2>4, <2>5, PrecisionAt
  <2>7. /\ ~IsFraction(f, x) => PrecisionOf(f, tail) = 1
        /\ IsFraction(f, x) => PrecisionOf(f, tail) = DroppedBelow(x.width, f.fractionalDigits)
    BY <1>1, <1>3, <2>5, PrecisionAt
  <2> QED
    BY <2>6, <2>7
<1>4. CASE tail = <<>>
  <2>1. PrecisionOf(f, tail) = 1
    BY <1>4 DEF PrecisionOf
  <2>2. numbers = w
    BY <1>1, <1>4, ConcatEmptySeq
  <2>3. CASE w = <<>>
    BY <2>1, <2>2, <2>3 DEF PrecisionOf
  <2>4. CASE w # <<>>
    <3>1. l \in 1 .. l
      <4>1. l # 0
        BY <1>1, <2>4, EmptySeq
      <4> HIDE DEF l
      <4> QED
        BY <1>1, <4>1
    <3>2. ~IsFraction(f, w[l])
      BY <1>1, <3>1, NoFractionInWords
    <3>3. PrecisionOf(f, w) = 1
      BY <3>2 DEF PrecisionOf
    <3> QED
      BY <2>1, <2>2, <3>3
  <2> QED
    BY <2>3, <2>4
<1> QED
  BY <1>3, <1>4

\* All numbers together account for the duration.
LEMMA NumbersAccount ==
  ASSUME NEW f, Sound(f), NEW d \in [UnitSet -> Int], ~MixedSigns(d), NEW groups, NEW numbers,
         NEW n \in 0 .. 10, NEW w, NEW tail, Split(f, d, groups, numbers, n, w, tail)
  PROVE  Magnitude(Nanoseconds(d)) - ShownBy(numbers) \in 0 .. PrecisionOf(f, numbers) - 1
<1>1. PICK t : Totals(t, d)
  BY TotalsExist
<1> DEFINE R == Countable(f, d)
           all == t[1 .. 10]
           before == t[1 .. n]
           sign == w = <<>>
<1>2. /\ Words(f, d, n, w) /\ Told(d, n, w) /\ Ending(f, d, n, tail, sign) /\ numbers = w \o tail
  BY DEF Split, Shaped
<1>3. Accounts(f, d, n, tail, t)
  <2>1. sign \in BOOLEAN
    OBVIOUS
  <2> HIDE DEF sign
  <2> QED
    BY <1>1, <1>2, <2>1, EndAccounts
<1>4. PICK s \in Nat : AddsUp(R, tail, s) /\ all - (before + s) \in 0 .. PrecisionOf(f, tail) - 1
  BY <1>3 DEF Accounts
<1>5. w \in Seq(R)
  BY <1>2, WordsCountable
<1>6. ShownBy(w) = before
  BY <1>1, <1>2 DEF Told
<1>7. Magnitude(Nanoseconds(d)) = all
  BY <1>1, NanosecondsWorth
<1>8. PrecisionOf(f, numbers) = PrecisionOf(f, tail)
  BY PrecisionSplit
<1> HIDE DEF R, all, before
<1>9. ShownBy(w \o tail) = ShownBy(w) + s
  BY <1>4, <1>5 DEF AddsUp
<1>10. ShownBy(numbers) = before + s
  BY <1>2, <1>6, <1>9
<1> QED
  BY <1>4, <1>7, <1>8, <1>10

\* Units come longest first.
Ordered(numbers, i, j) == Position[numbers[i].unit] < Position[numbers[j].unit]

LEMMA NumbersOrdered ==
  ASSUME NEW f, NEW d, NEW groups, NEW numbers, NEW n \in 0 .. 10, NEW w, NEW tail,
         Split(f, d, groups, numbers, n, w, tail), NEW i \in 1 .. Len(w) + Len(tail),
         NEW j \in 1 .. Len(w) + Len(tail), i < j
  PROVE  Ordered(numbers, i, j)
<1> USE DEF Ordered
<1> DEFINE l == Len(w)
           m == Len(tail)
<1>1. /\ l \in Nat /\ m \in Nat
      /\ \A k \in 1 .. l : numbers[k] = w[k]
      /\ \A k \in 1 .. m : numbers[l + k] = tail[k]
  BY DEF Split
<1>2. /\ \A k, q \in 1 .. l : k < q => Position[w[k].unit] < Position[w[q].unit]
      /\ \A k, q \in 1 .. m : k < q => Position[tail[k].unit] < Position[tail[q].unit]
      /\ \A k \in 1 .. m : tail[k].unit \in UnitSet /\ Position[tail[k].unit] > n
  BY DEF Split, Shaped, Words, GroupOf
<1>3. \A k \in 1 .. l : Position[w[k].unit] \in 1 .. n
  <2> SUFFICES ASSUME NEW k \in 1 .. l PROVE Position[w[k].unit] \in 1 .. n
    OBVIOUS
  <2>1. PICK a \in 1 .. n : w[k] = IntegerNumber(f, d, Units[a], k = 1)
    BY DEF Split, Shaped, Words
  <2> DEFINE first == k = 1
             u == Units[a]
             x == w[k]
  <2>2. x = IntegerNumber(f, d, u, first)
    BY <2>1
  <2>3. Position[u] = a
    <3>1. a \in 1 .. 10
      OBVIOUS
    <3> QED
      BY <3>1, UnitOrder
  <2> HIDE DEF first, u, x
  <2>4. x.unit = u
    BY <2>2 DEF IntegerNumber
  <2> QED
    BY <2>3, <2>4 DEF x
<1>4. \A v \in UnitSet : Position[v] \in 1 .. 10
  BY UnitOrder
<1> HIDE DEF l, m
<1>5. CASE i \in 1 .. l /\ j \in 1 .. l
  BY <1>1, <1>2, <1>5
<1>6. CASE i \in 1 .. l /\ j \notin 1 .. l
  <2>1. PICK q \in 1 .. m : j = l + q
    <3>1. j - l \in 1 .. m /\ j = l + (j - l)
      BY <1>1, <1>6 DEF l, m
    <3> QED
      BY <3>1
  <2> DEFINE a == Position[w[i].unit]
             b == Position[tail[q].unit]
  <2>2. a \in 1 .. n /\ b \in 1 .. 10 /\ b > n
    BY <1>2, <1>3, <1>4, <1>6
  <2> HIDE DEF a, b
  <2>3. a < b
    BY <2>2
  <2>4. numbers[i] = w[i] /\ numbers[j] = tail[q]
    BY <1>1, <1>6, <2>1
  <2> QED
    BY <2>3, <2>4 DEF a, b
<1>7. CASE i \notin 1 .. l
  <2>1. PICK k \in 1 .. m, q \in 1 .. m : i = l + k /\ j = l + q /\ k < q
    <3>1. /\ i - l \in 1 .. m /\ i = l + (i - l)
          /\ j - l \in 1 .. m /\ j = l + (j - l) /\ i - l < j - l
      BY <1>1, <1>7 DEF l, m
    <3> QED
      BY <3>1
  <2>2. numbers[i] = tail[k] /\ numbers[j] = tail[q]
    BY <1>1, <2>1
  <2>3. Position[tail[k].unit] < Position[tail[q].unit]
    BY <1>2, <2>1
  <2> QED
    BY <2>2, <2>3
<1> QED
  BY <1>5, <1>6, <1>7

\* A calendar unit that is not zero shows its value.
ShowsValue(d, numbers, u, k) == numbers[k].unit = u /\ numbers[k].amount = Magnitude(d[u])

LEMMA CalendarShown ==
  ASSUME NEW f, Sound(f), NEW d, NEW groups, NEW numbers, NEW n \in 0 .. 10, NEW w, NEW tail,
         Split(f, d, groups, numbers, n, w, tail), NEW u \in CalendarUnits, d[u] # 0
  PROVE  \E k \in 1 .. Len(w) + Len(tail) : ShowsValue(d, numbers, u, k)
<1> DEFINE p == Position[u]
           sign == w = <<>>
<1>1. p \in 1 .. 3 /\ Units[p] = u
  <2>1. Units[1] = "years" /\ Units[2] = "months" /\ Units[3] = "weeks"
    BY DEF Units
  <2>2. 1 \in 1 .. 10 /\ 2 \in 1 .. 10 /\ 3 \in 1 .. 10
    OBVIOUS
  <2>3. Position[Units[1]] = 1 /\ Position[Units[2]] = 2 /\ Position[Units[3]] = 3
    BY <2>2, UnitOrder
  <2> QED
    BY <2>1, <2>3 DEF CalendarUnits
<1> HIDE DEF p
<1>2. Ending(f, d, n, tail, sign) /\ Words(f, d, n, w)
  BY DEF Split, Shaped
<1> HIDE DEF sign
<1>3. p \in 1 .. n
  <2>1. n >= 3
    <3>1. CASE n = 10 /\ tail = <<>>
      BY <3>1
    <3>2. CASE TailInDigits(f, d, n, tail, sign)
      <4>1. PICK i \in 1 .. 10 : n = i - 1 /\ StyleAt(f, i) \in ClockStyles
        BY <3>2 DEF TailInDigits
      <4>2. i \in 5 .. 7
        BY <4>1, StylesFollow
      <4> QED
        BY <4>1, <4>2
    <3>3. CASE TailIsFraction(f, d, n, tail, sign)
      <4>1. PICK i \in 1 .. 10 : n = i - 1 /\ NextUnitFractional(f, Units[i])
        BY <3>3 DEF TailIsFraction
      <4>2. Units[i] \in UnitSet /\ Position[Units[i]] = i /\ Units[i] \in Parents
        BY <4>1, UnitOrder DEF NextUnitFractional
      <4>3. i \in 7 .. 9
        BY <4>2, Below DEF Parents
      <4> QED
        BY <4>1, <4>3
    <3> QED
      BY <1>2, <3>1, <3>2, <3>3 DEF Ending
  <2> QED
    BY <1>1, <2>1
<1>4. Shown(f, d, Units[p])
  BY <1>1 DEF Shown
<1>5. PICK k \in 1 .. Len(w) : w[k] = IntegerNumber(f, d, Units[p], k = 1)
  BY <1>2, <1>3, <1>4 DEF Words
<1> DEFINE first == k = 1
           x == numbers[k]
<1>6. x = IntegerNumber(f, d, u, first)
  BY <1>1, <1>5 DEF Split
<1> HIDE DEF x, first
<1>7. x.unit = u /\ x.amount = Magnitude(d[u])
  BY <1>6 DEF IntegerNumber
<1>8. k \in 1 .. Len(w) + Len(tail)
  BY DEF Split
<1> QED
  BY <1>7, <1>8 DEF ShowsValue, x

\* What is laid out loses nothing.
LEMMA LaidOutWhole ==
  ASSUME LaidOut
  PROVE  NothingLost
<1> SUFFICES ASSUME Formatted PROVE NothingLost
  BY DEF NothingLost
<1> DEFINE f == formatter
           d == duration
           groups == result
           numbers == Numbers
<1>1. /\ Sound(f) /\ d \in [UnitSet -> Int] /\ ~MixedSigns(d) /\ groups = Partition(f, d)
      /\ numbers = FlattenSeq(groups)
  BY DEF LaidOut
<1>2. ShownNanoseconds = ShownBy(numbers)
  BY DEF ShownNanoseconds, ShownBy
<1>3. Precision = PrecisionOf(f, numbers)
  BY DEF Precision, PrecisionOf, DroppedBelow, IsFractional, IsFraction
<1> HIDE DEF f, d, groups, numbers
<1>4. PICK n, w, tail : n \in 0 .. 10 /\ Split(f, d, groups, numbers, n, w, tail)
  BY <1>1, NumbersSplit
<1> DEFINE m == Len(w) + Len(tail)
<1>5. DOMAIN numbers = 1 .. m
  BY <1>4 DEF Split
<1>6. \A i, j \in 1 .. m : i < j => Position[numbers[i].unit] < Position[numbers[j].unit]
  <2>1. \A i, j \in 1 .. m : i < j => Ordered(numbers, i, j)
    BY <1>4, NumbersOrdered
  <2> QED
    BY <2>1 DEF Ordered
<1>7. ASSUME NEW u \in CalendarUnits, d[u] # 0
      PROVE  \E i \in 1 .. m : numbers[i].unit = u /\ numbers[i].amount = Magnitude(d[u])
  <2>1. \E k \in 1 .. m : ShowsValue(d, numbers, u, k)
    BY <1>1, <1>4, <1>7, CalendarShown
  <2> QED
    BY <2>1 DEF ShowsValue
<1>8. Magnitude(Nanoseconds(d)) - ShownBy(numbers) \in 0 .. PrecisionOf(f, numbers) - 1
  BY <1>1, <1>4, NumbersAccount
<1> HIDE DEF m
<1>9. Magnitude(Nanoseconds(d)) - ShownNanoseconds \in 0 .. Precision - 1
  BY <1>2, <1>3, <1>8
<1>10. /\ \A i, j \in DOMAIN numbers : i < j => Position[numbers[i].unit] < Position[numbers[j].unit]
       /\ \A u \in CalendarUnits : d[u] # 0 =>
            \E i \in DOMAIN numbers : numbers[i].unit = u /\ numbers[i].amount = Magnitude(d[u])
  BY <1>5, <1>6, <1>7
<1> QED
  BY <1>9, <1>10 DEF NothingLost, d, numbers

\* Formatting loses nothing: units come longest first and at most once, every
\* calendar unit that is not zero shows its value, and the other numbers add
\* up to the whole duration, short of the digits fractionalDigits cuts off.
THEOREM Losses == Spec => []NothingLost
<1>1. LaidOut => NothingLost
  BY LaidOutWhole
<1> QED
  BY <1>1, LayoutInvariant, PTL
===============================================================================
