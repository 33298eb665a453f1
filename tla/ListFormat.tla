------------------------------ MODULE ListFormat ------------------------------
(***************************************************************************)
(* listformat: a list of elements as the parts of the four templates of a  *)
(* locale, nested in each other. The parts are allocated once and filled   *)
(* from both ends. Elements and literals are sequences of characters.      *)
(***************************************************************************)
EXTENDS Integers, Sequences, SequencesExt

CONSTANTS
  Characters,      \* what texts are made of
  HebrewLetters,   \* the characters of the Hebrew script
  ListPatterns,    \* [language, pair, start, middle, end]: patterns of locales, partitioned
  Lists            \* the lists of callers

VARIABLE listing   \* [templates, list, parts] of the last list, or << >>

\* A template has one {0}, for an element, and one {1}, for the rest of the list,
\* in either order: the generator of the data checks that.
Value        == Seq(Characters)
TemplatePart == [type : {"0", "1", "literal"}, value : Value]

IsTemplate(pattern) ==
  /\ pattern \in Seq(TemplatePart)
  /\ \E i, j \in DOMAIN pattern :
       /\ pattern[i].type = "0" /\ pattern[j].type = "1"
       /\ \A k \in DOMAIN pattern \ {i, j} : pattern[k].type = "literal"

HasTemplates(patterns) ==
  /\ IsTemplate(patterns.pair) /\ IsTemplate(patterns.start)
  /\ IsTemplate(patterns.middle) /\ IsTemplate(patterns.end)

ASSUME Templates ==
  /\ {" ", "e", "u", "vav", "-"} \subseteq Characters
  /\ \A patterns \in ListPatterns : HasTemplates(patterns)
  /\ \A list \in Lists : list \in Seq(Value)

-------------------------------------------------------------------------------
(* Templates.                                                              *)

Placeholder(n) == [type |-> n, value |-> <<>>]
Text(value)    == [type |-> "literal", value |-> value]
Element(value) == [type |-> "element", value |-> value]

Connected(connector) == <<Placeholder("0"), Text(connector), Placeholder("1")>>

Plain(pattern) == [pattern |-> pattern, alternate |-> pattern, context |-> "none"]

CompileContextualListTemplate(pattern, language) ==
  LET when(context, alternate) ==
        [pattern |-> pattern, alternate |-> Connected(alternate), context |-> context]
  IN  CASE language = "es" /\ pattern = Connected(<<" ", "y", " ">>) -> when("SpanishE", <<" ", "e", " ">>)
        [] language = "es" /\ pattern = Connected(<<" ", "o", " ">>) -> when("SpanishU", <<" ", "u", " ">>)
        [] language = "he" /\ pattern = Connected(<<" ", "vav">>) -> when("HebrewVavDash", <<" ", "vav", "-">>)
        [] OTHER -> Plain(pattern)

CompileListTemplates(patterns) ==
  [pair   |-> CompileContextualListTemplate(patterns.pair, patterns.language),
   start  |-> patterns.start,
   middle |-> patterns.middle,
   end    |-> CompileContextualListTemplate(patterns.end, patterns.language)]

\* Whether the text begins with one character of each set; and what comes third.
Begins(text, sets) == Len(text) >= Len(sets) /\ \A i \in DOMAIN sets : text[i] \in sets[i]

ContextMatches(context, text) ==
  CASE text = <<>> -> FALSE
    [] text # <<>> /\ context = "SpanishE" ->
         \/ Begins(text, << {"i", "I"} >>)
         \/ /\ Begins(text, << {"h", "H"}, {"i", "I"} >>)
            /\ Len(text) = 2 \/ text[3] \notin {"a", "A", "e", "E"}
    [] text # <<>> /\ context = "SpanishU" ->
         \/ Begins(text, << {"o", "O", "8"} >>)
         \/ Begins(text, << {"h", "H"}, {"o", "O"} >>)
         \/ Begins(text, << {"1"}, {"1"} >>) /\ (Len(text) = 2 \/ text[3] = " ")
    [] text # <<>> /\ context = "HebrewVavDash" -> text[1] \notin HebrewLetters
    [] OTHER -> FALSE

ForElement(template, next) ==
  IF ContextMatches(template.context, next) THEN template.alternate ELSE template.pattern

-------------------------------------------------------------------------------
(* Filling the parts.                                                      *)

ListPatternPart(part, first) == IF part.type = "0" THEN Element(first) ELSE Text(part.value)

\* Where a pattern holds the rest of the list.
Rest(pattern) == SelectInSeq(pattern, LAMBDA part : part.type = "1")

\* What is before {1} fills the parts from the left, what is after it from the right.
Fill(sofar, pattern, first) ==
  LET before == Rest(pattern) - 1
      after  == Len(pattern) - Rest(pattern)
  IN  [out   |-> [k \in DOMAIN sofar.out |->
                    IF k \in sofar.left .. sofar.left + before - 1
                    THEN ListPatternPart(pattern[k - sofar.left + 1], first)
                    ELSE IF k \in sofar.right - after + 1 .. sofar.right
                    THEN ListPatternPart(pattern[Len(pattern) - (sofar.right - k)], first)
                    ELSE sofar.out[k]],
       left  |-> sofar.left + before,
       right |-> sofar.right - after]

Blank(count) == [out |-> [k \in 1 .. count |-> <<>>], left |-> 1, right |-> count]

EndsOneEarly(i, list) == i = Len(list) - 2
EndsAt(i, list)       == i = Len(list) - 1

PatternFor(templates, list, i) ==
  IF Len(list) = 2 THEN ForElement(templates.pair, Last(list))
  ELSE IF EndsAt(i, list) THEN ForElement(templates.end, Last(list))
  ELSE IF i = 1 THEN templates.start
  ELSE templates.middle

PartCount(templates, list) ==
  IF Len(list) = 2 THEN Len(ForElement(templates.pair, Last(list)))
  ELSE Len(templates.start) + (Len(list) - 3) * (Len(templates.middle) - 1)
         + Len(ForElement(templates.end, Last(list))) - 1

Filled(templates, list) ==
  FoldLeftDomain(LAMBDA sofar, i : Fill(sofar, PatternFor(templates, list, i), list[i]),
                 Blank(PartCount(templates, list)), Front(list))

ListParts(templates, list) ==
  IF Len(list) <= 1 THEN [i \in DOMAIN list |-> Element(list[i])]
  ELSE LET filled == Filled(templates, list)
       IN  [filled.out EXCEPT ![filled.left] = Element(Last(list))]

-------------------------------------------------------------------------------
Listing(templates, list) ==
  [templates |-> templates, list |-> list, parts |-> ListParts(templates, list)]

FormatList ==
  \E patterns \in ListPatterns, list \in Lists :
    listing' = Listing(CompileListTemplates(patterns), list)

-------------------------------------------------------------------------------
(* Properties.                                                             *)

\* The elements of a sequence at some of its places, in order. (SelectSeq has no
\* definition to prove with.)
At(s, places) ==
  FoldLeftDomain(LAMBDA sofar, k : IF k \in places THEN Append(sofar, s[k]) ELSE sofar, <<>>, s)

\* A pattern around what is nested in it.
Around(pattern, first, rest) ==
  FlattenSeq([i \in DOMAIN pattern |->
    IF pattern[i].type = "1" THEN rest ELSE <<ListPatternPart(pattern[i], first)>>])

\* ECMA-402's CreatePartsFromList: from the end, each template around what follows.
CreatePartsFromList(templates, list) ==
  LET last  == Last(list)
      inner == Around(ForElement(templates.end, last), list[Len(list) - 1], <<Element(last)>>)
  IN  IF Len(list) <= 1 THEN [i \in DOMAIN list |-> Element(list[i])]
      ELSE IF Len(list) = 2 THEN Around(ForElement(templates.pair, last), list[1], <<Element(last)>>)
      ELSE Around(templates.start, list[1],
             FoldRight(LAMBDA first, rest : Around(templates.middle, first, rest),
                       SubSeq(list, 2, Len(list) - 2), inner))

ElementFirst(pattern) ==
  \E i, j \in DOMAIN pattern : i < j /\ pattern[i].type = "0" /\ pattern[j].type = "1"

\* The elements that the templates put before one: each template has its own
\* element before or after all that follow it in the list.
ElementsBefore(templates, list, i) ==
  {j \in DOMAIN list : IF j < i THEN ElementFirst(PatternFor(templates, list, j))
                       ELSE i < j /\ ~ElementFirst(PatternFor(templates, list, i))}

ElementsPlaced(made) ==
  LET places == {k \in DOMAIN made.parts : made.parts[k].type = "element"}
  IN  /\ Cardinality(places) = Len(made.list)
      /\ \A i \in DOMAIN made.list : \E k \in places :
           /\ made.parts[k].value = made.list[i]
           /\ Cardinality({x \in places : x < k})
                = Cardinality(ElementsBefore(made.templates, made.list, i))

\* Parts that are counted beforehand and filled from both ends are those of the
\* templates nested in each other, and have every element once, after those that
\* the templates put before it (format.go 75-101; SPECS/41-listformat.md 159-173).
ListsNested ==
  listing # <<>> =>
    /\ listing.parts = CreatePartsFromList(listing.templates, listing.list)
    /\ ElementsPlaced(listing)
===============================================================================
