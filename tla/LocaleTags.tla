------------------------------ MODULE LocaleTags ------------------------------
(***************************************************************************)
(* Locale identifiers as the matcher of internal/localematcher sees them,  *)
(* after the Unicode extension has been taken off: a tag is the sequence   *)
(* of its subtags, so "zh-Hant-TW" is <<"zh", "Hant", "TW">>.  A subtag is *)
(* an uninterpreted string; what the code learns from its length or its    *)
(* alphabet is given by the sets below.                                    *)
(***************************************************************************)
EXTENDS Integers, Sequences, SequencesExt

CONSTANTS
  Singletons,     \* subtags of one character: "x", "t", ...
  Scripts,        \* subtags accepted by IsUnicodeScriptSubtag
  Regions,        \* subtags accepted by IsUnicodeRegionSubtag
  LikelySubtags   \* CLDR likely subtags: a function from tags to triples

ASSUME SubtagClasses ==
  /\ Singletons \cap (Scripts \cup Regions) = {}
  /\ Scripts \cap Regions = {}
  /\ "" \notin Singletons \cup Scripts \cup Regions

ASSUME LikelyShape ==
  /\ <<"und">> \in DOMAIN LikelySubtags
  /\ \A tag \in DOMAIN LikelySubtags : /\ LikelySubtags[tag].script \in Scripts \ {"Zzzz"}
                                       /\ LikelySubtags[tag].region \in Regions \ {"ZZ"}

\* A language-script-region triple; "" is an absent component.
Triple(l, s, r) == [language |-> l, script |-> s, region |-> r]

\* The tag of a triple, its absent components left out.
Optional(subtag) == IF subtag = "" THEN <<>> ELSE <<subtag>>
Join(t) == Optional(t.language) \o Optional(t.script) \o Optional(t.region)

\* The components of a tag, by position: a region may follow the language
\* directly, a script may not follow the region.
RegionAt(tag, i) == IF Len(tag) >= i /\ tag[i] \in Regions THEN tag[i] ELSE ""

Parts(tag) ==
  IF Len(tag) > 1 /\ tag[2] \in Scripts
  THEN Triple(tag[1], tag[2], RegionAt(tag, 3))
  ELSE Triple(tag[1], "", RegionAt(tag, 2))

(***************************************************************************)
(* Truncation.  A lookup drops the last subtag, and with it a singleton    *)
(* that would be left at the end.  A fallback candidate drops exactly one. *)
(***************************************************************************)
TruncatedLength(tag, n) ==
  IF n >= 3 /\ tag[n - 1] \in Singletons THEN n - 2 ELSE n - 1

\* The elements of a sequence at some positions, in order.
ElementsAt(seq, positions) ==
  FlattenSeq([i \in DOMAIN seq |-> IF i \in positions THEN <<seq[i]>> ELSE <<>>])

\* Whether truncation, repeated, leaves the first n subtags at some point.
Reaches(tag, n) ==
  LET reached[k \in 1 .. Len(tag)] ==
        \/ k = Len(tag)
        \/ \E l \in k + 1 .. Len(tag) : TruncatedLength(tag, l) = k /\ reached[l]
  IN  reached[n]

\* Everything a lookup truncates tag to, longest first.
Truncations(tag) ==
  ElementsAt([k \in 1 .. Len(tag) - 1 |-> SubSeq(tag, 1, Len(tag) - k)],
             {k \in 1 .. Len(tag) - 1 : Reaches(tag, Len(tag) - k)})

\* tag and its proper prefixes, longest first.
FallbackCandidates(tag) ==
  [k \in 1..Len(tag) |-> SubSeq(tag, 1, Len(tag) - k + 1)]

(***************************************************************************)
(* Likely subtags: the first key CLDR knows, in the order of the code; a   *)
(* component the caller supplied is never replaced.  A tag no key of which *)
(* is known is its own maximization.                                       *)
(***************************************************************************)
\* The unknown script Zzzz and the unknown region ZZ count as absent.
Known(p) == [p EXCEPT !.script = IF @ = "Zzzz" THEN "" ELSE @,
                      !.region = IF @ = "ZZ" THEN "" ELSE @]

LikelyKeys(p) ==
  << Triple(p.language, p.script, p.region), Triple(p.language, "", p.region),
     Triple(p.language, p.script, ""), Triple(p.language, "", ""),
     Triple("und", p.script, ""), Triple("und", "", p.region),
     Triple("und", "", "") >>

KnownKey(p) ==
  SelectInSeq(LikelyKeys(p), LAMBDA key : Join(key) \in DOMAIN LikelySubtags)

MaximizeSubtags(p, found) ==
  Triple(IF p.language # "und" THEN p.language ELSE found.language,
         IF p.script # "" THEN p.script ELSE found.script,
         IF p.region # "" THEN p.region ELSE found.region)

MaximizeBy(tag, p, k) ==
  IF k = 0 THEN tag
  ELSE Join(MaximizeSubtags(p, LikelySubtags[Join(LikelyKeys(p)[k])]))

MaximizeParts(tag, p) == MaximizeBy(tag, p, KnownKey(p))

Maximize(tag) == MaximizeParts(tag, Known(Parts(tag)))

\* zh-Hant-TW has the alias zh-TW: a script before a region is left out.
HasAlias(tag) == Len(tag) >= 3 /\ tag[2] \in Scripts /\ tag[3] \in Regions
Alias(tag)    == <<tag[1]>> \o SubSeq(tag, 3, Len(tag))
===============================================================================
