---------------------------- MODULE LocaleMatching ----------------------------
(***************************************************************************)
(* The pure part of internal/localematcher: the available locales derived  *)
(* from the locales that have data, the lookup and the best-fit matcher,   *)
(* and the negotiation of Unicode extension keys (ResolveLocale).  A       *)
(* matcher is the sequence of its available locales; everything else a     *)
(* compiled Matcher holds is an index into that sequence.                  *)
(***************************************************************************)
EXTENDS CanonicalTags

CONSTANTS
  Rules,            \* language matching rules, in the order they are tried
  ParadigmLocales,  \* tags CLDR calls paradigms of their language
  Threshold         \* a best fit this far away is no match

ASSUME RuleShape ==
  /\ Threshold \in Nat /\ Rules \in Seq(ToSet(Rules))
  /\ \A i \in DOMAIN Rules : Rules[i].distance \in Nat \ {0} /\ Rules[i].oneWay \in BOOLEAN

DerivedPenalty == 80
OrderPenalty   == 40
NoRuleDistance == 100000000   \* math.MaxInt / 4: beyond every threshold

\* A pair of tags of one language has a rule, and its script and its region
\* together keep it below the threshold, a derived locale included.
AnyOf(pattern) == pattern.language = "*" /\ pattern.script = "*" /\ Regions \subseteq pattern.regions

\* Rules that compare scripts, and rules that compare regions.
ScriptRules == {i \in DOMAIN Rules : Rules[i].desired.script # ""}
RegionRules == {i \in DOMAIN Rules : Rules[i].desired.regions # {}}

ASSUME RuleReach ==
  /\ \E i \in ScriptRules \cap RegionRules : AnyOf(Rules[i].desired) /\ AnyOf(Rules[i].supported)
  /\ \A i \in DOMAIN Rules : /\ Rules[i].supported.script = "" <=> i \notin ScriptRules
                             /\ Rules[i].supported.regions = {} <=> i \notin RegionRules
  /\ \A i \in ScriptRules, j \in RegionRules :
       10 * Rules[i].distance + 10 * Rules[j].distance + DerivedPenalty < Threshold

-------------------------------------------------------------------------------
(* Available locales *)

AvailableLocale(tag, data, derived) ==
  [locale |-> tag, dataLocale |-> data, derived |-> derived]

AvailableFromUnguarded(tag, backed) ==
  LET derived == (IF HasAlias(tag) THEN <<Alias(tag)>> \o Truncations(Alias(tag)) ELSE <<>>)
                 \o Truncations(tag)
  IN  <<AvailableLocale(tag, tag, FALSE)>>
      \o [i \in DOMAIN derived |-> AvailableLocale(derived[i], tag, TRUE)]

\* The aliases of the maximization of a tag and of itself, and what these truncate to.
DerivedTags(tag, max) ==
  LET alias(t)     == IF HasAlias(t) THEN <<Alias(t)>> ELSE <<>>
      fallbacks(t) == IF HasAlias(t) THEN Truncations(Alias(t)) ELSE <<>>
  IN  alias(max) \o alias(tag) \o fallbacks(tag) \o Truncations(tag)

Unbacked(tags, backed) == ElementsAt(tags, {i \in DOMAIN tags : tags[i] \notin backed})

DerivedLocales(tags, data) ==
  [i \in DOMAIN tags |-> AvailableLocale(tags[i], data, TRUE)]

\* What one supported locale makes available: itself, and the tags derived from it
\* that have no data of their own.
AvailableFrom(tag, backed) ==
  <<AvailableLocale(tag, tag, FALSE)>>
    \o DerivedLocales(Unbacked(DerivedTags(tag, Maximizer(tag)), backed), tag)

\* The first occurrence of a tag wins.
FirstOccurrences(all) ==
  ElementsAt(all, {n \in DOMAIN all : \A k \in 1 .. n - 1 : all[k].locale # all[n].locale})

AvailableLocalesFor(supported) ==
  FirstOccurrences(FlattenSeq(
    [i \in DOMAIN supported |-> AvailableFrom(supported[i], ToSet(supported))]))

\* The compiled Matcher: the available locales and what is indexed by them.
CompiledMatcher(available) ==
  LET exact == {available[j].locale : j \in DOMAIN available}
      at(tag) == CHOOSE j \in DOMAIN available : available[j].locale = tag
      paradigms == ParadigmLocales \cup {Maximizer(t) : t \in ParadigmLocales}
  IN  [available |-> available,
       paradigms |-> paradigms,
       exact     |-> exact,
       maximized |-> [tag \in exact |-> Maximizer(tag)],
       data      |-> [tag \in exact |-> available[at(tag)].dataLocale]]

NewMatcher(supported) == CompiledMatcher(AvailableLocalesFor(supported))

\* Application resources: no aliases, no fallbacks.
NewExactMatcher(resources) ==
  CompiledMatcher([i \in DOMAIN resources |->
                     AvailableLocale(resources[i], resources[i], FALSE)])

\* matcher.maximize asks the index first, which holds the same value.
Maximized(m, tag)  == IF tag \in m.exact THEN m.maximized[tag] ELSE Maximizer(tag)
DataLocale(m, tag) == IF tag \in m.exact THEN m.data[tag] ELSE tag

-------------------------------------------------------------------------------
(* Lookup *)

NoTag == <<>>

Longest(tags) ==
  IF tags = {} THEN NoTag ELSE CHOOSE t \in tags : \A u \in tags : Len(u) <= Len(t)

\* Truncations come longest first.
BestAvailableLocale(m, tag) ==
  Longest({t \in {tag} \cup ToSet(Truncations(tag)) : t \in m.exact})

-------------------------------------------------------------------------------
(* CLDR language distance; paradigms are those of the compiled matcher *)

\* A rule pattern: a language, a script ("*" is any, "" none) and the set of
\* regions its third component, a region variable included, admits.
Matches(l, p) ==
  /\ l.language # "" => p.language \in {"*", l.language}
  /\ l.script # ""   => p.script \in {"*", l.script}
  /\ l.region # ""   => l.region \in p.regions

Applies(rule, desired, supported) ==
  \/ Matches(desired, rule.desired) /\ Matches(supported, rule.supported)
  \/ /\ ~rule.oneWay
     /\ Matches(desired, rule.supported) /\ Matches(supported, rule.desired)

RuleDistance(n, sameParadigm) ==
  IF n = 0 THEN NoRuleDistance
  ELSE 10 * Rules[n].distance - (IF sameParadigm THEN 0 ELSE 1)

\* By the first rule that applies.
ComponentDistance(paradigms, desired, supported) ==
  RuleDistance(SelectInSeq(Rules, LAMBDA r : Applies(r, desired, supported)),
               Join(desired) \in paradigms <=> Join(supported) \in paradigms)

PartsDistanceOfAll(paradigms, d, s) ==
  ComponentDistance(paradigms, Triple(d.language, "", ""), Triple(s.language, "", ""))
  + ComponentDistance(paradigms, Triple(d.language, d.script, ""),
                      Triple(s.language, s.script, ""))
  + ComponentDistance(paradigms, d, s)

\* Of two maximized tags, compared component by component.
PartsDistance(paradigms, d, s) ==
  LET language == ComponentDistance(paradigms, Triple(d.language, "", ""),
                                    Triple(s.language, "", ""))
      script   == ComponentDistance(paradigms, Triple(d.language, d.script, ""),
                                    Triple(s.language, s.script, ""))
  IN  (IF d.language = s.language THEN 0 ELSE language)
      + (IF d.script = s.script THEN 0 ELSE script)
      + (IF d.region = s.region THEN 0 ELSE ComponentDistance(paradigms, d, s))

Distance(paradigms, maxDesired, maxSupported) ==
  PartsDistance(paradigms, Parts(maxDesired), Parts(maxSupported))

-------------------------------------------------------------------------------
(* Best fit *)

\* bestMatchResult; index counts requests from 0.
BestMatch(i, tag, d) == [index |-> i, supported |-> tag, distance |-> d]
NoMatch == BestMatch(0, NoTag, 0)

\* Tier 2: the longest available locale the maximized request falls back to.  It
\* is at distance 0 if it is the maximized request or maximizes to the same tag;
\* its distance matters for nothing else.
Fallback(m, tag, max) ==
  IF max = tag THEN NoTag
  ELSE Longest({c \in ToSet(FallbackCandidates(max)) : c # tag /\ c \in m.exact})

EquivalentOfAny(m, max, fallback) == fallback

Equivalent(m, max, fallback) ==
  IF fallback # NoTag /\ max \in {fallback, m.maximized[fallback]} THEN fallback ELSE NoTag

EquivalentTo(m, tag, max) == Equivalent(m, max, Fallback(m, tag, max))

\* Tier 3: every request against every available locale; the earliest
\* request, and for it the earliest available locale, wins a tie.
Candidates(m, max, i) ==
  LET away(a) == Distance(m.paradigms, max, m.maximized[a.locale]) + OrderPenalty * i
                 + (IF a.derived THEN DerivedPenalty ELSE 0)
  IN  {[index |-> i, at |-> j, distance |-> away(m.available[j])] :
         j \in DOMAIN m.available}

Before(c, d) ==
  \/ c.distance < d.distance
  \/ c.distance = d.distance /\ c.index < d.index
  \/ c.distance = d.distance /\ c.index = d.index /\ c.at <= d.at

NearestOf(m, candidates) ==
  IF \A c \in candidates : c.distance >= Threshold THEN NoMatch
  ELSE LET top == CHOOSE c \in candidates : \A d \in candidates : Before(c, d)
       IN  BestMatch(top.index, m.available[top.at].locale, top.distance)

Nearest(m, requested) ==
  NearestOf(m, UNION {Candidates(m, Maximized(m, requested[i]), i - 1) :
                        i \in DOMAIN requested})

\* The first two tiers end the search only at distance 0, and only the first
\* request can be at distance 0: later requests pay for their position.
SearchFor(m, requested, equivalent) ==
  IF equivalent # NoTag THEN BestMatch(0, equivalent, 0) ELSE Nearest(m, requested)

FindBestMatch(m, requested) ==
  IF requested = <<>> THEN NoMatch
  ELSE IF requested[1] \in m.exact THEN BestMatch(0, requested[1], 0)
  ELSE SearchFor(m, requested,
                 EquivalentTo(m, requested[1], Maximized(m, requested[1])))

-------------------------------------------------------------------------------
(* Match *)

Algorithms == {"lookup", "best fit"}

\* A requested locale: its tag and its Unicode extension, a function from the
\* keys it sets to their values.
Request(tag, ext) == [tag |-> tag, ext |-> ext]
NoExtension == [k \in {} |-> ""]

Tags(requests) == [i \in DOMAIN requests |-> requests[i].tag]

MatchResult(m, tag, ext, d) ==
  [locale |-> tag, dataLocale |-> DataLocale(m, tag), extension |-> ext, distance |-> d]

DefaultResult(m, default) == MatchResult(m, default, NoExtension, 0)

LookupResult(m, requests, default, n) ==
  IF n = 0 THEN DefaultResult(m, default)
  ELSE MatchResult(m, BestAvailableLocale(m, requests[n].tag), requests[n].ext, 0)

\* The first request that has an available locale.
LookupMatch(m, requests, default) ==
  LookupResult(m, requests, default,
               SelectInSeq(requests, LAMBDA r : BestAvailableLocale(m, r.tag) # NoTag))

\* found is what findBestMatch answers for the tags of the requests.  An
\* available locale has no extension of its own, so the extension is that of
\* the request that matched.
BestFitResult(m, requests, default, found) ==
  IF found.supported = NoTag THEN DefaultResult(m, default)
  ELSE MatchResult(m, found.supported, requests[found.index + 1].ext, found.distance)

BestFit(m, requests, default) ==
  BestFitResult(m, requests, default, FindBestMatch(m, Tags(requests)))

Match(m, requests, default, algorithm) ==
  IF algorithm = "lookup" THEN LookupMatch(m, requests, default)
                          ELSE BestFit(m, requests, default)

\* supportedLocalesOf: each locale on its own, with no default to fall back to.
FilterLocales(m, requests, algorithm) ==
  SelectSeq(requests, LAMBDA r : Match(m, <<r>>, NoTag, algorithm).locale # NoTag)
===============================================================================
