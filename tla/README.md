# A verification of go-intl

go-intl implements the ECMA-402 `Intl` services in Go: locale negotiation,
number, duration, plural, list, relative-time, date-time and display-name
formatting, from generated CLDR tables. This directory holds TLA+ models of its
algorithms and of its shared state, TLC configurations that check them on small
instances, and TLAPS proofs: about the state that goroutines share, about locale
negotiation, about number formatting from a string's digits to the groups of the text,
about durations and lists, and about plural rules.

Source paths below are relative to the repository. `PROJECT.json` maps every
definition to the lines it models.

## The system

Every service has the same shape. A constructor validates options, negotiates a
locale against the locales that have data, reads CLDR tables, and returns a
formatter that never changes again; the formatter's methods are functions of the
formatter and their arguments. A formatter may therefore be shared by
goroutines. What *is* mutable is package-level: caches that are filled on
demand, the last match of each compiled locale matcher, and the two defaults
(locale and time zone) that tests may override.

So there are two kinds of difficulty. The shared state is small and must be right
under every interleaving. The algorithms are sequential and must be right for
option combinations and numeric boundaries nobody wrote a test for; several of
them are loops that thread state (what is still to be shown, which option the
next default depends on) through early returns.

### Inventory

| component | state it keeps | operations | what is hard | what makes it correct |
|---|---|---|---|---|
| locale matching (`internal/localematcher`) | indexes of a compiled `Matcher`, built once | `Match`, `FilterLocales`, `ResolveLocale` | aliases derived from several locales, distances summed from rules and positions, keywords against options | a locale with data serves itself; a resolved locale resolves to itself; what a lookup reaches is near enough for best fit |
| shared matcher cache (`compiled.go` 127-141) | `lastMatch`, an atomic pointer | a load and a store inside `Match` | callers search at the same time and publish in any order | the cache never shows in an answer |
| lazily filled caches (`internal/tz/resolve.go`, `datetimeformat/pattern_data.go`) | a `sync.Map` each | load, construct without a lock, `LoadOrStore` | racing constructions, failing constructions | one pointer per key for ever, no remembered failure |
| time zones (`internal/tz`) | `locationCache`, the default provider behind a lock | `Resolve`, `Default`, `OverrideDefaultForTest` and its restore | the host's zone may change between calls; overrides resolve before they lock | equal zones are one `*time.Location`, however they were named |
| decimals and rounding (`internal/decimal`) | none | quantize, rounding modes, comparison | nine modes, signs, ties, shortcuts | the result is the neighbour the mode names |
| digit options (`internal/ecma402/numberformat/options.go`) | none | `SetNumberFormatDigitOptions`, `ResolvedProperties` | ten options whose defaults depend on each other | defaults never contradict the caller; resolved options resolve to themselves |
| number formatting (`digits.go`, `exponent.go`, `numberformat`) | a formatter | `New`, `Format`, `ResolvedOptions` | rounding that carries into another exponent, sign of a rounded zero, groups | what is shown is the rounded value, settled, in order |
| number ranges and style patterns (`numberformat/range.go`, `affix.go`) | none | `FormatRange` | selecting the plural pattern again for both ends, sharing affixes by width and text | taken apart again, a range is its two ends; nothing is shared by half |
| durations (`durationformat`) | a formatter | `New`, `Format`, `ResolvedOptions` | a chain of option defaults over ten units; a layout loop with early returns; fractions summed over units | nothing is lost, one sign, a readable clock |
| plural rules (`pluralrules`, `internal/plural`) | a formatter | `Select`, `SelectRange` | an integer path around formatting, exponents of rounded values, 64-bit arithmetic | the category is that of the number that is written |
| date-time matching (`internal/ecma402/datetimeformat`) | none | `Parse`, `Match`, `MatchBasic`, `AdjustFieldTypes`, `AdjustHourCycle` | penalties summed over eleven components, the first best candidate wins, widths and hour letters rewritten inside the winner | what was asked for is shown, and little else |
| date-time formatting (`datetimeformat`) | a formatter, two caches | `New`, `Format`, `FormatToParts` | several sources of a pattern (styles, components, appended zones, inserted fractions) that must agree on the clock | every hour of a day looks different, on the clock that was asked for |
| date-time ranges and instants (`range.go`, `range_record.go`, `instant.go`) | the range record of a formatter | `FormatRange`, `FormatRangeToParts`, `normalizeInstant` | comparison of the ends field by field until the patterns end, fallbacks that add fields, text and parts written apart, floored seconds before 1970 | ends that differ are told apart; an instant is the whole millisecond next to it |
| lists (`listformat`) | a formatter | `Format`, `FormatToParts` | parts counted beforehand and filled from both ends; alternatives by the next element | every element once, where the nested templates put it |
| relative time (`relativetimeformat`) | a formatter | `New`, `Format`, `FormatToParts` | a value is rounded twice, by the number formatter and by the plural rules, and looked up unrounded as a literal | the noun is that of the number that is written; zeros have a tense |
| display names (`displaynames`) | formatters | `Of` | none beyond lookups | |
| locale identifiers (`locale`, `internal/localeid`) | a canonical tag, attributes and keywords, never changed | `Parse`, `New` with options, `Maximize`, `Minimize` | aliases applied round by round, the most specific first; options replace subtags and keywords of a locale that is canonical already; likely subtags written into a tag that was canonical without them | the canonical and the minimal form are fixed points, whatever order variants and extensions came in; options make what the text would have made that has them written out |
| constructor locale, default locale (`internal/ecma402`) | the default locale behind a lock | canonicalize the requests, resolve, override, restore | requests that are equal after canonicalization; the resolved text is parsed again | a resolved locale is a locale, and resolves to itself |
| numeric input (`internal/ecma402/string_numeric.go`, `decimal.go`) | none | `ParseValue` | exponents too large to compute with, zeros before and after the digits, ties at the extremes | a string is the number it says |
| CLDR data (`internal/cldr`) | tables behind `sync.Once` | decode, look up | none beyond `sync.Once` | |
| options, errors, patterns, numbering, units | none | validation, parsing, tables | | |
| generators and test support (`tools`, `internal/testcontract`) | none at run time | | | |

Interactions: every constructor calls `ResolveLocale` through
`ResolveConstructorLocale` with a matcher of its own; `numberformat` and
`pluralrules` share digit options, rounding and exponents; `durationformat` and
`relativetimeformat` hold number formatters and plural rules; `datetimeformat`
holds a location from `internal/tz` and patterns from the lazily filled caches.

## Modules

| module | models | state and actions |
|---|---|---|
| `LocaleTags` | tags as tuples of subtags: truncation, aliases, likely subtags (`internal/cldr/locale/accessors.go`, `available.go`) | operators |
| `CanonicalTags` | canonicalization of languages, -u- and -t- extensions and their order (`localeid/tag.go`, `unicode.go`), and the maximizer, which makes a tag canonical before it adds likely subtags (`maximize.go`); extends `LocaleTags`, and is extended by the two modules below | operators |
| `LocaleMatching` | the compiled matcher: available locales, exact, fallback and distance search, lookup, best fit | operators over a matcher record |
| `LocaleIdentifiers` | the locales callers make, and their texts | `written`, `locale` (tag, attributes, keywords); `Parse`, `New`, `MaximizeLocale`, `MinimizeLocale` |
| `LocaleNegotiation` | `ResolveLocale` and `FilterLocales` as constructors call them (`CanonicalLocaleList`, `ResolveConstructorLocale`, `SupportedLocalesOf`), of tags or of a locale of `LocaleIdentifiers` | adds `call`, `resolved`, `filtered`; `MakeLocale`, `Resolve`, and `Reresolve`, which feeds a resolved locale back |
| `MatcherService` | abstract: a service that answers each question | `Ask`, `Reply`, `Return` |
| `MatcherCalls` | `Match` on a shared matcher, a step per atomic access | `pc`, `call`, `best`, `answer`, `lastMatch` |
| `InternTable` | abstract: a table whose entries are made once | `Ask`, `Found`, `Intern`, `Fail`, `Return` |
| `LazyCache` | the `sync.Map` idiom | `pc`, `key`, `built`, `result`, `cache`; `LoadHit`, `LoadMiss`, `Build`, `BuildFails`, `LoadOrStore` |
| `TimeZones` | extends `LazyCache` with names, offsets, defaults and overrides; calls that are answered without the cache leave it alone | adds `asked`, `provider`, `saved`; `Resolve`, `Default`, `Override`, `InCache`, `Finish`, `Restore` |
| `Decimals` | exact decimals and their rounding | operators |
| `NumberDigits` | `FormatNumericToString`: both kinds of rounding, the choice between them, padding and trimming | operators |
| `NumberExponents` | exponents of the notations and their carry | operators |
| `DigitOptions` | digit option resolution and what is reported of it | operators |
| `NumberText` | construction of a number formatter and what it makes of a value: digits, exponent, sign, groups | operators |
| `NumericInput` | numeric strings: forms, bases, extremes | operators |
| `NumberFormat` | a number formatter | `asked`, `formatter`, `source`, `input`, `output`; `Construct`, `ConstructAgain` (from its own resolved options), `Format`, `FormatParsed` (of a string) |
| `NumberRange` | affixes of the styles around a number, ranges and what they share | `formatter`, `affixes`, `ends`, `range`; `Construct`, `FormatRange`, `Return` |
| `ListFormat` | templates of lists, their contextual alternatives, and the parts of a list | `listing`; `FormatList` |
| `DurationFormat` | a duration formatter and its list formatter | `request`, `formatter`, `duration`, `result`, `parts`; `New`, `Rebuild`, `Format`, `JoinList` |
| `PluralOperands` | operands, comparisons and remainders in a machine word with a fallback; five generated rules; range rows | operators |
| `PluralRules` | a `PluralRules` | `rules`, `call`, `answer`; `Construct`, `CallSelect`, `CallSelectRange`, `Return` |
| `RelativeTime` | a relative-time formatter over `NumberText` and `PluralRules` | `relative`, `relation`, `phrase`; `ConstructRelative`, `FormatRelative`, `ReturnRelative`, `SelectPlural` |
| `DateSkeletons` | patterns and skeletons as runs of letters; what a candidate says of them | operators |
| `DateMatching` | the two matchers and the adjustment of what they select | operators |
| `DatePatterns` | candidates of a locale; patterns of styles and of components | operators |
| `DateRanges` | compiled patterns, interval patterns and fallbacks; the comparison of the ends | operators |
| `DateTimeParts` | instants, wall clocks, and the parts and text of a program | operators |
| `DateTimeFormat` | a date-time formatter | `asked`, `formatter`, `input`, `output`; `Construct`, `Format`, `FormatRange`, `Return` |
| `SequenceLemmas` | lemmas: induction, recursive functions, what the operators on sequences compute | |
| `MatcherCallsProofs` | proofs about `MatcherCalls` | |
| `TimeZonesProofs` | proofs about `LazyCache` and `TimeZones` | |
| `LocaleNegotiationProofs` | lemmas about tags and the compiled matcher; proofs about `LocaleNegotiation` | |
| `NumberDigitsProofs` | lemmas: decimals and both kinds of rounding, digit options, and `FormatNumericToString` with the exponents around it | |
| `NumberFormatProofs` | lemmas: what a literal says, and that it is read as that; proofs about `NumberFormat` | |
| `DurationFormatProofs` | proofs about `DurationFormat` and `ListFormat` | |
| `PluralRulesProofs` | proofs about `PluralRules` | |
| `*MC`, `LocaleWorld` | values of the constants for TLC | |

Conventions. Text is data where a property is about it: a formatted number is
its digits as an integer, its scale, and the width it is padded to; a tag is a
tuple of subtags; a duration is a function from units to integers. Formatters and
arguments are records with the names of the source. Definitions whose name ends
in what they get wrong (`KeepOwn`, `LoadHitAny`, `PluralExponent`'s
`ExponentOfSource`, ...) are deliberate mutations of the definition after them;
no specification uses one. They exist to show that each property fails when the
code has that bug.

## What the runs check

**`negotiation`** (`LocaleNegotiationMC`, 18573 states). A matcher over seven
locales chosen to collide: a script variant whose alias is another locale's
fallback, a private-use tag below it, a paradigm locale, Norwegian through a
one-way rule, an unknown language. 48 single requests (12 tags, 4 extensions)
and 36 pairs, requests that `CanonicalLocaleList` finds to be one, both algorithms,
options that are supported for one key and not for the other. A caller may make a
locale of its own first: it parses one of 23 identifiers, applies options of the
language or of keywords, maximizes and minimizes in any order and any number of
times, and asks for what it has then; the aliases are the rows of CLDR that concern
these identifiers (several subtags at once, variants merged, a region that became two,
types of keywords, subdivisions). `NormalFormsSettle`: the canonical form does not
depend on the order of variants and extensions, is its own canonical form and is parsed
from its own text; what `New` makes of a text and options is the canonical form of the
text with the options written out; a minimal form is its own and means the same.
`DataLocaleServes`, `KeywordsAgree`, `LookupImpliesBestFit`, `ZeroDistanceIsEquivalence`;
and `ResolvedLocaleRoundTrips`, an action property: resolving a resolved locale again,
which was parsed from the resolved text, changes nothing. No bound limits the length of
a behaviour: the locales that can be made are finitely many.

**`unrecognized`**: a finding. `SPECS/11-locale-matching.md` says
`supportedLocalesOf` ignores languages CLDR does not know; with the default
algorithm `xx` is maximized like `und` to a locale in the United States and is
then near enough to English to be kept.

**`text_round_trip`** (the same instance): a finding. `SPECS/10-locale.md` says that a
locale is equal to the one its text is parsed to. `Maximize` and `Minimize` write
likely subtags without canonicalizing the identifier they complete: `sgn` maximizes
to `sgn-Latn-US`, which parses to `ase-Latn`.

**`matcher_calls`** (`MatcherCallsMC`, 4480 states). Two goroutines on one
matcher, with two requests that evict each other from `lastMatch`, one that
needs no search, one beyond the threshold, one too long to be retained, one list
of two, and lookups. `CacheCoherent`: what is cached is the match of the very
request it is stored under. `AnswersCorrect`: every answer is that of the
algorithm without a cache. `ImplementsService`: with fairness, a shared matcher
is a `MatcherService`. Two goroutines are enough to interleave any load with any
store; more only repeat the argument, which is proved for any number.

**`time_zones`** (`TimeZonesMC`, 175292 states). Two goroutines resolve zones, links
and offsets - one that fails now and then, one whose pointer is a constant, spellings
of zero - ask for the default while the host's zone changes, and install an override.
Of the cache: `OnePointer`, `ImplementsTable` (it is a table written once), and
`EveryCallReturns` under fairness. Of the zones: `SameZoneSamePointer`, whether a name
was asked for, is the default or was installed by an override. Two goroutines race for
any step of any other; that more add nothing is proved. Overrides are restored last-in
first-out, as the tests do through `t.Cleanup`; another order is outside the model.

**`number_formatting`** (`NumberFormatMC`, 81120 states). All nine rounding modes
with fixed, significant, mixed and incremented digits; every notation, sign
display and grouping; integers, values with a fraction and 35 strings, at ties,
carries, trailing zeros and both zeros. `CorrectlyRounded` restates rounding from its
definition (neighbours of the exact value at the place of the last digit), not from the
code's quotient and remainder. `TextShowsRounded` (the text, its sign included, is that
of the rounded value, with no zero that nothing asks for), `RoundingSettles`,
`GroupsCoverDigits`, and `OrderPreserved` over consecutive calls of one formatter,
whether their values were numbers or strings.
`NumeralsExact`: a string is read as the number its digits say, or as the infinity or
the zero a Number would be; it is refused only for an exponent that cannot be stored,
whatever zeros its digits end in. The extremes are scaled down to 4088 and 0.002 and the
least exponent that can be stored to -3, so that literals lie at, beside and far beyond
each of them (exponents of 999999999 included); what relates them to the
magnitudes the code tests first is an ASSUME.
Every combination of omitted, boundary and out-of-range digit options is
constructed too: `CallerIsObeyed` (bounds the caller gave are kept, and a construction
fails only for what is in a list of the contradictions a caller can write, so that a
rejection for any other reason is a defect), `ResolvedOptionsRoundTrip`.

**`number_ranges`** (`NumberRangeMC`, 42161 states). Every ordered pair of thirteen
values - zeros, negative values, equal texts, infinities, NaN - in decimal, percent,
currency, currency-name and unit patterns: prefixes, suffixes, both, parentheses
around negative amounts, bidi marks, in a locale whose range category is that of the
end and one (Danish) where it is not. `TakenApart`: with what is shared put back on
each end, the ends are the two numbers as they would be written alone in that
pattern. `WrappersPaired`: no end keeps half of a pair of parentheses. `SignsSetOff`:
the range sign is apart from a sign that is not shared.

**`unnumbered_range`** (19285 states): a finding. `SPECS/20-numberformat.md` says the
ends keep their numbers; a Danish unit whose singular is a bare phrase shows "mil
pr. gallon" and no number for a range from 0 to 1.

**`duration_format`** (`DurationFormatMC`, 51484 states). Options for any two of
six units, and chains of styles over five, each with 14 durations: zeros, negative
ones, gaps, overflowing subseconds, mixed signs, and values at the limits.
`NothingLost` is an equation between the duration and what the numbers in the
result add up to. `SignShownOnce`, `ClockIsContiguous`; `RefusedForABrokenClock`
characterizes the rejected options without the chain of defaults the code walks;
`RebuildKeepsFormatter`. The scale of the subsecond units is a constant, ten here
and a thousand in the code, and enters only as a unit's size and its digits.
A list formatter is used by itself as well, with six locales' templates (Spanish
conjunctions and disjunctions, Hebrew, one whose last template has a suffix, one
without literals), two sets of templates some of which have the rest of the list before
the element (as in `template_test.go`; no locale has one) and lists of up to five
elements, empty ones and ones that the contexts tell apart: `ListsNested` compares parts that are counted beforehand and
filled from both ends with ECMA-402's nested templates, and finds every element after
exactly those that the templates put before it.

**`plural_rules`** (`PluralRulesMC`, 44665 states). Three locales' cardinal rules and one
ordinal, four notations, six digit bags; integers of both kinds and decimals,
alone and in every pair. `IntegerPathAgrees`: skipping the formatting never
changes an answer. `EqualTextsSelectAlike`: values written the same select the
same category, the README's promise for compact notation. Where the mode rounds the two signs differently (`ceil`), endpoints of
opposite sign that are written alike are left out in scientific and engineering
notation: each has its own exponent, and the promise is made for compact notation
only. `OperandsExact`: the
word arithmetic, with a word of 20 bits that six fraction digits overflow as
twenty overflow 64, agrees with unbounded integers. Relative times over a default
number formatter and these rules: 36 signed offsets, among them values that round up
to a whole number, values that round to zero, and both zeros. `PhrasesTold`: two
offsets have the same phrase exactly when they are written the same in the same tense,
or are the same literal. The shipped tables have every style of every unit; the
instance leaves some out to exercise the fallback to the long one.

**`date_times`** (`DateTimeMC`, 105832 states). English and French with all their CLDR
patterns and interval patterns (without the week and quarter rows, `yQQQ` excepted,
which the matcher reads like any other), 4292 bags of options: the product of date
components, of time components with four hour cycles, of both together with
contradicting `hour12`, and of styles; both matchers. Each formatter formats nine
instants (the bounds of Date and their neighbours, a nanosecond before 1970, year 0,
an hour New York shows twice) and fifteen ranges that differ in one field, in many,
in none that is shown, or backwards. `FieldsShown`: what was asked for is shown, and
no candidate of the clock would have shown less besides. `ClockShown`: in the pattern
and in every program of a range the hour has the letter of the resolved cycle, and the
24 hours of a day give 24 texts. `RangeTold`: the ends are told apart, what is
shown once is the same from either end, and text and parts agree.
`InstantTruncated`: truncation and bounds.

**`week_skeletons`** (2848 states up to the violation): a finding. With the rows left
out above, English has candidates such as `MMMMW-count-one`, whose suffix reads as
letters of components; asking for a weekday and a month with the basic matcher
selects "'week' W 'of' MMMM".

Two things met on the way that no document of the repository contradicts, and no
run checks: Persian keeps a pattern of a 24-hour skeleton with a zone ("HHmmZ"),
which best fit takes for hour, minute and zone on a 12-hour clock and rewrites to
"K:mm (Z)", with no half of the day (`patterns.go` 305-307 selects again only with
the basic matcher); and asking for `timeZoneName` alone shows an hour as well.

Bounds. No module caps a counter except `TimeZones` (`MaxOverrides`). Powers of ten
have no bound (a value beyond TLC's integers would stop a run, so none hides one). The
other bounds are the sets of inputs above.
`NumberFormat`, `DurationFormat` and `DateTimeFormat` switch TLC's deadlock check off:
a rejected construction is the end of a behaviour there. A formatter never changes,
so that one call after another adds nothing but what `OrderPreserved` compares.

Fairness. `MatcherCalls` and `TimeZones` assume weak fairness of each goroutine's
own steps once it is inside `Match` or the cache: a Go goroutine that can run is eventually
scheduled, and none of these steps waits for another goroutine (loads, stores and
`LoadOrStore` of `sync/atomic` and `sync.Map`, and constructions without locks
that terminate). Making calls is not fair: nobody has to call. The other modules
have only safety properties.

## What is proved

TLC checks the properties above on small instances; the theorems hold for every
value of the constants: any number of goroutines, keys and calls, any locales with data
and any matching rules, any options, any decimal of any size, any literal, any rounding
increment and mode, any group sizes, any compact patterns, any duration, any list and
any templates. They assume what the modules ASSUME, which every run evaluates, and
nothing else:

- pointers differ from nil; the arguments of a call to a matcher have the right shape;
  the registry maps a primary zone identifier to itself and holds UTC;
- callers pass options and values of their types (`Callers`, `FormatConstants`,
  `PluralCallers`), and an omitted option is no value (`UnsetIsNoValue`);
- the magnitudes the code tests before it computes with an exponent lie beyond the
  extremes they stand for (`Extremes`);
- compact patterns exist for magnitudes 3 to 14, have an exponent that is at most their
  magnitude and does not fall when the magnitude grows (`CompactConstants`). This is a
  fact about data; it was compared with the decoded patterns of every locale, both
  lengths, and holds in all of them;
- the machine word holds the literals and moduli of the rules (`WordHoldsLiterals`);
- a subtag is of one class, and likely subtags have a script and a region that are known
  and have a row for `und`, as the table of `maximize.go` has (`SubtagClasses`,
  `LikelyShape`);
- matching rules have distances above zero (`RuleShape`), one of them, the last, matches
  any scripts and regions (`*-*-*`), and a script rule, a region rule and the penalty of a
  derived locale stay below the threshold together (`RuleReach`). The rules of the
  repository have at most 50 for a script and 5 for a region: ten times their sum, and 80,
  is 630, below 838;
- requests are sequences of tags, each of which is read as one of the language it names
  (`KeepsLanguage`: a request has been parsed, so that its aliases are resolved), no
  locale with data is `und`, and each has values for the keys (`RequestShape`, `DataShape`,
  `DefaultIsAvailable`); tags with data, the tags the matcher derives from them and
  supported values are canonical already (`DataShape`, `DataIsCanonical`: parsing them
  gives them back, which is how CLDR's generated tables are written);
- callers of `durationformat` pass options of their types and durations whose values are
  integers or refused (`Options`); each subsecond unit is a multiple of the next and has
  a power of ten of nanoseconds, up to nine digits (`Scales`); list templates have two
  placeholders, in either order, which the generator of the tables checks (`Templates`).

### Shared state

- `TimeZonesProofs`, of the cache. `OnePointer` is not inductive: that a finished call holds the
  cached pointer relies on the pointer's having been made for that key, and on a
  goroutine's holding a built pointer only while it publishes it. The invariant
  `IInv` adds these (`PointersFit`). `TypeCorrect`, `OnePointerPerKey` and the action
  property `Stability` (a published value is never replaced) follow;
  `Refinement` shows that every step is one of `InternTable` or invisible: a
  `LoadOrStore` is an `Intern` for the winner and a `Found` for the others.
- `TimeZonesProofs`, of the zones. `ZonesUseCache`: every step of a resolution, a default or an
  override is a step of the cache or leaves it alone, because what is passed on is
  the canonical name of something that has one (`KeysAreCanonical`). So everything
  proved of the cache holds here (`ZonesKeepCache`). `SamePointer` needs the invariant
  `ZInv`: that of the cache, that each call is at the key its name has (`CallsFit`;
  the one pointer given out without the cache is `time.UTC`, the constant
  of its key), and that providers are locations of the cache (`ProvidersFit`). Names of
  one meaning have one key (`CanonicalByMeaning`): of two offsets with equal minutes the
  hours, minutes and, but for zero, the signs are equal.
- `MatcherCallsProofs`. `CacheCoherent` needs that a goroutine which searches has a
  request that may be cached, and that what it is about to store is the result of
  that request (`CachePath`, `ResultIsOwn`); `AnswersCorrect` needs in addition that
  an exact match is what a search would find (`ExactIsBest`), since `Match` skips
  the search for it. `TypeCorrect`, `CacheCoherence`, `Correctness`, and
  `Refinement`, to the safety part of `MatcherService`.

### Locale negotiation

`LocaleNegotiationProofs`. The invariant `Resolved` says that the last result is what
`ResolveConstructorLocale` gives for the last call; it makes each property a lemma about
operators. The lemmas say what a compiled matcher is: its locales are sequences of
subtags without `und` (`AvailableShapes`), a locale with data is available and its data
is its own (`MatcherFacts`), and each search answers with the index of a locale
(`MatchFinds`, `ExactMatch`).

- `RoundTrips` (`ResolvedLocaleRoundTrips`): a resolved locale is one with data and
  keywords its data supports, so its text is parsed to itself; it matches exactly, before
  any search, and each keyword is found again (`ResolvesAgain`, `KeyOfMatch`).
- `DataIsServed`, `KeywordsAreUsed` (`DataLocaleServes`, `KeywordsAgree`).
- `ZeroDistanceMeansEquivalent` (`ZeroDistanceIsEquivalence`): distances are sums of parts
  that are not negative, and a rule's part is zero only between equal subtags
  (`ComponentDistances`, `SameParts`).
- `LookupsAreBestFits` (`LookupImpliesBestFit`): truncation keeps the language
  (`TruncationShape`), so what a lookup reaches is of the request's language, and
  a pair of one language is near enough by `RuleReach` (`OneLanguageIsNear`); the
  search by distance finds it or something nearer (`NearestFinds`). The matcher
  makes a tag canonical before it looks up likely subtags (`Maximizer`), so this needs
  that it stays one of its language. Of a locale that a caller made the theorem says this
  as long as its tag is a sequence of subtags and keeps its language (`KeepsLanguage`; a
  maximized `sgn-Latn-US` does not: it is read as `ase`):
  canonicalization applies aliases until nothing changes, a recursion without a bound, of
  which only TLC shows that it ends in a tag (`LocaleHasTag`, a part of
  `NormalFormsSettle`).

### Numbers

`NumberDigitsProofs` and the first part of `NumberFormatProofs` hold what the operators
compute; the rest of `NumberFormatProofs` makes theorems of the specification of it. Each
property of `NumberFormat` that a run checks is a theorem.

- *Induction.* Recursion over numbers is a recursive function, and a fact about it for
  all numbers is a fact about the set of numbers that have it (`Induction`,
  `StrongInduction`, both from the well-foundedness of the natural numbers). That
  `PowerOfTen`, `DigitsOf` and the sum of a literal's digits exist, which their CHOOSE
  leaves open, is proved by giving a function that satisfies the recursion.
- *Comparison.* Two decimals are compared as multiples of any power of ten that
  is fine enough for both (`SignedUnits`); everything about order, distance and rounding
  is a statement about integers in such units, and changing the unit multiplies both
  sides.
- *The inductive invariant* is `Consistent`, a conjunction of two parts.
  `MadeOfOptions`: a formatter is what `New` makes of options a caller can give, or of
  what a formatter resolved to; without it nothing is known of the digit bounds, and
  every lemma needs them in range and in order (`ResolvedIsTyped`: what is not rejected is
  consistent). `InputFormatted`: the output is that of the input in this formatter, and
  the input what its source is read as; without it the last value and the last
  text are unrelated. It is what makes each property a lemma about operators.
- `RoundTrip` (`ResolvedOptionsRoundTrip`: an option that a
  rounding type does not report has the value the default gives back), `AlwaysObeyed`
  (`CallerIsObeyed`: the construction fails only for a listed contradiction, by following
  the order in which defaults move to the side of the bound that was given).
- `AlwaysReadExactly` (`NumeralsExact`): zeros trimmed from both ends of the digits
  shift the exponent and nothing else (`CoefficientTrimmed`), and the magnitude that the
  code tests before it builds a decimal is that of the value (`SameMagnitude`,
  `BeyondNumbers`), so that its shortcuts answer as the comparison would.
- `AlwaysCorrectlyRounded` (`CorrectlyRounded`): quotient and remainder give the two
  neighbours, the mode for magnitudes chooses the one that the mode for the signed
  value names (`SignedRounds`), and the code's comparison of rounding places finds the
  candidate that is nearer (`CandidatesOrdered`).
- `AlwaysShowsRounded` (`TextShowsRounded`), `AlwaysGrouped` (`GroupsCoverDigits`).
- `AlwaysInOrder` (`OrderPreserved`): where the place of the last digit depends on the
  value, the larger value has the coarser place but reaches it, so the smaller one cannot
  pass it (`PlaceGrows`, `ResultKeepsOrder`); equal values are written alike however
  many zeros they come with (`ResultAlike`), and writing a value as it is, without
  rounding, is what rounding gives (`ShortcutIsGeneral`).
- `AlwaysSettled` (`RoundingSettles`): what is shown has no digits to lose, and of two
  kinds of digits the same one is chosen again (`FixedKeepsKind`). A carry leads to
  a power of ten, whose exponent is that of the next magnitude, where a second carry is
  not possible (`PowerReached`, `ExponentSettles`).

### Plural rules

`PluralRulesProofs`. The invariant `Answers` says that a call that has not returned has
the answer that `Select` or `SelectRange` gives, with rules made of a caller's options.

- `AlwaysExactOperands` (`OperandsExact`): a bound that does not fit the word is larger
  than any operand that does (`WordCompares`, `WordRemains`), whatever the word's size;
  integer and fraction digits put together are the number (`OperandsCohere`).
- `AlwaysIntegerPath` (`IntegerPathAgrees`): with the options for which the code skips
  the formatting, an integer is written as its digits and nothing else (`IntegerText`).
- `AlwaysSelectsAlike` (`EqualTextsSelectAlike`): compact notation reads the exponent
  off the text; in the others values that are written alike are rounded to one magnitude
  and have one exponent (`WrittenExponent`), of opposite sign too when the mode does not
  look at the sign (`MirroredExponent`).

### Durations and lists

`DurationFormatProofs`. Each property of `DurationFormat` and `ListFormat` that a run
checks is a theorem.

- `Construction` is the first invariant: a formatter is what `Construct` makes of the
  request. From it, and from what the chain of defaults does at each unit
  (`ResolvingStep`): `Rebuilding` (`RebuildKeepsFormatter`: a resolved style, given
  explicitly, changes no later default) and `Refusals` (`RefusedForABrokenClock`: a
  refusal at a unit is a style that cannot follow the style before it, and styles that
  were chosen are all that the chain can pass on, `RefusedUnit`, `RefusedRequest`).
- `Nestings` (`ListsNested`). The code counts the parts first and fills them from
  both ends; the nested templates are built from the last element outwards. What is left to
  fill after k elements is the template of the rest (`FillAgrees`), whatever text the
  templates have around their placeholders, and the alternatives of a context are the
  same on both sides (`PartsNested`). A template has its own element before or after all
  that is nested in it (`AroundShows`), so that the elements before one are known from
  the templates of the others (`ShownElements`).
- The other three need the second invariant, `LaidOut`: a result is what the layout makes
  of the duration in this formatter, and the parts are those of its groups (`LayoutInvariant`).
  A loop over ten units with early returns is described by what holds where it stops: units
  in words up to some unit, then a clock, a fraction or nothing (`PartitionShape`,
  `LayoutOf`). A constructor's formatter has words, then a clock, then fractions, in
  this order (`StylesFollow`).
- `Signs` (`SignShownOnce`): only the first number can take the sign, and a number that
  is passed over is zero (`NonzeroShows`). `Clocks` (`ClockIsContiguous`).
- `Losses` (`NothingLost`): in nanoseconds, the units in words, the clock and the fraction
  add up to the duration (`WordsCountable`, `ClockAccounts`, `FractionAccounts`), and the
  digits that are cut off are worth less than one of the last that is shown
  (`CutsBelow`), for any scale of the subsecond units.

### What proofs said of the model

Attempts that failed changed the model where it was wrong:

- `LookupImpliesBestFit` rests on numbers in the data: with a script rule of 75 a locale
  could be reached by truncation and be too far for best fit. `RuleReach` says what the
  numbers must be, and the run of the negotiation evaluates it.
- The clause of `NumeralsExact` for refusals was false: digits that end in zeros store a
  smaller exponent than they are written with (`1.23450`). And a refused value can be
  beyond the extremes, where a Number is infinite or zero: the code refuses an exponent
  that cannot be stored before it compares (`-4088.0001`, `15e-4` in the instance).
  Literals of both kinds are in the run now.
- `EqualTextsSelectAlike` was false of scientific and engineering notation: 999999.6 and
  -999999.6 are written alike but for the sign, and `ceil` carries the mantissa of the
  first to the next exponent and not that of the second. It is stated for endpoints
  that one mode rounds alike (`RoundedAlike`); both values and the mode are in the run.
- `RoundingSettles` and `AlwaysInOrder` need that a larger magnitude never has a smaller
  compact exponent, which is now stated, and was looked up in the data.

### Only model-checked

Liveness (`EveryCallReturns`, and that of `ImplementsService`), which is out of the
prover's reach. `NormalFormsSettle`, because canonicalization applies aliases until
nothing changes: that this ends depends on the rows of the aliases, and so does what it
ends in. The properties of number ranges (`TakenApart`, `WrappersPaired`, `SignsSetOff`)
and of dates (`FieldsShown`, `ClockShown`, `RangeTold`, `InstantTruncated`), and
`PhrasesTold` of relative times: all but `InstantTruncated` are about patterns, and are
false of patterns that could be written but that no locale has, so that what would have to
be assumed of the tables is most of what they say.

## What is not modelled

About 95 of the repository's 134 thousand lines of implementation are generated CLDR
tables. They enter as constants with representative rows (all rows of the patterns
of English and French for dates), never as definitions, so no share of them is
mapped, and the map cannot cover a large part of the lines.

In `CanonicalTags` and `LocaleIdentifiers` the checks of single characters are left out, and the getters
for information about a locale (its hour cycles, calendars, week); a type of several
subtags counts as one. The default locale is a constant of `LocaleNegotiation`: only
tests override it.

Character-level parsing and rendering (tags, patterns, literals, symbols,
digits of a numbering system), because no property here is about them. Decoding
of CLDR data: `sync.Once` around generated tables. Display names, option validation
helpers and public entry points forward or look up. Test support and generators
are not part of the library.

The construction of a formatter negotiates its locale first; the formatter
modules start after that step, and `LocaleNegotiation` models the step itself.
`PluralRules` leaves out all but five of the generated rules, which between them use
every operand. In `DateTimeFormat` a name is known only by its list, width and
index; the checks of a single option's value and `resolvedOptions()` are left out.

## Plan

Done, in this order: matching and its shared cache; lazy caches and time zones;
digits, options, exponents and number formatting; durations; plural rules; number
ranges; date-time matching, formatting and ranges; lists; relative times; locale
identifiers with their extensions, and constructor locales; numeric strings; proofs of
the caches and of time zones; proofs of decimals, numeric strings, number formatting and
plural rules; proofs of locale negotiation, durations and lists.

Left: a proof of `InstantTruncated`; conditions on pattern tables that are weak enough to
be worth assuming, from which the properties of number ranges, relative times and dates
could be proved.
