------------------------------ MODULE CanonicalTags ------------------------------
(***************************************************************************)
(* internal/localeid: what makes a locale identifier canonical. An         *)
(* identifier is a sequence of subtags in their canonical case, but that a *)
(* type of several subtags ("islamic-civil") is one; an extension is a     *)
(* singleton and what follows it. The identifiers of callers are read with *)
(* this (LocaleIdentifiers), and the tags whose likely subtags the matcher *)
(* looks up (LocaleMatching).                                              *)
(***************************************************************************)
EXTENDS LocaleTags

CONSTANTS
  Aliases,         \* CLDR's language aliases [from, to], in the order of from
  ScriptAlias,     \* deprecated script -> script
  TerritoryAlias,  \* deprecated region -> the regions it became
  VariantAlias,    \* deprecated variant -> variant
  TypeAlias,       \* <<key, type>> -> type
  SubdivisionAlias, \* subdivision -> the subdivisions or regions it became
  UnicodeKeys,     \* the keys of -u-
  FieldKeys,       \* the keys of -t-
  Alphabet         \* all subtags that are ever sorted, in alphabetical order

ASSUME AliasShape ==
  /\ \A i \in DOMAIN Aliases : Aliases[i].from # Aliases[i].to
  /\ \A region \in DOMAIN TerritoryAlias : TerritoryAlias[region] # <<>>
  /\ \A place \in DOMAIN SubdivisionAlias : SubdivisionAlias[place] # <<>>
  /\ IsInjective(Alphabet) /\ Singletons \cup UnicodeKeys \cup FieldKeys \subseteq ToSet(Alphabet)

\* What an error comes with: no tag.
Invalid == <<>>

Ordered(subtags) == SelectSeq(Alphabet, LAMBDA s : s \in subtags)

-------------------------------------------------------------------------------
(* Identifiers in parts *)

\* The length of what precedes the first singleton.
BaseLength(tag) ==
  Len(SelectSeq([i \in DOMAIN tag |-> i],
                LAMBDA i : \A j \in 1 .. i : tag[j] \notin Singletons))

BaseName(tag) == SubSeq(tag, 1, BaseLength(tag))
Suffix(tag)   == SubSeq(tag, BaseLength(tag) + 1, Len(tag))

\* Where extensions begin: private use is the last one, whatever it holds.
Starts(tag) ==
  SelectSeq([i \in DOMAIN tag |-> i], LAMBDA i :
    tag[i] \in Singletons /\ \A j \in 1 .. i - 1 : tag[j] # "x")

ExtensionSingletons(tag) == [n \in DOMAIN Starts(tag) |-> tag[Starts(tag)[n]]]

\* The extension of a singleton without it, the first one should it be repeated.
Body(tag, singleton) ==
  LET starts == Starts(tag)
      found  == SelectSeq([n \in DOMAIN starts |-> n], LAMBDA n : tag[starts[n]] = singleton)
      end(n) == IF n = Len(starts) THEN Len(tag) ELSE starts[n + 1] - 1
  IN  IF found = <<>> THEN <<>> ELSE SubSeq(tag, starts[found[1]] + 1, end(found[1]))

VariantSubtags(tag) == SubSeq(tag, Len(Join(Parts(tag))) + 1, BaseLength(tag))

Identifier(p, variants) ==
  [language |-> p.language, script |-> p.script, region |-> p.region, variants |-> variants]

LanguageID(tag) == Identifier(Parts(tag), VariantSubtags(tag))
Text(id)        == Join(id) \o id.variants

-------------------------------------------------------------------------------
(* Canonicalization *)

\* Whether an alias speaks of an identifier: "und" and absent parts of it match
\* any, its variants may be among others.
Concerns(from, id) ==
  /\ from.language \in {"und", id.language}
  /\ from.script \in {"", id.script}
  /\ from.region \in {"", id.region}
  /\ ToSet(from.variants) \subseteq ToSet(id.variants)

Score(from) ==
  16 * Len(from.variants) + (IF from.language # "und" THEN 24 ELSE 0)
    + (IF from.script # "" THEN 20 ELSE 0) + (IF from.region # "" THEN 18 ELSE 0)

FirstHighest(scores) ==
  CHOOSE i \in DOMAIN scores : \A j \in DOMAIN scores :
    scores[j] < scores[i] \/ (scores[j] = scores[i] /\ i <= j)

\* The most specific of some aliases, the first of them in their order.
MostSpecific(aliases) ==
  aliases[FirstHighest([i \in DOMAIN aliases |-> Score(LanguageID(aliases[i].from))])]

Without(variants, removed) == SelectSeq(variants, LAMBDA v : v \notin ToSet(removed))

\* What the alias speaks of is replaced, and an absent part may be filled in.
Replaced(id, from, to) ==
  LET kept == Without(id.variants, from.variants)
  IN  [ language |-> IF from.language # "und" \/ id.language = "und"
                     THEN to.language ELSE id.language,
        script   |-> IF from.script # "" \/ id.script = "" THEN to.script ELSE id.script,
        region   |-> IF from.region # "" \/ id.region = "" THEN to.region ELSE id.region,
        variants |-> kept \o Without(to.variants, kept) ]

\* A region that became several is the likely one of the language and script.
OneOf(regions, likely) == IF likely \in ToSet(regions) THEN likely ELSE regions[1]

CanonicalRegion(id) ==
  IF id.region \notin DOMAIN TerritoryAlias THEN id.region
  ELSE OneOf(TerritoryAlias[id.region],
             Parts(Maximize(Join(Triple(id.language, id.script, "")))).region)

CanonicalSubtag(subtag, alias) == IF subtag \in DOMAIN alias THEN alias[subtag] ELSE subtag

CanonicalVariants(variants) ==
  {CanonicalSubtag(v, VariantAlias) : v \in ToSet(variants)}

SubtagsReplacedUnsorted(id) ==
  [ id EXCEPT !.region = CanonicalRegion(id), !.script = CanonicalSubtag(@, ScriptAlias),
      !.variants = [i \in DOMAIN @ |-> CanonicalSubtag(@[i], VariantAlias)] ]

\* Without an alias of the whole, each subtag has its own; the variants are sorted.
SubtagsReplaced(id) ==
  [ id EXCEPT !.region = CanonicalRegion(id), !.script = CanonicalSubtag(@, ScriptAlias),
      !.variants = Ordered(CanonicalVariants(@)) ]

AliasApplied(id, alias) == Replaced(id, LanguageID(alias.from), LanguageID(alias.to))

\* One round of canonicalLanguageID, with the aliases that speak of id.
RoundWith(id, aliases) ==
  IF aliases = <<>> THEN SubtagsReplaced(id) ELSE AliasApplied(id, MostSpecific(aliases))

Round(id) ==
  RoundWith(id, SelectSeq(Aliases, LAMBDA alias : Concerns(LanguageID(alias.from), id)))

\* Rounds until nothing changes; aliases that lead back are an error.
Settled(round) ==
  LET from[n \in Nat] ==
        IF round[n + 1] = round[n] THEN Text(round[n])
        ELSE IF \E k \in 0 .. n - 1 : round[k] = round[n + 1] THEN Invalid
        ELSE from[n + 1]
  IN  from[0]

CanonicalLanguageID(id) ==
  LET round[n \in Nat] == IF n = 0 THEN id ELSE Round(round[n - 1]) IN Settled(round)

-------------------------------------------------------------------------------
(* Extensions *)

CanonicalTypeAlias(key, type) ==
  IF <<key, type>> \in DOMAIN TypeAlias THEN TypeAlias[<<key, type>>] ELSE type

\* A subdivision that became several is the first; a region is a subdivision
\* that is not known.
CanonicalSubdivision(place) ==
  IF place \notin DOMAIN SubdivisionAlias THEN place
  ELSE LET first == SubdivisionAlias[place][1]
       IN  IF Len(first) = 2 THEN first \o "zzzz" ELSE first

CanonicalType(key, type) ==
  IF key \in {"rg", "sd"} THEN CanonicalSubdivision(CanonicalTypeAlias(key, type))
                          ELSE CanonicalTypeAlias(key, type)

\* The type that follows each of the keys, "" if none does; the first of equal
\* keys counts.
Keyed(subtags, keys) ==
  LET type(i) == IF i < Len(subtags) /\ subtags[i + 1] \notin keys THEN subtags[i + 1] ELSE ""
  IN  [k \in keys \cap ToSet(subtags) |-> type(SelectInSeq(subtags, LAMBDA s : s = k))]

\* In the order of the keys, each with its type unless that is omitted.
KeyedSubtags(types, omitted) ==
  LET keys == Ordered(DOMAIN types)
  IN  FlattenSeq([i \in DOMAIN keys |->
        IF types[keys[i]] \in omitted THEN <<keys[i]>> ELSE <<keys[i], types[keys[i]]>>])

\* What precedes the first of the keys: the attributes of -u-, the language of -t-.
BeforeKeys(subtags, keys) ==
  LET first == SelectInSeq(subtags, LAMBDA s : s \in keys)
  IN  IF first = 0 THEN subtags ELSE SubSeq(subtags, 1, first - 1)

Attributes(subtags) == ToSet(BeforeKeys(subtags, UnicodeKeys))
Keywords(subtags)   == Keyed(subtags, UnicodeKeys)

CanonicalKeywords(keywords) ==
  [k \in DOMAIN keywords |-> CanonicalType(k, keywords[k])]

UnicodeSubtags(attributes, keywords) ==
  Ordered(attributes) \o KeyedSubtags(keywords, {"", "true"})

TransformedLanguage(subtags) == BeforeKeys(subtags, FieldKeys)

CanonicalFields(fields) == [k \in DOMAIN fields |-> CanonicalTypeAlias("t:" \o k, fields[k])]

\* The language of -t- is canonical by itself; its fields are sorted.
CanonicalTransformed(subtags, language) ==
  (IF TransformedLanguage(subtags) = <<>> THEN <<>> ELSE language)
  \o KeyedSubtags(CanonicalFields(Keyed(subtags, FieldKeys)), {})

CanonicalBody(subtags, singleton, language) ==
  CASE singleton = "u" -> UnicodeSubtags(Attributes(subtags), CanonicalKeywords(Keywords(subtags)))
    [] singleton = "t" -> CanonicalTransformed(subtags, language)
    [] OTHER           -> subtags

WellFormedTransformed(subtags) ==
  /\ LET language == TransformedLanguage(subtags)
     IN  language # <<>> => IsInjective(VariantSubtags(language))
  /\ \A i \in DOMAIN subtags :
       subtags[i] \in FieldKeys => i < Len(subtags) /\ subtags[i + 1] \notin FieldKeys

\* Variants and extensions are not repeated, nor is an extension or a field of
\* -t- empty; this is checked before canonicalization merges any.
WellFormed(tag) ==
  /\ IsInjective(VariantSubtags(tag))
  /\ IsInjective(ExtensionSingletons(tag))
  /\ \A s \in ToSet(ExtensionSingletons(tag)) : Body(tag, s) # <<>>
  /\ WellFormedTransformed(Body(tag, "t"))

\* The canonical language of -t-; a text without one has no trouble with it.
TransformedBase(language) ==
  IF language = <<>> THEN <<"und">> ELSE CanonicalLanguageID(LanguageID(language))

\* Private use is the last extension.
OrderedExtensions(singletons) ==
  Ordered(ToSet(singletons) \ {"x"}) \o SelectSeq(singletons, LAMBDA s : s = "x")

CanonicalExtensions(tag, extensions, language) ==
  FlattenSeq([i \in DOMAIN extensions |->
    <<extensions[i]>> \o CanonicalBody(Body(tag, extensions[i]), extensions[i], language)])

WithExtensions(base, tag, language) ==
  IF Invalid \in {base, language} THEN Invalid
  ELSE base \o CanonicalExtensions(tag, OrderedExtensions(ExtensionSingletons(tag)), language)

ParseTag(tag) ==
  IF WellFormed(tag)
  THEN WithExtensions(CanonicalLanguageID(LanguageID(BaseName(tag))), tag,
                      TransformedBase(TransformedLanguage(Body(tag, "t"))))
  ELSE Invalid

\* The tag with its likely subtags: it is parsed first, and so made canonical;
\* one that cannot be is left as it is.
MaximizedFrom(tag, canonical) == IF canonical = Invalid THEN tag ELSE Maximize(canonical)

Maximizer(tag) == MaximizedFrom(tag, ParseTag(tag))
===============================================================================
