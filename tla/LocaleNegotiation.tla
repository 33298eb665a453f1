--------------------------- MODULE LocaleNegotiation ---------------------------
(***************************************************************************)
(* ResolveConstructorLocale and SupportedLocalesOf of internal/ecma402 over *)
(* ResolveLocale of internal/localematcher, called with every list of      *)
(* requests, algorithm and option value the constants allow.  A caller may *)
(* construct a second formatter from the locale the first one resolved to, *)
(* with the same options: the action Reresolve.  It passes tags, or a      *)
(* locale it has made with the operations of LocaleIdentifiers.            *)
(***************************************************************************)
EXTENDS LocaleMatching, LocaleIdentifiers

CONSTANTS
  Supported,     \* the locales with data, in order
  Default,       \* the default locale
  RequestLists,  \* the lists of requested locales callers pass
  ExtensionKeys, \* relevant extension keys of the constructor, in order
  KeyData,       \* data locale -> key -> sequence of supported values
  OptionValues   \* values an option may have; "" is an omitted option

VARIABLES
  call,       \* the inputs of the last call
  resolved,   \* the ConstructorLocaleResolution: a Locale, data, extensions
  filtered    \* SupportedLocalesOf for the same inputs

callVars == <<call, resolved, filtered>>
vars == <<callVars, localeVars>>

Matcher == NewMatcher(Supported)
Keys    == ToSet(ExtensionKeys)

ASSUME DefaultIsAvailable == Default \in Matcher.exact

\* A tag is of the language it says it is: no alias leads to another one.
KeepsLanguage(tag) == ParseTag(tag) # Invalid /\ ParseTag(tag)[1] = tag[1]

\* The requested locales have been parsed, so that their aliases are resolved.
ASSUME RequestShape ==
  \A requests \in RequestLists :
    /\ requests \in Seq(ToSet(requests))
    /\ \A request \in ToSet(requests) :
         request.tag \in Seq(ToSet(request.tag)) /\ KeepsLanguage(request.tag)

\* The data leaves "und" out, its tags are canonical, and every locale has values
\* for the keys.
ASSUME DataShape ==
  /\ Supported \in Seq(ToSet(Supported))
  /\ \A tag \in ToSet(Supported) :
       /\ tag \in Seq(ToSet(tag)) /\ tag # <<>> /\ tag[1] \notin {"", "und"} \cup Scripts \cup Regions
       /\ ParseTag(tag) = tag
       /\ tag \in DOMAIN KeyData /\ \A key \in Keys : "" \notin ToSet(KeyData[tag][key])

NoCall     == [requests |-> <<>>, algorithm |-> "", options |-> [k \in Keys |-> ""]]
NoResult   == [locale |-> NoLocale, dataLocale |-> NoTag, extensions |-> NoExtension]

NegotiateKeyKeepingKeyword(values, requestedValue, option) ==
  LET asked == requestedValue # "" /\ requestedValue \in ToSet(values)
      value == IF asked THEN requestedValue ELSE IF values = <<>> THEN "" ELSE values[1]
  IN  [value   |-> IF option \in ToSet(values) THEN option ELSE value,
       keyword |-> IF asked THEN requestedValue ELSE ""]

NegotiateKeyDroppingKeyword(values, requestedValue, option) ==
  LET asked == requestedValue # "" /\ requestedValue \in ToSet(values)
      value == IF asked THEN requestedValue ELSE IF values = <<>> THEN "" ELSE values[1]
  IN  [value   |-> IF option \in ToSet(values) THEN option ELSE value,
       keyword |-> IF asked /\ option = "" THEN requestedValue ELSE ""]

\* One relevant extension key: the first value of the data, then the value the
\* matched request asks for, then the option, each only if it is supported.
\* The keyword stays part of the locale unless an option changed the value.
NegotiateKey(values, requestedValue, option) ==
  LET default == IF values = <<>> THEN "" ELSE values[1]
      keyword == IF requestedValue # "" /\ requestedValue \in ToSet(values)
                 THEN requestedValue ELSE ""
      value   == IF keyword # "" THEN keyword ELSE default
  IN  IF option # "" /\ option # value /\ option \in ToSet(values)
      THEN [value |-> option, keyword |-> ""]
      ELSE [value |-> value, keyword |-> keyword]

NegotiateKeys(matched, options) ==
  LET data(k)  == IF matched.dataLocale \in DOMAIN KeyData
                  THEN KeyData[matched.dataLocale][k] ELSE <<>>
      asked(k) == IF k \in DOMAIN matched.extension THEN matched.extension[k] ELSE ""
  IN  [k \in Keys |-> NegotiateKey(data(k), asked(k), options[k])]

\* The locale is a text, of which the constructor locale is parsed.
ResolvedLocale(matched, key) ==
  [locale     |-> InsertUnicodeExtension(matched.locale, {},
                    [k \in {x \in Keys : key[x].keyword # ""} |-> key[k].keyword]),
   dataLocale |-> matched.dataLocale,
   extensions |-> [k \in Keys |-> key[k].value]]

Resolution(matched, options) ==
  ResolvedLocale(matched, NegotiateKeys(matched, options))

ResolveLocale(m, requests, algorithm, options) ==
  Resolution(Match(m, requests, Default, algorithm), options)

\* A keyword without a type has the value "true".
Values(keywords) == [k \in DOMAIN keywords |-> IF keywords[k] = "" THEN "true" ELSE keywords[k]]

RequestOf(l) == Request(l.tag, Values(l.keywords))

\* The values that some data supports for each of some keys.
SupportedKeywords(keys) ==
  { keywords \in [keys -> UNION { ToSet(KeyData[data][k]) : data \in DOMAIN KeyData, k \in keys }] :
      \A k \in keys : \E data \in DOMAIN KeyData : keywords[k] \in ToSet(KeyData[data][k]) }

\* Available locales and supported values are canonical: an identifier made of them
\* is read as it was written.
ASSUME DataIsCanonical ==
  \A tag \in Matcher.exact :
    /\ ParseTag(tag) = tag
    /\ \A keys \in SUBSET Keys : \A keywords \in SupportedKeywords(keys) :
         LET read == ParseLocale(InsertUnicodeExtension(tag, {}, keywords))
         IN  read.tag = tag /\ Values(read.keywords) = keywords

\* The first occurrence of each locale: repeated, it would move those after it
\* down the list.
CanonicalLocaleList(requests) ==
  ElementsAt(requests, {i \in DOMAIN requests : \A j \in 1 .. i - 1 : requests[j] # requests[i]})

ResolveConstructorLocale(m, requests, algorithm, options) ==
  LET result == ResolveLocale(m, CanonicalLocaleList(requests), algorithm, options)
  IN  [result EXCEPT !.locale = ParseLocale(@)]

SupportedLocalesOf(m, requests, algorithm) ==
  FilterLocales(m, CanonicalLocaleList(requests), algorithm)

-------------------------------------------------------------------------------
Init == call = NoCall /\ resolved = NoResult /\ filtered = <<>> /\ LocaleInit

\* A caller makes its locale before it passes it.
MakeLocale == call = NoCall /\ LocaleNext /\ UNCHANGED callVars

Requests == IF locale = NoLocale THEN RequestLists ELSE {<<RequestOf(locale)>>}

Resolve ==
  /\ call = NoCall
  /\ UNCHANGED localeVars
  /\ \E requests \in Requests, algorithm \in Algorithms,
        options \in [Keys -> OptionValues] :
       /\ call'     = [requests |-> requests, algorithm |-> algorithm, options |-> options]
       /\ resolved' = ResolveConstructorLocale(Matcher, requests, algorithm, options)
       /\ filtered' = SupportedLocalesOf(Matcher, requests, algorithm)

Reresolve ==
  /\ call # NoCall
  /\ UNCHANGED localeVars
  /\ LET again == <<RequestOf(resolved.locale)>>
     IN  /\ call'     = [call EXCEPT !.requests = again]
         /\ resolved' = ResolveConstructorLocale(Matcher, again, call.algorithm, call.options)
         /\ filtered' = SupportedLocalesOf(Matcher, again, call.algorithm)

Next == MakeLocale \/ Resolve \/ Reresolve

Spec == Init /\ [][Next]_vars
-------------------------------------------------------------------------------
Called == call # NoCall

\* The data locale of a resolved locale is one that has data, never an alias or
\* a fallback tag, and its data is in the language of the resolved locale. A
\* locale for which there is data serves itself: no alias derived from another
\* locale shadows it, whichever of the two comes first.
DataLocaleServes ==
  Called => LET tag == resolved.locale.tag
            IN  /\ tag \in Matcher.exact
                /\ resolved.dataLocale \in ToSet(Supported)
                /\ resolved.dataLocale[1] = tag[1]
                /\ tag \in ToSet(Supported) => resolved.dataLocale = tag

\* The -u- keywords a resolved locale carries are those the resolved options
\* report, each one was asked for by some request, and each is supported.
\* "Explicit options override Unicode extension values when both are supported."
KeywordsAgree ==
  Called =>
    /\ LET keywords == Values(resolved.locale.keywords)
       IN  \A k \in DOMAIN keywords :
             /\ keywords[k] = resolved.extensions[k]
             /\ keywords[k] \in ToSet(KeyData[resolved.dataLocale][k])
             /\ \E i \in DOMAIN call.requests :
                  /\ k \in DOMAIN call.requests[i].ext
                  /\ call.requests[i].ext[k] = keywords[k]
    /\ \A k \in Keys : call.options[k] \in ToSet(KeyData[resolved.dataLocale][k])
         => resolved.extensions[k] = call.options[k]

\* What a lookup finds by dropping subtags is near enough for the best fit: a
\* locale that supportedLocalesOf lists for "lookup" it lists for "best fit".
LookupImpliesBestFit ==
  Called => \A i \in DOMAIN call.requests :
    LET one == <<call.requests[i]>>
    IN  Match(Matcher, one, NoTag, "lookup").locale # NoTag
          => Match(Matcher, one, NoTag, "best fit").locale # NoTag

\* Distance 0 is kept for a request and a locale that maximize to the same
\* language, script and region.
ZeroDistanceIsEquivalence ==
  Called => LET r == BestFit(Matcher, CanonicalLocaleList(call.requests), NoTag)
            IN  r.locale # NoTag /\ r.distance = 0 =>
                  Parts(Maximizer(call.requests[1].tag)) = Parts(Maximizer(r.locale))

\* The locale a formatter resolved to, given to another one with the same
\* options, resolves to the same locale, data and extension values.
ResolvedLocaleRoundTrips == [][Called => resolved' = resolved]_vars

================================================================================
