--------------------------- MODULE LocaleIdentifiers ---------------------------
(***************************************************************************)
(* Locale identifiers: locale.Parse, and locale.New with its options, make *)
(* a canonical identifier (CanonicalTags); Maximize and Minimize rewrite   *)
(* its language, script and region, and make nothing canonical.            *)
(***************************************************************************)
EXTENDS CanonicalTags

CONSTANTS
  Identifiers,     \* the texts callers write
  Overrides        \* the options of New: [language, script, region, variants,
                   \* keywords], "", << >> and no keywords when omitted

VARIABLES
  written,  \* the text a locale was read from, its options written out; << >>
            \* if likely subtags made it
  locale    \* a Locale: [tag, attributes, keywords], the tag without -u-

localeVars == <<written, locale>>

NoKeywords == [k \in {} |-> ""]
Locale(tag, attributes, keywords) ==
  [tag |-> tag, attributes |-> attributes, keywords |-> keywords]

\* What an error comes with: the zero value.
NoLocale == Locale(<<>>, {}, NoKeywords)

-------------------------------------------------------------------------------
(* Locales *)

RemoveUnicodeExtension(tag) ==
  LET removed(i) == \E n \in DOMAIN Starts(tag) :
        LET start == Starts(tag)[n]
        IN  tag[start] = "u" /\ i \in start .. start + Len(Body(tag, "u"))
      kept == SelectSeq([i \in DOMAIN tag |-> i], LAMBDA i : ~removed(i))
  IN  [n \in DOMAIN kept |-> tag[kept[n]]]

\* -u- is put before the first singleton that comes after it, or private use.
Inserted(tag, subtags) ==
  LET after(s) == s = "x" \/ Ordered({s, "u"}) = <<"u", s>>
      at       == SelectInSeq(tag, LAMBDA s : s \in Singletons /\ after(s))
      before   == IF at = 0 THEN Len(tag) ELSE at - 1
  IN  IF subtags = <<>> THEN tag
      ELSE SubSeq(tag, 1, before) \o <<"u">> \o subtags \o SubSeq(tag, before + 1, Len(tag))

InsertUnicodeExtension(tag, attributes, keywords) ==
  Inserted(tag, UnicodeSubtags(attributes, CanonicalKeywords(keywords)))

String(l) == InsertUnicodeExtension(l.tag, l.attributes, l.keywords)

SetKeyword(type) == IF type = "true" THEN "" ELSE type

\* Keywords are made canonical in the text, and again when it is split.
KeywordsSet(keywords) == [k \in DOMAIN keywords |-> SetKeyword(keywords[k])]

LocaleOf(canonical, subtags) ==
  IF canonical = Invalid THEN NoLocale
  ELSE Locale(RemoveUnicodeExtension(canonical), Attributes(subtags),
              KeywordsSet(CanonicalKeywords(Keywords(subtags))))

LocaleWith(canonical) == LocaleOf(canonical, Body(canonical, "u"))

ParseLocale(text) == LocaleWith(ParseTag(text))

-------------------------------------------------------------------------------
(* Operations *)

\* Likely subtags rewrite language, script and region; nothing is canonicalized.
ReplaceLanguageSubtags(tag, p) == Join(p) \o VariantSubtags(tag) \o Suffix(tag)

MaximalTag(tag) == ReplaceLanguageSubtags(tag, Parts(Maximize(tag)))

\* The first of language, language-region and language-script that maximizes to
\* the same, or the maximal one.
MinimalTag(tag) ==
  LET max == Parts(Maximize(tag))
      candidates == << Triple(max.language, "", ""), Triple(max.language, "", max.region),
                       Triple(max.language, max.script, "") >>
      same == SelectSeq(candidates, LAMBDA c : Parts(Maximize(Join(c))) = max)
  IN  ReplaceLanguageSubtags(tag, IF same = <<>> THEN max ELSE same[1])

Or(given, subtag) == IF given # "" THEN given ELSE subtag

\* The identifier the language options of New make of a tag, to be parsed.
Overridden(tag, o) ==
  Text(Identifier(Triple(Or(o.language, tag[1]), Or(o.script, Parts(tag).script),
                         Or(o.region, Parts(tag).region)),
                  IF o.variants # <<>> THEN o.variants ELSE VariantSubtags(tag)))
    \o Suffix(tag)

HasLanguageOptions(o) ==
  o.language # "" \/ o.script # "" \/ o.region # "" \/ o.variants # <<>>

\* Digits name the days of the week, Sunday twice.
FirstDays ==
  [d \in {"0", "7"} |-> "sun"] @@ "1" :> "mon" @@ "2" :> "tue" @@ "3" :> "wed"
    @@ "4" :> "thu" @@ "5" :> "fri" @@ "6" :> "sat"

Spelled(keywords) ==
  [k \in DOMAIN keywords |-> IF k = "fw" /\ keywords[k] \in DOMAIN FirstDays
                             THEN FirstDays[keywords[k]] ELSE keywords[k]]

\* New replaces first the language and then, one by one, the keywords.
ApplyKeywords(l, tag, keywords) ==
  IF tag = Invalid THEN NoLocale
  ELSE Locale(tag, l.attributes, KeywordsSet(CanonicalKeywords(Spelled(keywords))) @@ l.keywords)

ApplyOptions(l, o) ==
  ApplyKeywords(l, IF HasLanguageOptions(o) THEN ParseTag(Overridden(l.tag, o)) ELSE l.tag, o.keywords)

LocaleInit == written = <<>> /\ locale = NoLocale

Parse ==
  /\ locale = NoLocale
  /\ \E text \in Identifiers : written' = text /\ locale' = ParseLocale(text)

\* The text of a locale is read again, with options.
New ==
  /\ locale # NoLocale
  /\ \E read \in {ParseLocale(String(locale))} \ {NoLocale}, o \in Overrides :
       /\ written' = Inserted(Overridden(read.tag, o),
            UnicodeSubtags(read.attributes, Spelled(o.keywords) @@ read.keywords))
       /\ locale' = ApplyOptions(read, o)

WithTag(l, tag) == [l EXCEPT !.tag = tag]

MaximizeLocale ==
  /\ locale # NoLocale
  /\ written' = <<>> /\ locale' = WithTag(locale, MaximalTag(locale.tag))

MinimizeLocale ==
  /\ locale # NoLocale
  /\ written' = <<>> /\ locale' = WithTag(locale, MinimalTag(locale.tag))

LocaleNext == Parse \/ New \/ MaximizeLocale \/ MinimizeLocale

-------------------------------------------------------------------------------
\* The texts that differ from one in the order of its variants or extensions.
Reordered(text) ==
  LET variants == ToSet(VariantSubtags(text))
      others   == ToSet(ExtensionSingletons(text)) \ {"x"}
      extensions(order) == FlattenSeq([i \in DOMAIN order |-> <<order[i]>> \o Body(text, order[i])])
      last     == IF Body(text, "x") = <<>> THEN <<>> ELSE <<"x">> \o Body(text, "x")
  IN  { Join(Parts(text)) \o v \o extensions(e) \o last :
          v \in SetToSeqs(variants), e \in SetToSeqs(others) }

LocaleHasTag == locale.tag \in Seq(ToSet(locale.tag))

\* A text is rejected only for a repetition or an empty part, never because
\* aliases lead back. The locale it gives, and the one New makes of a text and
\* options, is what is read from the text with the options written out, in any
\* order of its variants and extensions, and what is read from the locale's own
\* text. The minimal form is reached once and for all and means the same. Whatever
\* aliases make of it, a tag stays a sequence of subtags.
NormalFormsSettle ==
  /\ LocaleHasTag
  /\ written # <<>> /\ WellFormed(written) =>
       /\ locale # NoLocale
       /\ ParseLocale(String(locale)) = locale
       /\ \A text \in Reordered(written) : ParseLocale(text) = locale
  /\ locale # NoLocale =>
       /\ MinimalTag(MinimalTag(locale.tag)) = MinimalTag(locale.tag)
       /\ MaximalTag(MinimalTag(locale.tag)) = MaximalTag(locale.tag)

\* A locale is what its text is parsed to: "Parse(loc.String()).Equal(loc) == true".
TextRoundTrips == locale # NoLocale => ParseLocale(String(locale)) = locale
================================================================================
