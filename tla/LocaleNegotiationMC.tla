-------------------------- MODULE LocaleNegotiationMC --------------------------
(***************************************************************************)
(* Constructors and supportedLocalesOf over the world of LocaleWorld.      *)
(***************************************************************************)
EXTENDS LocaleNegotiation, LocaleWorld

MCSupported ==
  << <<"zh", "Hant", "HK">>, <<"zh">>, <<"zh", "HK", "x", "v">>, <<"en", "GB">>, <<"en">>,
     <<"nb">>, <<"sr", "Latn", "RS">> >>

MCDefault == <<"en">>

MCExtensionKeys == <<"ca", "nu">>

\* Every data locale supports two values of each key; they differ in order.
MCKeyData ==
  [tag \in ToSet(MCSupported) |->
    [k \in ToSet(MCExtensionKeys) |->
      IF tag[1] = "zh" THEN <<k \o "2", k \o "1">> ELSE <<k \o "1", k \o "2">>]]

\* "ca1" is supported for "ca" and not for "nu".
MCOptionValues == {"", "ca1"}

MCTags == {
  <<"en">>, <<"en", "AU">>, <<"en", "Cyrl">>, <<"zh">>, <<"zh", "TW">>, <<"zh", "HK">>,
  <<"zh", "Hant">>, <<"zh", "HK", "x", "v">>, <<"nn">>, <<"sr", "BA">>, <<"yue">>, <<"xx">> }

MCExtensions == { NoExtension, "ca" :> "ca2", "ca" :> "ca1" @@ "nu" :> "none", "nu" :> "nu1" }

MCRequests == { Request(t, e) : t \in MCTags, e \in MCExtensions }

\* Lists of two requests pair a plain one with one that has a keyword; repeated
\* in front of it, the plain one would cost it another place.
MCRequestLists ==
  {<<>>} \cup {<<r>> : r \in MCRequests}
         \cup {<<Request(t, NoExtension), Request(u, "ca" :> "ca2")>> :
                 t \in {<<"xx">>, <<"nn">>, <<"zh", "TW">>}, u \in MCTags}
         \cup {<<Request(<<"xx">>, NoExtension), Request(<<"xx">>, NoExtension),
                 Request(t, "ca" :> "ca2")>> : t \in MCTags}

-------------------------------------------------------------------------------
(* Locale identifiers: rows of CLDR's aliases, in their order.             *)

From(from, to) == [from |-> from, to |-> to]

MCAliases == <<
  From(<<"cmn">>, <<"zh">>),
  From(<<"hy", "arevmda">>, <<"hyw">>),
  From(<<"no", "bokmal">>, <<"nb">>),
  From(<<"sgn", "US">>, <<"ase">>),
  From(<<"sh">>, <<"sr", "Latn">>),
  From(<<"und", "arevela">>, <<"und">>),
  From(<<"und", "arevmda">>, <<"und">>),
  From(<<"und", "hakka">>, <<"und">>),
  From(<<"und", "hepburn", "heploc">>, <<"und", "alalc97">>),
  From(<<"zh", "guoyu">>, <<"zh">>),
  From(<<"zh", "hakka">>, <<"hak">>) >>

MCScriptAlias    == "Qaai" :> "Zinh"
MCTerritoryAlias == "SU" :> <<"RU", "AM">>
MCVariantAlias   == "heploc" :> "alalc97" @@ "polytoni" :> "polyton"
MCTypeAlias ==
  <<"ca", "islamicc">> :> "islamic-civil" @@ <<"kn", "yes">> :> "true" @@
  <<"t:m0", "names">> :> "prprname"

MCSubdivisionAlias ==
  "fi01" :> <<"ax">> @@ "fra" :> <<"frges">> @@ "omba" :> <<"ombj", "ombs">>

MCUnicodeKeys == {"ca", "fw", "kn", "nu", "rg"}
MCFieldKeys   == {"d0", "m0"}
MCAlphabet == <<
  "a", "alalc97", "arevela", "arevmda", "attr", "bokmal", "ca", "d0", "foobar", "fw", "guoyu",
  "hakka", "hepburn", "heploc", "kn", "m0", "nu", "other", "polyton", "polytoni", "rg", "t", "u",
  "w", "x" >>

MCIdentifiers == {
  <<"und">>, <<"en", "GB">>, <<"sgn">>, <<"sh">>, <<"sh", "Cyrl", "SU">>, <<"cmn", "TW", "guoyu">>,
  <<"und", "TW", "guoyu">>, <<"zh", "Hant", "hakka", "guoyu">>, <<"zh", "HK", "foobar", "x", "v">>,
  <<"hy", "arevmda", "arevela">>, <<"und", "Armn", "SU">>, <<"ru", "SU", "arevmda">>,
  <<"no", "bokmal", "foobar">>, <<"und", "Cpmn">>, <<"en", "Qaai", "polytoni", "polyton", "foobar">>,
  <<"en", "heploc", "foobar", "hepburn">>, <<"en", "foobar", "foobar">>,
  <<"zh", "u", "other", "attr", "nu", "nu1", "ca", "ca2", "nu", "nu2">>,
  <<"en", "GB", "w", "any", "t", "sgn", "US", "m0", "names", "u", "kn", "yes", "x", "u", "ca">>,
  <<"nb", "u", "rg", "fi01", "ca", "islamicc", "t", "no", "bokmal", "d0", "own", "d0", "two">>,
  <<"en", "t", "d0", "u", "ca">>, <<"en", "u", "ca", "u", "nu">>, <<"yue", "u", "x", "v">> }

Override(language, script, region, variants, keywords) ==
  [language |-> language, script |-> script, region |-> region, variants |-> variants,
   keywords |-> keywords]

MCOverrides == {
  Override("", "", "", <<>>, NoKeywords), Override("zh", "", "", <<>>, NoKeywords),
  Override("", "Qaai", "SU", <<>>, "ca" :> "ca1" @@ "fw" :> "7"),
  Override("", "", "US", <<"hakka", "guoyu">>, "kn" :> "true") }
================================================================================
