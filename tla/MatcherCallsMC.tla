---------------------------- MODULE MatcherCallsMC ----------------------------
(***************************************************************************)
(* Two goroutines on one Matcher for "en" and "nb".  "nn" and "da" need a  *)
(* search and evict each other from lastMatch, "nb" is available, "xx-GB"  *)
(* is beyond the threshold, "nn-x-v" stands for a tag that is too long.    *)
(***************************************************************************)
EXTENDS MatcherCalls

L(l, s, r)  == Triple(l, s, r)
P(l, s, rs) == [language |-> l, script |-> s, regions |-> rs]
R(d, s, n)  == [desired |-> d, supported |-> s, distance |-> n, oneWay |-> FALSE]

MCSingletons == {"x"}
MCScripts    == {"Latn"}
MCRegions    == {"US", "NO", "GB", "DK"}

MCLikelySubtags ==
  (<<"en">> :> L("en", "Latn", "US") @@ <<"nb">>  :> L("nb", "Latn", "NO") @@
   <<"nn">> :> L("nn", "Latn", "NO") @@ <<"da">>  :> L("da", "Latn", "DK") @@
   <<"und">> :> L("en", "Latn", "US"))

MCRules == <<
  R(P("da", "", {}), P("nb", "", {}), 8),
  R(P("nn", "", {}), P("nb", "", {}), 20),
  R(P("*", "", {}), P("*", "", {}), 80),
  R(P("*", "*", MCRegions), P("*", "*", MCRegions), 4) >>

\* No tag here has an alias.
MCNoAliases   == <<>>
MCUnicodeKeys == {"ca"}
MCFieldKeys   == {}
MCAlphabet    == <<"ca", "x">>

MCParadigmLocales == {<<"en">>}
MCResources == << <<"en">>, <<"nb">> >>
MCLongTags == { <<"nn", "x", "v">> }
MCDefault  == <<"en">>

Plain(tag) == Request(tag, NoExtension)
WithCa(tag) == Request(tag, "ca" :> "ca2")

C(requests, algorithm) == [requests |-> requests, algorithm |-> algorithm]

MCCalls ==
  { C(<<Plain(<<"nn">>)>>, "best fit"),
    C(<<WithCa(<<"nn">>)>>, "best fit"),
    C(<<WithCa(<<"nn">>)>>, "lookup"),
    C(<<Plain(<<"da">>)>>, "best fit"),
    C(<<WithCa(<<"nb">>)>>, "best fit"),
    C(<<WithCa(<<"xx", "GB">>)>>, "best fit"),
    C(<<Plain(<<"nn", "x", "v">>)>>, "best fit"),
    C(<<WithCa(<<"xx", "US">>), Plain(<<"nn">>)>>, "best fit") }
===============================================================================
