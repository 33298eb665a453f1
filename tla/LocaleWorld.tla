------------------------------ MODULE LocaleWorld ------------------------------
(***************************************************************************)
(* A small world of locales for TLC: rows of the CLDR likely-subtags table *)
(* and, in their order, the rules of profile_data.go that concern them.    *)
(***************************************************************************)
EXTENDS LocaleTags

MCSingletons == {"a", "t", "u", "w", "x"}
MCScripts    == {"Latn", "Hans", "Hant", "Cyrl", "Armn", "Grek", "Cpmn", "Qaai", "Zinh"}
MCRegions    == {"US", "GB", "AU", "CN", "TW", "HK", "NO", "RS", "BA", "AM", "RU", "CY", "SU"}

L(l, s, r) == Triple(l, s, r)

MCLikelySubtags ==
     (<<"en">>         :> L("en", "Latn", "US")
  @@  <<"zh">>         :> L("zh", "Hans", "CN")
  @@  <<"zh", "TW">>   :> L("zh", "Hant", "TW")
  @@  <<"zh", "HK">>   :> L("zh", "Hant", "HK")
  @@  <<"zh", "Hant">> :> L("zh", "Hant", "TW")
  @@  <<"yue">>        :> L("yue", "Hant", "HK")
  @@  <<"nb">>         :> L("nb", "Latn", "NO")
  @@  <<"nn">>         :> L("nn", "Latn", "NO")
  @@  <<"sr">>         :> L("sr", "Cyrl", "RS")
  @@  <<"hy">>         :> L("hy", "Armn", "AM")
  @@  <<"hyw">>        :> L("hyw", "Armn", "AM")
  @@  <<"und", "Armn">> :> L("hy", "Armn", "AM")
  @@  <<"und", "TW">>   :> L("zh", "Hant", "TW")
  @@  <<"und", "CY">>   :> L("el", "Grek", "CY")
  @@  <<"und", "Cpmn">> :> L("und", "Cpmn", "CY")
  @@  <<"und">>        :> L("en", "Latn", "US"))

P(l, s, rs) == [language |-> l, script |-> s, regions |-> rs]
R(d, s, n, one) == [desired |-> d, supported |-> s, distance |-> n, oneWay |-> one]

enUS  == {"US"}
cnsar == {"HK"}

MCRules == <<
  R(P("nn", "", {}), P("nb", "", {}), 20, FALSE),
  R(P("yue", "", {}), P("zh", "", {}), 10, TRUE),
  R(P("*", "", {}), P("*", "", {}), 80, FALSE),
  R(P("sr", "Latn", {}), P("sr", "Cyrl", {}), 5, FALSE),
  R(P("*", "*", {}), P("*", "*", {}), 50, FALSE),
  R(P("en", "*", enUS), P("en", "*", enUS), 4, FALSE),
  R(P("en", "*", MCRegions \ enUS), P("en", "*", {"GB"}), 3, FALSE),
  R(P("en", "*", MCRegions \ enUS), P("en", "*", MCRegions \ enUS), 4, FALSE),
  R(P("en", "*", MCRegions), P("en", "*", MCRegions), 5, FALSE),
  R(P("zh", "Hant", cnsar), P("zh", "Hant", cnsar), 4, FALSE),
  R(P("zh", "Hant", MCRegions \ cnsar), P("zh", "Hant", MCRegions \ cnsar), 4, FALSE),
  R(P("zh", "Hant", MCRegions), P("zh", "Hant", MCRegions), 5, FALSE),
  R(P("*", "*", MCRegions), P("*", "*", MCRegions), 4, FALSE) >>

MCParadigmLocales == {<<"en">>, <<"en", "GB">>}
================================================================================
