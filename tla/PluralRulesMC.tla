----------------------------- MODULE PluralRulesMC -----------------------------
(***************************************************************************)
(* Rules of three locales and two types in every notation, over integers   *)
(* of each kind, ties and carries of rounding, both zeros and the special  *)
(* values; the machine word is 20 bits, so that six fraction digits        *)
(* overflow it.                                                            *)
(***************************************************************************)
EXTENDS RelativeTime, TLC

DigitsUnset ==
  [minimumIntegerDigits |-> Unset, minimumFractionDigits |-> Unset,
   maximumFractionDigits |-> Unset, minimumSignificantDigits |-> Unset,
   maximumSignificantDigits |-> Unset, roundingIncrement |-> Unset, roundingMode |-> Unset,
   roundingPriority |-> Unset, trailingZeroDisplay |-> Unset]

DigitBags ==
  { DigitsUnset,
    [minimumFractionDigits |-> 0, maximumFractionDigits |-> 0] @@ DigitsUnset,
    [minimumFractionDigits |-> 2, minimumIntegerDigits |-> 3] @@ DigitsUnset,
    [maximumSignificantDigits |-> 7] @@ DigitsUnset,
    [minimumFractionDigits |-> 2, trailingZeroDisplay |-> "stripIfInteger"] @@ DigitsUnset,
    [roundingMode |-> "ceil"] @@ DigitsUnset }

MCRuleOptions ==
  [locale : {"en", "fr", "lv"}, type : {"cardinal"}, digits : DigitBags,
   notation : {"standard", "compact", "scientific", "engineering"}]
  \cup [locale : {"en"}, type : {"ordinal"}, digits : DigitBags, notation : {"standard"}]

Number(negative, coeff, exp) == [negative |-> negative, coeff |-> coeff, exp |-> exp]
Value(kind, number)          == [kind |-> kind, number |-> number]

Whole == { Number(FALSE, n, 0) : n \in {0, 1, 2, 11, 21, 1000000} }

MCValues ==
  { Value("int", n)  : n \in Whole \cup {Number(TRUE, 21, 0)} }
  \cup { Value("uint", n) : n \in {Number(FALSE, n, 0) : n \in {1, 2, 1000000}} }
  \cup { Value("decimal", n) : n \in
           { Number(TRUE, 0, 0), Number(FALSE, 1, 0), Number(FALSE, 10, -1), Number(FALSE, 15, -1),
             Number(FALSE, 996, -3), Number(FALSE, 999999, -6), Number(FALSE, 211, -1),
             Number(FALSE, 9999996, -1), Number(TRUE, 9999996, -1),
             Number(FALSE, 9996, -1), NaN, PosInfinity, NegInfinity } }

\* The units as CLDR has them, without some of their styles, which are then
\* read from the long one; literals of days only.
Field(future, past, literals) == [future |-> future, past |-> past, relative |-> literals]
Tense(one, other) == One :> one @@ Other :> other

EnglishDays ==
  [long |-> Field(Tense(<<"in ", "{0}", " day">>, <<"in ", "{0}", " days">>),
                  Tense(<<"{0}", " day ago">>, <<"{0}", " days ago">>),
                  -1 :> "yesterday" @@ 0 :> "today" @@ 1 :> "tomorrow"),
   narrow |-> Field(Tense(<<"in ", "{0}", "d">>, <<"in ", "{0}", "d">>),
                    Tense(<<"{0}", "d ago">>, <<"{0}", "d ago">>),
                    -1 :> "yesterday" @@ 0 :> "today" @@ 1 :> "tomorrow")]

English(one, other) ==
  [long |-> Field(Tense(<<"in ", "{0}", one>>, <<"in ", "{0}", other>>),
                  Tense(<<"{0}", one, " ago">>, <<"{0}", other, " ago">>), <<>>)]

French(one, other) ==
  [long |-> Field(Tense(<<"dans ", "{0}", one>>, <<"dans ", "{0}", other>>),
                  Tense(<<"il y a ", "{0}", one>>, <<"il y a ", "{0}", other>>), <<>>)]

Latvian(one, other) ==
  [long |-> Field(Tense(<<"pec ", "{0}", one>>, <<"pec ", "{0}", other>>),
                  Tense(<<"pirms ", "{0}", one>>, <<"pirms ", "{0}", other>>), <<>>)]

FrenchDays ==
  [long |-> Field(Tense(<<"dans ", "{0}", " jour">>, <<"dans ", "{0}", " jours">>),
                  Tense(<<"il y a ", "{0}", " jour">>, <<"il y a ", "{0}", " jours">>),
                  -2 :> "avant-hier" @@ -1 :> "hier" @@ 0 :> "aujourd'hui" @@ 1 :> "demain"
                    @@ 2 :> "apres-demain"),
   narrow |-> Field(Tense(<<"+", "{0}", " j">>, <<"+", "{0}", " j">>),
                    Tense(<<"-", "{0}", " j">>, <<"-", "{0}", " j">>), 0 :> "aujourd'hui")]

LatvianDays ==
  [long |-> Field(Zero :> <<"pec ", "{0}", " dienam">>
                    @@ Tense(<<"pec ", "{0}", " dienas">>, <<"pec ", "{0}", " dienam">>),
                  Zero :> <<"pirms ", "{0}", " dienam">>
                    @@ Tense(<<"pirms ", "{0}", " dienas">>, <<"pirms ", "{0}", " dienam">>),
                  -2 :> "aizvakar" @@ -1 :> "vakar" @@ 0 :> "sodien" @@ 1 :> "rit" @@ 2 :> "parit")]

MCFieldsFor ==
  [en |-> [second |-> English(" second", " seconds"), minute |-> English(" minute", " minutes"),
           hour |-> English(" hour", " hours"), day |-> EnglishDays,
           week |-> English(" week", " weeks"), month |-> English(" month", " months"),
           quarter |-> English(" quarter", " quarters"), year |-> English(" year", " years")],
   fr |-> [second |-> French(" seconde", " secondes"), minute |-> French(" minute", " minutes"),
           hour |-> French(" heure", " heures"), day |-> FrenchDays,
           week |-> French(" semaine", " semaines"), month |-> French(" mois", " mois"),
           quarter |-> French(" trimestre", " trimestres"), year |-> French(" an", " ans")],
   lv |-> [second |-> Latvian(" sekundes", " sekundem"), minute |-> Latvian(" minutes", " minutem"),
           hour |-> Latvian(" stundas", " stundam"), day |-> LatvianDays,
           week |-> Latvian(" nedelas", " nedelam"), month |-> Latvian(" menesa", " menesiem"),
           quarter |-> Latvian(" ceturksna", " ceturksniem"), year |-> Latvian(" gada", " gadiem")]]

MCRelativeOptions ==
  [locale : {"en", "fr", "lv"}, style : {"long", "short", "narrow"}, numeric : {"always", "auto"}]

MCOffsets ==
  { Number(negative, o[1], o[2]) : negative \in BOOLEAN,
      o \in { <<0, 0>>, <<1, 0>>, <<2, 0>>, <<11, 0>>, <<21, 0>>, <<1000000, 0>>, <<5, -1>>, <<15, -1>>,
              <<11, -1>>, <<99951, -5>>, <<99949, -5>>, <<100049, -5>>, <<20996, -3>>, <<4, -4>>,
              <<5, -4>>, <<19999, -4>>, <<9999996, -1>>, <<99999951, -2>> } }
  \cup {NaN, NegInfinity}

MCCompactEntries == 3 :> 3 @@ 4 :> 3 @@ 5 :> 3 @@ 6 :> 6
MCGrouping == [primary |-> 3, secondary |-> 3, minimum |-> 1]
===============================================================================
