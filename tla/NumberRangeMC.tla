----------------------------- MODULE NumberRangeMC -----------------------------
(***************************************************************************)
(* Patterns that put affixes before, after and around a number: currency   *)
(* symbols, codes and names, accounting parentheses, percent signs on      *)
(* either side, units, compact words, a Danish unit whose pattern for one  *)
(* leaves the number out, and signs with and without bidi marks.           *)
(***************************************************************************)
EXTENDS NumberRange

Options(pattern, style, notation, signDisplay, maximum) ==
  [pattern |-> pattern, style |-> style, notation |-> notation, signDisplay |-> signDisplay,
   useGrouping |-> Unset,
   digits |-> [minimumIntegerDigits |-> Unset, minimumFractionDigits |-> Unset,
     maximumFractionDigits |-> maximum, minimumSignificantDigits |-> Unset,
     maximumSignificantDigits |-> Unset, roundingIncrement |-> Unset, roundingMode |-> Unset,
     roundingPriority |-> Unset, trailingZeroDisplay |-> Unset]]

MCOptionBags ==
  { Options(p[1], p[2], notation, sign, maximum) :
      p \in {<<"decimal", "decimal">>, <<"percent", "percent">>, <<"unit", "unit">>,
             <<"currency", "currency">>, <<"currencyName", "currency">>},
      notation \in {"standard", "compact"}, sign \in {"auto", "exceptZero"}, maximum \in {Unset, 0} }

Plain == [minusSign |-> <<"-">>, plusSign |-> <<"+">>, infinity |-> <<"inf">>, nan |-> <<"nan">>,
          approximately |-> <<"~">>, range |-> <<"to">>]
Marked == [Plain EXCEPT !.minusSign = <<"mark", "-">>, !.plusSign = <<"mark", "+">>]

Around(prefix, suffix) == [prefix |-> prefix, suffix |-> suffix, hasNumber |-> TRUE]
Bare == [prefix |-> <<>>, suffix |-> <<Part("unit", <<"m", "p", "g">>)>>, hasNumber |-> FALSE]

Lit(text)  == <<Part("literal", text)>>
Code       == <<Part("currency", <<"U", "S", "D">>)>>
Dollar     == <<Part("currency", <<"$">>)>>
PercentOf  == <<Part("percentSign", <<"%">>)>>
Unit(text) == <<Part("unit", text)>>

Thousand(prefix, suffix) ==
  [e \in {3} |-> Around(prefix, Lit(<<Space>>) \o <<Part("compact", <<"K">>)>> \o suffix)]

Base(style, locale, symbols, compact) ==
  [style |-> style, locale |-> locale, symbols |-> symbols, compact |-> compact]

Decimals_ == { Base("decimal", "en", symbols, Thousand(<<>>, <<>>)) : symbols \in {Plain, Marked} }

Percent(symbols, before, after) ==
  [percent |-> [sign \in {"none", "minusSign", "plusSign"} |->
     Around(IF sign = "none" THEN before ELSE BidiSymbol(Part(sign, symbols[sign])) \o before, after)]]

Percents ==
  { Percent(symbols, sides[1], sides[2]) @@ Base("percent", "en", symbols, Thousand(<<>>, <<>>)) :
      symbols \in {Plain, Marked}, sides \in {<<PercentOf, <<>>>>, <<<<>>, Lit(<<Space>>) \o PercentOf>>} }

Currency(symbol, negative, spacing) ==
  [positive |-> Around(symbol, <<>>), negative |-> negative,
   spacing |-> [before |-> <<>>, after |-> spacing]]

Accounting(symbol) == Around(Lit(<<"(">>) \o symbol, Lit(<<")">>))

Currencies ==
     { Currency(Dollar, negative, <<>>) @@ Base("currency", "en", symbols, Thousand(Dollar, <<>>)) :
         symbols \in {Plain, Marked}, negative \in {None, Accounting(Dollar)} }
  \cup { Currency(Code, negative, <<Space>>)
           @@ Base("currency", "en", Plain, Thousand(<<>>, Lit(<<Space>>) \o Code)) :
         negative \in {None, Accounting(Code)} }
  \cup { [positive |-> Around(<<>>, Lit(<<Space>>) \o Dollar),
          negative |-> Around(Lit(<<"(">>), Lit(<<Space>>) \o Dollar \o Lit(<<")">>)),
          spacing |-> [before |-> <<>>, after |-> <<>>]]
         @@ Base("currency", "en", symbols, Thousand(<<>>, Lit(<<Space>>) \o Dollar)) :
         symbols \in {Plain, Marked} }

Named(one, other) ==
  [name |-> [category \in {One, Other} |->
     Around(<<>>, Lit(<<Space>>)
                    \o <<Part("currency", IF category = One THEN one ELSE other)>>)]]

Names == { Named(<<"d", "o", "l">>, <<"d", "o", "l", "s">>)
             @@ Base("currencyName", locale, Plain, Thousand(<<>>, <<>>)) : locale \in {"en", "da"} }

UnitPatterns(one, other) == [unit |-> [category \in {One, Other} |-> IF category = One THEN one ELSE other]]

Numbered ==
  { UnitPatterns(Around(<<>>, Unit(<<"m">>)), Around(<<>>, Unit(<<"m">>))),
    UnitPatterns(Around(<<>>, Lit(<<Space>>) \o Unit(<<"f", "t">>)),
                 Around(<<>>, Lit(<<Space>>) \o Unit(<<"f", "o", "o", "t">>))),
    UnitPatterns(Around(Unit(<<"h">>), Unit(<<"m">>)), Around(Unit(<<"h">>), Unit(<<"m", "s">>))) }

Unnumbered == UnitPatterns(Bare, Around(<<>>, Lit(<<Space>>) \o Unit(<<"m", "p", "g">>)))

Units_ == { patterns @@ Base("unit", locale, symbols, Thousand(<<>>, <<>>)) :
              patterns \in Numbered \cup {Unnumbered}, locale \in {"en", "da"},
              symbols \in {Plain, Marked} }

MCAffixes == Decimals_ \cup Percents \cup Currencies \cup Names \cup Units_

D(negative, coeff, exp) == [negative |-> negative, coeff |-> coeff, exp |-> exp]

MCValues == { D(FALSE, 0, 0), D(FALSE, 5, -1), D(FALSE, 1, 0), D(FALSE, 15, -1), D(FALSE, 2, 0),
              D(TRUE, 1, 0), D(TRUE, 25, 0), D(TRUE, 4, -1), D(FALSE, 15, 2), D(TRUE, 2, 3),
              PosInfinity, NegInfinity, NaN }

MCBidiMarks == {"mark"}
MCCompactEntries == [magnitude \in {3} |-> 3]
MCGrouping == [primary |-> 3, secondary |-> 3, minimum |-> 1]
================================================================================
