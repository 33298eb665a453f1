------------------------ MODULE LocaleNegotiationProofs ------------------------
(***************************************************************************)
(* For every set of locales with data and every matching data: what a      *)
(* constructor resolves a list of requests to.                             *)
(***************************************************************************)
EXTENDS LocaleNegotiation, SequenceLemmas

-------------------------------------------------------------------------------
(* Sequences. *)

\* What a concatenation holds is what the two sequences hold.
LEMMA ConcatElements ==
  ASSUME NEW R, NEW a \in Seq(R), NEW b \in Seq(R)
  PROVE  a \o b \in Seq(R) /\ ToSet(a \o b) = ToSet(a) \cup ToSet(b)
<1>1. /\ a \o b \in Seq(R) /\ Len(a \o b) = Len(a) + Len(b)
      /\ \A i \in 1 .. Len(a) + Len(b) : (a \o b)[i] = IF i <= Len(a) THEN a[i] ELSE b[i - Len(a)]
  BY ConcatProperties
<1>2. Len(a) \in Nat /\ Len(b) \in Nat /\ DOMAIN a = 1 .. Len(a) /\ DOMAIN b = 1 .. Len(b)
  BY LenProperties
<1>3. DOMAIN (a \o b) = 1 .. Len(a) + Len(b)
  BY <1>1, LenProperties
<1>4. ASSUME NEW x \in ToSet(a \o b)
      PROVE  x \in ToSet(a) \cup ToSet(b)
  <2>1. PICK i \in 1 .. Len(a) + Len(b) : x = (a \o b)[i]
    BY <1>3 DEF ToSet
  <2>2. CASE i <= Len(a)
    <3>1. i \in 1 .. Len(a) /\ x = a[i]
      BY <1>1, <1>2, <2>1, <2>2
    <3> QED
      BY <1>2, <3>1 DEF ToSet
  <2>3. CASE ~(i <= Len(a))
    <3>1. i - Len(a) \in 1 .. Len(b) /\ x = b[i - Len(a)]
      BY <1>1, <1>2, <2>1, <2>3
    <3> QED
      BY <1>2, <3>1 DEF ToSet
  <2> QED
    BY <2>2, <2>3
<1>5. ASSUME NEW x \in ToSet(a)
      PROVE  x \in ToSet(a \o b)
  <2>1. PICK i \in 1 .. Len(a) : x = a[i]
    BY <1>2 DEF ToSet
  <2>2. i \in 1 .. Len(a) + Len(b) /\ i <= Len(a)
    BY <1>2
  <2> QED
    BY <1>1, <1>3, <2>1, <2>2 DEF ToSet
<1>6. ASSUME NEW x \in ToSet(b)
      PROVE  x \in ToSet(a \o b)
  <2>1. PICK i \in 1 .. Len(b) : x = b[i]
    BY <1>2 DEF ToSet
  <2>2. /\ Len(a) + i \in 1 .. Len(a) + Len(b) /\ ~(Len(a) + i <= Len(a))
        /\ (Len(a) + i) - Len(a) = i
    BY <1>2
  <2>3. (a \o b)[Len(a) + i] = b[i]
    BY <1>1, <2>2
  <2> QED
    BY <1>3, <2>1, <2>2, <2>3 DEF ToSet
<1> QED
  BY <1>1, <1>4, <1>5, <1>6

\* Flattening keeps the elements.
LEMMA FlattenElements ==
  ASSUME NEW R, NEW seqs \in Seq(Seq(R))
  PROVE  /\ FlattenSeq(seqs) \in Seq(R)
         /\ ToSet(FlattenSeq(seqs)) = UNION {ToSet(seqs[i]) : i \in 1 .. Len(seqs)}
<1> DEFINE n == Len(seqs)
           Upto(i) == UNION {ToSet(seqs[k]) : k \in 1 .. i}
<1>1. n \in Nat /\ \A i \in 1 .. n : seqs[i] \in Seq(R)
  BY LenProperties, ElementOfSeq
<1>2. PICK f \in [0 .. n -> Seq(R)] : Flattening(f, seqs)
  BY FlatteningExists
<1>3. f[0] = <<>> /\ FlattenSeq(seqs) = f[n] /\ \A i \in 1 .. n : f[i] = f[i - 1] \o seqs[i]
  BY <1>2 DEF Flattening
<1> HIDE DEF n
<1> DEFINE Kept == {i \in Nat : i <= n => ToSet(f[i]) = Upto(i)}
<1>4. 0 \in Kept
  <2>1. ToSet(f[0]) = {} /\ Upto(0) = {}
    BY <1>3 DEF ToSet
  <2> QED
    BY <2>1
<1>5. ASSUME NEW i \in Nat, i \in Kept
      PROVE  i + 1 \in Kept
  <2>1. ASSUME NEW k \in 1 .. n, k - 1 = i
        PROVE  ToSet(f[k]) = Upto(k)
    <3>1. f[i] \in Seq(R) /\ seqs[k] \in Seq(R) /\ f[k] = f[i] \o seqs[k]
      <4>1. i \in 0 .. n
        BY <1>1, <2>1
      <4>2. f[k] = f[i] \o seqs[k]
        BY <1>3, <2>1
      <4> QED
        BY <1>1, <1>2, <4>1, <4>2
    <3>2. ToSet(f[k]) = ToSet(f[i]) \cup ToSet(seqs[k])
      BY <3>1, ConcatElements
    <3>3. ToSet(f[i]) = Upto(i)
      BY <1>1, <1>5, <2>1
    <3>4. Upto(k) = Upto(i) \cup ToSet(seqs[k])
      <4>1. \A j : j \in 1 .. k <=> j \in 1 .. i \/ j = k
        BY <1>1, <2>1
      <4> QED
        BY <4>1
    <3> QED
      BY <3>2, <3>3, <3>4
  <2>2. i + 1 <= n => i + 1 \in 1 .. n /\ (i + 1) - 1 = i
    BY <1>1
  <2> HIDE DEF Upto
  <2>3. i + 1 <= n => ToSet(f[i + 1]) = Upto(i + 1)
    BY <2>1, <2>2
  <2> QED
    BY <2>3
<1>6. ToSet(f[n]) = Upto(n)
  <2>1. Nat \subseteq Kept
    <3> HIDE DEF Kept
    <3> QED
      BY <1>4, <1>5, Induction
  <2> HIDE DEF Upto
  <2> QED
    BY <1>1, <2>1
<1> QED
  BY <1>1, <1>2, <1>3, <1>6 DEF n

\* ElementsAt picks elements.
LEMMA ElementsOf ==
  ASSUME NEW R, NEW seq \in Seq(R), NEW positions
  PROVE  /\ ElementsAt(seq, positions) \in Seq(R)
         /\ ToSet(ElementsAt(seq, positions)) = {seq[i] : i \in (1 .. Len(seq)) \cap positions}
<1> DEFINE n == Len(seq)
           seqs == [i \in DOMAIN seq |-> IF i \in positions THEN <<seq[i]>> ELSE <<>>]
<1>1. n \in Nat /\ DOMAIN seq = 1 .. n /\ \A i \in 1 .. n : seq[i] \in R
  BY LenProperties, ElementOfSeq
<1>2. \A i \in 1 .. n : seqs[i] = IF i \in positions THEN <<seq[i]>> ELSE <<>>
  BY <1>1
<1>3. seqs \in Seq(Seq(R)) /\ Len(seqs) = n
  <2>1. seqs \in [1 .. n -> Seq(R)]
    BY <1>1
  <2> HIDE DEF seqs, n
  <2> QED
    BY <1>1, <2>1, FunctionIsSeq
<1> HIDE DEF seqs
<1>4. /\ FlattenSeq(seqs) \in Seq(R)
      /\ ToSet(FlattenSeq(seqs)) = UNION {ToSet(seqs[i]) : i \in 1 .. n}
  BY <1>3, FlattenElements
<1>5. \A i \in 1 .. n : ToSet(seqs[i]) = IF i \in positions THEN {seq[i]} ELSE {}
  <2> SUFFICES ASSUME NEW i \in 1 .. n
               PROVE  ToSet(seqs[i]) = IF i \in positions THEN {seq[i]} ELSE {}
    OBVIOUS
  <2>1. ToSet(<<seq[i]>>) = {seq[i]} /\ ToSet(<<>>) = {}
    BY DEF ToSet
  <2> HIDE DEF n
  <2> QED
    BY <1>2, <2>1
<1> HIDE DEF n
<1>6. UNION {ToSet(seqs[i]) : i \in 1 .. n} = {seq[i] : i \in (1 .. n) \cap positions}
  BY <1>5
<1>7. ElementsAt(seq, positions) = FlattenSeq(seqs)
  BY DEF ElementsAt, seqs
<1> QED
  BY <1>4, <1>6, <1>7 DEF n

-------------------------------------------------------------------------------
(* Tags. *)

\* Sequences of no and of one element.
LEMMA Alone ==
  ASSUME NEW S, NEW x \in S
  PROVE  <<x>> \in Seq(S) /\ Len(<<x>>) = 1 /\ <<x>>[1] = x /\ DOMAIN <<x>> = 1 .. 1
  OBVIOUS

LEMMA Nothing ==
  ASSUME NEW S
  PROVE  <<>> \in Seq(S)
  BY EmptySeq

\* A sequence over some set is one over a larger set.
LEMMA SeqWidens ==
  ASSUME NEW A, NEW B, A \subseteq B, NEW s \in Seq(A)
  PROVE  s \in Seq(B)
<1> DEFINE n == Len(s)
<1>1. n \in Nat /\ s \in [1 .. n -> B]
  BY LenProperties, ElementOfSeq
<1> HIDE DEF n
<1> QED
  BY <1>1, FunctionIsSeq

\* The tags of a language whose subtags are among W.
TagsIn(W, l) == {s \in Seq(W) : Len(s) >= 1 /\ s[1] = l}

LEMMA SplitTag ==
  ASSUME NEW W, NEW l, NEW s \in TagsIn(W, l)
  PROVE  /\ s \in Seq(W) /\ Len(s) \in Nat /\ Len(s) >= 1 /\ s[1] = l
         /\ DOMAIN s = 1 .. Len(s) /\ s # <<>>
         /\ \A i \in 1 .. Len(s) : s[i] \in W
  BY LenProperties, ElementOfSeq DEF TagsIn

LEMMA IsTag ==
  ASSUME NEW W, NEW l, NEW s \in Seq(W), NEW n \in Nat \ {0}, Len(s) = n, s[1] = l
  PROVE  s \in TagsIn(W, l)
<1>1. n >= 1
  OBVIOUS
<1> QED
  BY <1>1 DEF TagsIn

LEMMA FirstIsIn ==
  ASSUME NEW W, NEW l, NEW s \in TagsIn(W, l)
  PROVE  l \in W
<1> DEFINE n == Len(s)
<1>1. n \in Nat /\ n >= 1 /\ s[1] = l /\ \A i \in 1 .. n : s[i] \in W
  BY SplitTag
<1> HIDE DEF n
<1>2. 1 \in 1 .. n
  BY <1>1
<1> QED
  BY <1>1, <1>2

LEMMA ThreeSubtags ==
  ASSUME NEW W, NEW l \in W, NEW s \in W, NEW r \in W
  PROVE  <<l, s, r>> \in TagsIn(W, l)
<1> DEFINE t == <<l, s, r>>
           n == 3
<1>1. t \in Seq(W) /\ Len(t) = n /\ t[1] = l
  OBVIOUS
<1>2. n \in Nat \ {0}
  OBVIOUS
<1> HIDE DEF t, n
<1>3. t \in TagsIn(W, l)
  BY <1>1, <1>2, IsTag
<1> QED
  BY <1>3 DEF t

\* What truncation leaves is in the same language, and shorter.
LEMMA TruncationShape ==
  ASSUME NEW W, NEW l, NEW s \in TagsIn(W, l)
  PROVE  /\ Truncations(s) \in Seq(TagsIn(W, l))
         /\ \A t \in ToSet(Truncations(s)) :
              \E n \in 1 .. Len(s) - 1 : t = SubSeq(s, 1, n) /\ Len(t) = n
<1> DEFINE n == Len(s) - 1
           q == [k \in 1 .. Len(s) - 1 |-> SubSeq(s, 1, Len(s) - k)]
           P == {k \in 1 .. Len(s) - 1 : Reaches(s, Len(s) - k)}
<1>1. /\ s \in Seq(W) /\ Len(s) \in Nat /\ Len(s) >= 1 /\ s[1] = l /\ n \in Nat
      /\ \A i \in 1 .. Len(s) : s[i] \in W
  BY SplitTag
<1>2. ASSUME NEW k \in 1 .. n
      PROVE  /\ q[k] \in TagsIn(W, l)
             /\ \E m \in 1 .. n : q[k] = SubSeq(s, 1, m) /\ Len(q[k]) = m
  <2> DEFINE m == Len(s) - k
  <2>1. m \in 1 .. n /\ m <= Len(s) /\ q[k] = SubSeq(s, 1, m)
    BY <1>1
  <2>2. \A i \in 1 .. m : s[i] \in W
    BY <1>1, <2>1
  <2> HIDE DEF m, n
  <2>3. m \in Nat /\ m >= 1
    BY <2>1
  <2>4. /\ SubSeq(s, 1, m) \in Seq(W) /\ Len(SubSeq(s, 1, m)) = m
        /\ SubSeq(s, 1, m)[1] = s[1]
    BY <1>1, <2>2, <2>3
  <2> QED
    BY <1>1, <2>1, <2>3, <2>4 DEF TagsIn
<1>3. q \in Seq(TagsIn(W, l)) /\ Len(q) = n
  <2>1. q \in [1 .. n -> TagsIn(W, l)]
    BY <1>2
  <2> HIDE DEF q, n
  <2> QED
    BY <1>1, <2>1, FunctionIsSeq
<1> HIDE DEF q, P
<1>4. /\ ElementsAt(q, P) \in Seq(TagsIn(W, l))
      /\ ToSet(ElementsAt(q, P)) = {q[i] : i \in (1 .. Len(q)) \cap P}
  BY <1>3, ElementsOf
<1>5. Truncations(s) = ElementsAt(q, P)
  BY DEF Truncations, q, P
<1> HIDE DEF n
<1>6. ASSUME NEW t \in ToSet(Truncations(s))
      PROVE  \E m \in 1 .. n : t = SubSeq(s, 1, m) /\ Len(t) = m
  <2>1. PICK k \in 1 .. n : t = q[k]
    BY <1>3, <1>4, <1>5
  <2> QED
    BY <1>2, <2>1
<1> QED
  BY <1>4, <1>5, <1>6 DEF n

\* An alias is in the same language.
LEMMA AliasIsTag ==
  ASSUME NEW W, NEW l, NEW s \in TagsIn(W, l), HasAlias(s)
  PROVE  Alias(s) \in TagsIn(W, l)
<1> DEFINE rest == SubSeq(s, 3, Len(s))
<1>1. s \in Seq(W) /\ Len(s) \in Nat /\ Len(s) >= 3 /\ s[1] = l /\ l \in W
  BY SplitTag DEF HasAlias
<1>2. \A i \in 3 .. Len(s) : s[i] \in W
  BY <1>1, SplitTag
<1>3. rest \in Seq(W)
  BY <1>1, <1>2
<1> HIDE DEF rest
<1>4. <<l>> \o rest \in Seq(W) /\ Len(<<l>> \o rest) = 1 + Len(rest) /\ (<<l>> \o rest)[1] = l
  BY <1>1, <1>3
<1>5. Len(rest) \in Nat
  BY <1>3
<1>6. Alias(s) = <<l>> \o rest
  BY <1>1 DEF Alias, rest
<1>7. Len(<<l>> \o rest) >= 1
  BY <1>4, <1>5
<1> QED
  BY <1>4, <1>6, <1>7 DEF TagsIn

-------------------------------------------------------------------------------
(* Likely subtags. *)

\* A tag of three parts.
LEMMA JoinOfThree ==
  ASSUME NEW l, NEW s, NEW r, l # "", s # "", r # ""
  PROVE  Join(Triple(l, s, r)) = <<l, s, r>>
<1>1. Optional(l) = <<l>> /\ Optional(s) = <<s>> /\ Optional(r) = <<r>>
  BY DEF Optional
<1>2. Join(Triple(l, s, r)) = <<l>> \o <<s>> \o <<r>>
  BY <1>1 DEF Join, Triple
<1>3. <<l>> \o <<s>> \o <<r>> = <<l, s, r>>
  <2> DEFINE S == {l, s, r}
  <2>1. l \in S /\ s \in S /\ r \in S
    OBVIOUS
  <2> HIDE DEF S
  <2> QED
    BY <2>1, Joined
<1> QED
  BY <1>2, <1>3

LEMMA PartsOfThree ==
  ASSUME NEW l, NEW s \in Scripts, NEW r \in Regions
  PROVE  Parts(<<l, s, r>>) = Triple(l, s, r)
<1> DEFINE t == <<l, s, r>>
<1>1. Len(t) = 3 /\ t[1] = l /\ t[2] = s /\ t[3] = r
  OBVIOUS
<1> HIDE DEF t
<1>2. RegionAt(t, 3) = r
  BY <1>1 DEF RegionAt
<1> QED
  BY <1>1, <1>2 DEF Parts, t

\* What a tag says of its parts.
IsParts(p, l) == /\ p = Triple(l, p.script, p.region)
                 /\ p.script \in (Scripts \ {"Zzzz"}) \cup {""}
                 /\ p.region \in (Regions \ {"ZZ"}) \cup {""}

LEMMA KnownParts ==
  ASSUME NEW tag
  PROVE  IsParts(Known(Parts(tag)), tag[1])
<1>1. RegionAt(tag, 2) \in Regions \cup {""} /\ RegionAt(tag, 3) \in Regions \cup {""}
  BY DEF RegionAt
<1>2. \E s \in Scripts \cup {""}, r \in Regions \cup {""} : Parts(tag) = Triple(tag[1], s, r)
  BY <1>1 DEF Parts
<1>3. PICK s \in Scripts \cup {""}, r \in Regions \cup {""} : Parts(tag) = Triple(tag[1], s, r)
  BY <1>2
<1>4. Known(Parts(tag)) = Triple(tag[1], IF s = "Zzzz" THEN "" ELSE s, IF r = "ZZ" THEN "" ELSE r)
  <2> DEFINE q == Parts(tag)
  <2>1. q = [language |-> tag[1], script |-> s, region |-> r]
    BY <1>3 DEF Triple
  <2>2. Known(q) = [q EXCEPT !.script = IF q.script = "Zzzz" THEN "" ELSE q.script,
                             !.region = IF q.region = "ZZ" THEN "" ELSE q.region]
    BY DEF Known
  <2> HIDE DEF q
  <2>3. Known(q) = [language |-> tag[1], script |-> IF s = "Zzzz" THEN "" ELSE s,
                    region |-> IF r = "ZZ" THEN "" ELSE r]
    BY <2>1, <2>2
  <2> QED
    BY <2>3 DEF q, Triple
<1> DEFINE p == Known(Parts(tag))
           x == IF s = "Zzzz" THEN "" ELSE s
           y == IF r = "ZZ" THEN "" ELSE r
<1>5. x \in (Scripts \ {"Zzzz"}) \cup {""} /\ y \in (Regions \ {"ZZ"}) \cup {""}
  OBVIOUS
<1> HIDE DEF x, y
<1>6. p = Triple(tag[1], x, y)
  BY <1>4 DEF x, y
<1> HIDE DEF p
<1>7. p.script = x /\ p.region = y
  BY <1>6 DEF Triple
<1>8. IsParts(p, tag[1])
  BY <1>5, <1>6, <1>7 DEF IsParts
<1> QED
  BY <1>8 DEF p

\* Some key is always known: the last one is "und".
LEMMA SomeKeyIsKnown ==
  ASSUME NEW p
  PROVE  /\ KnownKey(p) \in 1 .. 7
         /\ Join(LikelyKeys(p)[KnownKey(p)]) \in DOMAIN LikelySubtags
<1> DEFINE keys == LikelyKeys(p)
           I == {i \in 1 .. Len(keys) : Join(keys[i]) \in DOMAIN LikelySubtags}
<1>1. Len(keys) = 7 /\ keys[7] = Triple("und", "", "")
  BY DEF LikelyKeys
<1>2. Join(Triple("und", "", "")) = <<"und">>
  <2>1. Optional("und") = <<"und">> /\ Optional("") = <<>>
    BY DEF Optional
  <2>2. <<"und">> \o <<>> \o <<>> = <<"und">>
    OBVIOUS
  <2> QED
    BY <2>1, <2>2 DEF Join, Triple
<1>3. KnownKey(p) = IF I # {} THEN Min(I) ELSE 0
  BY DEF KnownKey, SelectInSeq
<1> HIDE DEF keys
<1>4. 7 \in I
  <2>1. Join(keys[7]) \in DOMAIN LikelySubtags
    BY <1>1, <1>2, LikelyShape
  <2>2. 7 \in 1 .. Len(keys)
    <3>1. Len(keys) = 7
      BY <1>1
    <3>2. 7 \in 1 .. 7
      OBVIOUS
    <3> QED
      BY <3>1, <3>2
  <2> QED
    BY <2>1, <2>2
<1>5. Min(I) \in I
  <2> DEFINE n == 7
  <2>1. n \in Nat /\ I \in SUBSET (1 .. n) /\ I # {}
    BY <1>1, <1>4
  <2> HIDE DEF n, I
  <2> QED
    BY <2>1, LeastOf
<1> QED
  BY <1>1, <1>3, <1>4, <1>5 DEF keys

\* A tag maximizes to a language, a script and a region; what it says itself is
\* kept.
IsMaximum(max, tag, l, s, r) ==
  /\ s \in Scripts \ {"Zzzz"} /\ r \in Regions \ {"ZZ"}
  /\ tag[1] # "und" => l = tag[1]
  /\ Known(Parts(tag)).script # "" => s = Known(Parts(tag)).script
  /\ Known(Parts(tag)).region # "" => r = Known(Parts(tag)).region
  /\ max = Join(Triple(l, s, r))

LEMMA MaximumShape ==
  ASSUME NEW tag
  PROVE  \E l, s, r : IsMaximum(Maximize(tag), tag, l, s, r)
<1> DEFINE p == Known(Parts(tag))
           k == KnownKey(p)
           found == LikelySubtags[Join(LikelyKeys(p)[k])]
           m == MaximizeSubtags(p, found)
<1>1. IsParts(p, tag[1])
  BY KnownParts
<1>2. k \in 1 .. 7 /\ Join(LikelyKeys(p)[k]) \in DOMAIN LikelySubtags
  BY SomeKeyIsKnown
<1>3. found.script \in Scripts \ {"Zzzz"} /\ found.region \in Regions \ {"ZZ"}
  BY <1>2, LikelyShape
<1>4. Maximize(tag) = Join(m)
  BY <1>2 DEF Maximize, MaximizeParts, MaximizeBy
<1> HIDE DEF p, k, found
<1>5. p.language = tag[1]
  <2>1. p = [language |-> tag[1], script |-> p.script, region |-> p.region]
    BY <1>1 DEF IsParts, Triple
  <2> QED
    BY <2>1
<1>6. m = Triple(IF tag[1] # "und" THEN tag[1] ELSE found.language,
                 IF p.script # "" THEN p.script ELSE found.script,
                 IF p.region # "" THEN p.region ELSE found.region)
  BY <1>5 DEF MaximizeSubtags
<1> DEFINE s == IF p.script # "" THEN p.script ELSE found.script
           r == IF p.region # "" THEN p.region ELSE found.region
           l == IF tag[1] # "und" THEN tag[1] ELSE found.language
<1>7. s \in Scripts \ {"Zzzz"} /\ r \in Regions \ {"ZZ"}
  BY <1>1, <1>3 DEF IsParts
<1>8. tag[1] # "und" => l = tag[1]
  OBVIOUS
<1>9. IsMaximum(Maximize(tag), tag, l, s, r)
  <2>1. (p.script # "" => s = p.script) /\ (p.region # "" => r = p.region)
    OBVIOUS
  <2> HIDE DEF s, r, m
  <2>2. m = Triple(l, s, r)
    BY <1>6 DEF s, r
  <2> QED
    BY <1>4, <1>7, <1>8, <2>1, <2>2 DEF IsMaximum, p
<1> QED
  BY <1>9

\* In a language that is known, the maximum is three subtags long, and its own.
LEMMA MaximumIsTag ==
  ASSUME NEW tag, tag[1] \notin {"", "und"}
  PROVE  \E s \in Scripts, r \in Regions :
           /\ Maximize(tag) = <<tag[1], s, r>>
           /\ Parts(Maximize(tag)) = Triple(tag[1], s, r)
<1>1. PICK l, s, r : IsMaximum(Maximize(tag), tag, l, s, r)
  BY MaximumShape
<1>2. l = tag[1] /\ s \in Scripts /\ r \in Regions /\ Maximize(tag) = Join(Triple(l, s, r))
  BY <1>1 DEF IsMaximum
<1>3. l # "" /\ s # "" /\ r # ""
  BY <1>2, SubtagClasses
<1>4. Join(Triple(l, s, r)) = <<l, s, r>>
  BY <1>3, JoinOfThree
<1>5. Parts(<<l, s, r>>) = Triple(l, s, r)
  BY <1>2, PartsOfThree
<1> QED
  BY <1>2, <1>4, <1>5

LEMMA MaximumInLanguage ==
  ASSUME NEW W, Scripts \cup Regions \subseteq W, NEW l, l \notin {"", "und"},
         NEW tag \in TagsIn(W, l)
  PROVE  Maximize(tag) \in TagsIn(W, l)
<1>1. tag[1] = l /\ l \in W
  BY SplitTag, FirstIsIn
<1>2. PICK s \in Scripts, r \in Regions : Maximize(tag) = <<l, s, r>>
  BY <1>1, MaximumIsTag
<1>3. s \in W /\ r \in W
  OBVIOUS
<1>4. <<l, s, r>> \in TagsIn(W, l)
  BY <1>1, <1>3, ThreeSubtags
<1> QED
  BY <1>2, <1>4

\* A canonical tag is not made canonical first.
LEMMA OwnMaximum ==
  ASSUME NEW tag, tag # Invalid, ParseTag(tag) = tag
  PROVE  Maximizer(tag) = Maximize(tag)
  BY DEF Maximizer, MaximizedFrom

LEMMA TagIsValid ==
  ASSUME NEW W, NEW l, NEW tag \in TagsIn(W, l)
  PROVE  tag # Invalid
  BY SplitTag DEF Invalid

-------------------------------------------------------------------------------
(* The available locales. *)

\* What a supported locale makes available: itself, and derived locales that
\* have no data of their own.
AvailableOf(W, tag, backed) ==
  {a \in [locale : TagsIn(W, tag[1]), dataLocale : {tag}, derived : BOOLEAN] :
     IF a.derived THEN a.locale \notin backed ELSE a.locale = tag}

LEMMA AvailableShape ==
  ASSUME NEW W, Scripts \cup Regions \subseteq W, NEW l, l \notin {"", "und"},
         NEW tag \in TagsIn(W, l), ParseTag(tag) = tag, NEW backed
  PROVE  AvailableFrom(tag, backed) \in Seq(AvailableOf(W, tag, backed))
<1> DEFINE T == TagsIn(W, l)
           R == AvailableOf(W, tag, backed)
           alias(t) == IF HasAlias(t) THEN <<Alias(t)>> ELSE <<>>
           fallbacks(t) == IF HasAlias(t) THEN Truncations(Alias(t)) ELSE <<>>
           derived == alias(Maximizer(tag)) \o alias(tag) \o fallbacks(tag) \o Truncations(tag)
           P == {i \in DOMAIN derived : derived[i] \notin backed}
           unbacked == ElementsAt(derived, P)
           own == AvailableLocale(tag, tag, FALSE)
           rest == [i \in DOMAIN unbacked |-> AvailableLocale(unbacked[i], tag, TRUE)]
<1>1. \A t \in T : alias(t) \in Seq(T) /\ fallbacks(t) \in Seq(T)
  <2> SUFFICES ASSUME NEW t \in T
               PROVE  alias(t) \in Seq(T) /\ fallbacks(t) \in Seq(T)
    OBVIOUS
  <2>1. CASE HasAlias(t)
    <3>1. Alias(t) \in T
      BY <2>1, AliasIsTag
    <3>2. Truncations(Alias(t)) \in Seq(T)
      BY <3>1, TruncationShape
    <3>3. alias(t) = <<Alias(t)>> /\ fallbacks(t) = Truncations(Alias(t))
      BY <2>1
    <3>4. <<Alias(t)>> \in Seq(T)
      <4> DEFINE x == Alias(t)
      <4>1. x \in T
        BY <3>1
      <4> HIDE DEF x, T
      <4>2. <<x>> \in Seq(T)
        BY <4>1, Alone
      <4> QED
        BY <4>2 DEF x
    <3> HIDE DEF T, alias, fallbacks
    <3> QED
      BY <3>2, <3>3, <3>4
  <2>2. CASE ~HasAlias(t)
    <3>1. alias(t) = <<>> /\ fallbacks(t) = <<>>
      BY <2>2
    <3> HIDE DEF T, alias, fallbacks
    <3>2. <<>> \in Seq(T)
      BY Nothing
    <3> QED
      BY <3>1, <3>2
  <2> QED
    BY <2>1, <2>2
<1>2. Maximizer(tag) \in T /\ tag \in T /\ Truncations(tag) \in Seq(T)
  <2>1. Maximizer(tag) = Maximize(tag)
    BY TagIsValid, OwnMaximum
  <2> QED
    BY <2>1, MaximumInLanguage, TruncationShape
<1> HIDE DEF T, alias, fallbacks
<1>3. derived \in Seq(T)
  <2> DEFINE a == alias(Maximizer(tag))
             b == alias(tag)
             c == fallbacks(tag)
             e == Truncations(tag)
  <2>1. a \in Seq(T) /\ b \in Seq(T) /\ c \in Seq(T) /\ e \in Seq(T)
    BY <1>1, <1>2
  <2> HIDE DEF a, b, c, e
  <2>2. a \o b \in Seq(T)
    BY <2>1, ConcatElements
  <2>3. (a \o b) \o c \in Seq(T)
    BY <2>1, <2>2, ConcatElements
  <2>4. ((a \o b) \o c) \o e \in Seq(T)
    BY <2>1, <2>3, ConcatElements
  <2> QED
    BY <2>4 DEF a, b, c, e
<1> HIDE DEF derived
<1>4. DOMAIN derived = 1 .. Len(derived)
  BY <1>3, LenProperties
<1> HIDE DEF P
<1>5. unbacked \in Seq(T) /\ ToSet(unbacked) = {derived[i] : i \in (1 .. Len(derived)) \cap P}
  BY <1>3, ElementsOf
<1>6. \A t \in ToSet(unbacked) : t \notin backed
  BY <1>5 DEF P
<1> DEFINE n == Len(unbacked)
<1> HIDE DEF unbacked
<1>7. n \in Nat /\ DOMAIN unbacked = 1 .. n /\ \A i \in 1 .. n : unbacked[i] \in T
  BY <1>5, LenProperties, ElementOfSeq
<1>8. \A i \in 1 .. n : unbacked[i] \notin backed
  BY <1>6, <1>7 DEF ToSet
<1>9. tag[1] = l
  BY SplitTag
<1>10. own \in R
  BY <1>2, <1>9 DEF AvailableLocale, AvailableOf, T
<1>11. rest \in Seq(R)
  <2>1. \A i \in 1 .. n : AvailableLocale(unbacked[i], tag, TRUE) \in R
    BY <1>7, <1>8, <1>9 DEF AvailableLocale, AvailableOf, T
  <2>2. rest \in [1 .. n -> R]
    <3> HIDE DEF R, n
    <3> QED
      BY <1>7, <2>1
  <2> HIDE DEF rest, R, n
  <2> QED
    BY <1>7, <2>2, FunctionIsSeq
<1> HIDE DEF rest, R, own
<1>12. <<own>> \o rest \in Seq(R)
  <2>1. <<own>> \in Seq(R)
    BY <1>10, Alone
  <2> QED
    BY <1>11, <2>1, ConcatElements
<1>13. AvailableFrom(tag, backed) = <<own>> \o rest
  BY DEF AvailableFrom, DerivedLocales, Unbacked, DerivedTags, own, rest, unbacked, P, derived, alias,
         fallbacks
<1> QED
  BY <1>12, <1>13 DEF R

\* The words of the locales with data, and what likely subtags add.
Words == (UNION {ToSet(tag) : tag \in ToSet(Supported)}) \cup Scripts \cup Regions

LEMMA SupportedShape ==
  ASSUME NEW tag \in ToSet(Supported)
  PROVE  /\ tag \in TagsIn(Words, tag[1]) /\ ParseTag(tag) = tag
         /\ tag[1] \notin {"", "und"} \cup Scripts \cup Regions
<1> DEFINE n == Len(tag)
<1>1. /\ tag \in Seq(ToSet(tag)) /\ tag # <<>> /\ ParseTag(tag) = tag
      /\ tag[1] \notin {"", "und"} \cup Scripts \cup Regions
  BY DataShape
<1>2. tag \in Seq(Words)
  <2>1. ToSet(tag) \subseteq Words
    BY DEF Words
  <2> QED
    BY <1>1, <2>1, SeqWidens
<1>3. n \in Nat \ {0}
  BY <1>1, LenProperties, EmptySeq
<1>4. tag \in TagsIn(Words, tag[1])
  <2> DEFINE l == tag[1]
  <2>1. Len(tag) = n
    OBVIOUS
  <2> HIDE DEF n
  <2> QED
    BY <1>2, <1>3, <2>1, IsTag
<1> QED
  BY <1>1, <1>4

\* The available locales of the matcher.
Available == UNION {AvailableOf(Words, tag, ToSet(Supported)) : tag \in ToSet(Supported)}

LEMMA AvailableShapes ==
  ASSUME NEW a \in Available
  PROVE  /\ a.locale \in TagsIn(Words, a.locale[1])
         /\ a.locale[1] \notin {"", "und"} \cup Scripts \cup Regions
         /\ a.dataLocale \in ToSet(Supported) /\ a.dataLocale[1] = a.locale[1]
         /\ a.locale \in ToSet(Supported) => a.dataLocale = a.locale
         /\ a.derived \in BOOLEAN
<1>1. PICK tag \in ToSet(Supported) : a \in AvailableOf(Words, tag, ToSet(Supported))
  BY DEF Available
<1>2. tag[1] \notin {"", "und"} \cup Scripts \cup Regions
  BY SupportedShape
<1>3. /\ a.locale \in TagsIn(Words, tag[1]) /\ a.dataLocale = tag /\ a.derived \in BOOLEAN
      /\ IF a.derived THEN a.locale \notin ToSet(Supported) ELSE a.locale = tag
  BY <1>1 DEF AvailableOf
<1>4. a.locale[1] = tag[1]
  BY <1>3 DEF TagsIn
<1> QED
  BY <1>2, <1>3, <1>4

LEMMA MatcherAvailable ==
  /\ AvailableLocalesFor(Supported) \in Seq(Available)
<1> DEFINE n == Len(Supported)
           from == [i \in DOMAIN Supported |-> AvailableFrom(Supported[i], ToSet(Supported))]
           all == FlattenSeq(from)
           P == {m \in DOMAIN all : \A k \in 1 .. m - 1 : all[k].locale # all[m].locale}
<1>1. n \in Nat /\ DOMAIN Supported = 1 .. n /\ \A i \in 1 .. n : Supported[i] \in ToSet(Supported)
  <2>1. Supported \in Seq(ToSet(Supported))
    BY DataShape
  <2> QED
    BY <2>1, LenProperties, ElementOfSeq
<1>2. \A i \in 1 .. n : AvailableFrom(Supported[i], ToSet(Supported)) \in Seq(Available)
  <2> SUFFICES ASSUME NEW i \in 1 .. n
               PROVE  AvailableFrom(Supported[i], ToSet(Supported)) \in Seq(Available)
    OBVIOUS
  <2> DEFINE tag == Supported[i]
             l == tag[1]
             backed == ToSet(Supported)
             W == Words
  <2>1. tag \in backed
    BY <1>1
  <2>2. tag \in TagsIn(W, l) /\ l \notin {"", "und"} /\ ParseTag(tag) = tag
    BY <2>1, SupportedShape
  <2>3. Scripts \cup Regions \subseteq W
    <3> HIDE DEF from, all, P, n, tag, l, backed
    <3> QED
      BY DEF Words
  <2> HIDE DEF l, W, tag, backed
  <2>4. AvailableFrom(tag, backed) \in Seq(AvailableOf(W, tag, backed))
    BY <2>2, <2>3, AvailableShape
  <2>5. AvailableOf(W, tag, backed) \subseteq Available
    BY <2>1 DEF Available, W, backed
  <2>6. AvailableFrom(tag, backed) \in Seq(Available)
    BY <2>4, <2>5, SeqWidens
  <2> QED
    BY <2>6 DEF tag, backed
<1>3. from \in Seq(Seq(Available))
  <2>1. from \in [1 .. n -> Seq(Available)]
    BY <1>1, <1>2
  <2> HIDE DEF from, n
  <2> QED
    BY <1>1, <2>1, FunctionIsSeq
<1> HIDE DEF from
<1>4. all \in Seq(Available)
  BY <1>3, FlattenElements
<1> HIDE DEF all, P
<1>5. ElementsAt(all, P) \in Seq(Available)
  BY <1>4, ElementsOf
<1>6. AvailableLocalesFor(Supported) = ElementsAt(all, P)
  BY DEF AvailableLocalesFor, FirstOccurrences, P, all, from
<1> QED
  BY <1>5, <1>6

\* The matcher: every available locale has its maximum and its data, and no tag
\* is longer than some bound.
LEMMA MatcherFacts ==
  ASSUME NEW tag \in Matcher.exact
  PROVE  /\ tag \in TagsIn(Words, tag[1])
         /\ tag[1] \notin {"", "und"} \cup Scripts \cup Regions
         /\ ParseTag(tag) = tag
         /\ Matcher.maximized[tag] = Maximizer(tag) /\ Maximizer(tag) = Maximize(tag)
         /\ Matcher.data[tag] \in ToSet(Supported) /\ Matcher.data[tag][1] = tag[1]
         /\ tag \in ToSet(Supported) => Matcher.data[tag] = tag
<1> DEFINE available == AvailableLocalesFor(Supported)
           exact == {available[j].locale : j \in DOMAIN available}
           at == CHOOSE j \in DOMAIN available : available[j].locale = tag
<1>1. /\ Matcher.exact = exact
      /\ Matcher.maximized = [t \in exact |-> Maximizer(t)]
      /\ Matcher.data = [t \in exact |->
           available[CHOOSE j \in DOMAIN available : available[j].locale = t].dataLocale]
  BY DEF Matcher, NewMatcher, CompiledMatcher
<1>2. available \in Seq(Available)
  BY MatcherAvailable
<1> HIDE DEF available
<1>3. \A j \in DOMAIN available : available[j] \in Available
  BY <1>2, LenProperties, ElementOfSeq
<1>4. at \in DOMAIN available /\ available[at].locale = tag
  BY <1>1
<1>5. tag \in exact
  BY <1>1
<1> HIDE DEF exact
<1>6. Matcher.maximized[tag] = Maximizer(tag) /\ Matcher.data[tag] = available[at].dataLocale
  BY <1>1, <1>5
<1> HIDE DEF at
<1> DEFINE a == available[at]
<1>7. a \in Available /\ a.locale = tag
  BY <1>3, <1>4
<1> HIDE DEF a
<1>8. /\ a.locale \in TagsIn(Words, a.locale[1])
      /\ a.locale[1] \notin {"", "und"} \cup Scripts \cup Regions
      /\ a.dataLocale \in ToSet(Supported) /\ a.dataLocale[1] = a.locale[1]
      /\ a.locale \in ToSet(Supported) => a.dataLocale = a.locale
  BY <1>7, AvailableShapes
<1>9. Matcher.data[tag] = a.dataLocale
  BY <1>6 DEF a
<1>10. ParseTag(tag) = tag
  BY DataIsCanonical
<1>11. Maximizer(tag) = Maximize(tag)
  <2> DEFINE l == tag[1]
  <2>1. tag \in TagsIn(Words, l)
    BY <1>7, <1>8
  <2> HIDE DEF l
  <2> QED
    BY <1>10, <2>1, TagIsValid, OwnMaximum
<1> QED
  BY <1>6, <1>7, <1>8, <1>9, <1>10, <1>11

LEMMA MatcherIndex ==
  \E n \in Nat :
    /\ DOMAIN Matcher.available = 1 .. n
    /\ Matcher.exact = {Matcher.available[j].locale : j \in 1 .. n}
    /\ \A j \in 1 .. n : Matcher.available[j].locale \in Matcher.exact
                         /\ Matcher.available[j].derived \in BOOLEAN
<1> DEFINE available == AvailableLocalesFor(Supported)
           n == Len(available)
<1>1. /\ Matcher.available = available
      /\ Matcher.exact = {available[j].locale : j \in DOMAIN available}
  BY DEF Matcher, NewMatcher, CompiledMatcher
<1>2. n \in Nat /\ DOMAIN available = 1 .. n /\ \A j \in 1 .. n : available[j] \in Available
  BY MatcherAvailable, LenProperties, ElementOfSeq
<1> HIDE DEF available, n
<1>3. \A j \in 1 .. n : available[j].derived \in BOOLEAN
  BY <1>2, AvailableShapes
<1>4. \A j \in 1 .. n : available[j].locale \in Matcher.exact
  BY <1>1, <1>2
<1> QED
  BY <1>1, <1>2, <1>3, <1>4

-------------------------------------------------------------------------------
(* Lookup. *)

LEMMA NoTagIsUnavailable == NoTag \notin Matcher.exact
<1>1. ASSUME NoTag \in Matcher.exact
      PROVE  FALSE
  <2>1. NoTag \in TagsIn(Words, NoTag[1])
    BY <1>1, MatcherFacts
  <2>2. NoTag # <<>>
    BY <2>1, SplitTag
  <2> QED
    BY <2>2 DEF NoTag
<1> QED
  BY <1>1

\* No available tag is longer than some bound.
LEMMA LengthsBounded ==
  \E b \in Nat : \A tag \in Matcher.exact : Len(tag) \in Nat /\ Len(tag) <= b
<1>1. PICK n \in Nat : Matcher.exact = {Matcher.available[j].locale : j \in 1 .. n}
  BY MatcherIndex
<1> DEFINE L(j) == Len(Matcher.available[j].locale)
           Bounded(b, i) == \A j \in 1 .. i : L(j) \in Nat /\ L(j) <= b
           Kept == {i \in Nat : i <= n => \E b \in Nat : Bounded(b, i)}
<1>2. \A j \in 1 .. n : L(j) \in Nat
  <2> SUFFICES ASSUME NEW j \in 1 .. n
               PROVE  L(j) \in Nat
    OBVIOUS
  <2> DEFINE tag == Matcher.available[j].locale
  <2>1. tag \in Matcher.exact
    BY <1>1
  <2> HIDE DEF tag
  <2>2. tag \in TagsIn(Words, tag[1])
    BY <2>1, MatcherFacts
  <2>3. Len(tag) \in Nat
    BY <2>2, SplitTag
  <2> QED
    BY <2>3 DEF tag
<1> HIDE DEF L
<1>3. 0 \in Kept
  OBVIOUS
<1>4. ASSUME NEW i \in Nat, i \in Kept
      PROVE  i + 1 \in Kept
  <2>1. ASSUME i + 1 <= n
        PROVE  \E b \in Nat : Bounded(b, i + 1)
    <3>1. PICK b \in Nat : Bounded(b, i)
      BY <1>4, <2>1
    <3>2. L(i + 1) \in Nat
      BY <1>2, <2>1
    <3>3. Bounded(b + L(i + 1), i + 1)
      BY <3>1, <3>2
    <3>4. b + L(i + 1) \in Nat
      BY <3>2
    <3> QED
      BY <3>3, <3>4
  <2> QED
    BY <2>1
<1>5. Nat \subseteq Kept
  <2> HIDE DEF Kept
  <2> QED
    BY <1>3, <1>4, Induction
<1>6. PICK b \in Nat : Bounded(b, n)
  <2>1. n \in Kept
    BY <1>5
  <2>2. n <= n
    OBVIOUS
  <2> HIDE DEF Bounded
  <2> QED
    BY <2>1, <2>2
<1>7. \A tag \in Matcher.exact : \E j \in 1 .. n : Len(tag) = L(j)
  BY <1>1 DEF L
<1> QED
  BY <1>6, <1>7

\* Of some available tags, the longest is one of them.
LEMMA LongestIsOne ==
  ASSUME NEW tags \in SUBSET Matcher.exact
  PROVE  /\ tags = {} => Longest(tags) = NoTag
         /\ tags # {} => Longest(tags) \in tags /\ \A u \in tags : Len(u) <= Len(Longest(tags))
<1>1. PICK b \in Nat : \A tag \in Matcher.exact : Len(tag) \in Nat /\ Len(tag) <= b
  BY LengthsBounded
<1>2. ASSUME tags # {}
      PROVE  \E t \in tags : \A u \in tags : Len(u) <= Len(t)
  <2> DEFINE missing == {b - Len(t) : t \in tags}
  <2>1. missing \in SUBSET Nat
    BY <1>1
  <2>2. missing # {}
    BY <1>2
  <2>3. PICK m \in missing : \A k \in missing : m <= k
    <3> HIDE DEF missing
    <3> QED
      BY <2>1, <2>2, LeastElement
  <2>4. PICK t \in tags : m = b - Len(t)
    BY <2>3
  <2>5. ASSUME NEW u \in tags
        PROVE  Len(u) <= Len(t)
    <3>1. m <= b - Len(u)
      BY <2>3
    <3>2. Len(u) \in Nat /\ Len(t) \in Nat
      BY <1>1
    <3> QED
      BY <2>4, <3>1, <3>2
  <2> QED
    BY <2>5
<1> QED
  BY <1>2 DEF Longest

\* A lookup finds an available locale or none; an available tag finds itself.
LEMMA LookupFinds ==
  ASSUME NEW tag
  PROVE  /\ BestAvailableLocale(Matcher, tag) \in Matcher.exact \cup {NoTag}
         /\ tag \in Matcher.exact => BestAvailableLocale(Matcher, tag) = tag
<1> DEFINE tags == {t \in {tag} \cup ToSet(Truncations(tag)) : t \in Matcher.exact}
           found == Longest(tags)
<1>1. tags \in SUBSET Matcher.exact /\ BestAvailableLocale(Matcher, tag) = found
  BY DEF BestAvailableLocale
<1>2. /\ tags = {} => found = NoTag
      /\ tags # {} => found \in tags /\ \A u \in tags : Len(u) <= Len(found)
  <2> HIDE DEF tags
  <2> QED
    BY <1>1, LongestIsOne
<1> HIDE DEF found
<1>3. ASSUME tag \in Matcher.exact
      PROVE  found = tag
  <2>1. tag \in tags
    BY <1>3
  <2>2. Len(tag) <= Len(found) /\ found \in tags
    BY <1>2, <2>1
  <2>3. tag \in TagsIn(Words, tag[1])
    BY <1>3, MatcherFacts
  <2>4. ASSUME found \in ToSet(Truncations(tag))
        PROVE  FALSE
    <3> DEFINE n == Len(tag)
    <3>1. n \in Nat
      BY <2>3, SplitTag
    <3>2. \E m \in 1 .. n - 1 : Len(found) = m
      BY <2>3, <2>4, TruncationShape
    <3>3. n <= Len(found)
      BY <2>2
    <3> HIDE DEF n
    <3> QED
      BY <3>1, <3>2, <3>3
  <2> QED
    BY <2>2, <2>4
<1> QED
  BY <1>1, <1>2, <1>3

\* What SelectInSeq finds.
FirstIn(k, I, n) == /\ k \in 0 .. n
                    /\ k = 0 => I = {}
                    /\ k # 0 => k \in I

LEMMA FirstOfSome ==
  ASSUME NEW n \in Nat, NEW I \in SUBSET (1 .. n)
  PROVE  FirstIn(IF I # {} THEN Min(I) ELSE 0, I, n)
<1>1. CASE I = {}
  BY <1>1 DEF FirstIn
<1>2. CASE I # {}
  <2> DEFINE m == Min(I)
  <2>1. m \in I
    BY <1>2, LeastOf
  <2> HIDE DEF m
  <2>2. m \in 1 .. n
    BY <2>1
  <2>3. m \in 0 .. n
    BY <2>2
  <2>4. FirstIn(m, I, n)
    BY <1>2, <2>1, <2>3 DEF FirstIn
  <2> QED
    BY <1>2, <2>4 DEF m
<1> QED
  BY <1>1, <1>2

-------------------------------------------------------------------------------
(* Distances. *)

\* A distance is a natural number; by a rule, or by none, it is not 0.
LEMMA ComponentDistances ==
  ASSUME NEW paradigms, NEW d, NEW s
  PROVE  ComponentDistance(paradigms, d, s) \in Nat \ {0}
<1> DEFINE n == Len(Rules)
           I == {i \in 1 .. Len(Rules) : Applies(Rules[i], d, s)}
           k == SelectInSeq(Rules, LAMBDA r : Applies(r, d, s))
           same == Join(d) \in paradigms <=> Join(s) \in paradigms
<1>1. n \in Nat /\ DOMAIN Rules = 1 .. n /\ \A i \in 1 .. n : Rules[i].distance \in Nat \ {0}
  BY RuleShape, LenProperties
<1>2. k = IF I # {} THEN Min(I) ELSE 0
  BY DEF SelectInSeq
<1>3. k \in 0 .. n
  <2>1. I \in SUBSET (1 .. n)
    OBVIOUS
  <2> HIDE DEF I, n, k
  <2>2. FirstIn(IF I # {} THEN Min(I) ELSE 0, I, n)
    BY <1>1, <2>1, FirstOfSome
  <2> QED
    BY <1>2, <2>2 DEF FirstIn
<1> HIDE DEF I, k, n
<1>4. ComponentDistance(paradigms, d, s) = RuleDistance(k, same)
  BY DEF ComponentDistance, k
<1> HIDE DEF same
<1>5. CASE k = 0
  <2>1. RuleDistance(k, same) = NoRuleDistance
    BY <1>5 DEF RuleDistance
  <2> QED
    BY <1>4, <2>1 DEF NoRuleDistance
<1>6. CASE k # 0
  <2> DEFINE x == Rules[k].distance
             y == IF same THEN 0 ELSE 1
  <2>1. x \in Nat \ {0}
    <3>1. k \in 1 .. n
      BY <1>1, <1>3, <1>6
    <3> QED
      BY <1>1, <3>1
  <2>2. RuleDistance(k, same) = 10 * x - y
    BY <1>6 DEF RuleDistance
  <2>3. y \in {0, 1}
    OBVIOUS
  <2> HIDE DEF x, y
  <2>4. 10 * x - y \in Nat \ {0}
    BY <2>1, <2>3
  <2> QED
    BY <1>4, <2>2, <2>4
<1> QED
  BY <1>5, <1>6

\* Tags are at distance 0 only if they have the same parts.
LEMMA Distances ==
  ASSUME NEW paradigms, NEW d, NEW s
  PROVE  /\ Distance(paradigms, d, s) \in Nat
         /\ Distance(paradigms, d, s) = 0 =>
              /\ Parts(d).language = Parts(s).language
              /\ Parts(d).script = Parts(s).script
              /\ Parts(d).region = Parts(s).region
<1> DEFINE p == Parts(d)
           q == Parts(s)
           language == ComponentDistance(paradigms, Triple(p.language, "", ""),
                                         Triple(q.language, "", ""))
           script == ComponentDistance(paradigms, Triple(p.language, p.script, ""),
                                       Triple(q.language, q.script, ""))
           region == ComponentDistance(paradigms, p, q)
           x == IF p.language = q.language THEN 0 ELSE language
           y == IF p.script = q.script THEN 0 ELSE script
           z == IF p.region = q.region THEN 0 ELSE region
<1>1. language \in Nat \ {0} /\ script \in Nat \ {0} /\ region \in Nat \ {0}
  BY ComponentDistances
<1>2. Distance(paradigms, d, s) = x + y + z
  BY DEF Distance, PartsDistance
<1> HIDE DEF p, q, language, script, region
<1>3. /\ x \in Nat /\ (x = 0 => p.language = q.language)
      /\ y \in Nat /\ (y = 0 => p.script = q.script)
      /\ z \in Nat /\ (z = 0 => p.region = q.region)
  BY <1>1
<1> HIDE DEF x, y, z
<1>4. x + y + z \in Nat /\ (x + y + z = 0 => x = 0 /\ y = 0 /\ z = 0)
  BY <1>3
<1> QED
  BY <1>2, <1>3, <1>4 DEF p, q

\* The parts of a tag are a triple: equal one by one, they are equal.
LEMMA SameParts ==
  ASSUME NEW d, NEW s, Parts(d).language = Parts(s).language,
         Parts(d).script = Parts(s).script, Parts(d).region = Parts(s).region
  PROVE  Parts(d) = Parts(s)
<1>1. \A t : \E l, x, y : Parts(t) = [language |-> l, script |-> x, region |-> y]
  BY DEF Parts, Triple
<1>2. PICK l, x, y : Parts(d) = [language |-> l, script |-> x, region |-> y]
  BY <1>1
<1>3. PICK m, u, v : Parts(s) = [language |-> m, script |-> u, region |-> v]
  BY <1>1
<1>4. l = m /\ x = u /\ y = v
  BY <1>2, <1>3
<1> QED
  BY <1>2, <1>3, <1>4

\* A request against an available locale.
IsCandidate(c, requested) ==
  /\ c.index \in Nat /\ c.index + 1 \in DOMAIN requested
  /\ c.at \in Nat /\ Matcher.available[c.at].locale \in Matcher.exact
  /\ c.distance \in Nat
  /\ c.distance = 0 =>
       Parts(Maximizer(requested[1])) = Parts(Maximizer(Matcher.available[c.at].locale))

LEMMA MaximizedIsMaximum ==
  ASSUME NEW tag
  PROVE  Maximized(Matcher, tag) = Maximizer(tag)
  BY MatcherFacts DEF Maximized

LEMMA CandidateShape ==
  ASSUME NEW R, NEW requested \in Seq(R), NEW i \in DOMAIN requested,
         NEW c \in Candidates(Matcher, Maximized(Matcher, requested[i]), i - 1)
  PROVE  IsCandidate(c, requested)
<1> DEFINE k == i - 1
           max == Maximizer(requested[i])
           far(a) == Distance(Matcher.paradigms, max, Matcher.maximized[a.locale])
           away(a) == far(a) + OrderPenalty * k + (IF a.derived THEN DerivedPenalty ELSE 0)
<1>1. i \in 1 .. Len(requested) /\ Len(requested) \in Nat
  BY LenProperties
<1>2. k \in Nat /\ k + 1 = i
  BY <1>1
<1>3. PICK n \in Nat : /\ DOMAIN Matcher.available = 1 .. n
                       /\ \A j \in 1 .. n : /\ Matcher.available[j].locale \in Matcher.exact
                                            /\ Matcher.available[j].derived \in BOOLEAN
  BY MatcherIndex
<1>4. c \in {[index |-> k, at |-> j, distance |-> away(Matcher.available[j])] :
               j \in DOMAIN Matcher.available}
  BY MaximizedIsMaximum DEF Candidates
<1> HIDE DEF k, away
<1>5. PICK j \in 1 .. n : c = [index |-> k, at |-> j, distance |-> away(Matcher.available[j])]
  BY <1>3, <1>4
<1> DEFINE a == Matcher.available[j]
           own == Matcher.maximized[a.locale]
<1>6. c.index = k /\ c.at = j /\ c.distance = away(a)
  BY <1>5
<1>7. a.locale \in Matcher.exact /\ a.derived \in BOOLEAN
  BY <1>3
<1>8. own = Maximizer(a.locale)
  <2> HIDE DEF a
  <2> QED
    BY <1>7, MatcherFacts
<1> HIDE DEF a, max
<1>9. /\ far(a) \in Nat
      /\ far(a) = 0 => Parts(max) = Parts(Maximizer(a.locale))
  <2> DEFINE p == Matcher.paradigms
  <2>1. far(a) = Distance(p, max, own)
    OBVIOUS
  <2> HIDE DEF p, own
  <2>2. /\ Distance(p, max, own) \in Nat
        /\ Distance(p, max, own) = 0 => Parts(max) = Parts(own)
    BY Distances, SameParts
  <2> HIDE DEF far
  <2> QED
    BY <1>8, <2>1, <2>2
<1> HIDE DEF far, own
<1>10. away(a) \in Nat /\ (away(a) = 0 => far(a) = 0 /\ k = 0)
  <2> DEFINE x == far(a)
             z == IF a.derived THEN DerivedPenalty ELSE 0
  <2>1. x \in Nat /\ z \in Nat
    BY <1>9 DEF DerivedPenalty
  <2>2. away(a) = x + 40 * k + z
    BY DEF away, OrderPenalty
  <2> HIDE DEF x, z
  <2>3. x + 40 * k + z \in Nat /\ (x + 40 * k + z = 0 => x = 0 /\ k = 0)
    BY <1>2, <2>1
  <2> QED
    BY <2>2, <2>3 DEF x
<1>11. away(a) = 0 => Parts(Maximizer(requested[1])) = Parts(Maximizer(a.locale))
  <2>1. k = 0 => i = 1
    BY <1>2
  <2> QED
    BY <1>9, <1>10, <2>1 DEF max
<1>12. /\ c.index \in Nat /\ c.index + 1 \in DOMAIN requested
       /\ c.at \in Nat
  BY <1>2, <1>6
<1>13. /\ Matcher.available[c.at].locale \in Matcher.exact
       /\ c.distance \in Nat
       /\ c.distance = 0 =>
            Parts(Maximizer(requested[1])) = Parts(Maximizer(Matcher.available[c.at].locale))
  BY <1>6, <1>7, <1>10, <1>11 DEF a
<1> QED
  BY <1>12, <1>13 DEF IsCandidate

\* Of some candidates one is the nearest.
LEMMA NearestIsOne ==
  ASSUME NEW S, S # {}, \A c \in S : c.distance \in Nat /\ c.index \in Nat /\ c.at \in Nat
  PROVE  (CHOOSE c \in S : \A d \in S : Before(c, d)) \in S
<1> DEFINE D == {c.distance : c \in S}
<1>1. PICK x \in D : \A y \in D : x <= y
  <2>1. D \in SUBSET Nat /\ D # {}
    OBVIOUS
  <2> HIDE DEF D
  <2> QED
    BY <2>1, LeastElement
<1> DEFINE S1 == {c \in S : c.distance = x}
           I == {c.index : c \in S1}
<1>2. PICK i \in I : \A y \in I : i <= y
  <2>1. I \in SUBSET Nat /\ I # {}
    BY <1>1
  <2> HIDE DEF I
  <2> QED
    BY <2>1, LeastElement
<1> DEFINE S2 == {c \in S1 : c.index = i}
           A == {c.at : c \in S2}
<1>3. PICK a \in A : \A y \in A : a <= y
  <2>1. A \in SUBSET Nat /\ A # {}
    BY <1>2
  <2> HIDE DEF A
  <2> QED
    BY <2>1, LeastElement
<1>4. PICK c \in S2 : c.at = a
  BY <1>3
<1>5. ASSUME NEW d \in S
      PROVE  Before(c, d)
  <2>1. x <= d.distance
    BY <1>1
  <2>2. c.distance = x /\ c.index = i
    BY <1>4
  <2>3. d.distance = x => i <= d.index
    BY <1>2
  <2>4. d.distance = x /\ d.index = i => a <= d.at
    BY <1>3
  <2>5. x \in Nat /\ i \in Nat /\ d.distance \in Nat /\ d.index \in Nat
    BY <1>1, <1>2
  <2>6. x < d.distance \/ x = d.distance
    BY <2>1, <2>5
  <2>7. d.distance = x => i < d.index \/ i = d.index
    BY <2>3, <2>5
  <2> QED
    BY <1>4, <2>2, <2>4, <2>6, <2>7 DEF Before
<1>6. c \in S
  OBVIOUS
<1> QED
  BY <1>5, <1>6

-------------------------------------------------------------------------------
(* Best fit. *)

\* What a best fit finds: nothing, or an available locale for some request; at
\* distance 0, it and the first request have the same maximum.
IsFound(found, requested) ==
  \/ found.supported = NoTag
  \/ /\ found.supported \in Matcher.exact
     /\ found.index \in Nat /\ found.index + 1 \in DOMAIN requested
     /\ found.distance = 0 =>
          Parts(Maximizer(requested[1])) = Parts(Maximizer(found.supported))

LEMMA NearestFinds ==
  ASSUME NEW R, NEW requested \in Seq(R)
  PROVE  /\ IsFound(Nearest(Matcher, requested), requested)
         /\ \A i \in DOMAIN requested :
              \A c \in Candidates(Matcher, Maximized(Matcher, requested[i]), i - 1) :
                c.distance >= Threshold \/ Nearest(Matcher, requested).supported # NoTag
<1> DEFINE S == UNION {Candidates(Matcher, Maximized(Matcher, requested[i]), i - 1) :
                         i \in DOMAIN requested}
           top == CHOOSE c \in S : \A d \in S : Before(c, d)
           found == Nearest(Matcher, requested)
<1>1. \A c \in S : IsCandidate(c, requested)
  <2> SUFFICES ASSUME NEW c \in S
               PROVE  IsCandidate(c, requested)
    OBVIOUS
  <2>1. PICK i \in DOMAIN requested :
              c \in Candidates(Matcher, Maximized(Matcher, requested[i]), i - 1)
    OBVIOUS
  <2> QED
    BY <2>1, CandidateShape
<1>2. found = NearestOf(Matcher, S)
  BY DEF Nearest
<1>3. \A i \in DOMAIN requested :
        \A c \in Candidates(Matcher, Maximized(Matcher, requested[i]), i - 1) : c \in S
  OBVIOUS
<1> HIDE DEF S, found
<1>4. CASE \A c \in S : c.distance >= Threshold
  <2>1. IsFound(found, requested)
    BY <1>2, <1>4 DEF NearestOf, NoMatch, BestMatch, IsFound
  <2> QED
    BY <1>3, <1>4, <2>1 DEF found
<1>5. CASE ~(\A c \in S : c.distance >= Threshold)
  <2>1. S # {}
    BY <1>5
  <2>2. top \in S
    <3>1. \A c \in S : c.distance \in Nat /\ c.index \in Nat /\ c.at \in Nat
      BY <1>1 DEF IsCandidate
    <3> QED
      BY <2>1, <3>1, NearestIsOne
  <2>3. found = BestMatch(top.index, Matcher.available[top.at].locale, top.distance)
    BY <1>2, <1>5 DEF NearestOf
  <2> HIDE DEF top
  <2>4. IsCandidate(top, requested)
    BY <1>1, <2>2
  <2>5. /\ found.index = top.index /\ found.distance = top.distance
        /\ found.supported = Matcher.available[top.at].locale
    BY <2>3 DEF BestMatch
  <2>6. IsFound(found, requested)
    BY <2>4, <2>5 DEF IsCandidate, IsFound
  <2>7. found.supported # NoTag
    BY <2>4, <2>5, NoTagIsUnavailable DEF IsCandidate
  <2> QED
    BY <2>6, <2>7 DEF found
<1> QED
  BY <1>4, <1>5

\* A locale the maximum falls back to and that has this maximum has the same
\* parts: a maximum is its own.
LEMMA MaximumSettles ==
  ASSUME NEW tag, Maximize(tag) \in Matcher.exact
  PROVE  Maximize(Maximize(tag)) = Maximize(tag)
<1> DEFINE max == Maximize(tag)
<1>1. PICK l, s, r : IsMaximum(Maximize(tag), tag, l, s, r)
  BY MaximumShape
<1>2. s \in Scripts /\ r \in Regions /\ max = Join(Triple(l, s, r))
  BY <1>1 DEF IsMaximum
<1>3. s # "" /\ r # ""
  BY <1>2, SubtagClasses
<1>4. max[1] \notin {"", "und"} \cup Scripts \cup Regions
  BY MatcherFacts
<1>5. l # ""
  <2>1. ASSUME l = ""
        PROVE  FALSE
    <3>1. Join(Triple(l, s, r)) = <<>> \o <<s>> \o <<r>>
      BY <1>3, <2>1 DEF Join, Triple, Optional
    <3>2. <<>> \o <<s>> \o <<r>> = <<s, r>>
      <4> DEFINE S == {s, r}
                 x == <<s>>
      <4>1. s \in S /\ r \in S /\ x \in Seq(S)
        OBVIOUS
      <4> HIDE DEF S, x
      <4>2. <<>> \o x = x
        BY <4>1, ConcatEmptySeq
      <4>3. <<s>> \o <<r>> = <<s, r>>
        BY <4>1, Joined
      <4> QED
        BY <4>2, <4>3 DEF x
    <3>3. max[1] = s
      BY <1>2, <3>1, <3>2
    <3> QED
      BY <1>2, <1>4, <3>3
  <2> QED
    BY <2>1
<1>6. max = <<l, s, r>>
  BY <1>2, <1>3, <1>5, JoinOfThree
<1>7. max[1] = l
  BY <1>6
<1>8. Known(Parts(max)).script = s /\ Known(Parts(max)).region = r
  <2>1. Parts(max) = [language |-> l, script |-> s, region |-> r]
    BY <1>2, <1>6, PartsOfThree DEF Triple
  <2>2. s # "Zzzz" /\ r # "ZZ"
    BY <1>1 DEF IsMaximum
  <2> HIDE DEF max
  <2> QED
    BY <2>1, <2>2 DEF Known
<1> HIDE DEF max
<1>9. PICK u, v, w : IsMaximum(Maximize(max), max, u, v, w)
  BY MaximumShape
<1>10. u = l /\ v = s /\ w = r
  BY <1>3, <1>4, <1>7, <1>8, <1>9 DEF IsMaximum
<1>11. Maximize(max) = max
  BY <1>2, <1>9, <1>10 DEF IsMaximum
<1> QED
  BY <1>11 DEF max

LEMMA EquivalentParts ==
  ASSUME NEW tag, Maximizer(tag) \in Matcher.exact
  PROVE  Maximizer(Maximizer(tag)) = Maximizer(tag)
<1> DEFINE max == Maximizer(tag)
           canonical == ParseTag(tag)
<1>1. ParseTag(max) = max /\ Maximizer(max) = Maximize(max) /\ max # NoTag
  <2> HIDE DEF max
  <2> QED
    BY MatcherFacts, NoTagIsUnavailable DEF max
<1>2. canonical # Invalid
  <2>1. canonical = Invalid => max = tag
    BY DEF Maximizer, MaximizedFrom
  <2> QED
    BY <1>1, <2>1 DEF Invalid, NoTag
<1>3. max = Maximize(canonical)
  BY <1>2 DEF Maximizer, MaximizedFrom
<1> HIDE DEF max, canonical
<1>4. Maximize(canonical) \in Matcher.exact
  BY <1>3 DEF max
<1>5. Maximize(max) = max
  BY <1>3, <1>4, MaximumSettles
<1> QED
  BY <1>1, <1>5 DEF max

\* What the maximum of a request falls back to.
LEMMA EquivalentIsAvailable ==
  ASSUME NEW tag
  PROVE  LET found == EquivalentTo(Matcher, tag, Maximized(Matcher, tag))
         IN  found # NoTag => /\ found \in Matcher.exact
                              /\ Parts(Maximizer(tag)) = Parts(Maximizer(found))
<1> DEFINE max == Maximizer(tag)
           fallback == Fallback(Matcher, tag, max)
           found == Equivalent(Matcher, max, fallback)
           tags == {c \in ToSet(FallbackCandidates(max)) : c # tag /\ c \in Matcher.exact}
<1>1. EquivalentTo(Matcher, tag, Maximized(Matcher, tag)) = found
  BY MaximizedIsMaximum DEF EquivalentTo
<1>2. found # NoTag => /\ found = fallback
                       /\ max = fallback \/ max = Matcher.maximized[fallback]
  BY DEF Equivalent
<1>3. fallback = IF max = tag THEN NoTag ELSE Longest(tags)
  BY DEF Fallback
<1>4. fallback # NoTag => fallback \in Matcher.exact
  <2>1. tags \in SUBSET Matcher.exact
    OBVIOUS
  <2> HIDE DEF tags
  <2>2. Longest(tags) # NoTag => Longest(tags) \in tags
    BY <2>1, LongestIsOne
  <2> QED
    BY <1>3, <2>1, <2>2
<1> HIDE DEF fallback, found
<1>5. ASSUME found # NoTag
      PROVE  found \in Matcher.exact /\ Parts(max) = Parts(Maximizer(found))
  <2>1. found = fallback /\ found \in Matcher.exact
    BY <1>2, <1>4, <1>5
  <2>2. Matcher.maximized[found] = Maximizer(found)
    BY <2>1, MatcherFacts
  <2>3. max = found => Maximizer(found) = max
    BY <2>1, EquivalentParts
  <2>4. max = Maximizer(found)
    BY <1>2, <1>5, <2>1, <2>2, <2>3
  <2> QED
    BY <2>1, <2>4
<1> QED
  BY <1>1, <1>5

LEMMA BestMatchFound ==
  ASSUME NEW R, NEW requested \in Seq(R)
  PROVE  /\ IsFound(FindBestMatch(Matcher, requested), requested)
         /\ requested # <<>> /\ requested[1] \in Matcher.exact =>
              FindBestMatch(Matcher, requested) = BestMatch(0, requested[1], 0)
<1> DEFINE found == FindBestMatch(Matcher, requested)
           tag == requested[1]
           equivalent == EquivalentTo(Matcher, tag, Maximized(Matcher, tag))
<1>1. CASE requested = <<>>
  BY <1>1 DEF FindBestMatch, NoMatch, BestMatch, IsFound
<1>2. CASE requested # <<>>
  <2>1. 0 + 1 \in DOMAIN requested
    <3> DEFINE n == Len(requested)
    <3>1. n \in Nat /\ n # 0 /\ DOMAIN requested = 1 .. n
      BY <1>2, LenProperties, EmptySeq
    <3> HIDE DEF n
    <3> QED
      BY <3>1
  <2>2. ASSUME NEW t \in Matcher.exact, Parts(Maximizer(tag)) = Parts(Maximizer(t))
        PROVE  IsFound(BestMatch(0, t, 0), requested)
    BY <2>1, <2>2 DEF BestMatch, IsFound
  <2>3. CASE tag \in Matcher.exact
    <3>1. found = BestMatch(0, tag, 0)
      BY <1>2, <2>3 DEF FindBestMatch
    <3> QED
      BY <2>2, <2>3, <3>1
  <2>4. CASE tag \notin Matcher.exact
    <3>1. found = IF equivalent # NoTag THEN BestMatch(0, equivalent, 0)
                                        ELSE Nearest(Matcher, requested)
      BY <1>2, <2>4 DEF FindBestMatch, SearchFor
    <3>2. equivalent # NoTag => /\ equivalent \in Matcher.exact
                                /\ Parts(Maximizer(tag)) = Parts(Maximizer(equivalent))
      BY EquivalentIsAvailable
    <3> HIDE DEF equivalent, found, tag
    <3>3. IsFound(Nearest(Matcher, requested), requested)
      BY NearestFinds
    <3>4. IsFound(found, requested)
      BY <2>2, <3>1, <3>2, <3>3
    <3> QED
      BY <2>4, <3>4 DEF found, tag
  <2> QED
    BY <2>3, <2>4
<1> QED
  BY <1>1, <1>2

-------------------------------------------------------------------------------
(* Match. *)

\* A match is an available locale with its data and the extension of a request,
\* if any.
IsMatch(matched, requests) ==
  /\ matched.locale \in Matcher.exact
  /\ matched.dataLocale = Matcher.data[matched.locale]
  /\ \/ matched.extension = NoExtension
     \/ \E i \in DOMAIN requests : matched.extension = requests[i].ext

LEMMA MatchResults ==
  ASSUME NEW tag \in Matcher.exact, NEW ext, NEW d, NEW requests,
         ext = NoExtension \/ \E i \in DOMAIN requests : ext = requests[i].ext
  PROVE  /\ IsMatch(MatchResult(Matcher, tag, ext, d), requests)
         /\ MatchResult(Matcher, tag, ext, d) =
              [locale |-> tag, dataLocale |-> Matcher.data[tag], extension |-> ext, distance |-> d]
  BY DEF IsMatch, MatchResult, DataLocale

LEMMA TagsOf ==
  ASSUME NEW R, NEW requests \in Seq(R)
  PROVE  /\ \E T : Tags(requests) \in Seq(T)
         /\ DOMAIN Tags(requests) = DOMAIN requests
         /\ \A i \in DOMAIN requests : Tags(requests)[i] = requests[i].tag
         /\ Tags(requests) = <<>> <=> requests = <<>>
<1> DEFINE n == Len(requests)
           T == {requests[i].tag : i \in 1 .. n}
           tags == [i \in DOMAIN requests |-> requests[i].tag]
<1>1. n \in Nat /\ DOMAIN requests = 1 .. n
  BY LenProperties
<1>2. Tags(requests) = tags
  BY DEF Tags
<1> HIDE DEF n
<1>3. tags \in [1 .. n -> T]
  BY <1>1
<1> HIDE DEF T
<1>4. tags \in Seq(T) /\ Len(tags) = n
  <2> HIDE DEF tags
  <2> QED
    BY <1>1, <1>3, FunctionIsSeq
<1>5. tags = <<>> <=> requests = <<>>
  <2> HIDE DEF tags
  <2>1. tags = <<>> <=> n = 0
    BY <1>4, EmptySeq
  <2>2. requests = <<>> <=> n = 0
    BY EmptySeq DEF n
  <2> QED
    BY <2>1, <2>2
<1> QED
  BY <1>2, <1>4, <1>5

LEMMA FirstPlace ==
  ASSUME NEW R, NEW s \in Seq(R), s # <<>>
  PROVE  1 \in DOMAIN s
<1> DEFINE n == Len(s)
<1>1. n \in Nat /\ n # 0 /\ DOMAIN s = 1 .. n
  BY LenProperties, EmptySeq
<1> HIDE DEF n
<1> QED
  BY <1>1

\* A match is found for every list of requests.
LEMMA MatchFinds ==
  ASSUME NEW R, NEW requests \in Seq(R), NEW algorithm
  PROVE  IsMatch(Match(Matcher, requests, Default, algorithm), requests)
<1>1. IsMatch(DefaultResult(Matcher, Default), requests)
  BY MatchResults, DefaultIsAvailable DEF DefaultResult
<1>2. CASE algorithm = "lookup"
  <2> DEFINE n == Len(requests)
             I == {i \in 1 .. Len(requests) : BestAvailableLocale(Matcher, requests[i].tag) # NoTag}
             k == SelectInSeq(requests, LAMBDA r : BestAvailableLocale(Matcher, r.tag) # NoTag)
  <2>1. n \in Nat /\ DOMAIN requests = 1 .. n
    BY LenProperties
  <2>2. k = IF I # {} THEN Min(I) ELSE 0
    BY DEF SelectInSeq
  <2>3. FirstIn(k, I, n)
    <3>1. I \in SUBSET (1 .. n)
      OBVIOUS
    <3> HIDE DEF I, n, k
    <3> QED
      BY <2>1, <2>2, <3>1, FirstOfSome
  <2>4. Match(Matcher, requests, Default, algorithm) = LookupResult(Matcher, requests, Default, k)
    BY <1>2 DEF Match, LookupMatch
  <2> HIDE DEF k
  <2>5. CASE k = 0
    BY <1>1, <2>4, <2>5 DEF LookupResult
  <2>6. CASE k # 0
    <3> DEFINE tag == BestAvailableLocale(Matcher, requests[k].tag)
    <3>1. k \in I
      BY <2>3, <2>6 DEF FirstIn
    <3>2. k \in DOMAIN requests /\ tag # NoTag
      BY <2>1, <3>1
    <3> HIDE DEF I
    <3>3. tag \in Matcher.exact
      BY <3>2, LookupFinds
    <3>4. LookupResult(Matcher, requests, Default, k) =
            MatchResult(Matcher, tag, requests[k].ext, 0)
      BY <2>6 DEF LookupResult
    <3> HIDE DEF tag
    <3> QED
      BY <2>4, <3>2, <3>3, <3>4, MatchResults
  <2> QED
    BY <2>5, <2>6
<1>3. CASE algorithm # "lookup"
  <2> DEFINE found == FindBestMatch(Matcher, Tags(requests))
  <2>1. Match(Matcher, requests, Default, algorithm) =
          BestFitResult(Matcher, requests, Default, found)
    BY <1>3 DEF Match, BestFit
  <2>2. IsFound(found, Tags(requests))
    <3>1. PICK T : Tags(requests) \in Seq(T)
      BY TagsOf
    <3> QED
      BY <3>1, BestMatchFound
  <2> HIDE DEF found
  <2>3. CASE found.supported = NoTag
    BY <1>1, <2>1, <2>3 DEF BestFitResult
  <2>4. CASE found.supported # NoTag
    <3>1. found.supported \in Matcher.exact /\ found.index + 1 \in DOMAIN Tags(requests)
      BY <2>2, <2>4 DEF IsFound
    <3>2. found.index + 1 \in DOMAIN requests
      BY <3>1, TagsOf
    <3>3. Match(Matcher, requests, Default, algorithm) =
            MatchResult(Matcher, found.supported, requests[found.index + 1].ext, found.distance)
      BY <2>1, <2>4 DEF BestFitResult
    <3> QED
      BY <3>1, <3>2, <3>3, MatchResults
  <2> QED
    BY <2>3, <2>4
<1> QED
  BY <1>2, <1>3

\* One request for an available locale is met exactly.
LEMMA ExactMatch ==
  ASSUME NEW tag \in Matcher.exact, NEW ext, NEW algorithm
  PROVE  Match(Matcher, <<Request(tag, ext)>>, Default, algorithm) =
           [locale |-> tag, dataLocale |-> Matcher.data[tag], extension |-> ext, distance |-> 0]
<1> DEFINE request == Request(tag, ext)
           one == <<request>>
<1>1. request.tag = tag /\ request.ext = ext
  BY DEF Request
<1> HIDE DEF request
<1>2. one[1] = request /\ Len(one) = 1 /\ DOMAIN one = 1 .. 1 /\ one \in Seq({request})
  OBVIOUS
<1>3. tag # NoTag
  BY NoTagIsUnavailable
<1> HIDE DEF one
<1>4. MatchResult(Matcher, tag, ext, 0) =
        [locale |-> tag, dataLocale |-> Matcher.data[tag], extension |-> ext, distance |-> 0]
  BY DEF MatchResult, DataLocale
<1>5. CASE algorithm = "lookup"
  <2> DEFINE I == {i \in 1 .. Len(one) : BestAvailableLocale(Matcher, one[i].tag) # NoTag}
             k == SelectInSeq(one, LAMBDA r : BestAvailableLocale(Matcher, r.tag) # NoTag)
             n == 1
  <2>1. k = IF I # {} THEN Min(I) ELSE 0
    BY DEF SelectInSeq
  <2>2. BestAvailableLocale(Matcher, one[1].tag) = tag
    BY <1>1, <1>2, LookupFinds
  <2>3. 1 \in I /\ I \in SUBSET (1 .. n)
    BY <1>2, <1>3, <2>2
  <2>4. FirstIn(k, I, n)
    <3>1. n \in Nat
      OBVIOUS
    <3> HIDE DEF I, n, k
    <3> QED
      BY <2>1, <2>3, <3>1, FirstOfSome
  <2>5. Match(Matcher, one, Default, algorithm) = LookupResult(Matcher, one, Default, k)
    BY <1>5 DEF Match, LookupMatch
  <2> HIDE DEF k, I
  <2>6. k = 1
    BY <2>3, <2>4 DEF FirstIn
  <2>7. LookupResult(Matcher, one, Default, 1) =
          MatchResult(Matcher, BestAvailableLocale(Matcher, one[1].tag), one[1].ext, 0)
    BY DEF LookupResult
  <2> QED
    BY <1>1, <1>2, <1>4, <2>2, <2>5, <2>6, <2>7 DEF one, request
<1>6. CASE algorithm # "lookup"
  <2> DEFINE tags == Tags(one)
             found == FindBestMatch(Matcher, tags)
  <2>1. PICK T : tags \in Seq(T)
    BY <1>2, TagsOf
  <2>2. tags # <<>> /\ tags[1] = tag
    <3>1. one # <<>>
      BY <1>2
    <3>2. 1 \in DOMAIN one
      BY <1>2
    <3> QED
      BY <1>1, <1>2, <3>1, <3>2, TagsOf
  <2>3. Match(Matcher, one, Default, algorithm) = BestFitResult(Matcher, one, Default, found)
    BY <1>6 DEF Match, BestFit
  <2> HIDE DEF tags
  <2>4. found = BestMatch(0, tag, 0)
    BY <2>1, <2>2, BestMatchFound
  <2> HIDE DEF found
  <2>5. found.supported = tag /\ found.index + 1 = 1 /\ found.distance = 0
    BY <2>4 DEF BestMatch
  <2>6. BestFitResult(Matcher, one, Default, found) = MatchResult(Matcher, tag, ext, 0)
    BY <1>1, <1>2, <1>3, <2>5 DEF BestFitResult
  <2> QED
    BY <1>4, <2>3, <2>6 DEF one, request
<1> QED
  BY <1>5, <1>6

\* The canonical list holds requests only, the first one first.
LEMMA FirstKept ==
  ASSUME NEW R, NEW seq \in Seq(R), seq # <<>>, NEW P, 1 \in P
  PROVE  ElementsAt(seq, P) # <<>> /\ ElementsAt(seq, P)[1] = seq[1]
<1> DEFINE n == Len(seq)
           seqs == [i \in DOMAIN seq |-> IF i \in P THEN <<seq[i]>> ELSE <<>>]
<1>1. n \in Nat /\ DOMAIN seq = 1 .. n /\ 1 \in 1 .. n /\ (\A i \in 1 .. n : seq[i] \in R)
  BY LenProperties, ElementOfSeq, FirstPlace
<1>2. \A i \in 1 .. n : seqs[i] \in Seq(R)
  <2> SUFFICES ASSUME NEW i \in 1 .. n
               PROVE  seqs[i] \in Seq(R)
    OBVIOUS
  <2> DEFINE x == seq[i]
  <2>1. seqs[i] = IF i \in P THEN <<x>> ELSE <<>>
    BY <1>1
  <2>2. x \in R
    BY <1>1
  <2> HIDE DEF seqs, x
  <2>3. <<x>> \in Seq(R) /\ <<>> \in Seq(R)
    BY <2>2, Alone, Nothing
  <2> QED
    BY <2>1, <2>3
<1>3. seqs[1] = <<seq[1]>>
  BY <1>1
<1>4. seqs \in Seq(Seq(R)) /\ Len(seqs) = n
  <2>1. seqs \in [1 .. n -> Seq(R)]
    BY <1>1, <1>2
  <2> HIDE DEF seqs, n
  <2> QED
    BY <1>1, <2>1, FunctionIsSeq
<1> HIDE DEF seqs
<1>5. PICK f \in [0 .. Len(seqs) -> Seq(R)] : Flattening(f, seqs)
  BY <1>4, FlatteningExists
<1>6. f[0] = <<>> /\ FlattenSeq(seqs) = f[n] /\ \A i \in 1 .. n : f[i] = f[i - 1] \o seqs[i]
  BY <1>4, <1>5 DEF Flattening
<1>7. \A i \in 0 .. n : f[i] \in Seq(R)
  BY <1>4, <1>5
<1> HIDE DEF n
<1> DEFINE Good(s) == s # <<>> /\ s[1] = seq[1]
           Kept == {i \in Nat : i >= 1 /\ i <= n => Good(f[i])}
<1>8. Good(f[1])
  <2> DEFINE x == seq[1]
             s == <<x>>
  <2>1. x \in R
    BY <1>1
  <2> HIDE DEF x
  <2>2. s \in Seq(R) /\ s[1] = x /\ Len(s) = 1
    BY <2>1, Alone
  <2>3. f[1] = <<>> \o s
    <3>1. f[1] = f[1 - 1] \o seqs[1]
      BY <1>1, <1>6
    <3>2. 1 - 1 = 0
      OBVIOUS
    <3>3. f[1 - 1] = <<>>
      BY <1>6, <3>2
    <3> QED
      BY <1>3, <3>1, <3>3 DEF x
  <2>4. s # <<>>
    BY <2>2
  <2> HIDE DEF s
  <2>5. f[1] = s
    BY <2>2, <2>3, ConcatEmptySeq
  <2> QED
    BY <2>2, <2>4, <2>5 DEF x
<1>9. ASSUME NEW i \in Nat, i \in Kept
      PROVE  i + 1 \in Kept
  <2>1. ASSUME i + 1 <= n, i >= 1
        PROVE  Good(f[i + 1])
    <3> DEFINE k == i + 1
               a == f[i]
               b == seqs[k]
    <3>1. k \in 1 .. n /\ k - 1 = i /\ i \in 0 .. n /\ i <= n
      BY <1>1, <2>1
    <3> HIDE DEF k
    <3>2. f[k] = a \o b
      BY <1>6, <3>1
    <3>3. a \in Seq(R) /\ b \in Seq(R)
      BY <1>4, <1>7, <3>1, ElementOfSeq
    <3>4. Good(a)
      BY <1>9, <2>1, <3>1
    <3> HIDE DEF a, b
    <3>5. 1 \in DOMAIN a
      BY <3>3, <3>4, FirstPlace
    <3>6. /\ Len(a) \in Nat /\ DOMAIN a = 1 .. Len(a) /\ Len(b) \in Nat
          /\ Len(a \o b) = Len(a) + Len(b)
          /\ \A j \in 1 .. Len(a) + Len(b) :
               (a \o b)[j] = IF j <= Len(a) THEN a[j] ELSE b[j - Len(a)]
      BY <3>3, ConcatProperties, LenProperties
    <3>7. (a \o b)[1] = a[1] /\ Len(a \o b) # 0
      BY <3>5, <3>6
    <3>8. a \o b # <<>>
      <4> DEFINE c == a \o b
      <4>1. c = <<>> => Len(c) = 0
        OBVIOUS
      <4> QED
        BY <3>7, <4>1
    <3>9. Good(a \o b)
      BY <3>4, <3>7, <3>8
    <3> QED
      BY <3>2, <3>9 DEF k
  <2>2. i = 0 => i + 1 = 1
    OBVIOUS
  <2> HIDE DEF Good
  <2>3. i = 0 \/ i >= 1
    OBVIOUS
  <2> QED
    BY <1>8, <2>1, <2>2, <2>3
<1>10. Good(f[n])
  <2>1. 0 \in Kept
    OBVIOUS
  <2>2. Nat \subseteq Kept
    <3> HIDE DEF Kept
    <3> QED
      BY <1>9, <2>1, Induction
  <2>3. n \in Kept /\ n >= 1 /\ n <= n
    BY <1>1, <2>2
  <2> HIDE DEF Good
  <2> QED
    BY <2>3
<1>11. ElementsAt(seq, P) = FlattenSeq(seqs)
  BY DEF ElementsAt, seqs
<1> QED
  BY <1>6, <1>10, <1>11

LEMMA CanonicalList ==
  ASSUME NEW requests, requests \in Seq(ToSet(requests))
  PROVE  /\ CanonicalLocaleList(requests) \in Seq(ToSet(requests))
         /\ \A i \in DOMAIN CanonicalLocaleList(requests) :
              CanonicalLocaleList(requests)[i] \in ToSet(requests)
         /\ requests # <<>> => /\ CanonicalLocaleList(requests) # <<>>
                               /\ CanonicalLocaleList(requests)[1] = requests[1]
         /\ requests = <<>> => CanonicalLocaleList(requests) = <<>>
<1> DEFINE R == ToSet(requests)
           P == {i \in DOMAIN requests : \A j \in 1 .. i - 1 : requests[j] # requests[i]}
           list == ElementsAt(requests, P)
<1>1. CanonicalLocaleList(requests) = list
  BY DEF CanonicalLocaleList
<1>2. requests # <<>> => 1 \in P
  BY FirstPlace
<1> HIDE DEF P, R
<1>3. list \in Seq(R)
  BY ElementsOf DEF R
<1>4. requests # <<>> => list # <<>> /\ list[1] = requests[1]
  BY <1>2, FirstKept
<1>5. ASSUME requests = <<>>
      PROVE  list = <<>>
  <2>1. R = {}
    BY <1>5 DEF R, ToSet
  <2> HIDE DEF list
  <2>2. list # <<>> => 1 \in DOMAIN list /\ list[1] \in R
    BY <1>3, FirstPlace, LenProperties, ElementOfSeq
  <2> QED
    BY <2>1, <2>2
<1> HIDE DEF list
<1>6. \A i \in DOMAIN list : list[i] \in R
  BY <1>3, LenProperties, ElementOfSeq
<1> QED
  BY <1>1, <1>3, <1>4, <1>5, <1>6 DEF R

\* The canonical list of one request is that list.
LEMMA OneIsCanonical ==
  ASSUME NEW request
  PROVE  CanonicalLocaleList(<<request>>) = <<request>>
<1> DEFINE one == <<request>>
           P == {i \in DOMAIN one : \A j \in 1 .. i - 1 : one[j] # one[i]}
           seqs == [i \in DOMAIN one |-> IF i \in P THEN <<one[i]>> ELSE <<>>]
           R == {request}
<1>1. one \in Seq(R) /\ Len(one) = 1 /\ one[1] = request /\ DOMAIN one = 1 .. 1
  BY Alone
<1>2. 1 \in P
  BY <1>1
<1>3. seqs = Append(<<>>, one)
  <2>1. DOMAIN one = {1}
    BY <1>1
  <2>2. seqs = [i \in {1} |-> one]
    BY <1>1, <1>2, <2>1
  <2> HIDE DEF one, seqs, P
  <2>3. <<one>> = [i \in {1} |-> one]
    OBVIOUS
  <2>4. Append(<<>>, one) = <<one>>
    OBVIOUS
  <2> QED
    BY <2>2, <2>3, <2>4
<1>4. CanonicalLocaleList(one) = FlattenSeq(seqs)
  BY DEF CanonicalLocaleList, ElementsAt
<1> HIDE DEF seqs, one, R
<1>5. FlattenSeq(seqs) = FlattenSeq(<<>>) \o one
  <2> DEFINE none == <<>>
  <2>1. none \in Seq(Seq(R))
    BY Nothing
  <2>2. seqs = Append(none, one)
    BY <1>3
  <2> HIDE DEF none
  <2>3. FlattenSeq(Append(none, one)) = FlattenSeq(none) \o one
    BY <1>1, <2>1, FlattenAppend
  <2> QED
    BY <2>2, <2>3 DEF none
<1>6. FlattenSeq(<<>>) = <<>>
  BY FlattenEmpty
<1>7. <<>> \o one = one
  BY <1>1, ConcatEmptySeq
<1> QED
  BY <1>4, <1>5, <1>6, <1>7 DEF one

-------------------------------------------------------------------------------
(* The negotiation of keys. *)

\* A keyword that stays was asked for, is supported and is the value; a supported
\* option is the value; asking for the keyword that stays changes nothing.
KeyFacts(r, values, asked, option) ==
  /\ r.keyword # "" => /\ r.keyword = asked /\ r.keyword \in ToSet(values)
                       /\ r.keyword = r.value
  /\ option \in ToSet(values) => r.value = option
  /\ NegotiateKey(values, r.keyword, option) = r

LEMMA KeyNegotiated ==
  ASSUME NEW values, NEW asked, NEW option, "" \notin ToSet(values)
  PROVE  KeyFacts(NegotiateKey(values, asked, option), values, asked, option)
<1> DEFINE S == ToSet(values)
           default == IF values = <<>> THEN "" ELSE values[1]
           keyword(q) == IF q # "" /\ q \in S THEN q ELSE ""
           value(q) == IF keyword(q) # "" THEN keyword(q) ELSE default
           changed(q) == option # "" /\ option # value(q) /\ option \in S
           r == NegotiateKey(values, asked, option)
<1>1. \A q : NegotiateKey(values, q, option) =
               IF changed(q) THEN [value |-> option, keyword |-> ""]
                             ELSE [value |-> value(q), keyword |-> keyword(q)]
  BY DEF NegotiateKey
<1>2. /\ r.value = IF changed(asked) THEN option ELSE value(asked)
      /\ r.keyword = IF changed(asked) THEN "" ELSE keyword(asked)
  <2>1. r = IF changed(asked) THEN [value |-> option, keyword |-> ""]
                              ELSE [value |-> value(asked), keyword |-> keyword(asked)]
    BY <1>1
  <2> HIDE DEF r, changed, value, keyword
  <2> QED
    BY <2>1
<1> HIDE DEF S, default, r
<1>3. CASE changed(asked)
  <2>1. r.keyword = "" /\ r.value = option
    BY <1>2, <1>3
  <2>2. keyword("") = "" /\ value("") = default
    OBVIOUS
  <2>3. NegotiateKey(values, "", option) = [value |-> option, keyword |-> ""]
    <3>1. CASE option # default
      <4>1. changed("")
        BY <1>3, <2>2, <3>1
      <4> QED
        BY <1>1, <4>1
    <3>2. CASE option = default
      <4>1. ~changed("")
        BY <2>2, <3>2
      <4> QED
        BY <1>1, <2>2, <3>2, <4>1
    <3> QED
      BY <3>1, <3>2
  <2>4. r = [value |-> option, keyword |-> ""]
    BY <1>1, <1>3 DEF r
  <2> QED
    BY <2>1, <2>3, <2>4 DEF r, S, KeyFacts
<1>4. CASE ~changed(asked)
  <2>1. r.keyword = keyword(asked) /\ r.value = value(asked)
    BY <1>2, <1>4
  <2>2. r.keyword # "" => r.keyword = asked /\ asked \in S /\ r.value = r.keyword
    BY <2>1
  <2>3. option \in S => r.value = option
    <3>1. option \in S => option # ""
      BY DEF S
    <3> QED
      BY <1>4, <2>1, <3>1
  <2>4. NegotiateKey(values, r.keyword, option) = r
    <3>1. keyword(r.keyword) = keyword(asked) /\ value(r.keyword) = value(asked)
      BY <2>1
    <3>2. ~changed(r.keyword)
      BY <1>4, <3>1
    <3>3. NegotiateKey(values, r.keyword, option) = [value |-> value(asked), keyword |-> keyword(asked)]
      BY <1>1, <3>1, <3>2
    <3>4. r = [value |-> value(asked), keyword |-> keyword(asked)]
      BY <1>1, <1>4 DEF r
    <3> QED
      BY <3>3, <3>4
  <2> QED
    BY <2>2, <2>3, <2>4 DEF r, S, KeyFacts
<1> QED
  BY <1>3, <1>4

\* The keywords that stay part of a locale.
Staying(key) == [k \in {x \in Keys : key[x].keyword # ""} |-> key[k].keyword]

\* A resolution that came of a match.
IsResolution(result, matched, options) ==
  LET key == NegotiateKeys(matched, options)
  IN  /\ result = [locale |-> ParseLocale(InsertUnicodeExtension(matched.locale, {}, Staying(key))),
                   dataLocale |-> matched.dataLocale,
                   extensions |-> [k \in Keys |-> key[k].value]]
      /\ result.locale.tag = matched.locale
      /\ Values(result.locale.keywords) = Staying(key)

\* The key of a match, by its data and the keywords it asks for.
Asked(matched, k) == IF k \in DOMAIN matched.extension THEN matched.extension[k] ELSE ""

LEMMA KeyOfMatch ==
  ASSUME NEW matched, NEW requests, IsMatch(matched, requests), NEW options, NEW k \in Keys
  PROVE  /\ NegotiateKeys(matched, options)[k] =
              NegotiateKey(KeyData[matched.dataLocale][k], Asked(matched, k), options[k])
         /\ matched.dataLocale \in DOMAIN KeyData
         /\ "" \notin ToSet(KeyData[matched.dataLocale][k])
<1>1. matched.dataLocale \in ToSet(Supported)
  BY MatcherFacts DEF IsMatch
<1>2. matched.dataLocale \in DOMAIN KeyData /\ "" \notin ToSet(KeyData[matched.dataLocale][k])
  BY <1>1, DataShape
<1> QED
  BY <1>2 DEF NegotiateKeys, Asked

LEMMA ResolutionShape ==
  ASSUME NEW matched, NEW requests, IsMatch(matched, requests), NEW options
  PROVE  IsResolution([Resolution(matched, options) EXCEPT !.locale = ParseLocale(@)],
                      matched, options)
<1> DEFINE key == NegotiateKeys(matched, options)
           keys == {x \in Keys : key[x].keyword # ""}
           keywords == [k \in keys |-> key[k].keyword]
           text == InsertUnicodeExtension(matched.locale, {}, keywords)
           values == [k \in Keys |-> key[k].value]
           result == [locale |-> ParseLocale(text), dataLocale |-> matched.dataLocale,
                      extensions |-> values]
<1>1. Staying(key) = keywords
  BY DEF Staying
<1>2. Resolution(matched, options) =
        [locale |-> text, dataLocale |-> matched.dataLocale, extensions |-> values]
  BY DEF Resolution, ResolvedLocale
<1>3. \A k \in keys : keywords[k] \in ToSet(KeyData[matched.dataLocale][k])
  <2> SUFFICES ASSUME NEW k \in keys
               PROVE  keywords[k] \in ToSet(KeyData[matched.dataLocale][k])
    OBVIOUS
  <2> DEFINE v == KeyData[matched.dataLocale][k]
             q == Asked(matched, k)
             o == options[k]
  <2>1. k \in Keys /\ key[k].keyword # "" /\ keywords[k] = key[k].keyword
    OBVIOUS
  <2>2. key[k] = NegotiateKey(v, q, o) /\ "" \notin ToSet(v)
    BY <2>1, KeyOfMatch
  <2> HIDE DEF v, q, o, key, keys, keywords
  <2>3. NegotiateKey(v, q, o).keyword # "" => NegotiateKey(v, q, o).keyword \in ToSet(v)
    BY <2>2, KeyNegotiated DEF KeyFacts
  <2>4. keywords[k] \in ToSet(v)
    BY <2>1, <2>2, <2>3
  <2> QED
    BY <2>4 DEF v
<1>4. keys \in SUBSET Keys /\ DOMAIN keywords = keys
  OBVIOUS
<1>5. keywords = [k \in keys |-> keywords[k]]
  OBVIOUS
<1> HIDE DEF keys, keywords, values, key, text
<1>6. matched.dataLocale \in DOMAIN KeyData
  <2>1. matched.dataLocale \in ToSet(Supported)
    BY MatcherFacts DEF IsMatch
  <2> QED
    BY <2>1, DataShape
<1>7. keywords \in SupportedKeywords(keys)
  <2> DEFINE sets == {ToSet(KeyData[data][k]) : data \in DOMAIN KeyData, k \in keys}
             V == UNION sets
             home == matched.dataLocale
  <2>1. \A k \in keys : keywords[k] \in V
    <3> SUFFICES ASSUME NEW k \in keys
                 PROVE  keywords[k] \in V
      OBVIOUS
    <3> HIDE DEF home
    <3>1. home \in DOMAIN KeyData
      BY <1>6 DEF home
    <3>2. ToSet(KeyData[home][k]) \in sets
      BY <3>1
    <3>3. keywords[k] \in ToSet(KeyData[home][k])
      BY <1>3 DEF home
    <3> HIDE DEF sets
    <3> QED
      BY <3>2, <3>3
  <2>2. keywords \in [keys -> V]
    <3> HIDE DEF V
    <3> QED
      BY <1>4, <1>5, <2>1
  <2>3. \A k \in keys : \E data \in DOMAIN KeyData : keywords[k] \in ToSet(KeyData[data][k])
    BY <1>3, <1>6
  <2> HIDE DEF V, sets
  <2> QED
    BY <2>2, <2>3 DEF SupportedKeywords, V, sets
<1>8. ParseLocale(text).tag = matched.locale /\ Values(ParseLocale(text).keywords) = keywords
  <2>1. matched.locale \in Matcher.exact
    BY DEF IsMatch
  <2> QED
    BY <1>4, <1>7, <2>1, DataIsCanonical DEF text
<1>9. [Resolution(matched, options) EXCEPT !.locale = ParseLocale(@)] = result
  BY <1>2
<1>10. result.locale = ParseLocale(text)
  OBVIOUS
<1>11. IsResolution(result, matched, options)
  BY <1>1, <1>8, <1>10 DEF IsResolution, key, text, values
<1> QED
  BY <1>9, <1>11

-------------------------------------------------------------------------------
(* What a constructor resolves to. *)

\* The match behind a resolution.
MatchOf(requests, algorithm) ==
  Match(Matcher, CanonicalLocaleList(requests), Default, algorithm)

LEMMA ConstructorResolves ==
  ASSUME NEW requests, requests \in Seq(ToSet(requests)), NEW algorithm, NEW options
  PROVE  /\ IsMatch(MatchOf(requests, algorithm), CanonicalLocaleList(requests))
         /\ IsResolution(ResolveConstructorLocale(Matcher, requests, algorithm, options),
                         MatchOf(requests, algorithm), options)
<1> DEFINE list == CanonicalLocaleList(requests)
           matched == MatchOf(requests, algorithm)
<1>1. list \in Seq(ToSet(requests))
  BY CanonicalList
<1>2. IsMatch(matched, list)
  <2> HIDE DEF list
  <2>1. IsMatch(Match(Matcher, list, Default, algorithm), list)
    BY <1>1, MatchFinds
  <2> QED
    BY <2>1 DEF MatchOf, list
<1>3. ResolveConstructorLocale(Matcher, requests, algorithm, options) =
        [Resolution(matched, options) EXCEPT !.locale = ParseLocale(@)]
  BY DEF ResolveConstructorLocale, ResolveLocale, MatchOf
<1> HIDE DEF matched, list
<1>4. IsResolution([Resolution(matched, options) EXCEPT !.locale = ParseLocale(@)],
                   matched, options)
  BY <1>2, ResolutionShape
<1> QED
  BY <1>2, <1>3, <1>4 DEF matched, list

\* A formatter constructed from the locale another one resolved to, with the same
\* options, resolves to the same.
LEMMA ResolvesAgain ==
  ASSUME NEW requests, requests \in Seq(ToSet(requests)), NEW algorithm, NEW options, NEW result,
         result = ResolveConstructorLocale(Matcher, requests, algorithm, options)
  PROVE  ResolveConstructorLocale(Matcher, <<RequestOf(result.locale)>>, algorithm, options) = result
<1> DEFINE matched == MatchOf(requests, algorithm)
           list == CanonicalLocaleList(requests)
           key == NegotiateKeys(matched, options)
           request == RequestOf(result.locale)
           again == MatchOf(<<request>>, algorithm)
           key2 == NegotiateKeys(again, options)
           result2 == ResolveConstructorLocale(Matcher, <<request>>, algorithm, options)
<1>1. IsMatch(matched, list) /\ IsResolution(result, matched, options)
  BY ConstructorResolves
<1>2. /\ result = [locale |-> ParseLocale(InsertUnicodeExtension(matched.locale, {}, Staying(key))),
                   dataLocale |-> matched.dataLocale,
                   extensions |-> [k \in Keys |-> key[k].value]]
      /\ result.locale.tag = matched.locale
      /\ Values(result.locale.keywords) = Staying(key)
  BY <1>1 DEF IsResolution
<1>3. matched.locale \in Matcher.exact /\ matched.dataLocale = Matcher.data[matched.locale]
  BY <1>1 DEF IsMatch
<1> HIDE DEF matched, list
<1>4. request = Request(matched.locale, Staying(key))
  BY <1>2 DEF RequestOf
<1>5. again = [locale |-> matched.locale, dataLocale |-> matched.dataLocale,
               extension |-> Staying(key), distance |-> 0]
  <2> DEFINE ext == Staying(key)
             tag == matched.locale
  <2>1. request = Request(tag, ext)
    BY <1>4
  <2> HIDE DEF ext, tag, request
  <2>2. again = Match(Matcher, <<request>>, Default, algorithm)
    BY OneIsCanonical DEF MatchOf
  <2>3. tag \in Matcher.exact
    BY <1>3 DEF tag
  <2>4. again = [locale |-> tag, dataLocale |-> Matcher.data[tag], extension |-> ext, distance |-> 0]
    BY <2>1, <2>2, <2>3, ExactMatch
  <2> QED
    BY <1>3, <2>4 DEF ext, tag
<1>6. IsMatch(again, CanonicalLocaleList(<<request>>)) /\ IsResolution(result2, again, options)
  <2> DEFINE asked == <<request>>
  <2>1. asked \in Seq(ToSet(asked))
    <3> HIDE DEF request
    <3>1. request \in ToSet(asked)
      BY DEF ToSet
    <3>2. \A S : request \in S => <<request>> \in Seq(S)
      BY Alone
    <3> QED
      BY <3>1, <3>2
  <2> HIDE DEF asked
  <2>2. /\ IsMatch(MatchOf(asked, algorithm), CanonicalLocaleList(asked))
        /\ IsResolution(ResolveConstructorLocale(Matcher, asked, algorithm, options),
                        MatchOf(asked, algorithm), options)
    BY <2>1, ConstructorResolves
  <2> QED
    BY <2>2 DEF asked
<1> HIDE DEF request, again, result2
<1>7. \A k \in Keys : key2[k] = key[k]
  <2> SUFFICES ASSUME NEW k \in Keys
               PROVE  key2[k] = key[k]
    OBVIOUS
  <2> DEFINE v == KeyData[matched.dataLocale][k]
             q == Asked(matched, k)
             o == options[k]
  <2>1. key[k] = NegotiateKey(v, q, o) /\ "" \notin ToSet(v)
    BY <1>1, KeyOfMatch
  <2>2. again.dataLocale = matched.dataLocale /\ again.extension = Staying(key)
    BY <1>5
  <2>3. Asked(again, k) = key[k].keyword
    <3>1. Asked(again, k) = IF k \in DOMAIN Staying(key) THEN Staying(key)[k] ELSE ""
      BY <2>2 DEF Asked
    <3> HIDE DEF key
    <3> QED
      BY <3>1 DEF Staying
  <2>4. key2[k] = NegotiateKey(v, Asked(again, k), o)
    <3> HIDE DEF key
    <3>1. key2[k] = NegotiateKey(KeyData[again.dataLocale][k], Asked(again, k), options[k])
      BY <1>6, KeyOfMatch
    <3> QED
      BY <2>2, <3>1
  <2> HIDE DEF key, key2, v, q, o
  <2>5. NegotiateKey(v, NegotiateKey(v, q, o).keyword, o) = NegotiateKey(v, q, o)
    <3>1. "" \notin ToSet(v)
      BY <2>1
    <3>2. KeyFacts(NegotiateKey(v, q, o), v, q, o)
      BY <3>1, KeyNegotiated
    <3> QED
      BY <3>2 DEF KeyFacts
  <2> QED
    BY <2>1, <2>3, <2>4, <2>5
<1>8. Staying(key2) = Staying(key) /\ [k \in Keys |-> key2[k].value] = [k \in Keys |-> key[k].value]
  <2> HIDE DEF key, key2
  <2> QED
    BY <1>7 DEF Staying
<1>9. again.locale = matched.locale /\ again.dataLocale = matched.dataLocale
  BY <1>5
<1>10. result2 = [locale |-> ParseLocale(InsertUnicodeExtension(again.locale, {}, Staying(key2))),
                  dataLocale |-> again.dataLocale,
                  extensions |-> [k \in Keys |-> key2[k].value]]
  BY <1>6 DEF IsResolution
<1> HIDE DEF key, key2
<1>11. result2 = result
  BY <1>2, <1>8, <1>9, <1>10
<1> QED
  BY <1>11 DEF result2, request

-------------------------------------------------------------------------------
(* The specification. *)

\* What was resolved last is what the last call resolves to.
Resolved ==
  Called => /\ call = [requests |-> call.requests, algorithm |-> call.algorithm,
                       options |-> call.options]
            /\ call.requests \in Seq(ToSet(call.requests))
            /\ resolved = ResolveConstructorLocale(Matcher, call.requests, call.algorithm,
                                                   call.options)

LEMMA OneRequest ==
  ASSUME NEW request
  PROVE  <<request>> \in Seq(ToSet(<<request>>))
<1> DEFINE asked == <<request>>
           S == ToSet(asked)
<1>1. request \in S
  BY DEF ToSet
<1> HIDE DEF S
<1>2. <<request>> \in Seq(S)
  BY <1>1, Alone
<1> QED
  BY <1>2 DEF S

LEMMA ResolveStep ==
  ASSUME Resolve
  PROVE  Resolved'
<1>1. PICK requests \in Requests, algorithm \in Algorithms, options \in [Keys -> OptionValues] :
        /\ call' = [requests |-> requests, algorithm |-> algorithm, options |-> options]
        /\ resolved' = ResolveConstructorLocale(Matcher, requests, algorithm, options)
  BY DEF Resolve
<1>2. requests \in Seq(ToSet(requests))
  <2>1. CASE locale = NoLocale
    <3>1. requests \in RequestLists
      BY <2>1 DEF Requests
    <3> QED
      BY <3>1, RequestShape
  <2>2. CASE locale # NoLocale
    <3>1. requests = <<RequestOf(locale)>>
      BY <2>2 DEF Requests
    <3> QED
      BY <3>1, OneRequest
  <2> QED
    BY <2>1, <2>2
<1>3. /\ call'.requests = requests /\ call'.algorithm = algorithm /\ call'.options = options
  BY <1>1
<1> QED
  BY <1>1, <1>2, <1>3 DEF Resolved

LEMMA ReresolveStep ==
  ASSUME Resolved, Reresolve
  PROVE  Resolved' /\ resolved' = resolved
<1> DEFINE again == <<RequestOf(resolved.locale)>>
           a == call.algorithm
           o == call.options
           r == call.requests
<1>1. /\ call = [requests |-> r, algorithm |-> a, options |-> o]
      /\ r \in Seq(ToSet(r)) /\ resolved = ResolveConstructorLocale(Matcher, r, a, o)
  BY DEF Resolved, Reresolve, Called
<1>2. /\ call' = [call EXCEPT !.requests = again]
      /\ resolved' = ResolveConstructorLocale(Matcher, again, a, o)
  BY DEF Reresolve
<1>3. again \in Seq(ToSet(again))
  BY OneRequest
<1>4. ResolveConstructorLocale(Matcher, again, a, o) = resolved
  <2> HIDE DEF r, a, o
  <2> QED
    BY <1>1, ResolvesAgain
<1> HIDE DEF r, a, o, again
<1>5. call' = [requests |-> again, algorithm |-> a, options |-> o]
  BY <1>1, <1>2
<1>6. call'.requests = again /\ call'.algorithm = a /\ call'.options = o
  BY <1>5
<1> QED
  BY <1>2, <1>3, <1>4, <1>5, <1>6 DEF Resolved

LEMMA ResolvedInitially == Init => Resolved
  BY DEF Init, Resolved, Called

LEMMA ResolvedPreserved == Resolved /\ [Next]_vars => Resolved'
<1> SUFFICES ASSUME Resolved, [Next]_vars
             PROVE  Resolved'
  OBVIOUS
<1>1. CASE MakeLocale
  BY <1>1 DEF MakeLocale, callVars, Resolved, Called
<1>2. CASE Resolve
  BY <1>2, ResolveStep
<1>3. CASE Reresolve
  BY <1>3, ReresolveStep
<1>4. CASE UNCHANGED vars
  BY <1>4 DEF vars, callVars, Resolved, Called
<1> QED
  BY <1>1, <1>2, <1>3, <1>4 DEF Next

\* At every state: the last result comes of the last call.
LEMMA ResolutionsKept == Spec => []Resolved
<1>1. Init => Resolved
  BY ResolvedInitially
<1>2. Resolved /\ [Next]_vars => Resolved'
  BY ResolvedPreserved
<1> QED
  BY <1>1, <1>2, PTL DEF Spec

\* A second formatter made from the locale a first one resolved to, with the same
\* options, resolves to the same locale, data and values.
THEOREM RoundTrips == Spec => ResolvedLocaleRoundTrips
<1>1. Resolved /\ [Next]_vars => [Called => resolved' = resolved]_vars
  <2> SUFFICES ASSUME Resolved, Next, Called
               PROVE  resolved' = resolved
    OBVIOUS
  <2>1. Reresolve
    BY DEF Next, MakeLocale, Resolve, Called
  <2> QED
    BY <2>1, ReresolveStep
<1> QED
  BY <1>1, ResolutionsKept, PTL DEF Spec, ResolvedLocaleRoundTrips

LEMMA DataServes == Resolved => DataLocaleServes
<1> SUFFICES ASSUME Resolved, Called
             PROVE  /\ resolved.locale.tag \in Matcher.exact
                    /\ resolved.dataLocale \in ToSet(Supported)
                    /\ resolved.dataLocale[1] = resolved.locale.tag[1]
                    /\ resolved.locale.tag \in ToSet(Supported) =>
                         resolved.dataLocale = resolved.locale.tag
  BY DEF DataLocaleServes
<1> DEFINE matched == MatchOf(call.requests, call.algorithm)
           list == CanonicalLocaleList(call.requests)
<1>1. IsMatch(matched, list) /\ IsResolution(resolved, matched, call.options)
  BY ConstructorResolves DEF Resolved
<1> HIDE DEF matched, list
<1>2. resolved.locale.tag = matched.locale /\ resolved.dataLocale = matched.dataLocale
  BY <1>1 DEF IsResolution
<1>3. matched.locale \in Matcher.exact /\ matched.dataLocale = Matcher.data[matched.locale]
  BY <1>1 DEF IsMatch
<1> DEFINE tag == matched.locale
<1>4. tag \in Matcher.exact
  BY <1>3
<1> HIDE DEF tag
<1>5. /\ Matcher.data[tag] \in ToSet(Supported) /\ Matcher.data[tag][1] = tag[1]
      /\ tag \in ToSet(Supported) => Matcher.data[tag] = tag
  BY <1>4, MatcherFacts
<1>6. resolved.locale.tag = tag /\ resolved.dataLocale = Matcher.data[tag]
  BY <1>2, <1>3 DEF tag
<1> QED
  BY <1>4, <1>5, <1>6

\* The data locale of a resolved locale has data, in its language; a locale with
\* data serves itself.
THEOREM DataIsServed == Spec => []DataLocaleServes
  BY ResolutionsKept, DataServes, PTL

LEMMA KeywordsOfCall == Resolved => KeywordsAgree
<1> SUFFICES ASSUME Resolved, Called
             PROVE  KeywordsAgree
  BY DEF KeywordsAgree
<1> DEFINE matched == MatchOf(call.requests, call.algorithm)
           list == CanonicalLocaleList(call.requests)
           options == call.options
           key == NegotiateKeys(matched, options)
           keywords == Values(resolved.locale.keywords)
<1>1. call.requests \in Seq(ToSet(call.requests))
  BY DEF Resolved
<1>2. IsMatch(matched, list) /\ IsResolution(resolved, matched, options)
  BY ConstructorResolves DEF Resolved
<1>3. \A i \in DOMAIN list : list[i] \in ToSet(call.requests)
  BY <1>1, CanonicalList
<1> HIDE DEF matched, list, options
<1>4. /\ resolved.dataLocale = matched.dataLocale
      /\ resolved.extensions = [k \in Keys |-> key[k].value]
      /\ keywords = Staying(key)
  BY <1>2 DEF IsResolution
<1>5. matched.extension = NoExtension \/ \E i \in DOMAIN list : matched.extension = list[i].ext
  BY <1>2 DEF IsMatch
<1> DEFINE v(k) == KeyData[matched.dataLocale][k]
           q(k) == Asked(matched, k)
           o(k) == options[k]
<1>6. \A k \in Keys : key[k] = NegotiateKey(v(k), q(k), o(k)) /\ "" \notin ToSet(v(k))
  BY <1>2, KeyOfMatch
<1> HIDE DEF key, v, q, o, keywords
<1>7. ASSUME NEW k \in DOMAIN keywords
      PROVE  /\ keywords[k] = resolved.extensions[k]
             /\ keywords[k] \in ToSet(KeyData[resolved.dataLocale][k])
             /\ \E i \in DOMAIN call.requests :
                  /\ k \in DOMAIN call.requests[i].ext
                  /\ call.requests[i].ext[k] = keywords[k]
  <2>1. k \in Keys /\ keywords[k] = key[k].keyword /\ keywords[k] # ""
    BY <1>4 DEF Staying
  <2> DEFINE r == NegotiateKey(v(k), q(k), o(k))
  <2>2. key[k] = r /\ "" \notin ToSet(v(k))
    BY <1>6, <2>1
  <2>3. r.keyword # "" => r.keyword = q(k) /\ r.keyword \in ToSet(v(k)) /\ r.keyword = r.value
    <3>1. KeyFacts(r, v(k), q(k), o(k))
      BY <2>2, KeyNegotiated
    <3> HIDE DEF r
    <3> QED
      BY <3>1 DEF KeyFacts
  <2> HIDE DEF r
  <2>4. keywords[k] = q(k) /\ keywords[k] \in ToSet(v(k)) /\ keywords[k] = r.value
    BY <2>1, <2>2, <2>3
  <2>5. resolved.extensions[k] = r.value
    BY <1>4, <2>1, <2>2
  <2>6. k \in DOMAIN matched.extension /\ matched.extension[k] = keywords[k]
    BY <2>1, <2>4 DEF q, Asked
  <2>7. PICK i \in DOMAIN list : matched.extension = list[i].ext
    <3>1. DOMAIN NoExtension = {}
      BY DEF NoExtension
    <3> QED
      BY <1>5, <2>6, <3>1
  <2>8. PICK j \in DOMAIN call.requests : call.requests[j] = list[i]
    BY <1>3 DEF ToSet
  <2> QED
    BY <1>4, <2>4, <2>5, <2>6, <2>7, <2>8 DEF v
<1>8. ASSUME NEW k \in Keys, call.options[k] \in ToSet(KeyData[resolved.dataLocale][k])
      PROVE  resolved.extensions[k] = call.options[k]
  <2> DEFINE r == NegotiateKey(v(k), q(k), o(k))
  <2>1. key[k] = r /\ "" \notin ToSet(v(k))
    BY <1>6
  <2>2. o(k) = call.options[k] /\ o(k) \in ToSet(v(k))
    BY <1>4, <1>8 DEF o, v, options
  <2>3. o(k) \in ToSet(v(k)) => r.value = o(k)
    <3>1. KeyFacts(r, v(k), q(k), o(k))
      BY <2>1, KeyNegotiated
    <3> HIDE DEF r
    <3> QED
      BY <3>1 DEF KeyFacts
  <2> HIDE DEF r
  <2>4. resolved.extensions[k] = r.value
    BY <1>4, <2>1
  <2> QED
    BY <2>2, <2>3, <2>4
<1> QED
  BY <1>7, <1>8 DEF KeywordsAgree, keywords

\* The keywords of a resolved locale are the values the formatter uses, each was
\* asked for and is supported; a supported option is used.
THEOREM KeywordsAreUsed == Spec => []KeywordsAgree
  BY ResolutionsKept, KeywordsOfCall, PTL

LEMMA ZeroDistances == Resolved => ZeroDistanceIsEquivalence
<1> SUFFICES ASSUME Resolved, Called
             PROVE  ZeroDistanceIsEquivalence
  BY DEF ZeroDistanceIsEquivalence
<1> DEFINE requests == call.requests
           list == CanonicalLocaleList(requests)
           tags == Tags(list)
           found == FindBestMatch(Matcher, tags)
           r == BestFit(Matcher, list, NoTag)
<1>1. requests \in Seq(ToSet(requests))
  BY DEF Resolved
<1>2. /\ list \in Seq(ToSet(requests))
      /\ requests # <<>> => list # <<>> /\ list[1] = requests[1]
      /\ requests = <<>> => list = <<>>
  <2> HIDE DEF requests
  <2> QED
    BY <1>1, CanonicalList
<1> HIDE DEF list, requests
<1>3. PICK T : tags \in Seq(T)
  BY <1>2, TagsOf
<1>4. IsFound(found, tags)
  <2> HIDE DEF tags
  <2> QED
    BY <1>3, BestMatchFound
<1>5. r = BestFitResult(Matcher, list, NoTag, found)
  BY DEF BestFit
<1> HIDE DEF found, r
<1>6. ASSUME r.locale # NoTag, r.distance = 0
      PROVE  Parts(Maximizer(requests[1].tag)) = Parts(Maximizer(r.locale))
  <2>1. found.supported # NoTag
    <3>1. found.supported = NoTag => r.locale = NoTag
      BY <1>5 DEF BestFitResult, DefaultResult, MatchResult
    <3> QED
      BY <1>6, <3>1
  <2>2. r.locale = found.supported /\ r.distance = found.distance
    BY <1>5, <2>1 DEF BestFitResult, MatchResult
  <2>3. /\ found.index + 1 \in DOMAIN tags
        /\ Parts(Maximizer(tags[1])) = Parts(Maximizer(found.supported))
    BY <1>4, <1>6, <2>1, <2>2 DEF IsFound
  <2>4. list # <<>>
    <3>1. DOMAIN tags = DOMAIN list
      BY <1>2, TagsOf
    <3> QED
      BY <2>3, <3>1
  <2>5. tags[1] = requests[1].tag
    <3>1. 1 \in DOMAIN list
      BY <1>2, <2>4, FirstPlace
    <3>2. tags[1] = list[1].tag
      BY <1>2, <3>1, TagsOf
    <3> QED
      BY <1>2, <2>4, <3>2
  <2> QED
    BY <2>2, <2>3, <2>5
<1> QED
  BY <1>6 DEF ZeroDistanceIsEquivalence, r, list, requests

\* At distance 0 are only a request and a locale that maximize to the same
\* language, script and region.
THEOREM ZeroDistanceMeansEquivalent == Spec => []ZeroDistanceIsEquivalence
  BY ResolutionsKept, ZeroDistances, PTL

-------------------------------------------------------------------------------
(* What a lookup finds, a best fit finds. *)

\* A rule is found for two tags with a script; with a region as well it is a rule
\* that compares regions.
HasScript(t) == t.script # "" /\ t.region \in Regions \cup {""}
HasRegion(t) == t.region # ""

\* What a rule compares it compares on both sides.
ComparesAlike(i) ==
  /\ Rules[i].supported.script = "" <=> i \notin ScriptRules
  /\ Rules[i].supported.regions = {} <=> i \notin RegionRules

LEMMA RulesCompareAlike == \A i \in DOMAIN Rules : ComparesAlike(i)
  BY RuleReach DEF ComparesAlike

LEMMA RuleFor ==
  ASSUME NEW paradigms, NEW d, NEW s, HasScript(d), HasScript(s)
  PROVE  \E i \in ScriptRules :
           /\ ComponentDistance(paradigms, d, s) <= 10 * Rules[i].distance
           /\ HasRegion(d) /\ HasRegion(s) => i \in RegionRules
<1> DEFINE n == Len(Rules)
           I == {i \in 1 .. Len(Rules) : Applies(Rules[i], d, s)}
           k == SelectInSeq(Rules, LAMBDA r : Applies(r, d, s))
           same == Join(d) \in paradigms <=> Join(s) \in paradigms
<1>1. n \in Nat /\ DOMAIN Rules = 1 .. n /\ \A i \in 1 .. n : Rules[i].distance \in Nat \ {0}
  BY RuleShape, LenProperties
<1>2. k = IF I # {} THEN Min(I) ELSE 0
  BY DEF SelectInSeq
<1>3. FirstIn(k, I, n)
  <2>1. I \in SUBSET (1 .. n)
    OBVIOUS
  <2> HIDE DEF I, n, k
  <2> QED
    BY <1>1, <1>2, <2>1, FirstOfSome
<1>4. PICK any \in DOMAIN Rules : AnyOf(Rules[any].desired) /\ AnyOf(Rules[any].supported)
  BY RuleReach DEF ScriptRules
<1>5. any \in I
  <2>1. Matches(d, Rules[any].desired) /\ Matches(s, Rules[any].supported)
    BY <1>4 DEF AnyOf, Matches, HasScript
  <2>2. Applies(Rules[any], d, s)
    BY <2>1 DEF Applies
  <2> QED
    BY <1>1, <2>2
<1>6. k \in I /\ k # 0
  <2> HIDE DEF I, k
  <2> QED
    BY <1>3, <1>5 DEF FirstIn
<1>7. k \in DOMAIN Rules /\ Applies(Rules[k], d, s)
  BY <1>1, <1>6
<1>8. ComponentDistance(paradigms, d, s) = RuleDistance(k, same)
  BY DEF ComponentDistance
<1> HIDE DEF k, I, n, same
<1>9. RuleDistance(k, same) <= 10 * Rules[k].distance
  <2> DEFINE x == Rules[k].distance
             y == IF same THEN 0 ELSE 1
  <2>1. x \in Nat
    BY <1>1, <1>7
  <2>2. RuleDistance(k, same) = 10 * x - y
    BY <1>6 DEF RuleDistance
  <2>3. y \in {0, 1}
    OBVIOUS
  <2> HIDE DEF x, y
  <2>4. 10 * x - y <= 10 * x
    <3>1. \A w \in Int : w - y <= w
      BY <2>3
    <3>2. 10 * x \in Int
      BY <2>1
    <3> QED
      BY <3>1, <3>2
  <2> QED
    BY <2>2, <2>4 DEF x
<1> DEFINE desired == Rules[k].desired
           supported == Rules[k].supported
<1>10. /\ supported.script = "" <=> k \notin ScriptRules
       /\ supported.regions = {} <=> k \notin RegionRules
       /\ desired.script = "" <=> k \notin ScriptRules
       /\ desired.regions = {} <=> k \notin RegionRules
  <2>3. ComparesAlike(k)
    BY <1>7, RulesCompareAlike
  <2>1. /\ Rules[k].supported.script = "" <=> k \notin ScriptRules
        /\ Rules[k].supported.regions = {} <=> k \notin RegionRules
    BY <2>3 DEF ComparesAlike
  <2>2. /\ Rules[k].desired.script = "" <=> k \notin ScriptRules
        /\ Rules[k].desired.regions = {} <=> k \notin RegionRules
    BY <1>7 DEF ScriptRules, RegionRules
  <2> QED
    BY <2>1, <2>2
<1>11. \/ Matches(d, desired) /\ Matches(s, supported)
       \/ Matches(d, supported) /\ Matches(s, desired)
  BY <1>7 DEF Applies
<1> HIDE DEF desired, supported
<1>12. k \in ScriptRules /\ (HasRegion(d) /\ HasRegion(s) => k \in RegionRules)
  BY <1>10, <1>11 DEF Matches, HasScript, HasRegion
<1> QED
  BY <1>8, <1>9, <1>12

\* Two tags of one language are near enough, whether or not the one that is
\* available is derived.
IsLanguage(l) == l \notin {"", "und"}

LEMMA OneLanguageIsNear ==
  ASSUME NEW paradigms, NEW d, NEW s, IsLanguage(d[1]), s[1] = d[1]
  PROVE  Distance(paradigms, Maximize(d), Maximize(s)) + DerivedPenalty < Threshold
<1> DEFINE l == d[1]
<1>1. PICK x \in Scripts, y \in Regions : Parts(Maximize(d)) = Triple(l, x, y)
  BY MaximumIsTag DEF IsLanguage
<1>2. PICK u \in Scripts, v \in Regions : Parts(Maximize(s)) = Triple(l, u, v)
  BY MaximumIsTag DEF IsLanguage
<1> HIDE DEF l
<1>3. x # "" /\ y # "" /\ u # "" /\ v # ""
  BY SubtagClasses
<1> DEFINE script == ComponentDistance(paradigms, Triple(l, x, ""), Triple(l, u, ""))
           region == ComponentDistance(paradigms, Triple(l, x, y), Triple(l, u, v))
           a == IF x = u THEN 0 ELSE script
           b == IF y = v THEN 0 ELSE region
<1>4. Distance(paradigms, Maximize(d), Maximize(s)) = 0 + a + b
  <2> DEFINE p == Parts(Maximize(d))
             q == Parts(Maximize(s))
             language == ComponentDistance(paradigms, Triple(p.language, "", ""),
                                           Triple(q.language, "", ""))
  <2>1. /\ p.language = l /\ p.script = x /\ p.region = y
        /\ q.language = l /\ q.script = u /\ q.region = v
    <3>1. p = [language |-> l, script |-> x, region |-> y]
      BY <1>1 DEF Triple
    <3>2. q = [language |-> l, script |-> u, region |-> v]
      BY <1>2 DEF Triple
    <3> HIDE DEF p, q
    <3> QED
      BY <3>1, <3>2
  <2>2. Distance(paradigms, Maximize(d), Maximize(s)) =
          (IF p.language = q.language THEN 0 ELSE language)
          + (IF p.script = q.script THEN 0
             ELSE ComponentDistance(paradigms, Triple(p.language, p.script, ""),
                                    Triple(q.language, q.script, "")))
          + (IF p.region = q.region THEN 0 ELSE ComponentDistance(paradigms, p, q))
    BY DEF Distance, PartsDistance
  <2>3. p = Triple(l, x, y) /\ q = Triple(l, u, v)
    BY <1>1, <1>2
  <2> HIDE DEF p, q, language
  <2> QED
    BY <2>1, <2>2, <2>3
<1>5. \E i \in ScriptRules : script <= 10 * Rules[i].distance
  <2> DEFINE e == Triple(l, x, "")
             f == Triple(l, u, "")
  <2>1. e.script = x /\ f.script = u /\ e.region = "" /\ f.region = ""
    BY DEF Triple
  <2>2. HasScript(e) /\ HasScript(f)
    BY <1>3, <2>1 DEF HasScript
  <2> HIDE DEF e, f
  <2>3. \E i \in ScriptRules : ComponentDistance(paradigms, e, f) <= 10 * Rules[i].distance
    BY <2>2, RuleFor
  <2> QED
    BY <2>3 DEF e, f
<1>6. \E j \in RegionRules : region <= 10 * Rules[j].distance
  <2> DEFINE e == Triple(l, x, y)
             f == Triple(l, u, v)
  <2>1. e.script = x /\ f.script = u /\ e.region = y /\ f.region = v
    BY DEF Triple
  <2>2. HasScript(e) /\ HasScript(f) /\ HasRegion(e) /\ HasRegion(f)
    BY <1>3, <2>1 DEF HasScript, HasRegion
  <2> HIDE DEF e, f
  <2>3. \E j \in RegionRules : ComponentDistance(paradigms, e, f) <= 10 * Rules[j].distance
    BY <2>2, RuleFor
  <2> QED
    BY <2>3 DEF e, f
<1>7. script \in Nat /\ region \in Nat
  BY ComponentDistances
<1> HIDE DEF script, region
<1>8. PICK i \in ScriptRules : script <= 10 * Rules[i].distance
  BY <1>5
<1>9. PICK j \in RegionRules : region <= 10 * Rules[j].distance
  BY <1>6
<1> DEFINE m == Rules[i].distance
           n == Rules[j].distance
<1>10. m \in Nat /\ n \in Nat /\ Threshold \in Nat
  BY RuleShape DEF ScriptRules, RegionRules
<1>11. 10 * m + 10 * n + 80 < Threshold
  BY RuleReach DEF DerivedPenalty
<1>12. script <= 10 * m /\ region <= 10 * n
  BY <1>8, <1>9
<1> HIDE DEF m, n
<1> DEFINE m10 == 10 * m
           n10 == 10 * n
<1>13. m10 \in Nat /\ n10 \in Nat /\ script <= m10 /\ region <= n10
  BY <1>10, <1>12
<1>14. m10 + n10 + 80 < Threshold
  BY <1>11
<1> HIDE DEF m10, n10
<1>15. a \in Nat /\ a <= m10
  BY <1>7, <1>13
<1>16. b \in Nat /\ b <= n10
  BY <1>7, <1>13
<1> HIDE DEF a, b
<1>17. 0 + a + b + 80 < Threshold
  BY <1>10, <1>13, <1>14, <1>15, <1>16
<1> QED
  BY <1>4, <1>17 DEF DerivedPenalty

LEMMA LookupIsNear ==
  ASSUME NEW W, NEW tag \in Seq(W), KeepsLanguage(tag),
         BestAvailableLocale(Matcher, tag) # NoTag,
         NEW R, NEW requested \in Seq(R), requested # <<>>, requested[1] = tag
  PROVE  FindBestMatch(Matcher, requested).supported # NoTag
<1> DEFINE t == BestAvailableLocale(Matcher, tag)
           equivalent == EquivalentTo(Matcher, tag, Maximized(Matcher, tag))
           found == FindBestMatch(Matcher, requested)
<1>1. t \in Matcher.exact
  BY LookupFinds
<1>2. CASE tag \in Matcher.exact
  <2>1. found = BestMatch(0, tag, 0)
    BY <1>2, BestMatchFound
  <2> HIDE DEF found
  <2>2. found.supported = tag
    BY <2>1 DEF BestMatch
  <2> QED
    BY <1>2, <2>2, NoTagIsUnavailable DEF found
<1>3. CASE tag \notin Matcher.exact
  <2>1. found = IF equivalent # NoTag THEN BestMatch(0, equivalent, 0)
                                      ELSE Nearest(Matcher, requested)
    BY <1>3 DEF FindBestMatch, SearchFor
  <2>2. CASE equivalent # NoTag
    <3>1. found = BestMatch(0, equivalent, 0)
      BY <2>1, <2>2
    <3> HIDE DEF found, equivalent
    <3> QED
      BY <2>2, <3>1 DEF BestMatch, found
  <2>3. CASE equivalent = NoTag
    <3>1. t \in ToSet(Truncations(tag))
      <4> DEFINE tags == {u \in {tag} \cup ToSet(Truncations(tag)) : u \in Matcher.exact}
      <4>1. tags \in SUBSET Matcher.exact /\ t = Longest(tags)
        BY DEF BestAvailableLocale
      <4> HIDE DEF tags, t
      <4>2. t \in tags
        BY <4>1, LongestIsOne DEF t
      <4> QED
        BY <1>3, <4>2 DEF tags
    <3>2. t[1] = tag[1]
      <4>1. CASE tag = <<>>
        <5>1. Truncations(tag) \in Seq({})
          <6> DEFINE q == [k \in 1 .. Len(tag) - 1 |-> SubSeq(tag, 1, Len(tag) - k)]
                     P == {k \in 1 .. Len(tag) - 1 : Reaches(tag, Len(tag) - k)}
                     n == 0
          <6>1. q \in [1 .. n -> {}]
            BY <4>1
          <6> HIDE DEF q, P
          <6>2. n \in Nat
            OBVIOUS
          <6> HIDE DEF n
          <6>3. q \in Seq({})
            BY <6>1, <6>2, FunctionIsSeq
          <6>4. ElementsAt(q, P) \in Seq({})
            BY <6>3, ElementsOf
          <6> QED
            BY <6>4 DEF Truncations, q, P
        <5>2. \A s \in Seq({}) : ToSet(s) = {}
          BY ElementOfSeq, LenProperties DEF ToSet
        <5> QED
          BY <3>1, <5>1, <5>2
      <4>2. CASE tag # <<>>
        <5> DEFINE l == tag[1]
                   n == Len(tag)
        <5>1. n \in Nat \ {0}
          BY <4>2, LenProperties, EmptySeq
        <5>2. Len(tag) = n /\ tag[1] = l
          OBVIOUS
        <5> HIDE DEF l, n
        <5>3. tag \in TagsIn(W, l)
          BY <5>1, <5>2, IsTag
        <5>4. Truncations(tag) \in Seq(TagsIn(W, l))
          BY <5>3, TruncationShape
        <5> DEFINE s == Truncations(tag)
        <5> HIDE DEF s
        <5>5. \A u \in ToSet(s) : u \in TagsIn(W, l)
          BY <5>4, LenProperties, ElementOfSeq DEF ToSet, s
        <5>6. t \in TagsIn(W, l)
          BY <3>1, <5>5 DEF s
        <5> QED
          BY <5>2, <5>6 DEF TagsIn
      <4> QED
        BY <4>1, <4>2
    <3>3. /\ tag[1] \notin {"", "und"}
          /\ Matcher.maximized[t] = Maximizer(t) /\ Maximizer(t) = Maximize(t)
      BY <1>1, <3>2, MatcherFacts
    <3>4. PICK n \in Nat : /\ DOMAIN Matcher.available = 1 .. n
                           /\ Matcher.exact = {Matcher.available[j].locale : j \in 1 .. n}
                           /\ \A j \in 1 .. n : Matcher.available[j].derived \in BOOLEAN
      BY MatcherIndex
    <3>5. PICK j \in 1 .. n : Matcher.available[j].locale = t
      BY <1>1, <3>4
    <3> HIDE DEF t
    <3> DEFINE a == Matcher.available[j]
               far == Distance(Matcher.paradigms, Maximizer(tag), Maximizer(t))
               penalty == IF a.derived THEN DerivedPenalty ELSE 0
               c == [index |-> 0, at |-> j, distance |-> far + OrderPenalty * 0 + penalty]
    <3>6. c \in Candidates(Matcher, Maximized(Matcher, requested[1]), 0)
      BY <3>3, <3>4, <3>5, MaximizedIsMaximum DEF Candidates
    <3>7. c.distance = far + 40 * 0 + penalty
      BY DEF OrderPenalty
    <3> HIDE DEF c
    <3>8. far + DerivedPenalty < Threshold
      <4> DEFINE d == ParseTag(tag)
      <4>1. d # Invalid /\ d[1] = tag[1]
        BY DEF KeepsLanguage
      <4>2. Maximizer(tag) = Maximize(d)
        BY <4>1 DEF Maximizer, MaximizedFrom
      <4> HIDE DEF d
      <4>3. IsLanguage(d[1]) /\ t[1] = d[1]
        BY <3>2, <3>3, <4>1 DEF IsLanguage
      <4>4. Distance(Matcher.paradigms, Maximize(d), Maximize(t)) + DerivedPenalty < Threshold
        BY <4>3, OneLanguageIsNear
      <4> QED
        BY <3>3, <4>2, <4>4
    <3>9. far \in Nat
      BY Distances
    <3> HIDE DEF far
    <3>10. penalty \in {0, 80}
      BY DEF DerivedPenalty
    <3> HIDE DEF penalty
    <3>11. ~(far + 40 * 0 + penalty >= Threshold)
      BY <3>8, <3>9, <3>10, RuleShape DEF DerivedPenalty
    <3>12. 1 \in DOMAIN requested /\ 1 - 1 = 0
      BY FirstPlace
    <3>13. c \in Candidates(Matcher, Maximized(Matcher, requested[1]), 1 - 1)
      BY <3>6, <3>12
    <3>14. c.distance >= Threshold \/ Nearest(Matcher, requested).supported # NoTag
      BY <3>12, <3>13, NearestFinds
    <3> QED
      BY <2>1, <2>3, <3>7, <3>11, <3>14
  <2> QED
    BY <2>2, <2>3
<1> QED
  BY <1>2, <1>3

\* One request that a lookup meets a best fit meets.
LEMMA OneLookup ==
  ASSUME NEW W, NEW r, r.tag \in Seq(W), KeepsLanguage(r.tag),
         Match(Matcher, <<r>>, NoTag, "lookup").locale # NoTag
  PROVE  Match(Matcher, <<r>>, NoTag, "best fit").locale # NoTag
<1> DEFINE one == <<r>>
           I == {i \in 1 .. Len(one) : BestAvailableLocale(Matcher, one[i].tag) # NoTag}
           k == SelectInSeq(one, LAMBDA q : BestAvailableLocale(Matcher, q.tag) # NoTag)
           found == FindBestMatch(Matcher, Tags(one))
<1>1. one \in Seq({r}) /\ one # <<>> /\ one[1] = r
  BY Alone
<1>2. Match(Matcher, one, NoTag, "lookup") = LookupResult(Matcher, one, NoTag, k)
  BY DEF Match, LookupMatch
<1>3. k # 0
  <2>1. ASSUME k = 0
        PROVE  LookupResult(Matcher, one, NoTag, k).locale = NoTag
    <3> HIDE DEF k, one
    <3> QED
      BY <2>1 DEF LookupResult, DefaultResult, MatchResult
  <2> QED
    BY <1>2, <2>1
<1>4. BestAvailableLocale(Matcher, r.tag) # NoTag
  <2>1. Len(one) = 1
    OBVIOUS
  <2>2. k = IF I # {} THEN Min(I) ELSE 0
    BY DEF SelectInSeq
  <2>3. I # {}
    <3> HIDE DEF I, k
    <3> QED
      BY <1>3, <2>2
  <2>4. PICK i \in 1 .. 1 : BestAvailableLocale(Matcher, one[i].tag) # NoTag
    BY <2>1, <2>3
  <2>5. i = 1
    OBVIOUS
  <2> QED
    BY <1>1, <2>4, <2>5
<1> HIDE DEF one, k, I
<1>5. found.supported # NoTag
  <2>1. PICK T : Tags(one) \in Seq(T)
    BY <1>1, TagsOf
  <2>2. Tags(one) # <<>>
    BY <1>1, TagsOf
  <2>3. 1 \in DOMAIN one
    BY <1>1, FirstPlace
  <2>4. Tags(one)[1] = r.tag
    BY <1>1, <2>3, TagsOf
  <2> DEFINE tags == Tags(one)
             tag == r.tag
  <2> HIDE DEF tags
  <2>5. tags \in Seq(T) /\ tags # <<>> /\ tags[1] = tag
    BY <2>1, <2>2, <2>4 DEF tags
  <2> HIDE DEF tag
  <2>6. tag \in Seq(W) /\ KeepsLanguage(tag) /\ BestAvailableLocale(Matcher, tag) # NoTag
    BY <1>4 DEF tag
  <2>7. FindBestMatch(Matcher, tags).supported # NoTag
    BY <2>5, <2>6, LookupIsNear
  <2> QED
    BY <2>7 DEF tags
<1>6. Match(Matcher, one, NoTag, "best fit") = BestFitResult(Matcher, one, NoTag, found)
  BY DEF Match, BestFit
<1> HIDE DEF found
<1>7. BestFitResult(Matcher, one, NoTag, found).locale = found.supported
  BY <1>5 DEF BestFitResult, MatchResult
<1> QED
  BY <1>5, <1>6, <1>7 DEF one

LEMMA InOwnRange ==
  ASSUME NEW W, NEW s \in Seq(W)
  PROVE  s \in Seq(ToSet(s))
<1> DEFINE n == Len(s)
           S == ToSet(s)
<1>1. n \in Nat /\ DOMAIN s = 1 .. n /\ s = [i \in 1 .. n |-> s[i]]
  BY LenProperties
<1>2. \A i \in 1 .. n : s[i] \in S
  BY <1>1 DEF ToSet
<1> HIDE DEF S, n
<1>3. s \in [1 .. n -> S]
  BY <1>1, <1>2
<1>4. s \in Seq(S)
  BY <1>1, <1>3, FunctionIsSeq
<1> QED
  BY <1>4 DEF S

\* A request is for a tag of its own language, or for the locale a caller has made.
IsTagRequest(r) == r.tag \in Seq(ToSet(r.tag)) /\ KeepsLanguage(r.tag)

RequestsAreTags ==
  Called => \/ call.requests = <<RequestOf(locale)>>
            \/ \A i \in DOMAIN call.requests : IsTagRequest(call.requests[i])

LEMMA AskedInitially == Init => RequestsAreTags
  BY DEF Init, RequestsAreTags, Called

LEMMA AskedByResolve ==
  ASSUME Resolve
  PROVE  RequestsAreTags'
<1>1. PICK requests \in Requests, algorithm \in Algorithms, options \in [Keys -> OptionValues] :
        call' = [requests |-> requests, algorithm |-> algorithm, options |-> options]
  BY DEF Resolve
<1>2. call'.requests = requests /\ locale' = locale
  BY <1>1 DEF Resolve, localeVars
<1>3. CASE locale = NoLocale
  <2>1. requests \in RequestLists
    BY <1>3 DEF Requests
  <2>2. requests \in Seq(ToSet(requests))
    BY <2>1, RequestShape
  <2>3. \A i \in DOMAIN requests : requests[i] \in ToSet(requests)
    BY <2>2, LenProperties DEF ToSet
  <2>4. \A request \in ToSet(requests) : IsTagRequest(request)
    BY <2>1, RequestShape DEF IsTagRequest
  <2>5. \A i \in DOMAIN requests : IsTagRequest(requests[i])
    BY <2>3, <2>4
  <2> QED
    BY <1>2, <2>5 DEF RequestsAreTags
<1>4. CASE locale # NoLocale
  <2>1. requests = <<RequestOf(locale)>>
    BY <1>4 DEF Requests
  <2>2. call'.requests = <<RequestOf(locale')>>
    BY <1>2, <2>1
  <2> QED
    BY <2>2 DEF RequestsAreTags
<1> QED
  BY <1>3, <1>4

LEMMA AskedByReresolve ==
  ASSUME Resolved, Reresolve
  PROVE  RequestsAreTags'
<1> DEFINE r == RequestOf(resolved.locale)
           tag == resolved.locale.tag
<1>1. tag \in Matcher.exact
  <2>1. DataLocaleServes
    BY DataServes
  <2>2. Called
    BY DEF Reresolve, Called
  <2> QED
    BY <2>1, <2>2 DEF DataLocaleServes
<1>2. r.tag = tag
  BY DEF RequestOf, Request
<1> HIDE DEF tag
<1>3. tag \in TagsIn(Words, tag[1])
  BY <1>1, MatcherFacts
<1>4. tag \in Seq(ToSet(tag))
  <2> DEFINE l == tag[1]
  <2>1. tag \in TagsIn(Words, l)
    BY <1>3
  <2> HIDE DEF l
  <2>2. tag \in Seq(Words)
    BY <2>1, SplitTag
  <2> QED
    BY <2>2, InOwnRange
<1>5. IsTagRequest(r)
  <2>1. ParseTag(tag) = tag /\ tag # Invalid
    BY <1>1, MatcherFacts, NoTagIsUnavailable DEF Invalid, NoTag
  <2> QED
    BY <1>2, <1>4, <2>1 DEF IsTagRequest, KeepsLanguage
<1>6. call'.requests = <<r>>
  <2>1. /\ call = [requests |-> call.requests, algorithm |-> call.algorithm,
                   options |-> call.options]
        /\ call' = [call EXCEPT !.requests = <<r>>]
    BY DEF Resolved, Reresolve, Called
  <2> HIDE DEF r
  <2> QED
    BY <2>1
<1> HIDE DEF r
<1>7. \A i \in DOMAIN <<r>> : IsTagRequest(<<r>>[i])
  BY <1>5
<1> QED
  BY <1>6, <1>7 DEF RequestsAreTags

LEMMA AskedPreserved == Resolved /\ RequestsAreTags /\ [Next]_vars => RequestsAreTags'
<1> SUFFICES ASSUME Resolved, RequestsAreTags, [Next]_vars
             PROVE  RequestsAreTags'
  OBVIOUS
<1>1. CASE MakeLocale
  BY <1>1 DEF MakeLocale, callVars, RequestsAreTags, Called
<1>2. CASE Resolve
  BY <1>2, AskedByResolve
<1>3. CASE Reresolve
  BY <1>3, AskedByReresolve
<1>4. CASE UNCHANGED vars
  BY <1>4 DEF vars, callVars, localeVars, RequestsAreTags, Called
<1> QED
  BY <1>1, <1>2, <1>3, <1>4 DEF Next

LEMMA LookupsOfTags ==
  ASSUME NEW i \in DOMAIN call.requests, IsTagRequest(call.requests[i])
  PROVE  LET one == <<call.requests[i]>>
         IN  Match(Matcher, one, NoTag, "lookup").locale # NoTag
               => Match(Matcher, one, NoTag, "best fit").locale # NoTag
<1> DEFINE r == call.requests[i]
           W == ToSet(r.tag)
<1>1. r.tag \in Seq(W) /\ KeepsLanguage(r.tag)
  BY DEF IsTagRequest
<1> HIDE DEF W, r
<1> QED
  BY <1>1, OneLookup DEF r

LEMMA LookupsOfCall ==
  ASSUME Resolved, RequestsAreTags, LocaleHasTag, KeepsLanguage(locale.tag)
  PROVE  LookupImpliesBestFit
<1> SUFFICES ASSUME Called, NEW i \in DOMAIN call.requests
             PROVE  LET one == <<call.requests[i]>>
                    IN  Match(Matcher, one, NoTag, "lookup").locale # NoTag
                          => Match(Matcher, one, NoTag, "best fit").locale # NoTag
  BY DEF LookupImpliesBestFit
<1>1. IsTagRequest(call.requests[i])
  <2>1. CASE \A j \in DOMAIN call.requests : IsTagRequest(call.requests[j])
    BY <2>1
  <2>2. CASE call.requests = <<RequestOf(locale)>>
    <3>1. IsTagRequest(RequestOf(locale))
      BY DEF LocaleHasTag, IsTagRequest, RequestOf, Request
    <3> DEFINE r == RequestOf(locale)
    <3> HIDE DEF r
    <3>2. call.requests = <<r>> /\ IsTagRequest(r)
      BY <2>2, <3>1 DEF r
    <3> QED
      BY <3>2
  <2> QED
    BY <2>1, <2>2 DEF RequestsAreTags
<1> QED
  BY <1>1, LookupsOfTags

\* A locale that a lookup finds for a request a best fit finds as well: whatever
\* the data, requests and options, and whatever is asked of the locale callers make,
\* as long as the tag of that one is a sequence, and of the language it says it is.
THEOREM LookupsAreBestFits ==
  Spec => [](LocaleHasTag /\ KeepsLanguage(locale.tag) => LookupImpliesBestFit)
<1>1. Init => RequestsAreTags
  BY AskedInitially
<1>2. Resolved /\ RequestsAreTags /\ [Next]_vars => RequestsAreTags'
  BY AskedPreserved
<1>3. Resolved /\ RequestsAreTags =>
        (LocaleHasTag /\ KeepsLanguage(locale.tag) => LookupImpliesBestFit)
  BY LookupsOfCall
<1> QED
  BY <1>1, <1>2, <1>3, ResolutionsKept, PTL DEF Spec
===============================================================================
