-------------------------- MODULE NumberFormatProofs --------------------------
(***************************************************************************)
(* What a numeric string means: its digits, without the zeros around them, *)
(* and its exponent are the decimal it is read as, for all literals.       *)
(* NumberFormat obeys its caller, resolves its own resolved options to     *)
(* itself, and rounds correctly, for all options, locales and values.      *)
(***************************************************************************)
EXTENDS NumberFormat, NumberDigitsProofs

-------------------------------------------------------------------------------
(* Coefficients. *)

AllIn(digits, len, S) == \A i \in 1 .. len : digits[i] \in S
AllZero(digits, first, last) == \A i \in first .. last : digits[i] = 0
HasOther(digits) == \E i \in 1 .. Len(digits) : digits[i] # 0

\* v[n] is the number that the first n digits say, for as many digits as len.
Says(v, digits, base, len) ==
  \A n \in 0 .. len : v[n] = IF n = 0 THEN 0 ELSE v[n - 1] * base + digits[n]

LEMMA SaysOne ==
  ASSUME NEW digits, NEW len \in Nat, AllIn(digits, len, Nat),
         NEW base \in Nat, NEW v, NEW w,
         Says(v, digits, base, len), Says(w, digits, base, len)
  PROVE  \A n \in 0 .. len : v[n] = w[n]
<1> DEFINE S == {n \in Nat : n <= len => v[n] = w[n]}
<1>1. 0 \in S
  BY DEF Says
<1>2. ASSUME NEW n \in Nat, n \in S
      PROVE  n + 1 \in S
  <2>1. ASSUME n + 1 <= len
        PROVE  v[n + 1] = w[n + 1]
    <3>1. n + 1 \in 0 .. len /\ n + 1 # 0 /\ (n + 1) - 1 = n /\ v[n] = w[n]
      BY <1>2, <2>1
    <3> QED
      BY <3>1 DEF Says
  <2> QED
    BY <2>1
<1> HIDE DEF S
<1>3. Nat \subseteq S
  BY <1>1, <1>2, Induction
<1> QED
  BY <1>3 DEF S

LEMMA SomethingSaid ==
  ASSUME NEW digits, NEW len \in Nat, AllIn(digits, len, Nat),
         NEW base \in Nat
  PROVE  \E v \in [Nat -> Nat] : Says(v, digits, base, len)
<1> USE DEF AllIn
<1> DEFINE prev == [n \in Nat |-> IF n = 0 THEN 0 ELSE n - 1]
           digit(n) == IF n \in 1 .. len THEN digits[n] ELSE 0
           step == [n \in Nat |-> [v \in Nat |-> v * base + digit(n)]]
           start == 0
<1>1. \A n \in Nat : digit(n) \in Nat
  OBVIOUS
<1> HIDE DEF digit
<1>2. ASSUME NEW n \in Nat, NEW v \in Nat
      PROVE  step[n][v] = v * base + digit(n) /\ step[n][v] \in Nat
  <2>1. step[n] = [w \in Nat |-> w * base + digit(n)]
    OBVIOUS
  <2> HIDE DEF step
  <2>2. step[n][v] = v * base + digit(n)
    BY <2>1
  <2>3. digit(n) \in Nat /\ v * base \in Nat
    BY <1>1
  <2> QED
    BY <2>2, <2>3
<1>3. /\ \A n \in Nat : prev[n] = IF n = 0 THEN 0 ELSE n - 1
      /\ prev \in [Nat -> Nat] /\ start \in Nat /\ start = 0
  OBVIOUS
<1> HIDE DEF prev, step, start
<1>4. IsRecursion(prev, step, start)
  BY <1>2, <1>3 DEF IsRecursion
<1>5. HasSolution(prev, step, start)
  BY <1>4, RecursionDefines
<1>6. PICK f \in [Nat -> Nat] :
        \A n \in Nat : f[n] = IF prev[n] < n THEN step[n][f[prev[n]]] ELSE start
  BY <1>5 DEF HasSolution
<1>7. ASSUME NEW n \in 0 .. len
      PROVE  f[n] = IF n = 0 THEN 0 ELSE f[n - 1] * base + digits[n]
  <2>1. n \in Nat
    OBVIOUS
  <2>2. f[n] = IF prev[n] < n THEN step[n][f[prev[n]]] ELSE start
    BY <1>6, <2>1
  <2>3. CASE n = 0
    BY <1>3, <2>1, <2>2, <2>3
  <2>4. CASE n # 0
    <3>1. n - 1 \in Nat /\ prev[n] = n - 1 /\ n \in 1 .. len
      BY <1>3, <2>1, <2>4
    <3>2. f[n - 1] \in Nat
      BY <3>1
    <3>3. f[n] = step[n][f[n - 1]]
      BY <2>1, <2>2, <3>1
    <3>4. step[n][f[n - 1]] = f[n - 1] * base + digit(n)
      BY <1>2, <2>1, <3>2
    <3> QED
      BY <2>4, <3>1, <3>3, <3>4 DEF digit
  <2> QED
    BY <2>3, <2>4
<1> QED
  BY <1>7 DEF Says

LEMMA CoefficientIs ==
  ASSUME NEW digits \in Seq(Nat), NEW base \in Nat, NEW v, Says(v, digits, base, Len(digits))
  PROVE  Coefficient(digits, base) = v[Len(digits)]
<1> USE DEF AllIn
<1> DEFINE IsIt(f) == f = [n \in 0 .. Len(digits) |->
                             IF n = 0 THEN 0 ELSE f[n - 1] * base + digits[n]]
           c == CHOOSE f : IsIt(f)
           g == [n \in 0 .. Len(digits) |-> v[n]]
<1>1. Coefficient(digits, base) = c[Len(digits)]
  BY DEF Coefficient
<1>2. IsIt(g)
  <2>1. \A n \in 0 .. Len(digits) : n # 0 => n - 1 \in 0 .. Len(digits)
    OBVIOUS
  <2> QED
    BY <2>1 DEF Says
<1>3. IsIt(c)
  <2> HIDE DEF IsIt, g
  <2> QED
    BY <1>2
<1> HIDE DEF c
<1>4. Says(c, digits, base, Len(digits))
  BY <1>3 DEF Says
<1>5. Len(digits) \in 0 .. Len(digits)
  OBVIOUS
<1>6. \A i \in 1 .. Len(digits) : digits[i] \in Nat
  OBVIOUS
<1> QED
  BY <1>1, <1>4, <1>5, <1>6, SaysOne

\* The first digits of s are those of digits from the k-th on.
Shifted(s, size, digits, k) == \A i \in 1 .. size : s[i] = digits[k - 1 + i]

\* s is digits k to m.
IsSlice(s, digits, k, m) ==
  s \in Seq(Nat) /\ Len(s) = m - k + 1 /\ Shifted(s, Len(s), digits, k)

LEMMA SubSeqIsSlice ==
  ASSUME NEW digits \in Seq(Nat), NEW k \in 1 .. Len(digits), NEW m \in k .. Len(digits)
  PROVE  IsSlice(SubSeq(digits, k, m), digits, k, m)
<1> USE DEF Shifted
<1>1. SubSeq(digits, k, m) \in Seq(Nat)
  BY SubSeqProperties
<1>2. /\ Len(SubSeq(digits, k, m)) = m - k + 1
      /\ \A i \in 1 .. m - k + 1 : SubSeq(digits, k, m)[i] = digits[k + i - 1]
  BY SubSeqProperties
<1>3. \A i \in 1 .. m - k + 1 : k + i - 1 = k - 1 + i
  OBVIOUS
<1> QED
  BY <1>1, <1>2, <1>3 DEF IsSlice

\* The first and the last of the indices where a digit is not zero.
LEMMA NotZeroIndices ==
  ASSUME NEW digits \in Seq(Nat), HasOther(digits)
  PROVE  LET k == SelectInSeq(digits, NotZero)
             m == SelectLastInSeq(digits, NotZero)
         IN  /\ k \in 1 .. Len(digits) /\ m \in k .. Len(digits)
             /\ digits[k] # 0 /\ digits[m] # 0
             /\ AllZero(digits, 1, k - 1)
             /\ AllZero(digits, m + 1, Len(digits))
<1> USE DEF AllZero, HasOther
<1> DEFINE I == {i \in 1 .. Len(digits) : NotZero(digits[i])}
           J == {Len(digits) - i : i \in I}
           first == CHOOSE i \in I : \A j \in I : i <= j
           last == CHOOSE i \in I : \A j \in I : i >= j
<1>1. I # {} /\ I \subseteq Nat /\ \A i \in I : i \in 1 .. Len(digits) /\ digits[i] # 0
  BY DEF NotZero
<1>2. \A i \in 1 .. Len(digits) : digits[i] # 0 => i \in I
  BY DEF NotZero
<1>3. SelectInSeq(digits, NotZero) = first
  BY <1>1 DEF SelectInSeq, Min
<1>4. SelectLastInSeq(digits, NotZero) = last
  BY <1>1 DEF SelectLastInSeq, Max
<1> HIDE DEF I
<1>5. first \in I /\ \A j \in I : first <= j
  <2>1. \E i \in I : \A j \in I : i <= j
    BY <1>1, LeastElement
  <2> QED
    BY <2>1
<1>6. last \in I /\ \A j \in I : last >= j
  <2>1. J \subseteq Nat /\ J # {}
    <3>1. ASSUME NEW i \in I
          PROVE  Len(digits) - i \in Nat
      <4>1. i \in 1 .. Len(digits) /\ Len(digits) \in Nat
        BY <1>1
      <4> QED
        BY <4>1
    <3> QED
      BY <1>1, <3>1
  <2>2. PICK n \in J : \A j \in J : n <= j
    <3> HIDE DEF J
    <3> QED
      BY <2>1, LeastElement
  <2>3. PICK i \in I : n = Len(digits) - i
    BY <2>2
  <2>4. \A j \in I : i >= j
    <3> SUFFICES ASSUME NEW j \in I PROVE i >= j
      OBVIOUS
    <3>1. n <= Len(digits) - j
      BY <2>2
    <3> QED
      BY <1>1, <2>3, <3>1
  <2>5. \E l \in I : \A j \in I : l >= j
    BY <2>4
  <2> QED
    BY <2>5
<1> HIDE DEF first, last
<1>7. first \in 1 .. Len(digits) /\ last \in 1 .. Len(digits) /\ first <= last
      /\ digits[first] # 0 /\ digits[last] # 0
  BY <1>1, <1>5, <1>6
<1>8. \A i \in 1 .. first - 1 : digits[i] = 0
  BY <1>2, <1>5, <1>7
<1>9. \A i \in last + 1 .. Len(digits) : digits[i] = 0
  BY <1>2, <1>6, <1>7
<1> QED
  BY <1>3, <1>4, <1>7, <1>8, <1>9

\* What is left of digits without the zeros around them.
LEMMA Trimmed ==
  ASSUME NEW digits \in Seq(Nat), HasOther(digits)
  PROVE  \E k \in 1 .. Len(digits) : \E m \in k .. Len(digits) :
           /\ digits[k] # 0 /\ digits[m] # 0
           /\ AllZero(digits, 1, k - 1)
           /\ AllZero(digits, m + 1, Len(digits))
           /\ IsSlice(TrimLeft(digits), digits, k, Len(digits))
           /\ IsSlice(TrimRight(TrimLeft(digits)), digits, k, m)
<1> USE DEF AllZero, HasOther, Shifted
<1> DEFINE k == SelectInSeq(digits, NotZero)
           left == TrimLeft(digits)
           n == SelectLastInSeq(left, NotZero)
           right == TrimRight(left)
           m == k - 1 + n
<1>1. /\ k \in 1 .. Len(digits) /\ digits[k] # 0
      /\ AllZero(digits, 1, k - 1)
  BY NotZeroIndices
<1>2. left = SubSeq(digits, k, Len(digits))
  <2>1. ~ \A i \in DOMAIN digits : digits[i] = 0
    OBVIOUS
  <2> QED
    BY <2>1 DEF TrimLeft
<1>3. right = SubSeq(left, 1, n)
  BY DEF TrimRight
<1> HIDE DEF k, left, n, right
<1>4. IsSlice(left, digits, k, Len(digits))
  <2>1. Len(digits) \in k .. Len(digits)
    BY <1>1
  <2> QED
    BY <1>1, <1>2, <2>1, SubSeqIsSlice
<1>5. left \in Seq(Nat) /\ Len(left) = Len(digits) - k + 1
      /\ \A i \in 1 .. Len(left) : left[i] = digits[k - 1 + i]
  BY <1>4 DEF IsSlice
<1>6. 1 \in 1 .. Len(left) /\ left[1] # 0
  <2>1. 1 \in 1 .. Len(left) /\ k - 1 + 1 = k
    BY <1>1, <1>5
  <2>2. left[1] = digits[k - 1 + 1]
    BY <1>5, <2>1
  <2> QED
    BY <1>1, <2>1, <2>2
<1>7. \E i \in 1 .. Len(left) : left[i] # 0
  BY <1>6
<1>8. /\ n \in 1 .. Len(left) /\ left[n] # 0
      /\ \A i \in n + 1 .. Len(left) : left[i] = 0
  <2>1. left \in Seq(Nat)
    BY <1>5
  <2> QED
    BY <1>7, <2>1, NotZeroIndices DEF n
<1>9. IsSlice(right, left, 1, n)
  BY <1>3, <1>5, <1>6, <1>8, SubSeqIsSlice
<1>10. IsSlice(right, digits, k, m)
  <2>1. /\ right \in Seq(Nat) /\ Len(right) = n - 1 + 1
        /\ \A i \in 1 .. Len(right) : right[i] = left[1 - 1 + i]
    BY <1>9 DEF IsSlice
  <2>2. Len(right) = m - k + 1 /\ Len(right) <= Len(left)
    BY <1>1, <1>5, <1>8, <2>1
  <2>3. ASSUME NEW i \in 1 .. Len(right)
        PROVE  right[i] = digits[k - 1 + i]
    <3>1. i \in 1 .. Len(left) /\ 1 - 1 + i = i
      BY <1>5, <2>1, <2>2
    <3> QED
      BY <1>5, <2>1, <3>1
  <2> QED
    BY <2>1, <2>2, <2>3 DEF IsSlice
<1>11. m \in k .. Len(digits) /\ digits[m] # 0
  <2>1. Len(left) \in Nat /\ n \in Nat
    BY <1>5, <1>8
  <2>2. left[n] = digits[k - 1 + n]
    BY <1>5, <1>8
  <2>3. m \in k .. Len(digits)
    BY <1>1, <1>5, <1>8, <2>1
  <2> QED
    BY <1>8, <2>2, <2>3
<1>12. AllZero(digits, m + 1, Len(digits))
  <2> SUFFICES ASSUME NEW i \in m + 1 .. Len(digits) PROVE digits[i] = 0
    OBVIOUS
  <2>1. i - k + 1 \in n + 1 .. Len(left) /\ k - 1 + (i - k + 1) = i
    BY <1>1, <1>5, <1>8
  <2>2. left[i - k + 1] = 0 /\ left[i - k + 1] = digits[k - 1 + (i - k + 1)]
    BY <1>5, <1>8, <2>1
  <2> QED
    BY <2>1, <2>2
<1> HIDE DEF m
<1> QED
  BY <1>1, <1>4, <1>10, <1>11, <1>12 DEF left, right

\* Zeros before the other digits say nothing.
LEMMA LeadingZeros ==
  ASSUME NEW digits, NEW len \in Nat, AllIn(digits, len, Nat),
         NEW base \in Nat, NEW v \in [Nat -> Nat], Says(v, digits, base, len),
         NEW k \in 1 .. len + 1, AllZero(digits, 1, k - 1)
  PROVE  v[k - 1] = 0
<1> USE DEF AllZero
<1> DEFINE S == {n \in Nat : n < k => v[n] = 0}
<1>1. 0 \in S
  BY DEF Says
<1>2. ASSUME NEW n \in Nat, n \in S
      PROVE  n + 1 \in S
  <2>1. ASSUME n + 1 < k
        PROVE  v[n + 1] = 0
    <3>1. /\ n + 1 \in 0 .. len /\ n + 1 # 0 /\ (n + 1) - 1 = n
          /\ v[n] = 0 /\ n + 1 \in 1 .. k - 1
      BY <1>2, <2>1
    <3>2. v[n + 1] = v[n] * base + digits[n + 1]
      BY <3>1 DEF Says
    <3> QED
      BY <3>1, <3>2
  <2> QED
    BY <2>1
<1> HIDE DEF S
<1>3. Nat \subseteq S
  BY <1>1, <1>2, Induction
<1>4. k - 1 \in Nat /\ k - 1 < k
  OBVIOUS
<1> QED
  BY <1>3, <1>4 DEF S

\* Each zero after the other digits multiplies what they say by ten.
LEMMA TrailingZeros ==
  ASSUME NEW digits, NEW len \in Nat, AllIn(digits, len, Nat),
         NEW v \in [Nat -> Nat], Says(v, digits, 10, len),
         NEW m \in 0 .. len, AllZero(digits, m + 1, len)
  PROVE  v[len] = v[m] * PowerOfTen[len - m]
<1> USE DEF AllZero
<1> DEFINE S == {n \in Nat : m + n <= len => v[m + n] = v[m] * PowerOfTen[n]}
<1>1. 0 \in S
  <2>1. PowerOfTen[0] = 1 /\ m + 0 = m /\ v[m] \in Nat
    BY PowerOfTenDef
  <2>2. v[m + 0] = v[m] * PowerOfTen[0]
    BY <2>1
  <2> QED
    BY <2>2
<1>2. ASSUME NEW n \in Nat, n \in S
      PROVE  n + 1 \in S
  <2>1. ASSUME m + (n + 1) <= len
        PROVE  v[m + (n + 1)] = v[m] * PowerOfTen[n + 1]
    <3>1. /\ m + (n + 1) \in 0 .. len /\ m + (n + 1) # 0 /\ (m + (n + 1)) - 1 = m + n
          /\ m + (n + 1) \in m + 1 .. len
      BY <2>1
    <3>2. v[m + n] = v[m] * PowerOfTen[n]
      BY <1>2, <2>1
    <3>3. v[m + (n + 1)] = v[m + n] * 10 + digits[m + (n + 1)] /\ digits[m + (n + 1)] = 0
      BY <3>1 DEF Says
    <3>4. PowerOfTen[n + 1] = 10 * PowerOfTen[n] /\ PowerOfTen[n] \in Nat /\ v[m] \in Nat
      BY PowerOfTenDef
    <3>5. v[m] * PowerOfTen[n] \in Nat /\ (v[m] * PowerOfTen[n]) * 10 = v[m] * (10 * PowerOfTen[n])
      BY <3>4
    <3> QED
      BY <3>2, <3>3, <3>4, <3>5
  <2> QED
    BY <2>1
<1> HIDE DEF S
<1>3. Nat \subseteq S
  BY <1>1, <1>2, Induction
<1>4. len - m \in Nat /\ m + (len - m) = len
  OBVIOUS
<1> QED
  BY <1>3, <1>4 DEF S

\* Digits from the first that is not zero on say a number of as many digits.
LEMMA DigitsBound ==
  ASSUME NEW digits, NEW len \in Nat, AllIn(digits, len, 0 .. 9),
         NEW v \in [Nat -> Nat], Says(v, digits, 10, len),
         NEW k \in 1 .. len, v[k - 1] = 0, digits[k] # 0, NEW m \in k .. len
  PROVE  PowerOfTen[m - k] <= v[m] /\ v[m] < PowerOfTen[m - k + 1]
<1> USE DEF AllIn
<1> DEFINE S == {n \in Nat : k + n <= len =>
                   PowerOfTen[n] <= v[k + n] /\ v[k + n] < PowerOfTen[n + 1]}
<1>1. 0 \in S
  <2>1. PowerOfTen[0] = 1 /\ PowerOfTen[0 + 1] = 10
    BY PowerOfTenDef
  <2>2. k \in 0 .. len /\ k # 0 /\ k + 0 = k
    OBVIOUS
  <2>3. v[k] = v[k - 1] * 10 + digits[k]
    BY <2>2 DEF Says
  <2>4. v[k] = digits[k] /\ digits[k] \in 1 .. 9
    BY <2>3
  <2>5. PowerOfTen[0] <= v[k + 0] /\ v[k + 0] < PowerOfTen[0 + 1]
    BY <2>1, <2>2, <2>4
  <2> QED
    BY <2>5
<1>2. ASSUME NEW n \in Nat, n \in S
      PROVE  n + 1 \in S
  <2>1. ASSUME k + (n + 1) <= len
        PROVE  PowerOfTen[n + 1] <= v[k + (n + 1)] /\ v[k + (n + 1)] < PowerOfTen[(n + 1) + 1]
    <3>1. /\ k + (n + 1) \in 0 .. len /\ k + (n + 1) # 0 /\ (k + (n + 1)) - 1 = k + n
          /\ k + (n + 1) \in 1 .. len /\ k + n \in Nat
      BY <2>1
    <3>2. PowerOfTen[n] <= v[k + n] /\ v[k + n] < PowerOfTen[n + 1]
      BY <1>2, <2>1
    <3>3. v[k + (n + 1)] = v[k + n] * 10 + digits[k + (n + 1)] /\ digits[k + (n + 1)] \in 0 .. 9
      BY <3>1 DEF Says
    <3>4. /\ PowerOfTen[n + 1] = 10 * PowerOfTen[n] /\ PowerOfTen[(n + 1) + 1] = 10 * PowerOfTen[n + 1]
          /\ PowerOfTen[n] \in Nat /\ PowerOfTen[n + 1] \in Nat /\ v[k + n] \in Nat
      BY <3>1, PowerOfTenDef
    <3> QED
      BY <3>2, <3>3, <3>4
  <2> QED
    BY <2>1
<1> HIDE DEF S
<1>3. Nat \subseteq S
  BY <1>1, <1>2, Induction
<1>4. m - k \in Nat /\ k + (m - k) = m
  OBVIOUS
<1> QED
  BY <1>3, <1>4 DEF S

\* What a slice says when nothing was said before it.
SaysOf(s, base, size, value) == \E w : Says(w, s, base, size) /\ w[size] = value

LEMMA ShiftedSays ==
  ASSUME NEW digits, NEW len \in Nat, NEW base \in Nat, NEW v \in [Nat -> Nat],
         Says(v, digits, base, len),
         NEW k \in 1 .. len, NEW m \in k .. len, v[k - 1] = 0,
         NEW s, NEW size, size = m - k + 1, Shifted(s, size, digits, k)
  PROVE  SaysOf(s, base, size, v[m])
<1> USE DEF Shifted, SaysOf
<1> DEFINE w == [n \in Nat |-> v[k - 1 + n]]
<1>1. \A n \in Nat : w[n] = v[k - 1 + n]
  OBVIOUS
<1> HIDE DEF w
<1>2. ASSUME NEW n \in 0 .. size
      PROVE  w[n] = IF n = 0 THEN 0 ELSE w[n - 1] * base + s[n]
  <2>1. CASE n = 0
    <3>1. k - 1 + 0 = k - 1
      OBVIOUS
    <3> QED
      BY <1>1, <2>1, <3>1
  <2>2. CASE n # 0
    <3>1. /\ n \in 1 .. size /\ n - 1 \in Nat /\ n \in Nat
          /\ k - 1 + n \in 0 .. len /\ k - 1 + n # 0 /\ (k - 1 + n) - 1 = k - 1 + (n - 1)
      BY <2>2
    <3>2. v[k - 1 + n] = v[(k - 1 + n) - 1] * base + digits[k - 1 + n]
      BY <3>1 DEF Says
    <3> QED
      BY <1>1, <2>2, <3>1, <3>2
  <2> QED
    BY <2>1, <2>2
<1>3. Says(w, s, base, size)
  BY <1>2 DEF Says
<1>4. size \in Nat /\ k - 1 + size = m
  OBVIOUS
<1>5. w[size] = v[m]
  BY <1>1, <1>4
<1> QED
  BY <1>3, <1>5

LEMMA SliceSays ==
  ASSUME NEW digits \in Seq(Nat), NEW base \in Nat, NEW v \in [Nat -> Nat],
         Says(v, digits, base, Len(digits)),
         NEW k \in 1 .. Len(digits), NEW m \in k .. Len(digits), v[k - 1] = 0,
         NEW s, IsSlice(s, digits, k, m)
  PROVE  Coefficient(s, base) = v[m]
<1>1. /\ s \in Seq(Nat) /\ Len(s) = m - k + 1
      /\ Shifted(s, Len(s), digits, k)
  BY DEF IsSlice
<1> DEFINE len == Len(digits)
           size == Len(s)
<1>2. /\ len \in Nat /\ k \in 1 .. len /\ m \in k .. len /\ Says(v, digits, base, len)
      /\ size = m - k + 1 /\ Shifted(s, size, digits, k)
  BY <1>1
<1>3. SaysOf(s, base, size, v[m])
  <2> HIDE DEF len, size
  <2> QED
    BY <1>2, ShiftedSays
<1>4. PICK w : Says(w, s, base, size) /\ w[size] = v[m]
  BY <1>3 DEF SaysOf
<1>5. Coefficient(s, base) = w[Len(s)]
  BY <1>1, <1>4, CoefficientIs
<1> QED
  BY <1>4, <1>5

\* Only from the k-th to the m-th are there digits that are not zero.
Enclosed(digits, len, k, m) ==
  digits[k] # 0 /\ digits[m] # 0 /\ AllZero(digits, 1, k - 1) /\ AllZero(digits, m + 1, len)

\* What is said by the m-th digit, and what by the last.
SaidBy(v, len, k, m) ==
  /\ v[k - 1] = 0
  /\ v[len] = v[m] * PowerOfTen[len - m]
  /\ v[m] \in Nat \ {0} /\ NumDigits(v[m]) = m - k + 1 /\ v[m] % 10 # 0

LEMMA SaidBetween ==
  ASSUME NEW digits, NEW len \in Nat, AllIn(digits, len, 0 .. 9),
         NEW v \in [Nat -> Nat], Says(v, digits, 10, len),
         NEW k \in 1 .. len, NEW m \in k .. len, Enclosed(digits, len, k, m)
  PROVE  SaidBy(v, len, k, m)
<1> USE DEF Enclosed
<1> DEFINE ten == 10
<1>1. ten \in Nat /\ Says(v, digits, ten, len)
  OBVIOUS
<1> HIDE DEF ten
<1>2. AllIn(digits, len, Nat)
  BY DEF AllIn
<1>3. k \in 1 .. len + 1 /\ m \in 0 .. len
  OBVIOUS
<1>4. v[k - 1] = 0
  BY <1>1, <1>2, <1>3, LeadingZeros
<1>5. v[len] = v[m] * PowerOfTen[len - m]
  BY <1>2, <1>3, TrailingZeros
<1>6. PowerOfTen[m - k] <= v[m] /\ v[m] < PowerOfTen[m - k + 1]
  BY <1>4, DigitsBound
<1>7. m \in Nat /\ m - 1 \in Nat /\ m \in 1 .. len /\ m - k \in Nat /\ m - k + 1 \in Nat \ {0}
      /\ (m - k + 1) - 1 = m - k
  OBVIOUS
<1>8. v[m] \in Nat /\ v[m - 1] \in Nat /\ PowerOfTen[m - k] \in Nat \ {0}
  BY <1>7, PowerOfTenPositive
<1>9. v[m] \in Nat \ {0}
  BY <1>6, <1>8
<1>10. NumDigits(v[m]) = m - k + 1
  BY <1>6, <1>7, <1>9, NumDigitsUnique
<1>11. v[m] % 10 # 0
  <2>1. m \in 0 .. len /\ m # 0
    BY <1>7
  <2>2. v[m] = v[m - 1] * 10 + digits[m]
    BY <2>1 DEF Says
  <2>3. digits[m] \in 1 .. 9
    BY <1>7 DEF AllIn
  <2> QED
    BY <1>8, <2>2, <2>3
<1> QED
  BY <1>4, <1>5, <1>9, <1>10, <1>11 DEF SaidBy

\* Digits without the zeros around them: as many as the number they say has, the
\* last of them not 0, and each zero removed from the end was a factor of ten.
IsTrimmed(digits, left, right, c) ==
  /\ right \in Seq(Nat) /\ Len(right) \in 1 .. Len(left) /\ Len(left) \in 1 .. Len(digits)
  /\ c \in Nat \ {0} /\ NumDigits(c) = Len(right) /\ c % 10 # 0
  /\ Coefficient(digits, 10) = c * PowerOfTen[Len(left) - Len(right)]

LEMMA CoefficientTrimmed ==
  ASSUME NEW digits \in Seq(0 .. 9), HasOther(digits)
  PROVE  IsTrimmed(digits, TrimLeft(digits), TrimRight(TrimLeft(digits)),
                   Coefficient(TrimRight(TrimLeft(digits)), 10))
<1> DEFINE left  == TrimLeft(digits)
           right == TrimRight(left)
           len   == Len(digits)
           ten   == 10
<1>1. /\ digits \in Seq(Nat) /\ len \in Nat
      /\ AllIn(digits, len, 0 .. 9)
  BY DEF AllIn
<1>2. PICK k \in 1 .. len : \E m \in k .. len :
           /\ digits[k] # 0 /\ digits[m] # 0
           /\ AllZero(digits, 1, k - 1)
           /\ AllZero(digits, m + 1, len)
           /\ IsSlice(left, digits, k, len)
           /\ IsSlice(right, digits, k, m)
  BY <1>1, Trimmed
<1>3. PICK m \in k .. len :
           /\ digits[k] # 0 /\ digits[m] # 0
           /\ AllZero(digits, 1, k - 1)
           /\ AllZero(digits, m + 1, len)
           /\ IsSlice(left, digits, k, len)
           /\ IsSlice(right, digits, k, m)
  BY <1>2
<1>4. ten \in Nat /\ ten = 10 /\ AllIn(digits, len, Nat)
  BY <1>1 DEF AllIn
<1>5. /\ Len(left) = len - k + 1 /\ Len(right) = m - k + 1 /\ right \in Seq(Nat)
      /\ Len(left) - Len(right) = len - m
  <2>1. Len(left) = len - k + 1 /\ Len(right) = m - k + 1 /\ right \in Seq(Nat)
    BY <1>3 DEF IsSlice
  <2> HIDE DEF left, right, len
  <2> QED
    BY <1>1, <2>1
<1> HIDE DEF ten
<1>6. PICK v \in [Nat -> Nat] : Says(v, digits, ten, len)
  <2> HIDE DEF len
  <2> QED
    BY <1>1, <1>4, SomethingSaid
<1>7. Coefficient(digits, ten) = v[len]
  BY <1>1, <1>4, <1>6, CoefficientIs
<1>8. Says(v, digits, 10, len) /\ Enclosed(digits, len, k, m)
  BY <1>3, <1>4, <1>6 DEF Enclosed
<1>9. SaidBy(v, len, k, m)
  <2> HIDE DEF len
  <2> QED
    BY <1>1, <1>8, SaidBetween
<1>10. Coefficient(right, ten) = v[m]
  <2>1. v[k - 1] = 0 /\ IsSlice(right, digits, k, m)
    BY <1>3, <1>9 DEF SaidBy
  <2>2. m \in k .. Len(digits) /\ k \in 1 .. Len(digits) /\ Says(v, digits, ten, Len(digits))
    BY <1>6
  <2>3. digits \in Seq(Nat) /\ ten \in Nat /\ v \in [Nat -> Nat]
    BY <1>1, <1>4
  <2> HIDE DEF right, left, len
  <2> QED
    BY <2>1, <2>2, <2>3, SliceSays, Zenon
<1> HIDE DEF left, right
<1>11. Len(right) \in 1 .. Len(left) /\ Len(left) \in 1 .. len
  <2> HIDE DEF len
  <2> QED
    BY <1>1, <1>5
<1>12. IsTrimmed(digits, left, right, v[m])
  BY <1>4, <1>5, <1>7, <1>9, <1>11 DEF IsTrimmed, SaidBy
<1> QED
  BY <1>4, <1>10, <1>12 DEF left, right

LEMMA CoefficientTyped ==
  ASSUME NEW digits \in Seq(Nat), NEW base \in Nat
  PROVE  Coefficient(digits, base) \in Nat
<1> DEFINE len == Len(digits)
<1>1. len \in Nat /\ AllIn(digits, len, Nat)
  BY DEF AllIn
<1>2. PICK v \in [Nat -> Nat] : Says(v, digits, base, len)
  <2> HIDE DEF len
  <2> QED
    BY <1>1, SomethingSaid
<1>3. Coefficient(digits, base) = v[len]
  BY <1>2, CoefficientIs
<1> QED
  BY <1>1, <1>3

LEMMA CoefficientOfZeros ==
  ASSUME NEW digits \in Seq(Nat), ~HasOther(digits)
  PROVE  Coefficient(digits, 10) = 0
<1> DEFINE len == Len(digits)
           ten == 10
           end == len + 1
<1>1. len \in Nat /\ AllIn(digits, len, Nat) /\ ten \in Nat /\ ten = 10
  BY DEF AllIn
<1>2. end \in 1 .. len + 1 /\ end - 1 = len /\ AllZero(digits, 1, len)
  BY DEF HasOther, AllZero
<1>3. PICK v \in [Nat -> Nat] : Says(v, digits, ten, len)
  <2> HIDE DEF len, ten
  <2> QED
    BY <1>1, SomethingSaid
<1>4. Coefficient(digits, ten) = v[len]
  BY <1>1, <1>3, CoefficientIs
<1>5. AllZero(digits, 1, end - 1)
  BY <1>2
<1> HIDE DEF len, ten, end
<1>6. v[end - 1] = 0
  BY <1>1, <1>2, <1>3, <1>5, LeadingZeros
<1> QED
  BY <1>1, <1>2, <1>4, <1>6

-------------------------------------------------------------------------------
(* The range of Numbers. *)

LEMMA MagnitudesTyped == MaxMagnitude \in Nat /\ MinMagnitude \in Int /\ MinMagnitude <= 0
BY Extremes

LEMMA ExtremesApart ==
  /\ Overflow \in Decimal /\ ~Overflow.negative /\ ~IsZero(Overflow)
  /\ Underflow \in Decimal /\ ~Underflow.negative /\ ~IsZero(Underflow)
  /\ Cmp(Underflow, Overflow) < 0
<1>1. Overflow \in Decimal /\ ~Overflow.negative /\ Underflow \in Decimal /\ ~Underflow.negative
      /\ ~IsZero(Underflow) /\ Cmp(Underflow, Overflow) < 0
  BY Extremes
<1>2. SUFFICES ASSUME IsZero(Overflow) PROVE FALSE
  BY <1>1
<1> DEFINE u == LesserOf(Underflow.exp, Overflow.exp)
<1>3. Underflow.exp \in Int /\ Overflow.exp \in Int
  BY <1>1 DEF Decimal
<1>4. u \in Int /\ u <= Underflow.exp /\ u <= Overflow.exp /\ u <= u
  BY <1>3, Lesser
<1> HIDE DEF u
<1>5. SignedUnits(Underflow, u) < SignedUnits(Overflow, u)
  BY <1>1, <1>4, CmpInUnits
<1>6. SignedUnits(Underflow, u) = Units(Underflow, u) /\ Units(Underflow, u) \in Nat
  BY <1>1, <1>4, UnitsRescaled DEF SignedUnits
<1>7. SignedUnits(Overflow, u) = 0
  <2>1. Overflow.exp - u \in Nat
    BY <1>3, <1>4
  <2>2. PowerOfTen[Overflow.exp - u] \in Nat
    BY <2>1, PowerOfTenPositive
  <2>3. Units(Overflow, u) = 0
    BY <1>2, <2>2 DEF IsZero, Units
  <2> QED
    BY <1>1, <2>3 DEF SignedUnits
<1> QED
  BY <1>5, <1>6, <1>7

LEMMA SameMagnitude ==
  ASSUME NEW x \in Decimal, NEW y \in Decimal, x.negative = y.negative, Cmp(x, y) = 0
  PROVE  Cmp(Abs(x), Abs(y)) = 0
<1> DEFINE u == LesserOf(x.exp, y.exp)
<1>1. x.exp \in Int /\ y.exp \in Int
  BY DEF Decimal
<1>2. u \in Int /\ u <= x.exp /\ u <= y.exp /\ u <= u
  BY <1>1, Lesser
<1> HIDE DEF u
<1>3. SignedUnits(x, u) = SignedUnits(y, u)
  BY <1>2, CmpInUnits
<1>4. Units(x, u) \in Nat /\ Units(y, u) \in Nat
  BY <1>2, UnitsRescaled
<1>5. Units(x, u) = Units(y, u)
  <2>1. CASE x.negative
    BY <1>3, <1>4, <2>1 DEF SignedUnits
  <2>2. CASE ~x.negative
    BY <1>3, <1>4, <2>2 DEF SignedUnits
  <2> QED
    BY <2>1, <2>2
<1>6. /\ Abs(x) \in Decimal /\ ~Abs(x).negative /\ Abs(x).exp = x.exp /\ Units(Abs(x), u) = Units(x, u)
      /\ Abs(y) \in Decimal /\ ~Abs(y).negative /\ Abs(y).exp = y.exp /\ Units(Abs(y), u) = Units(y, u)
  BY AbsOf
<1>7. SignedUnits(Abs(x), u) = SignedUnits(Abs(y), u)
  BY <1>5, <1>6 DEF SignedUnits
<1> QED
  BY <1>2, <1>6, <1>7, CmpInUnits

LEMMA SignedZeroOf ==
  ASSUME NEW negative \in BOOLEAN
  PROVE  SignedZero(negative) \in Decimal /\ SignedZero(negative).negative = negative
         /\ IsZero(SignedZero(negative))
BY DEF SignedZero, WithSign, NewDecimal, Decimal, IsZero

\* Whatever equals the exact value is normalized to what is left of that.
LEMMA NormalizedIs ==
  ASSUME NEW x \in Decimal, NEW exact \in Decimal, x.negative = exact.negative, Cmp(x, exact) = 0
  PROVE  /\ InNumberRange(exact, NormalizeStringValue(x))
         /\ NormalizeStringValue(x) \in Decimal \cup {PosInfinity, NegInfinity}
<1>1. Cmp(Abs(x), Abs(exact)) = 0
  BY SameMagnitude
<1>2. Abs(x) \in Decimal /\ Abs(exact) \in Decimal
  BY AbsOf
<1>3. /\ Cmp(Abs(x), Overflow) \in Int /\ Cmp(Abs(exact), Overflow) \in Int
      /\ Cmp(Abs(x), Underflow) \in Int /\ Cmp(Abs(exact), Underflow) \in Int
  BY <1>2, CmpTyped, ExtremesApart
<1>4. Cmp(Abs(x), Overflow) >= 0 <=> IsInfinite(exact)
  <2>1. Cmp(Abs(x), Overflow) < 0 <=> Cmp(Abs(exact), Overflow) < 0
    BY <1>1, <1>2, CmpTransitive, ExtremesApart
  <2> QED
    BY <1>3, <2>1 DEF IsInfinite
<1>5. Cmp(Abs(x), Underflow) <= 0 <=> IsVanishing(exact)
  <2>1. Cmp(Abs(x), Underflow) > 0 <=> Cmp(Abs(exact), Underflow) > 0
    BY <1>1, <1>2, CmpTransitive, ExtremesApart
  <2> QED
    BY <1>3, <2>1 DEF IsVanishing
<1>6. InNumberRange(exact, NormalizeStringValue(x))
  BY <1>4, <1>5 DEF InNumberRange, NormalizeStringValue
<1>7. x.negative \in BOOLEAN
  BY DEF Decimal
<1>8. NormalizeStringValue(x) \in {Infinity(x.negative), SignedZero(x.negative), x}
  BY DEF NormalizeStringValue
<1>9. Infinity(x.negative) \in {PosInfinity, NegInfinity}
  BY DEF Infinity
<1> QED
  BY <1>6, <1>7, <1>8, <1>9, SignedZeroOf

\* A literal whose leading digit is beyond the extremes is not in range.
LEMMA BeyondNumbers ==
  ASSUME NEW exact \in Decimal, ~IsZero(exact)
  PROVE  /\ Log10Floor(exact) > MaxMagnitude => IsInfinite(exact)
         /\ Log10Floor(exact) < MinMagnitude => ~IsInfinite(exact) /\ IsVanishing(exact)
<1> DEFINE x == Abs(exact)
<1>1. x \in Decimal /\ ~x.negative /\ ~IsZero(x) /\ Log10Floor(x) = Log10Floor(exact)
  BY AbsOf
<1>2. \A y \in Decimal : ~IsZero(y) => Log10Floor(y) \in Int
  <2> SUFFICES ASSUME NEW y \in Decimal, ~IsZero(y) PROVE Log10Floor(y) \in Int
    OBVIOUS
  <2>1. y.exp \in Int /\ y.exp <= y.exp
    BY DEF Decimal
  <2> QED
    BY <2>1, LeadingDigit
<1>3. /\ Log10Floor(x) \in Int /\ Log10Floor(Overflow) \in Int /\ Log10Floor(Underflow) \in Int
  BY <1>1, <1>2, ExtremesApart
<1>4. /\ Log10Floor(Overflow) <= MaxMagnitude /\ Log10Floor(Underflow) >= MinMagnitude
      /\ MaxMagnitude \in Int /\ MinMagnitude \in Int
  <2>1. /\ Log10Floor(Overflow) <= MaxMagnitude /\ Log10Floor(Underflow) >= MinMagnitude
        /\ MaxMagnitude \in Nat
    BY Extremes
  <2>2. MinMagnitude \in Int
    BY MagnitudesTyped
  <2> QED
    BY <2>1, <2>2
<1>5. ASSUME Log10Floor(exact) > MaxMagnitude
      PROVE  IsInfinite(exact)
  <2>1. Log10Floor(Overflow) < Log10Floor(x)
    BY <1>1, <1>3, <1>4, <1>5
  <2>2. Cmp(Overflow, x) < 0
    BY <1>1, <2>1, ExtremesApart, LargerLeads
  <2>3. Cmp(x, Overflow) > 0
    BY <1>1, <2>2, ExtremesApart, CmpMirrored
  <2> QED
    BY <2>3, <1>1, ExtremesApart, CmpTyped DEF IsInfinite
<1>6. ASSUME Log10Floor(exact) < MinMagnitude
      PROVE  ~IsInfinite(exact) /\ IsVanishing(exact)
  <2>1. Log10Floor(x) < Log10Floor(Underflow)
    BY <1>1, <1>3, <1>4, <1>6
  <2>2. Cmp(x, Underflow) < 0
    BY <1>1, <2>1, ExtremesApart, LargerLeads
  <2>3. Cmp(x, Overflow) < 0
    BY <1>1, <2>2, ExtremesApart, CmpTransitive
  <2>4. Cmp(x, Underflow) \in Int /\ Cmp(x, Overflow) \in Int
    BY <1>1, ExtremesApart, CmpTyped
  <2> QED
    BY <2>2, <2>3, <2>4 DEF IsInfinite, IsVanishing
<1> QED
  BY <1>5, <1>6

-------------------------------------------------------------------------------
(* Literals. *)

\* A nearer exponent changes no magnitude that is not beyond the extremes, and
\* leaves the others beyond them.
LEMMA NearbyKeepsRange ==
  ASSUME NEW exponent \in Int, NEW total \in Nat, NEW size \in 1 .. total
  PROVE  LET near == Nearby(total, exponent)
             magnitude == exponent + size - 1
         IN  /\ near \in Int
             /\ magnitude \in MinMagnitude .. MaxMagnitude => near = exponent
             /\ magnitude > MaxMagnitude => size - 1 + near > MaxMagnitude
             /\ magnitude < MinMagnitude => size - 1 + near < MinMagnitude
BY MagnitudesTyped DEF Nearby, GreaterOf, LesserOf

\* More zeros than a number has: its digits are not those of a multiple.
LEMMA NotMultiple ==
  ASSUME NEW c \in Nat \ {0}, c % 10 # 0, NEW j \in Nat, NEW k \in Nat, j < k
  PROVE  (c * PowerOfTen[j]) % PowerOfTen[k] # 0
<1> DEFINE p == PowerOfTen[j]
           g == PowerOfTen[k - j - 1]
           b == PowerOfTen[k]
<1>1. /\ p \in Nat \ {0} /\ g \in Nat \ {0} /\ b \in Nat \ {0} /\ b = (10 * g) * p
  <2>1. k - j - 1 \in Nat /\ k - j \in Nat /\ (k - j) - 1 = k - j - 1 /\ k - j # 0 /\ j + (k - j) = k
    OBVIOUS
  <2>2. PowerOfTen[k - j] = 10 * g
    BY <2>1, PowerOfTenDef
  <2>3. b = p * PowerOfTen[k - j]
    BY <2>1, PowerOfTenSum
  <2>4. p \in Nat \ {0} /\ g \in Nat \ {0} /\ b \in Nat \ {0}
    BY <2>1, PowerOfTenPositive
  <2> HIDE DEF p, g, b
  <2> QED
    BY <2>2, <2>3, <2>4
<1> HIDE DEF p, g, b
<1>2. SUFFICES ASSUME (c * p) % b = 0 PROVE FALSE
  BY DEF p, b
<1>3. PICK q \in Int : c * p = q * b
  <2>1. c * p \in Int
    BY <1>1
  <2> QED
    BY <1>1, <1>2, <2>1, MultipleIsProduct
<1>4. \A d \in Int : d * ((10 * g) * p) = (d * (10 * g)) * p
  BY <1>1
<1>5. c * p = (q * (10 * g)) * p /\ q * (10 * g) \in Int
  BY <1>1, <1>3, <1>4
<1>6. c = q * (10 * g)
  BY <1>1, <1>5, FactorKeepsOrder
<1>7. q * (10 * g) = (q * g) * 10 /\ q * g \in Int
  BY <1>1
<1>8. ((q * g) * 10) % 10 = 0
  BY <1>7, Multiple
<1> QED
  BY <1>6, <1>7, <1>8

\* Digits with the zeros around them that were removed are read as what they say.
LEMMA FiniteRead ==
  ASSUME NEW negative \in BOOLEAN, NEW digits \in Seq(Nat),
         NEW total \in Nat, NEW size \in 1 .. total, Len(digits) \in 1 .. size,
         Coefficient(digits, 10) \in Nat \ {0}, NumDigits(Coefficient(digits, 10)) = Len(digits),
         Coefficient(digits, 10) % 10 # 0,
         NEW exponent \in Int,
         NEW exact,
         exact = [negative |-> negative,
                  coeff |-> Coefficient(digits, 10) * PowerOfTen[size - Len(digits)],
                  exp |-> Nearby(total, exponent)],
         NEW value, value = FiniteDecimal(negative, digits, exponent + (size - Len(digits)))
  PROVE  /\ IsRead(exact, value)
         /\ value \in Decimal \cup {PosInfinity, NegInfinity, ErrInvalidDecimal}
<1> DEFINE c == Coefficient(digits, 10)
           n == Len(digits)
           zeros == size - n
           p == PowerOfTen[zeros]
           near == Nearby(total, exponent)
           place == exponent + zeros
           magnitude == place + n - 1
           x == [negative |-> negative, coeff |-> c, exp |-> place]
<1>1. /\ n \in Nat \ {0} /\ zeros \in Nat /\ place \in Int /\ place <= magnitude
      /\ magnitude = exponent + size - 1 /\ magnitude \in Int
  OBVIOUS
<1>2. p \in Nat \ {0}
  BY <1>1, PowerOfTenPositive
<1>3. /\ near \in Int
      /\ magnitude \in MinMagnitude .. MaxMagnitude => near = exponent
      /\ magnitude > MaxMagnitude => size - 1 + near > MaxMagnitude
      /\ magnitude < MinMagnitude => size - 1 + near < MinMagnitude
  BY <1>1, NearbyKeepsRange
<1>4. value = IF magnitude > MaxMagnitude THEN Infinity(negative)
              ELSE IF magnitude < MinMagnitude THEN SignedZero(negative)
              ELSE IF place \notin MinExponent .. MaxExponent THEN ErrInvalidDecimal
              ELSE NormalizeStringValue(x)
  BY DEF FiniteDecimal
<1>5. c \in Nat \ {0} /\ NumDigits(c) = n /\ c % 10 # 0
  OBVIOUS
<1>6. exact = [negative |-> negative, coeff |-> c * p, exp |-> near]
  OBVIOUS
<1>7. n + zeros = size
  BY <1>1
<1> HIDE DEF c, n, zeros, p, near, place, magnitude
<1>8. c * p \in Nat \ {0}
  BY <1>2, <1>5
<1>9. /\ exact \in Decimal /\ ~IsZero(exact) /\ exact.negative = negative
      /\ exact.coeff = c * p /\ exact.exp = near
  BY <1>3, <1>6, <1>8 DEF Decimal, IsZero
<1>10. Log10Floor(exact) = size - 1 + near
  <2>1. NumDigits(c * p) = n + zeros
    BY <1>1, <1>5, ZerosAreDigits DEF p
  <2> QED
    BY <1>7, <1>9, <2>1 DEF Log10Floor
<1>11. ErrInvalidDecimal \notin Decimal \cup {PosInfinity, NegInfinity}
  BY Extremes
<1>12. CASE magnitude > MaxMagnitude
  <2>1. value = Infinity(negative)
    BY <1>4, <1>12
  <2>2. IsInfinite(exact)
    BY <1>3, <1>9, <1>10, <1>12, BeyondNumbers
  <2>3. Infinity(negative) \in {PosInfinity, NegInfinity}
    BY DEF Infinity
  <2> QED
    BY <1>9, <1>11, <2>1, <2>2, <2>3 DEF IsRead, InNumberRange
<1>13. CASE ~(magnitude > MaxMagnitude) /\ magnitude < MinMagnitude
  <2>1. value = SignedZero(negative)
    BY <1>4, <1>13
  <2>2. ~IsInfinite(exact) /\ IsVanishing(exact)
    BY <1>3, <1>9, <1>10, <1>13, BeyondNumbers
  <2> QED
    BY <1>9, <1>11, <2>1, <2>2, SignedZeroOf DEF IsRead, InNumberRange
<1>14. CASE ~(magnitude > MaxMagnitude) /\ ~(magnitude < MinMagnitude)
  <2>1. magnitude \in MinMagnitude .. MaxMagnitude
    BY <1>1, <1>14, MagnitudesTyped
  <2>2. near = exponent /\ Log10Floor(exact) = magnitude
    <3>1. near = exponent
      BY <1>3, <2>1
    <3> QED
      BY <1>1, <1>10, <3>1
  <2>3. CASE place \notin MinExponent .. MaxExponent
    <3>1. value = ErrInvalidDecimal
      BY <1>4, <1>14, <2>3
    <3>2. /\ MinExponent \in Int /\ MaxExponent \in Int /\ MaxMagnitude \in Nat
          /\ MaxMagnitude <= MaxExponent
      BY Extremes
    <3>3. place < MinExponent
      BY <1>1, <2>1, <2>3, <3>2
    <3>4. place = exponent + zeros
      BY DEF place
    <3>5. MinExponent - exponent \in Nat /\ zeros < MinExponent - exponent /\ exponent < MinExponent
      BY <1>1, <3>2, <3>3, <3>4
    <3>6. (c * p) % PowerOfTen[MinExponent - exponent] # 0
      BY <1>1, <1>5, <3>5, NotMultiple DEF p
    <3> QED
      BY <1>9, <2>1, <2>2, <3>1, <3>5, <3>6 DEF IsRead
  <2>4. CASE place \in MinExponent .. MaxExponent
    <3>1. value = NormalizeStringValue(x)
      BY <1>4, <1>14, <2>4
    <3>2. x \in Decimal /\ x.negative = negative /\ x.exp = place /\ x.coeff = c
      BY <1>1, <1>5 DEF Decimal
    <3> HIDE DEF x
    <3>3. exponent <= x.exp /\ exponent <= exact.exp /\ x.exp - exponent = zeros
          /\ exact.exp - exponent = 0
      BY <1>1, <1>9, <2>2, <3>2 DEF place
    <3>4. Units(x, exponent) = c * p /\ Units(exact, exponent) = c * p
      <4>1. Units(x, exponent) = c * PowerOfTen[zeros]
        BY <3>2, <3>3 DEF Units
      <4>2. Units(exact, exponent) = (c * p) * PowerOfTen[0]
        BY <1>9, <3>3 DEF Units
      <4>3. PowerOfTen[0] = 1
        BY PowerOfTenDef
      <4> QED
        BY <1>8, <4>1, <4>2, <4>3 DEF p
    <3>5. SignedUnits(x, exponent) = SignedUnits(exact, exponent)
      BY <1>9, <3>2, <3>4 DEF SignedUnits
    <3>6. Cmp(x, exact) = 0
      BY <1>9, <3>2, <3>3, <3>5, CmpInUnits
    <3>7. /\ InNumberRange(exact, value)
          /\ value \in Decimal \cup {PosInfinity, NegInfinity}
      BY <1>9, <3>1, <3>2, <3>6, NormalizedIs
    <3> QED
      BY <1>11, <3>7 DEF IsRead
  <2> QED
    BY <2>3, <2>4
<1> QED
  BY <1>12, <1>13, <1>14

\* Zeros, however many and with whatever exponent, are zero.
LEMMA ZeroRead ==
  ASSUME NEW exact \in Decimal, IsZero(exact)
  PROVE  IsRead(exact, SignedZero(exact.negative))
<1> DEFINE x == Abs(exact)
           u == LesserOf(x.exp, Underflow.exp)
<1>1. x \in Decimal /\ ~x.negative /\ IsZero(x) /\ exact.negative \in BOOLEAN
  BY AbsOf
<1>2. x.exp \in Int /\ Underflow.exp \in Int /\ Underflow.coeff \in Nat \ {0}
  BY <1>1, ExtremesApart DEF Decimal, IsZero
<1> HIDE DEF x
<1>3. u \in Int /\ u <= x.exp /\ u <= Underflow.exp
  BY <1>2, Lesser
<1> HIDE DEF u
<1>4. SignedUnits(x, u) = 0
  <2>1. x.exp - u \in Nat
    BY <1>2, <1>3
  <2>2. PowerOfTen[x.exp - u] \in Nat
    BY <2>1, PowerOfTenPositive
  <2> QED
    BY <1>1, <2>2 DEF SignedUnits, Units, IsZero
<1>5. SignedUnits(Underflow, u) > 0
  <2>1. Underflow.exp - u \in Nat
    BY <1>2, <1>3
  <2>2. PowerOfTen[Underflow.exp - u] \in Nat \ {0}
    BY <2>1, PowerOfTenPositive
  <2>3. Units(Underflow, u) > 0
    BY <1>2, <2>2 DEF Units
  <2> QED
    BY <2>3, ExtremesApart DEF SignedUnits
<1>6. Cmp(x, Underflow) < 0
  <2>1. SignedUnits(x, u) < SignedUnits(Underflow, u)
    BY <1>4, <1>5
  <2> QED
    BY <1>1, <1>3, <2>1, ExtremesApart, CmpInUnits
<1>7. Cmp(x, Overflow) < 0
  BY <1>1, <1>6, ExtremesApart, CmpTransitive
<1>8. Cmp(x, Underflow) \in Int /\ Cmp(x, Overflow) \in Int
  BY <1>1, ExtremesApart, CmpTyped
<1>9. ~IsInfinite(exact) /\ IsVanishing(exact)
  BY <1>6, <1>7, <1>8 DEF IsInfinite, IsVanishing, x
<1>10. SignedZero(exact.negative) # ErrInvalidDecimal
  BY <1>1, SignedZeroOf, Extremes
<1> QED
  BY <1>9, <1>10 DEF IsRead, InNumberRange

LEMMA DecimalRead ==
  ASSUME NEW literal, IsLiteral(literal), literal.base = 10
  PROVE  /\ IsRead(Denoted(literal), ParseFiniteIntlDecimal(literal))
         /\ ParseFiniteIntlDecimal(literal) \in Decimal \cup {PosInfinity, NegInfinity, ErrInvalidDecimal}
<1> DEFINE digits == literal.integer \o literal.fraction
           left == TrimLeft(digits)
           right == TrimRight(left)
           total == Len(digits)
           size == Len(left)
           exponent == literal.exponent - Len(literal.fraction)
           negative == IsNegative(literal)
           value == ParseFiniteIntlDecimal(literal)
           exact == Denoted(literal)
<1>1. /\ literal.integer \in Seq(0 .. 9) /\ literal.fraction \in Seq(0 .. 9)
      /\ literal.exponent \in Int /\ negative \in BOOLEAN
  BY DEF IsLiteral, IsNegative
<1>2. digits \in Seq(0 .. 9) /\ digits \in Seq(Nat) /\ exponent \in Int /\ total \in Nat
  <2>1. digits \in Seq(0 .. 9)
    BY <1>1
  <2>2. Seq(0 .. 9) \subseteq Seq(Nat)
    OBVIOUS
  <2>3. Len(literal.fraction) \in Nat
    BY <1>1
  <2> HIDE DEF digits
  <2> QED
    BY <1>1, <2>1, <2>2, <2>3
<1>3. value = IF left = <<>> THEN SignedZero(negative)
              ELSE FiniteDecimal(negative, right, exponent + (size - Len(right)))
  BY DEF ParseFiniteIntlDecimal
<1>4. exact = [negative |-> negative, coeff |-> Coefficient(digits, 10), exp |-> Nearby(total, exponent)]
  BY DEF Denoted
<1> HIDE DEF digits, exponent, negative, value, exact
<1>5. CASE HasOther(digits)
  <2>1. IsTrimmed(digits, left, right, Coefficient(right, 10))
    BY <1>2, <1>5, CoefficientTrimmed
  <2>2. /\ right \in Seq(Nat) /\ Len(right) \in 1 .. size /\ size \in 1 .. total
        /\ Coefficient(right, 10) \in Nat \ {0}
        /\ NumDigits(Coefficient(right, 10)) = Len(right) /\ Coefficient(right, 10) % 10 # 0
        /\ Coefficient(digits, 10) = Coefficient(right, 10) * PowerOfTen[size - Len(right)]
    BY <2>1 DEF IsTrimmed
  <2>3. left # <<>>
    <3> HIDE DEF left
    <3>1. Len(left) # 0
      BY <2>2
    <3> QED
      BY <3>1
  <2>4. value = FiniteDecimal(negative, right, exponent + (size - Len(right)))
    BY <1>3, <2>3
  <2> HIDE DEF left, right, total, size
  <2>5. exact = [negative |-> negative,
                 coeff |-> Coefficient(right, 10) * PowerOfTen[size - Len(right)],
                 exp |-> Nearby(total, exponent)]
    BY <1>4, <2>2
  <2> QED
    BY <1>1, <1>2, <2>2, <2>4, <2>5, FiniteRead DEF value, exact
<1>6. CASE ~HasOther(digits)
  <2>1. Coefficient(digits, 10) = 0
    BY <1>2, <1>6, CoefficientOfZeros
  <2>2. left = <<>>
    BY <1>6 DEF HasOther, TrimLeft
  <2>3. value = SignedZero(negative)
    BY <1>3, <2>2
  <2>4. Nearby(total, exponent) \in Int
    BY <1>2, MagnitudesTyped DEF Nearby, GreaterOf, LesserOf
  <2>5. exact \in Decimal /\ IsZero(exact) /\ exact.negative = negative
    BY <1>1, <1>4, <2>1, <2>4 DEF Decimal, IsZero
  <2>6. IsRead(exact, SignedZero(negative))
    BY <2>5, ZeroRead
  <2>7. SignedZero(negative) \in Decimal
    BY <1>1, SignedZeroOf
  <2> QED
    BY <2>3, <2>6, <2>7 DEF value, exact
<1> QED
  BY <1>5, <1>6

LEMMA RadixRead ==
  ASSUME NEW literal, IsLiteral(literal), literal.base # 10, IsRadixInteger(literal)
  PROVE  LET value == NormalizeStringValue(NewDecimal(Coefficient(literal.integer, literal.base), 0))
         IN  /\ IsRead(Denoted(literal), value)
             /\ value \in Decimal \cup {PosInfinity, NegInfinity}
<1> DEFINE c == Coefficient(literal.integer, literal.base)
           exact == Denoted(literal)
<1>1. /\ literal.integer \in Seq(Nat) /\ literal.fraction = <<>> /\ literal.exponent = 0
      /\ literal.base \in Nat /\ ~IsNegative(literal)
  BY DEF IsLiteral, IsRadixInteger, IsNegative
<1>2. literal.integer \o literal.fraction = literal.integer /\ Len(literal.fraction) = 0
      /\ Len(literal.integer) \in Nat
  BY <1>1
<1>3. c \in Nat
  BY <1>1, CoefficientTyped
<1>4. Nearby(Len(literal.integer), 0) = 0
  BY <1>2, MagnitudesTyped DEF Nearby, GreaterOf, LesserOf
<1>5. exact = NewDecimal(c, 0)
  <2>1. exact = [negative |-> IsNegative(literal), coeff |-> c, exp |-> Nearby(Len(literal.integer), 0 - 0)]
    BY <1>1, <1>2 DEF Denoted
  <2>2. 0 - 0 = 0
    OBVIOUS
  <2>3. IsNegative(literal) = FALSE
    BY <1>1 DEF IsNegative
  <2> QED
    BY <1>4, <2>1, <2>2, <2>3 DEF NewDecimal
<1> HIDE DEF c
<1>6. exact \in Decimal
  BY <1>3, <1>5 DEF NewDecimal, Decimal
<1> HIDE DEF exact
<1>7. Cmp(exact, exact) = 0
  <2>1. exact.exp \in Int /\ exact.exp <= exact.exp
    BY <1>6 DEF Decimal
  <2> QED
    BY <1>6, <2>1, CmpInUnits
<1>8. /\ InNumberRange(exact, NormalizeStringValue(exact))
      /\ NormalizeStringValue(exact) \in Decimal \cup {PosInfinity, NegInfinity}
  BY <1>6, <1>7, NormalizedIs
<1>9. NormalizeStringValue(exact) # ErrInvalidDecimal
  BY <1>8, Extremes
<1> QED
  BY <1>5, <1>8, <1>9 DEF IsRead, c, exact

\* A string of digits is read as what it denotes, and every string as a value that
\* can be formatted or as an error.
THEOREM LiteralsRead ==
  ASSUME NEW literal, IsLiteral(literal)
  PROVE  /\ ParseDecimalInput(literal) \in
              Decimal \cup {NaN, PosInfinity, NegInfinity, ErrInvalidDecimal}
         /\ IsNumeral(literal) => IsRead(Denoted(literal), ParseDecimalInput(literal))
<1>1. literal.form \in {"number", "Infinity", "NaN", "blank"} /\ IsNegative(literal) \in BOOLEAN
  BY DEF IsLiteral, IsNegative
<1>2. CASE literal.form # "number"
  <2>1. SignedZero(FALSE) \in Decimal
    BY SignedZeroOf
  <2>2. ParseDecimalInput(literal) \in
          {SignedZero(FALSE), PosInfinity, NegInfinity, NaN, ErrInvalidDecimal}
    BY <1>1, <1>2 DEF ParseDecimalInput, Infinity
  <2> QED
    BY <1>2, <2>1, <2>2 DEF IsNumeral
<1>3. CASE literal.form = "number"
  <2>1. ParseDecimalInput(literal) = ParseNumber(literal)
    BY <1>3 DEF ParseDecimalInput
  <2>2. CASE literal.base = 10 /\ HasDigits(literal)
    <3>1. ParseNumber(literal) = ParseFiniteIntlDecimal(literal)
      BY <2>2 DEF ParseNumber
    <3> QED
      BY <2>1, <2>2, <3>1, DecimalRead
  <2>3. CASE literal.base # 10 /\ IsRadixInteger(literal)
    <3>1. ParseNumber(literal)
            = NormalizeStringValue(NewDecimal(Coefficient(literal.integer, literal.base), 0))
      BY <2>3 DEF ParseNumber
    <3> QED
      BY <2>1, <2>3, <3>1, RadixRead
  <2>4. CASE literal.base = 10 /\ ~HasDigits(literal)
    <3>1. ParseNumber(literal) = ErrInvalidDecimal /\ ~IsNumeral(literal)
      BY <2>4 DEF ParseNumber, IsNumeral
    <3> QED
      BY <2>1, <3>1
  <2>5. CASE literal.base # 10 /\ ~IsRadixInteger(literal)
    <3>1. ParseNumber(literal) = ErrInvalidDecimal /\ ~IsNumeral(literal)
      BY <2>5 DEF ParseNumber, IsNumeral
    <3> QED
      BY <2>1, <3>1
  <2> QED
    BY <2>2, <2>3, <2>4, <2>5
<1> QED
  BY <1>2, <1>3

-------------------------------------------------------------------------------
(* Formatters. *)

DigitsFor(options) ==
  SetNumberFormatDigitOptions(options.digits, MinimumFractionDefault(options),
                              MaximumFractionDefault(options), options.notation)

\* The defaults are in range and in order.
LEMMA FractionDefaults ==
  ASSUME NEW options
  PROVE  /\ MinimumFractionDefault(options) \in 0 .. 100
         /\ MaximumFractionDefault(options) \in 0 .. 100
         /\ MinimumFractionDefault(options) <= MaximumFractionDefault(options)
  BY FormatConstants DEF MinimumFractionDefault, MaximumFractionDefault

\* A formatter is invalid when its digit options are, and is otherwise made of them.
LEMMA FormatterOf ==
  ASSUME NEW options \in NumberFormatOptions
  PROVE  /\ IsInvalid(New(options)) <=> IsInvalid(DigitsFor(options))
         /\ ~IsInvalid(New(options)) =>
              /\ New(options).digits = DigitsFor(options)
              /\ New(options).style = options.style
              /\ New(options).notation = options.notation
              /\ DigitsFor(options) \in ResolvedDigitOptions
              /\ IsConsistent(DigitsFor(options))
<1>1. options.digits \in DigitOptionOverrides /\ options.notation \in Notations
  BY DEF NumberFormatOptions
<1>2. ~IsInvalid(DigitsFor(options)) =>
        DigitsFor(options) \in ResolvedDigitOptions /\ IsConsistent(DigitsFor(options))
  BY <1>1, FractionDefaults, ResolvedIsTyped DEF DigitsFor
<1>3. New(options) = Formatter(options, DigitsFor(options))
  BY DEF New, DigitsFor
<1> QED
  BY <1>2, <1>3 DEF Formatter, IsInvalid

\* What a formatter shows of its options makes the same formatter.
LEMMA NewAgain ==
  ASSUME NEW options \in NumberFormatOptions, ~IsInvalid(New(options))
  PROVE  /\ ResolvedOptions(New(options)) \in NumberFormatOptions
         /\ New(ResolvedOptions(New(options))) = New(options)
<1> DEFINE f == New(options)
           d == DigitsFor(options)
           again == ResolvedOptions(f)
<1>1. d \in ResolvedDigitOptions /\ IsConsistent(d) /\ ~IsInvalid(d)
  BY FormatterOf
<1>2. /\ ResolvedProperties(d) \in DigitOptionOverrides
      /\ \A low, high, notation :
           SetNumberFormatDigitOptions(ResolvedProperties(d), low, high, notation) = d
  BY <1>1, ResolvedAgain
<1>3. f = [style |-> options.style, notation |-> options.notation, digits |-> d,
           signDisplay |-> options.signDisplay,
           useGrouping |-> IF options.useGrouping # Unset THEN options.useGrouping
                           ELSE IF options.notation = "compact" THEN "min2" ELSE "auto"]
  BY <1>1 DEF New, Formatter, DigitsFor
<1> HIDE DEF d
<1>4. again = [f EXCEPT !.digits = ResolvedProperties(d)]
  BY <1>3 DEF ResolvedOptions
<1> HIDE DEF f
<1>5. /\ again = [style |-> f.style, notation |-> f.notation, digits |-> ResolvedProperties(d),
                  signDisplay |-> f.signDisplay, useGrouping |-> f.useGrouping]
      /\ f.useGrouping \in UseGrouping
      /\ f.digits = d
  BY <1>3, <1>4 DEF NumberFormatOptions, UseGrouping
<1>6. again \in NumberFormatOptions
  BY <1>2, <1>3, <1>5 DEF NumberFormatOptions
<1>7. New(again) = f
  <2>1. New(again) = Formatter(again, d)
    BY <1>2, <1>5 DEF New
  <2>2. again.useGrouping # Unset
    BY <1>5, FormatConstants
  <2> HIDE DEF again
  <2> QED
    BY <1>1, <1>3, <1>5, <2>1, <2>2 DEF Formatter
<1> QED
  BY <1>6, <1>7 DEF f

-------------------------------------------------------------------------------
(* Construction. *)

\* A formatter is what its options make, whichever construction made it last.
MadeOfOptions == formatter = None \/ (asked \in NumberFormatOptions /\ formatter = New(asked))

LEMMA MadeOfOptionsInductive ==
  /\ Init => MadeOfOptions
  /\ MadeOfOptions /\ [Next]_vars => MadeOfOptions'
<1>1. Init => MadeOfOptions
  BY DEF Init, MadeOfOptions
<1>2. ASSUME MadeOfOptions, [Next]_vars
      PROVE  MadeOfOptions'
  <2>1. CASE Construct
    BY <2>1, Callers DEF Construct, MadeOfOptions
  <2>2. CASE ConstructAgain
    <3>1. asked \in NumberFormatOptions /\ formatter = New(asked) /\ ~IsInvalid(New(asked))
      BY <1>2, <2>2 DEF MadeOfOptions, ConstructAgain, Ready
    <3>2. asked' \in NumberFormatOptions
      BY <2>2, <3>1, NewAgain DEF ConstructAgain
    <3> QED
      BY <2>2, <3>2 DEF ConstructAgain, MadeOfOptions
  <2>3. CASE Format
    BY <1>2, <2>3 DEF Format, MadeOfOptions
  <2>4. CASE FormatParsed
    BY <1>2, <2>4 DEF FormatParsed, MadeOfOptions
  <2>5. CASE UNCHANGED vars
    BY <1>2, <2>5 DEF vars, MadeOfOptions
  <2> QED
    BY <1>2, <2>1, <2>2, <2>3, <2>4, <2>5 DEF Next
<1> QED
  BY <1>1, <1>2

\* Every formatter is the one that the options it was last asked for make.
LEMMA AlwaysMadeOfOptions == Spec => []MadeOfOptions
<1>1. Init => MadeOfOptions
  BY MadeOfOptionsInductive
<1>2. MadeOfOptions /\ [Next]_vars => MadeOfOptions'
  BY MadeOfOptionsInductive
<1> QED
  BY <1>1, <1>2, PTL DEF Spec

\* A formatter made from the resolved options of another resolves to the same,
\* for all options that a caller can give (resolved_options.go 146-159).
THEOREM RoundTrip == Spec => ResolvedOptionsRoundTrip
<1>1. MadeOfOptions /\ [Next]_vars => [formatter # None => formatter' = formatter]_vars
  <2> SUFFICES ASSUME MadeOfOptions, Next, formatter # None
               PROVE  formatter' = formatter
    OBVIOUS
  <2>1. CASE Construct
    BY <2>1 DEF Construct
  <2>2. CASE ConstructAgain
    <3>1. asked \in NumberFormatOptions /\ formatter = New(asked) /\ ~IsInvalid(New(asked))
      BY <2>2 DEF MadeOfOptions, ConstructAgain, Ready
    <3> QED
      BY <2>2, <3>1, NewAgain DEF ConstructAgain
  <2>3. CASE Format
    BY <2>3 DEF Format
  <2>4. CASE FormatParsed
    BY <2>4 DEF FormatParsed
  <2> QED
    BY <2>1, <2>2, <2>3, <2>4 DEF Next
<1> QED
  BY <1>1, AlwaysMadeOfOptions, PTL DEF Spec, ResolvedOptionsRoundTrip

\* Options that do not contradict each other pass every check.
LEMMA OnlyContradictionsRejected ==
  ASSUME NEW options \in NumberFormatOptions, IsInvalid(New(options))
  PROVE  Contradictory(options.digits, options.notation)
<1> DEFINE digits == options.digits
           notation == options.notation
           low == MinimumFractionDefault(options)
           high == MaximumFractionDefault(options)
           in == Input(digits)
           b == BoundsOf(digits, low, high, notation)
           mx == MaximumDefault(digits, low, high)
           v == ResolvedOf(digits, low, high, notation)
<1>1. digits \in DigitOptionOverrides /\ notation \in Notations
  BY DEF NumberFormatOptions
<1>2. low \in 0 .. 100 /\ high \in 0 .. 100 /\ low <= high /\ mx \in 0 .. 100 /\ low <= mx
  BY FractionDefaults DEF MaximumDefault
<1>3. ~Legal(in, b, v, notation)
  BY FormatterOf, ResolutionOf DEF DigitsFor
<1>4. /\ in.minimumIntegerDigits = Or(digits.minimumIntegerDigits, 1)
      /\ in.roundingIncrement = Or(digits.roundingIncrement, 1)
      /\ in.roundingPriority = Or(digits.roundingPriority, "auto")
      /\ in.minimumFractionDigits = digits.minimumFractionDigits
      /\ in.maximumFractionDigits = digits.maximumFractionDigits
      /\ in.minimumSignificantDigits = digits.minimumSignificantDigits
      /\ in.maximumSignificantDigits = digits.maximumSignificantDigits
  BY <1>1, InputType
<1>5. /\ b = DigitBounds(in, low, mx, notation)
      /\ v = Resolved(in, b, RoundingType(in, notation))
      /\ in.roundingIncrement # 1 => mx = low
  BY DEF BoundsOf, ResolvedOf, MaximumDefault
<1>6. Unset \notin Int /\ Unset \notin RoundingPriorities
  BY UnsetIsNoValue
<1>7. /\ digits.minimumIntegerDigits \in Int \cup {Unset} /\ digits.roundingIncrement \in Int \cup {Unset}
      /\ digits.minimumFractionDigits \in Int \cup {Unset}
      /\ digits.maximumFractionDigits \in Int \cup {Unset}
      /\ digits.minimumSignificantDigits \in Int \cup {Unset}
      /\ digits.maximumSignificantDigits \in Int \cup {Unset}
      /\ digits.roundingPriority \in RoundingPriorities \cup {Unset}
  BY <1>1 DEF DigitOptionOverrides
<1> SUFFICES ASSUME ~Contradictory(digits, notation) PROVE Legal(in, b, v, notation)
  BY <1>3
<1> HIDE DEF digits, notation, low, high, in, b, mx, v
<1>8. in.minimumIntegerDigits \in 1 .. 21 /\ in.roundingIncrement \in RoundingIncrements
  BY <1>4, <1>7 DEF Contradictory, Or, RoundingIncrements
<1>9. /\ InRange(in.minimumSignificantDigits, 1, 21) /\ InRange(in.maximumSignificantDigits, 1, 21)
      /\ InRange(in.minimumFractionDigits, 0, 100) /\ InRange(in.maximumFractionDigits, 0, 100)
  BY <1>4 DEF Contradictory
<1>10. NeedSignificant(in) => ~(b.significant[1] > b.significant[2])
  <2>1. NeedSignificant(in) => b.significant = <<MinimumSignificant(in), MaximumSignificant(in)>>
    BY <1>5 DEF DigitBounds
  <2>2. ~(MinimumSignificant(in) > MaximumSignificant(in))
    BY <1>4, <1>6, <1>7, <1>9 DEF Contradictory, MinimumSignificant, MaximumSignificant, Or, InRange
  <2> QED
    BY <2>1, <2>2
<1>11. NeedFraction(in, notation) => ~(b.fraction[1] > b.fraction[2])
  <2>1. NeedFraction(in, notation) => b.fraction = <<MinimumFraction(in, low), MaximumFraction(in, mx)>>
    BY <1>5 DEF DigitBounds
  <2>2. ~(MinimumFraction(in, low) > MaximumFraction(in, mx))
    BY <1>2, <1>4, <1>6, <1>7, <1>9
    DEF Contradictory, MinimumFraction, MaximumFraction, LesserOf, GreaterOf
  <2> QED
    BY <2>1, <2>2
<1>12. IncrementAllowed(v)
  <2> SUFFICES ASSUME in.roundingIncrement # 1
               PROVE  /\ RoundingType(in, notation) = "fractionDigits"
                      /\ b.fraction[1] = b.fraction[2]
    BY <1>5 DEF IncrementAllowed, Resolved
  <2>1. digits.roundingIncrement \notin {Unset, 1}
    BY <1>4 DEF Or
  <2>2. /\ digits.roundingPriority \in {Unset, "auto"} /\ notation # "compact"
        /\ digits.minimumFractionDigits = digits.maximumFractionDigits
        /\ digits.minimumSignificantDigits = Unset /\ digits.maximumSignificantDigits = Unset
    BY <2>1 DEF Contradictory, HasSignificant
  <2>3. in.roundingPriority = "auto" /\ ~HasSignificant(in)
    BY <1>4, <2>2 DEF Or, HasSignificant
  <2>4. NeedFraction(in, notation) /\ ~NeedSignificant(in)
    BY <2>2, <2>3 DEF NeedFraction, NeedSignificant
  <2>5. RoundingType(in, notation) = "fractionDigits"
    BY <2>3, <2>4 DEF RoundingType
  <2>6. b.fraction = <<MinimumFraction(in, low), MaximumFraction(in, low)>>
    BY <1>5, <2>4 DEF DigitBounds
  <2>7. MinimumFraction(in, low) = MaximumFraction(in, low)
    BY <1>4, <2>2 DEF MinimumFraction, MaximumFraction
  <2> QED
    BY <2>5, <2>6, <2>7
<1> QED
  BY <1>8, <1>9, <1>10, <1>11, <1>12 DEF Legal

\* What the caller gave is kept wherever its kind of digits is used.
LEMMA ObeyedBounds ==
  ASSUME NEW options \in NumberFormatOptions, ~IsInvalid(New(options))
  PROVE  LET d == New(options).digits
         IN  /\ d \in ResolvedDigitOptions /\ IsConsistent(d)
             /\ d.roundingType # "fractionDigits" =>
                  /\ options.digits.minimumSignificantDigits \in {Unset, d.minimumSignificantDigits}
                  /\ options.digits.maximumSignificantDigits \in {Unset, d.maximumSignificantDigits}
             /\ d.roundingType # "significantDigits" =>
                  /\ options.digits.minimumFractionDigits \in {Unset, d.minimumFractionDigits}
                  /\ options.digits.maximumFractionDigits \in {Unset, d.maximumFractionDigits}
<1> DEFINE digits == options.digits
           notation == options.notation
           low == MinimumFractionDefault(options)
           high == MaximumFractionDefault(options)
           in == Input(digits)
           b == BoundsOf(digits, low, high, notation)
           v == ResolvedOf(digits, low, high, notation)
           d == New(options).digits
<1>1. digits \in DigitOptionOverrides /\ notation \in Notations
  BY DEF NumberFormatOptions
<1>2. low \in 0 .. 100 /\ high \in 0 .. 100 /\ low <= high
  BY FractionDefaults
<1>3. d = DigitsFor(options) /\ d \in ResolvedDigitOptions /\ IsConsistent(d)
      /\ ~IsInvalid(DigitsFor(options))
  BY FormatterOf
<1>4. d = v
  BY <1>3, ResolutionOf DEF DigitsFor
<1>5. BoundsFit(digits, in, b, notation)
  BY <1>1, <1>2, <1>3, LegalBounds DEF DigitsFor
<1>6. /\ in.minimumFractionDigits = digits.minimumFractionDigits
      /\ in.maximumFractionDigits = digits.maximumFractionDigits
      /\ in.minimumSignificantDigits = digits.minimumSignificantDigits
      /\ in.maximumSignificantDigits = digits.maximumSignificantDigits
      /\ in.roundingPriority \in RoundingPriorities
  BY <1>1, InputType
<1>7. /\ d.minimumFractionDigits = b.fraction[1] /\ d.maximumFractionDigits = b.fraction[2]
      /\ d.minimumSignificantDigits = b.significant[1]
      /\ d.maximumSignificantDigits = b.significant[2]
      /\ d.roundingType = RoundingType(in, notation)
  BY <1>4 DEF ResolvedOf, Resolved
<1>8. /\ NeedSignificant(in) /\ ~NeedFraction(in, notation) => d.roundingType = "significantDigits"
      /\ ~NeedSignificant(in) /\ NeedFraction(in, notation) => d.roundingType = "fractionDigits"
  BY <1>1, <1>7, RoundingTypeOf
<1> HIDE DEF digits, notation, in, b, v, d
<1>9. \/ NeedSignificant(in) /\ NeedFraction(in, notation)
      \/ NeedSignificant(in) /\ d.roundingType = "significantDigits"
      \/ NeedFraction(in, notation) /\ d.roundingType = "fractionDigits"
      \/ ~HasSignificant(in) /\ ~HasFraction(in)
  BY <1>8 DEF NeedSignificant, NeedFraction
<1>10. /\ NeedSignificant(in) \/ ~HasSignificant(in) =>
            /\ digits.minimumSignificantDigits \in {Unset, d.minimumSignificantDigits}
            /\ digits.maximumSignificantDigits \in {Unset, d.maximumSignificantDigits}
       /\ NeedFraction(in, notation) \/ ~HasFraction(in) =>
            /\ digits.minimumFractionDigits \in {Unset, d.minimumFractionDigits}
            /\ digits.maximumFractionDigits \in {Unset, d.maximumFractionDigits}
  BY <1>5, <1>6, <1>7 DEF BoundsFit, Or, HasSignificant, HasFraction
<1>11. /\ d.roundingType # "fractionDigits" =>
            /\ digits.minimumSignificantDigits \in {Unset, d.minimumSignificantDigits}
            /\ digits.maximumSignificantDigits \in {Unset, d.maximumSignificantDigits}
       /\ d.roundingType # "significantDigits" =>
            /\ digits.minimumFractionDigits \in {Unset, d.minimumFractionDigits}
            /\ digits.maximumFractionDigits \in {Unset, d.maximumFractionDigits}
  BY <1>9, <1>10
<1> QED
  BY <1>3, <1>11 DEF d, digits

\* A construction fails only for what the caller contradicts himself in, and
\* otherwise keeps what he gave, for all options that he can give (options.go 248-369).
THEOREM AlwaysObeyed == Spec => []CallerIsObeyed
<1>1. MadeOfOptions => CallerIsObeyed
  <2>1. ASSUME MadeOfOptions, formatter # None, IsInvalid(formatter)
        PROVE  Contradictory(asked.digits, asked.notation)
    BY <2>1, OnlyContradictionsRejected DEF MadeOfOptions
  <2>2. ASSUME MadeOfOptions, Ready
        PROVE  BoundsKept
    <3>1. asked \in NumberFormatOptions /\ ~IsInvalid(New(asked)) /\ Digits = New(asked).digits
      BY <2>2 DEF MadeOfOptions, Ready, Digits
    <3>2. /\ Digits \in ResolvedDigitOptions /\ IsConsistent(Digits)
          /\ Digits.roundingType # "fractionDigits" =>
               /\ asked.digits.minimumSignificantDigits \in {Unset, Digits.minimumSignificantDigits}
               /\ asked.digits.maximumSignificantDigits \in {Unset, Digits.maximumSignificantDigits}
          /\ Digits.roundingType # "significantDigits" =>
               /\ asked.digits.minimumFractionDigits \in {Unset, Digits.minimumFractionDigits}
               /\ asked.digits.maximumFractionDigits \in {Unset, Digits.maximumFractionDigits}
      BY <3>1, ObeyedBounds
    <3>3. Digits.maximumFractionDigits \in 0 .. 100 /\ Digits.maximumSignificantDigits \in 0 .. 21
      BY <3>2 DEF ResolvedDigitOptions
    <3> QED
      BY <3>2, <3>3 DEF IsConsistent, IncrementAllowed, BoundsKept
  <2> QED
    BY <2>1, <2>2 DEF CallerIsObeyed
<1> QED
  BY <1>1, AlwaysMadeOfOptions, PTL

-------------------------------------------------------------------------------
(* What is formatted. *)

LEMMA OperandTyped ==
  ASSUME NEW f, NEW d \in Decimal, NEW e \in Int
  PROVE  Operand(f, d) \in Decimal /\ Scale10(Operand(f, d), -e) \in Decimal
<1>1. Operand(f, d) \in Decimal
  <2>1. ~(100 < 0)
    OBVIOUS
  <2>2. MulInt(d, 100).coeff = d.coeff * 100 /\ MulInt(d, 100).exp = d.exp
    BY <2>1 DEF MulInt
  <2>3. d.coeff * 100 \in Nat /\ d.exp \in Int
    BY DEF Decimal
  <2>4. MulInt(d, 100) = [negative |-> MulInt(d, 100).negative, coeff |-> MulInt(d, 100).coeff,
                          exp |-> MulInt(d, 100).exp]
        /\ MulInt(d, 100).negative \in BOOLEAN
    BY DEF MulInt
  <2>5. MulInt(d, 100) \in Decimal
    BY <2>2, <2>3, <2>4 DEF Decimal
  <2> QED
    BY <2>5 DEF Operand
<1>2. \A x \in Decimal : Scale10(x, -e) \in Decimal
  BY DEF Scale10, Decimal
<1> QED
  BY <1>1, <1>2

Number == Decimal \cup {NaN, PosInfinity, NegInfinity}

\* A shown value was formatted by the formatter there is; a string was parsed.
InputFormatted ==
  /\ output # None => Ready /\ input \in Number /\ output = FormatValue(formatter, input)
  /\ source # None => source \in Literals /\ input = ParseDecimalInput(source)

Consistent == MadeOfOptions /\ InputFormatted

LEMMA ConsistentInductive ==
  /\ Init => Consistent
  /\ Consistent /\ [Next]_vars => Consistent'
<1>1. Init => Consistent
  BY DEF Init, Consistent, MadeOfOptions, InputFormatted
<1>2. ASSUME Consistent, [Next]_vars
      PROVE  Consistent'
  <2>1. MadeOfOptions'
    BY <1>2, MadeOfOptionsInductive DEF Consistent
  <2>2. InputFormatted
    BY <1>2 DEF Consistent
  <2> SUFFICES InputFormatted'
    BY <2>1 DEF Consistent
  <2>3. CASE Construct
    BY <2>2, <2>3 DEF Construct, InputFormatted, Ready
  <2>4. CASE ConstructAgain
    <3>1. asked \in NumberFormatOptions /\ formatter = New(asked) /\ ~IsInvalid(New(asked))
      BY <1>2, <2>4 DEF Consistent, MadeOfOptions, ConstructAgain, Ready
    <3>2. formatter' = formatter
      BY <2>4, <3>1, NewAgain DEF ConstructAgain
    <3> QED
      BY <2>2, <2>4, <3>2 DEF ConstructAgain, InputFormatted, Ready
  <2>5. CASE Format
    <3>1. input' \in Number
      BY <2>5, FormatConstants DEF Format, Number
    <3> QED
      BY <2>2, <2>5, <3>1 DEF Format, InputFormatted, Ready
  <2>6. CASE FormatParsed
    <3>1. input' # ErrInvalidDecimal => input' \in Number
      BY <2>6, Callers, LiteralsRead DEF FormatParsed, Number
    <3> QED
      BY <2>2, <2>6, <3>1 DEF FormatParsed, InputFormatted, Ready
  <2>7. CASE UNCHANGED vars
    BY <2>2, <2>7 DEF vars, InputFormatted, Ready
  <2> QED
    BY <1>2, <2>3, <2>4, <2>5, <2>6, <2>7 DEF Next
<1> QED
  BY <1>1, <1>2

LEMMA AlwaysConsistent == Spec => []Consistent
<1>1. Init => Consistent
  BY ConsistentInductive
<1>2. Consistent /\ [Next]_vars => Consistent'
  BY ConsistentInductive
<1> QED
  BY <1>1, <1>2, PTL DEF Spec

\* A string of digits is read exactly as what it denotes, or as the infinity or the
\* zero a Number would be: for all digits, exponents, bases and extremes
\* (decimal.go 30-64, string_numeric.go 19-73).
THEOREM AlwaysReadExactly == Spec => []NumeralsExact
<1>1. Consistent => NumeralsExact
  BY Callers, LiteralsRead DEF Consistent, InputFormatted, NumeralsExact
<1> QED
  BY <1>1, AlwaysConsistent, PTL

\* What is shown is the result of one finite operand.
LEMMA ShownIs ==
  ASSUME Consistent, Shows
  PROVE  /\ IsResolved(Digits) /\ Ready /\ input \in Decimal /\ formatter.notation \in Notations
         /\ output.exponent = ComputeExponent(formatter, Operand(formatter, input)).exponent
         /\ output.exponent \in Int /\ Operand(formatter, input) \in Decimal /\ Mantissa \in Decimal
         /\ output = Shown(formatter, Operand(formatter, input), output.exponent,
                           FormatNumericToString(Mantissa, Digits))
<1> DEFINE d == Operand(formatter, input)
           e == ComputeExponent(formatter, d).exponent
<1>1. Ready /\ input \in Number /\ output = FormatValue(formatter, input)
  BY DEF Consistent, InputFormatted, Shows
<1>2. asked \in NumberFormatOptions /\ formatter = New(asked) /\ ~IsInvalid(New(asked))
  BY <1>1 DEF Consistent, MadeOfOptions, Ready
<1>3. IsResolved(Digits)
  BY <1>2, FormatterOf DEF IsResolved, Digits
<1>4. formatter.notation \in Notations
  BY <1>2, FormatterOf DEF NumberFormatOptions
<1>5. input \notin {NaN, PosInfinity, NegInfinity}
  <2> SUFFICES ASSUME input \in {NaN, PosInfinity, NegInfinity} PROVE FALSE
    OBVIOUS
  <2>1. output = Special(formatter, input)
    BY <1>1 DEF FormatValue
  <2>2. "text" \notin DOMAIN output
    BY <2>1 DEF Special
  <2> QED
    BY <2>2 DEF Shows
<1>6. input \in Decimal
  BY <1>1, <1>5 DEF Number
<1>7. d \in Decimal
  <2>1. 0 \in Int
    OBVIOUS
  <2> QED
    BY <1>6, <2>1, OperandTyped
<1>8. e \in Int
  BY <1>4, <1>7, ComputedTyped
<1>9. output = Shown(formatter, d, e, FormatNumericToString(Scale10(d, -e), formatter.digits))
  BY <1>1, <1>5 DEF FormatValue, FormatFinite
<1>10. output.exponent = e
  BY <1>9 DEF Shown
<1>11. Mantissa = Scale10(d, -e)
  BY <1>10 DEF Mantissa
<1>12. Mantissa \in Decimal
  BY <1>6, <1>8, <1>11, OperandTyped
<1> HIDE DEF d, e
<1> QED
  BY <1>1, <1>3, <1>4, <1>6, <1>7, <1>8, <1>9, <1>10, <1>11, <1>12 DEF Digits, d, e

\* Every value is rounded as the rounding mode and the digit options say: below
\* zero, at ties and carries, by whichever kind of digits applies, for all values
\* and options (quantize.go 18-63, rounding.go 52-139, digits.go 29-158).
THEOREM AlwaysCorrectlyRounded == Spec => []CorrectlyRounded
<1>1. Consistent => CorrectlyRounded
  <2> SUFFICES ASSUME Consistent, Shows
               PROVE  CorrectlyRounded
    BY DEF CorrectlyRounded
  <2>1. IsResolved(Digits) /\ Mantissa \in Decimal
        /\ output.rounded = FormatNumericToString(Mantissa, Digits).rounded
    BY ShownIs DEF Shown
  <2>2. IsRounded(Mantissa, output.rounded, Digits) /\ Digits.roundingType \in RoundingTypes
    BY <2>1, ResultRounds, ResolvedDigits
  <2>3. RoundsLast(Mantissa, output.rounded, Digits) = RoundsSignificant(Mantissa, output.rounded)
    BY DEF RoundsLast, RoundsSignificant, SignificantPlace
  <2> QED
    BY <2>2, <2>3 DEF CorrectlyRounded, IsRounded, RoundsFixed, RoundingTypes
<1> QED
  BY <1>1, AlwaysConsistent, PTL

-------------------------------------------------------------------------------
(* What is shown. *)

\* A sign is shown for a negative value only, and not for one that shows as zero
\* where that is asked for.
LEMMA SignShown ==
  ASSUME NEW display \in {"auto", "never", "always", "exceptZero", "negative"},
         NEW negative \in BOOLEAN, NEW zero \in BOOLEAN
  PROVE  /\ DisplaySign(display, negative, zero) = "minus" => negative
         /\ display \in {"exceptZero", "negative"} /\ zero =>
              DisplaySign(display, negative, zero) = "none"
BY DEF DisplaySign

\* The digits that are written are those of the rounded value, within the bounds
\* of the options, and the sign is the value's, for all values and options
\* (digits.go 29-228, numberformat/format.go 132-199).
THEOREM AlwaysShowsRounded == Spec => []TextShowsRounded
<1>1. Consistent => TextShowsRounded
  <2> SUFFICES ASSUME Consistent, Shows
               PROVE  TextShowsRounded
    BY DEF TextShowsRounded
  <2> DEFINE result == FormatNumericToString(Mantissa, Digits)
             d == Operand(formatter, input)
             text == output.text
             r == output.rounded
  <2>1. /\ IsResolved(Digits) /\ Ready /\ Mantissa \in Decimal /\ input \in Decimal /\ d \in Decimal
        /\ output = Shown(formatter, d, output.exponent, result)
    BY ShownIs
  <2>2. /\ text = result.text /\ r = result.rounded
        /\ output.sign = DisplaySign(formatter.signDisplay, d.negative, text.units = 0)
    <3> HIDE DEF result, d
    <3> QED
      BY <2>1 DEF Shown
  <2>3. IsWritten(text, r, Digits) /\ r \in Decimal
    <3>1. IsWritten(result.text, result.rounded, Digits) /\ result.rounded \in Decimal
      BY <2>1, ResultWritten, ResultRounds
    <3> QED
      BY <2>2, <3>1
  <2>4. formatter.signDisplay \in {"auto", "never", "always", "exceptZero", "negative"}
    <3>1. asked \in NumberFormatOptions /\ formatter = New(asked) /\ ~IsInvalid(New(asked))
      BY <2>1 DEF Consistent, MadeOfOptions, Ready
    <3>2. ~IsInvalid(DigitsFor(asked)) /\ New(asked) = Formatter(asked, DigitsFor(asked))
      BY <3>1, FormatterOf DEF New, DigitsFor
    <3>3. New(asked).signDisplay = asked.signDisplay
      BY <3>2 DEF Formatter
    <3> QED
      BY <3>1, <3>3 DEF NumberFormatOptions
  <2>5. d.negative = input.negative /\ input.negative \in BOOLEAN
    <3>1. (100 < 0) = FALSE
      OBVIOUS
    <3>2. input.negative \in BOOLEAN
      BY <2>1 DEF Decimal
    <3>3. (input.negative # (100 < 0)) = input.negative
      BY <3>1, <3>2, Zenon
    <3>4. MulInt(input, 100).negative = input.negative
      BY <3>3, Zenon DEF MulInt
    <3> QED
      BY <3>2, <3>4 DEF Operand
  <2> HIDE DEF result, d
  <2>6. output.sign = "minus" => input.negative
    BY <2>2, <2>4, <2>5, SignShown
  <2>7. IsText(text, r.negative, Abs(r), Digits)
    BY <2>3 DEF IsWritten
  <2>8. formatter.signDisplay \in {"exceptZero", "negative"} /\ IsZero(r) => output.sign = "none"
    <3> SUFFICES ASSUME formatter.signDisplay \in {"exceptZero", "negative"}, IsZero(r)
                 PROVE  output.sign = "none"
      OBVIOUS
    <3>1. text.units = 0
      BY <2>3, <2>7, ZeroUnits DEF IsText, Says10
    <3> QED
      BY <2>2, <2>4, <2>5, <3>1, SignShown
  <2> HIDE DEF text, r
  <2>9. /\ Cmp(NewDecimal(text.units, -text.scale), Abs(r)) = 0
        /\ text.negative = r.negative /\ text.width >= Digits.minimumIntegerDigits
    BY <2>7 DEF IsText, Says10
  <2> QED
    BY <2>3, <2>6, <2>8, <2>9
    DEF IsWritten, FixedBounds, SignificantBounds, TextShowsRounded, text, r
<1> QED
  BY <1>1, AlwaysConsistent, PTL

-------------------------------------------------------------------------------
(* Groups. *)

LEMMA TotalIs ==
  ASSUME NEW sizes, Len(sizes) \in Nat, NEW v,
         \A n \in 0 .. Len(sizes) : v[n] = IF n = 0 THEN 0 ELSE v[n - 1] + sizes[n]
  PROVE  Total(sizes) = v[Len(sizes)]
<1> DEFINE IsIt(f) == f = [n \in 0 .. Len(sizes) |-> IF n = 0 THEN 0 ELSE f[n - 1] + sizes[n]]
           c == CHOOSE f : IsIt(f)
           g == [n \in 0 .. Len(sizes) |-> v[n]]
<1>1. Total(sizes) = c[Len(sizes)]
  BY DEF Total
<1>2. IsIt(g)
  <2>1. \A n \in 0 .. Len(sizes) : n # 0 => n - 1 \in 0 .. Len(sizes)
    OBVIOUS
  <2> QED
    BY <2>1
<1>3. IsIt(c)
  <2> HIDE DEF IsIt, g
  <2> QED
    BY <1>2
<1> HIDE DEF c
<1>4. \A n \in 0 .. Len(sizes) : c[n] = IF n = 0 THEN 0 ELSE c[n - 1] + sizes[n]
  BY <1>3
<1> DEFINE S == {n \in Nat : n <= Len(sizes) => c[n] = v[n]}
<1>5. 0 \in S
  BY <1>4
<1>6. \A n \in Nat : n \in S => n + 1 \in S
  BY <1>4
<1> HIDE DEF S
<1>7. Nat \subseteq S
  BY <1>5, <1>6, Induction
<1>8. Len(sizes) \in S
  BY <1>7
<1> QED
  BY <1>1, <1>8 DEF S

\* The digits beyond the last group are a first group and whole ones.
LEMMA FirstGroupIs ==
  ASSUME NEW rest \in Nat \ {0}, NEW size \in Nat \ {0}
  PROVE  LET first == IF rest % size = 0 THEN size ELSE rest % size
         IN  /\ first \in 1 .. size
             /\ (rest - first) \div size \in Nat
             /\ ((rest - first) \div size) * size = rest - first
<1> DEFINE q == rest \div size
           m == rest % size
           first == IF m = 0 THEN size ELSE m
           whole == IF m = 0 THEN q - 1 ELSE q
<1>0. rest \in Int /\ rest \in Nat
  OBVIOUS
<1>1. q \in Nat /\ m \in 0 .. size - 1 /\ rest = q * size + m
  BY <1>0, Division
<1> HIDE DEF q, m
<1>2. m = 0 => q >= 1
  <2>1. q = 0 => q * size = 0
    BY <1>1
  <2> QED
    BY <1>1, <2>1
<1>3. first \in 1 .. size /\ whole \in Nat
  BY <1>1, <1>2
<1>4. whole * size = rest - first
  <2>1. (q - 1) * size = q * size - size
    BY <1>1
  <2> QED
    BY <1>1, <2>1
<1> HIDE DEF first, whole
<1>5. (rest - first) \div size = whole
  BY <1>3, <1>4, Multiple
<1> QED
  BY <1>3, <1>4, <1>5 DEF first, m

\* What GroupsCoverDigits says of the groups of an integer part.
Covers(groups, width) ==
  /\ Total(groups) = width
  /\ Len(groups) > 1 =>
       /\ groups[Len(groups)] = Grouping.primary
       /\ groups[1] \in 1 .. Grouping.secondary
       /\ \A i \in 2 .. Len(groups) - 1 : groups[i] = Grouping.secondary

LEMMA GroupsCover ==
  ASSUME NEW width \in Nat, NEW useGrouping \in UseGrouping
  PROVE  Covers(Groups(width, useGrouping), width)
<1> DEFINE last == Grouping.primary
           size == Grouping.secondary
           rest == width - last
           first == FirstGroup(width)
           whole == (rest - first) \div size
           middle == [i \in 1 .. whole |-> size]
           groups == <<first>> \o middle \o <<last>>
<1>1. last \in Nat \ {0} /\ size \in Nat \ {0} /\ Grouping.minimum \in Nat \ {0}
  BY FormatConstants
<1>2. CASE ~NeedsGrouping(width, useGrouping)
  <2> DEFINE single == <<width>>
             v == [n \in 0 .. 1 |-> IF n = 0 THEN 0 ELSE width]
  <2>1. Groups(width, useGrouping) = single
    BY <1>2 DEF Groups
  <2>2. Len(single) = 1
    OBVIOUS
  <2>3. \A n \in 0 .. Len(single) : v[n] = IF n = 0 THEN 0 ELSE v[n - 1] + single[n]
    OBVIOUS
  <2>4. v[Len(single)] = width
    OBVIOUS
  <2> HIDE DEF single, v
  <2>5. Total(single) = width
    <3>1. Len(single) \in Nat
      BY <2>2
    <3>2. Total(single) = v[Len(single)]
      BY <2>3, <3>1, TotalIs
    <3> QED
      BY <2>2, <2>4, <3>2
  <2> QED
    BY <2>1, <2>2, <2>5 DEF Covers
<1>3. CASE NeedsGrouping(width, useGrouping)
  <2>1. rest \in Nat \ {0}
    <3>1. MinimumGrouping(useGrouping) \in Nat \ {0}
      BY <1>1, <1>3 DEF MinimumGrouping, GreaterOf, NeedsGrouping, UseGrouping
    <3> HIDE DEF last
    <3> QED
      BY <1>1, <1>3, <3>1 DEF NeedsGrouping, last
  <2>2. first \in 1 .. size /\ whole \in Nat /\ whole * size = rest - first
    BY <1>1, <2>1, FirstGroupIs DEF FirstGroup
  <2>3. Groups(width, useGrouping) = groups
    BY <1>3 DEF Groups
  <2> HIDE DEF last, size, first, whole
  <2>4. /\ Len(groups) = whole + 2 /\ groups[1] = first /\ groups[whole + 2] = last
        /\ \A i \in 2 .. whole + 1 : groups[i] = size
    <3>1. middle \in Seq(Nat) /\ Len(middle) = whole /\ \A i \in 1 .. whole : middle[i] = size
      BY <1>1, <2>2
    <3> HIDE DEF middle
    <3> QED
      BY <1>1, <2>2, <3>1
  <2> DEFINE v == [n \in 0 .. whole + 2 |-> IF n = 0 THEN 0
                                            ELSE IF n = whole + 2 THEN width
                                            ELSE first + (n - 1) * size]
  <2> HIDE DEF groups
  <2>5. \A n \in 0 .. Len(groups) : v[n] = IF n = 0 THEN 0 ELSE v[n - 1] + groups[n]
    <3>1. v[0] = 0 /\ v[1] = first + 0 * size /\ v[whole + 2] = width
          /\ v[whole + 1] = first + whole * size
      BY <2>2
    <3>2. 0 * size = 0
      BY <1>1
    <3>3. \A n \in 1 .. whole : v[n] = first + (n - 1) * size /\ v[n + 1] = first + n * size
      BY <2>2
    <3>4. \A n \in 1 .. whole : n * size = (n - 1) * size + size
      BY <1>1, <2>2
    <3>5. \A n \in 1 .. whole : (n - 1) * size \in Nat
      BY <1>1, <2>2
    <3>6. first + whole * size + last = width
      BY <1>1, <2>1, <2>2
    <3>7. \A n \in 0 .. whole + 2 :
            \/ n = 0
            \/ n = 1
            \/ n = whole + 2
            \/ \E k \in 1 .. whole : n = k + 1 /\ n \in 2 .. whole + 1 /\ n - 1 = k
      <4> SUFFICES ASSUME NEW n \in 0 .. whole + 2, n \notin {0, 1, whole + 2}
                   PROVE  \E k \in 1 .. whole : n = k + 1 /\ n \in 2 .. whole + 1 /\ n - 1 = k
        OBVIOUS
      <4>1. n - 1 \in 1 .. whole /\ n = (n - 1) + 1 /\ n \in 2 .. whole + 1
        BY <2>2
      <4> QED
        BY <4>1
    <3> HIDE DEF v
    <3>8. ASSUME NEW k \in 1 .. whole
          PROVE  v[k + 1] = v[k] + size
      <4>1. v[k] = first + (k - 1) * size /\ v[k + 1] = first + k * size
        BY <3>3
      <4>2. k * size = (k - 1) * size + size /\ (k - 1) * size \in Nat
        BY <3>4, <3>5
      <4> DEFINE a == (k - 1) * size
      <4> HIDE DEF a
      <4> QED
        BY <1>1, <2>2, <4>1, <4>2 DEF a
    <3>9. ASSUME NEW n \in 0 .. whole + 2
          PROVE  v[n] = IF n = 0 THEN 0 ELSE v[n - 1] + groups[n]
      <4>1. CASE n = 0
        BY <3>1, <4>1
      <4>2. CASE n = 1
        BY <2>2, <2>4, <3>1, <3>2, <4>2
      <4>3. CASE n = whole + 2
        <5>1. n # 0 /\ n - 1 = whole + 1 /\ groups[n] = last
          BY <2>2, <2>4, <4>3
        <5>2. v[n] = width /\ v[whole + 1] = first + whole * size
          BY <3>1, <4>3
        <5> QED
          BY <3>6, <5>1, <5>2
      <4>4. CASE \E k \in 1 .. whole : n = k + 1 /\ n \in 2 .. whole + 1 /\ n - 1 = k
        BY <2>4, <3>8, <4>4
      <4> QED
        BY <3>7, <4>1, <4>2, <4>3, <4>4
    <3> QED
      BY <2>2, <2>4, <3>9
  <2>6. v[whole + 2] = width
    BY <2>2
  <2> HIDE DEF v
  <2>7. Total(groups) = width
    <3>1. Len(groups) \in Nat
      BY <2>2, <2>4
    <3>2. Total(groups) = v[Len(groups)]
      BY <2>5, <3>1, TotalIs
    <3> QED
      BY <2>4, <2>6, <3>2
  <2> QED
    BY <2>2, <2>3, <2>4, <2>7 DEF Covers, last, size
<1> QED
  BY <1>2, <1>3

\* Grouping separators stand between groups that cover every integer digit, whatever
\* the group sizes of the locale (finite.go 66-135).
THEOREM AlwaysGrouped == Spec => []GroupsCoverDigits
<1>1. Consistent => GroupsCoverDigits
  <2> SUFFICES ASSUME Consistent, Shows
               PROVE  Covers(output.groups, output.text.width)
    BY DEF GroupsCoverDigits, Covers
  <2> DEFINE result == FormatNumericToString(Mantissa, Digits)
  <2>1. /\ IsResolved(Digits) /\ Ready /\ Mantissa \in Decimal
        /\ output = Shown(formatter, Operand(formatter, input), output.exponent, result)
    BY ShownIs
  <2>2. IsWritten(result.text, result.rounded, Digits)
    BY <2>1, ResultWritten
  <2> HIDE DEF result
  <2>3. output.text = result.text /\ output.groups = Groups(result.text.width, formatter.useGrouping)
    BY <2>1 DEF Shown
  <2>4. result.text.width \in Nat
    BY <2>2 DEF IsWritten, IsText
  <2>5. formatter.useGrouping \in UseGrouping
    <3>1. asked \in NumberFormatOptions /\ formatter = New(asked) /\ ~IsInvalid(New(asked))
      BY <2>1 DEF Consistent, MadeOfOptions, Ready
    <3>2. ~IsInvalid(DigitsFor(asked)) /\ New(asked) = Formatter(asked, DigitsFor(asked))
      BY <3>1, FormatterOf DEF New, DigitsFor
    <3>3. asked.useGrouping \in UseGrouping \cup {Unset}
      BY <3>1 DEF NumberFormatOptions
    <3> QED
      BY <3>1, <3>2, <3>3 DEF Formatter, UseGrouping
  <2> QED
    BY <2>3, <2>4, <2>5, GroupsCover
<1> QED
  BY <1>1, AlwaysConsistent, PTL

-------------------------------------------------------------------------------
(* One value after another. *)

\* What two values look like when one formatter formats them.
LEMMA FormattedInOrder ==
  ASSUME NEW f, IsResolved(f.digits), f.notation \in Notations,
         NEW x \in Decimal, x \notin {NaN, PosInfinity, NegInfinity},
         NEW y \in Decimal, y \notin {NaN, PosInfinity, NegInfinity}
  PROVE  LET a == FormatValue(f, x)
             b == FormatValue(f, y)
         IN  /\ f.notation = "standard" /\ Cmp(x, y) <= 0 => Cmp(a.rounded, b.rounded) <= 0
             /\ Alike(x, y) => a.text = b.text /\ a.exponent = b.exponent
<1> DEFINE a == FormatValue(f, x)
           b == FormatValue(f, y)
           c == Operand(f, x)
           d == Operand(f, y)
           i == ComputeExponent(f, c).exponent
           j == ComputeExponent(f, d).exponent
<1>1. /\ c \in Decimal /\ c.negative = x.negative /\ d \in Decimal /\ d.negative = y.negative
      /\ Cmp(c, d) <= 0 <=> Cmp(x, y) <= 0
      /\ Cmp(c, d) = 0 <=> Cmp(x, y) = 0
  <2>1. 100 \in Nat \ {0} /\ 0 \in Int
    OBVIOUS
  <2>2. /\ MulInt(x, 100) \in Decimal /\ MulInt(x, 100).negative = x.negative
        /\ MulInt(y, 100) \in Decimal /\ MulInt(y, 100).negative = y.negative
        /\ Cmp(MulInt(x, 100), MulInt(y, 100)) <= 0 <=> Cmp(x, y) <= 0
        /\ Cmp(MulInt(x, 100), MulInt(y, 100)) = 0 <=> Cmp(x, y) = 0
    BY <2>1, ScaledAlike
  <2> QED
    BY <2>2 DEF Operand
<1>2. /\ a.text = FormatNumericToString(Scale10(c, -i), f.digits).text
      /\ a.rounded = FormatNumericToString(Scale10(c, -i), f.digits).rounded
      /\ a.exponent = i
      /\ b.text = FormatNumericToString(Scale10(d, -j), f.digits).text
      /\ b.rounded = FormatNumericToString(Scale10(d, -j), f.digits).rounded
      /\ b.exponent = j
  BY DEF FormatValue, FormatFinite, Shown
<1>3. i \in Int /\ j \in Int
  <2> HIDE DEF c, d
  <2> QED
    BY <1>1, ComputedTyped
<1> DEFINE v == Scale10(c, -i)
           w == Scale10(d, -j)
<1> HIDE DEF a, b, c, d, i, j
<1>4. ASSUME i = j
      PROVE  /\ v \in Decimal /\ v.negative = c.negative /\ w \in Decimal /\ w.negative = d.negative
             /\ Cmp(v, w) = Cmp(c, d)
  <2> DEFINE k == -i
             one == 1
  <2>1. k \in Int /\ one \in Nat \ {0} /\ v = Scale10(c, k) /\ w = Scale10(d, k)
    BY <1>3, <1>4
  <2> HIDE DEF k, v, w, one
  <2>2. Scale10(c, k) \in Decimal /\ Scale10(c, k).negative = c.negative
    BY <1>1, <2>1, ScaledAlike
  <2>3. Scale10(d, k) \in Decimal /\ Scale10(d, k).negative = d.negative
    BY <1>1, <2>1, ScaledAlike
  <2>4. Cmp(Scale10(c, k), Scale10(d, k)) = Cmp(c, d)
    BY <1>1, <2>1, ScaledAlike
  <2> QED
    BY <2>1, <2>2, <2>3, <2>4
<1> HIDE DEF v, w
<1>5. ASSUME f.notation = "standard", Cmp(x, y) <= 0
      PROVE  Cmp(a.rounded, b.rounded) <= 0
  <2>1. \A value : ComputeExponent(f, value).exponent = 0
    <3>1. \A m : ExponentForMagnitude(f.notation, m) = NoExponent
      BY <1>5 DEF ExponentForMagnitude
    <3> QED
      BY <3>1 DEF ComputeExponent, WithCarry, Carried, NoExponent
  <2>2. i = j
    BY <2>1 DEF i, j
  <2>3. v \in Decimal /\ w \in Decimal /\ Cmp(v, w) <= 0
    BY <1>1, <1>4, <1>5, <2>2
  <2> QED
    BY <1>2, <2>3, ResultKeepsOrder DEF v, w
<1>6. ASSUME Alike(x, y)
      PROVE  a.text = b.text /\ a.exponent = b.exponent
  <2>1. Alike(c, d)
    BY <1>1, <1>6 DEF Alike
  <2>2. i = j
    BY <1>1, <2>1, SameExponent DEF i, j
  <2>3. v \in Decimal /\ w \in Decimal /\ Alike(v, w)
    BY <1>4, <2>1, <2>2 DEF Alike
  <2> QED
    BY <1>2, <2>2, <2>3, ResultAlike DEF v, w
<1> QED
  BY <1>5, <1>6 DEF a, b

\* A text is shown for finite values only.
LEMMA TextIsFinite ==
  ASSUME NEW options \in NumberFormatOptions, NEW f, f = New(options), ~IsInvalid(f),
         NEW value \in Number, "text" \in DOMAIN FormatValue(f, value)
  PROVE  /\ IsResolved(f.digits) /\ f.notation \in Notations
         /\ value \in Decimal /\ value \notin {NaN, PosInfinity, NegInfinity}
<1>1. IsResolved(f.digits) /\ f.notation \in Notations
  BY FormatterOf DEF IsResolved, NumberFormatOptions
<1>2. value \notin {NaN, PosInfinity, NegInfinity}
  BY DEF FormatValue, Special
<1> QED
  BY <1>1, <1>2 DEF Number

\* One formatter shows larger values as no smaller ones, and shows a value the same
\* way however many zeros it is written with: for all values, options and rounding
\* modes (rounding.go 52-139, digits.go 29-228, notation.go 13-78).
THEOREM AlwaysInOrder == Spec => OrderPreserved
<1> DEFINE Order ==
             Shows /\ Shows' =>
               /\ formatter.notation = "standard" /\ Cmp(input, input') <= 0
                    => Cmp(output.rounded, output'.rounded) <= 0
               /\ Cmp(input, input') = 0 /\ input.negative = input'.negative
                    => output.text = output'.text /\ output.exponent = output'.exponent
<1>1. Consistent /\ Consistent' /\ [formatter # None => formatter' = formatter]_vars => [Order]_vars
  <2> SUFFICES ASSUME Consistent, Consistent', formatter # None => formatter' = formatter,
                      Shows, Shows'
               PROVE  /\ formatter.notation = "standard" /\ Cmp(input, input') <= 0
                           => Cmp(output.rounded, output'.rounded) <= 0
                      /\ Cmp(input, input') = 0 /\ input.negative = input'.negative
                           => output.text = output'.text /\ output.exponent = output'.exponent
    OBVIOUS
  <2>1. /\ Ready /\ input \in Number /\ output = FormatValue(formatter, input)
        /\ "text" \in DOMAIN output /\ asked \in NumberFormatOptions /\ formatter = New(asked)
    BY DEF Shows, Consistent, InputFormatted, MadeOfOptions, Ready
  <2>2. /\ Ready' /\ input' \in Number /\ output' = FormatValue(formatter, input')
        /\ "text" \in DOMAIN output'
    BY <2>1 DEF Shows, Consistent, InputFormatted, MadeOfOptions, Ready
  <2>3. /\ IsResolved(formatter.digits) /\ formatter.notation \in Notations
        /\ input \in Decimal /\ input \notin {NaN, PosInfinity, NegInfinity}
    BY <2>1, TextIsFinite DEF Ready
  <2>4. input' \in Decimal /\ input' \notin {NaN, PosInfinity, NegInfinity}
    BY <2>1, <2>2, TextIsFinite DEF Ready
  <2> QED
    BY <2>1, <2>2, <2>3, <2>4, FormattedInOrder DEF Alike
<1>2. Spec => [][Order]_vars
  BY <1>1, AlwaysConsistent, RoundTrip, PTL DEF ResolvedOptionsRoundTrip
<1> QED
  BY <1>2 DEF OrderPreserved

-------------------------------------------------------------------------------
(* What is shown is settled. *)

\* Formatting what is shown shows it again, and its exponent is that of what is
\* shown: nothing is rounded twice or by the other kind of digits, and rounding
\* leaves no 10E3, 1000E3 or 1000K, for all values and options (digits.go 29-158,
\* internal/ecma402/numberformat/exponent.go 10-68).
THEOREM AlwaysSettled == Spec => []RoundingSettles
<1>1. Consistent => RoundingSettles
  <2> SUFFICES ASSUME Consistent, Shows
               PROVE  RoundingSettles
    BY DEF RoundingSettles
  <2> DEFINE d == Operand(formatter, input)
             e == output.exponent
             r == output.rounded
  <2>1. /\ IsResolved(Digits) /\ Mantissa \in Decimal /\ formatter.notation \in Notations
        /\ e = ComputeExponent(formatter, d).exponent /\ d \in Decimal
        /\ Mantissa = Scale10(d, -e)
        /\ output.text = FormatNumericToString(Mantissa, Digits).text
        /\ r = FormatNumericToString(Mantissa, Digits).rounded
    <3>1. /\ IsResolved(Digits) /\ Mantissa \in Decimal /\ formatter.notation \in Notations
          /\ e = ComputeExponent(formatter, d).exponent /\ d \in Decimal
          /\ output = Shown(formatter, d, e, FormatNumericToString(Mantissa, Digits))
      BY ShownIs
    <3> DEFINE result == FormatNumericToString(Mantissa, Digits)
    <3> HIDE DEF result, d, e
    <3>2. output.text = result.text /\ output.rounded = result.rounded
      BY <3>1 DEF Shown, result
    <3> QED
      BY <3>1, <3>2 DEF Mantissa, result, d, e
  <2>2. (Digits.roundingType \in {"morePrecision", "lessPrecision"} => ~IsZero(r)) =>
          FormatNumericToString(r, Digits).text = output.text
    BY <2>1, ResultSettles
  <2>3. ~IsZero(r) /\ Digits.roundingIncrement = 1 =>
          ExponentForMagnitude(formatter.notation, Log10Floor(r) + e).exponent = e
    <3> HIDE DEF d, e, r
    <3>1. /\ IsResolved(formatter.digits)
          /\ r = FormatNumericToString(Scale10(d, -e), formatter.digits).rounded
      BY <2>1 DEF Digits
    <3> QED
      BY <2>1, <3>1, ExponentSettles DEF Digits
  <2> QED
    BY <2>2, <2>3 DEF RoundingSettles
<1> QED
  BY <1>1, AlwaysConsistent, PTL
===============================================================================
