-------------------------- MODULE NumberDigitsProofs --------------------------
(***************************************************************************)
(* What the operators of Decimals compute, for every decimal: powers of    *)
(* ten, numbers of digits, comparison, and that a value is rounded to what *)
(* ECMA-402 says; what digit options resolve to, for every combination of  *)
(* integers and names that a caller gives or omits; and what               *)
(* FormatNumericToString makes of every decimal with them: the value it    *)
(* rounds to, the text it writes, and the exponent it is written with.     *)
(***************************************************************************)
EXTENDS NumberExponents, DigitOptions, SequenceLemmas

-------------------------------------------------------------------------------
(* Powers of ten. *)

LEMMA PowerOfTenDef ==
  /\ PowerOfTen \in [Nat -> Nat]
  /\ \A k \in Nat : PowerOfTen[k] = IF k = 0 THEN 1 ELSE 10 * PowerOfTen[k - 1]
<1> DEFINE prev == [k \in Nat |-> IF k = 0 THEN 0 ELSE k - 1]
           step == [k \in Nat |-> [v \in Nat |-> 10 * v]]
           start == 1
           IsIt(f) == f = [k \in Nat |-> IF k = 0 THEN 1 ELSE 10 * f[k - 1]]
<1>1. PICK f \in [Nat -> Nat] :
        \A k \in Nat : f[k] = IF prev[k] < k THEN step[k][f[prev[k]]] ELSE start
  <2>1. IsRecursion(prev, step, start)
    BY DEF IsRecursion
  <2> HIDE DEF prev, step, start
  <2>2. HasSolution(prev, step, start)
    BY <2>1, RecursionDefines
  <2> QED
    BY <2>2 DEF HasSolution
<1>2. ASSUME NEW k \in Nat
      PROVE  f[k] = IF k = 0 THEN 1 ELSE 10 * f[k - 1]
  <2>1. /\ prev[k] = IF k = 0 THEN 0 ELSE k - 1
        /\ \A v \in Nat : step[k][v] = 10 * v
    OBVIOUS
  <2>2. f[k] = IF prev[k] < k THEN step[k][f[prev[k]]] ELSE start
    BY <1>1
  <2> HIDE DEF prev, step
  <2> QED
    BY <2>1, <2>2
<1>3. IsIt(f)
  <2>1. f = [k \in Nat |-> f[k]]
    OBVIOUS
  <2> QED
    BY <1>2, <2>1
<1>4. IsIt(PowerOfTen)
  <2>1. PowerOfTen = CHOOSE g : IsIt(g)
    BY DEF PowerOfTen
  <2> HIDE DEF IsIt
  <2> QED
    BY <1>3, <2>1
<1>5. \A k \in Nat : PowerOfTen[k] = IF k = 0 THEN 1 ELSE 10 * PowerOfTen[k - 1]
  BY <1>4
<1>6. \A k \in Nat : PowerOfTen[k] = f[k]
  <2> DEFINE S == {k \in Nat : PowerOfTen[k] = f[k]}
  <2>1. 0 \in S
    BY <1>2, <1>5
  <2>2. \A k \in Nat : k \in S => k + 1 \in S
    BY <1>2, <1>5
  <2> HIDE DEF S
  <2>3. Nat \subseteq S
    BY <2>1, <2>2, Induction
  <2> QED
    BY <2>3 DEF S
<1>7. PowerOfTen = [k \in Nat |-> PowerOfTen[k]]
  BY <1>4
<1> QED
  BY <1>5, <1>6, <1>7

LEMMA PowerOfTenPositive == \A k \in Nat : PowerOfTen[k] \in Nat \ {0}
<1> DEFINE S == {k \in Nat : PowerOfTen[k] > 0}
<1>1. 0 \in S
  BY PowerOfTenDef
<1>2. \A k \in Nat : k \in S => k + 1 \in S
  BY PowerOfTenDef
<1> HIDE DEF S
<1>3. Nat \subseteq S
  BY <1>1, <1>2, Induction
<1> QED
  BY <1>3, PowerOfTenDef DEF S

LEMMA PowerOfTenSum ==
  ASSUME NEW j \in Nat, NEW k \in Nat
  PROVE  PowerOfTen[j + k] = PowerOfTen[j] * PowerOfTen[k]
<1> DEFINE S == {n \in Nat : PowerOfTen[j + n] = PowerOfTen[j] * PowerOfTen[n]}
<1>1. 0 \in S
  BY PowerOfTenDef
<1>2. ASSUME NEW n \in Nat, n \in S
      PROVE  n + 1 \in S
  <2>1. /\ PowerOfTen[j + (n + 1)] = 10 * PowerOfTen[j + n]
        /\ PowerOfTen[n + 1] = 10 * PowerOfTen[n]
        /\ PowerOfTen[j] \in Nat /\ PowerOfTen[n] \in Nat
    BY PowerOfTenDef
  <2> QED
    BY <1>2, <2>1
<1> HIDE DEF S
<1>3. Nat \subseteq S
  BY <1>1, <1>2, Induction
<1> QED
  BY <1>3 DEF S

\* Powers are ordered as their exponents are, and a larger one is a multiple of ten.
LEMMA PowerOfTenGrows ==
  ASSUME NEW j \in Nat, NEW k \in Nat, j < k
  PROVE  10 * PowerOfTen[j] <= PowerOfTen[k]
<1>1. k - 1 - j \in Nat /\ k = (j + (k - 1 - j)) + 1
  OBVIOUS
<1>2. PowerOfTen[k] = 10 * PowerOfTen[j + (k - 1 - j)]
  BY <1>1, PowerOfTenDef
<1>3. PowerOfTen[j + (k - 1 - j)] = PowerOfTen[j] * PowerOfTen[k - 1 - j]
  BY <1>1, PowerOfTenSum
<1>4. PowerOfTen[j] \in Nat \ {0} /\ PowerOfTen[k - 1 - j] \in Nat \ {0}
  BY <1>1, PowerOfTenPositive
<1>5. \A p, q \in Nat \ {0} : p <= p * q
  OBVIOUS
<1>6. PowerOfTen[j] <= PowerOfTen[j] * PowerOfTen[k - 1 - j]
  BY <1>4, <1>5
<1> QED
  BY <1>2, <1>3, <1>4, <1>6

-------------------------------------------------------------------------------
(* Numbers of digits. *)

LEMMA DigitsOfDef ==
  /\ DigitsOf \in [Nat -> Nat]
  /\ \A n \in Nat : DigitsOf[n] = IF n < 10 THEN 1 ELSE 1 + DigitsOf[n \div 10]
<1> DEFINE prev == [n \in Nat |-> IF n < 10 THEN n ELSE n \div 10]
           step == [n \in Nat |-> [v \in Nat |-> 1 + v]]
           start == 1
           IsIt(f) == f = [n \in Nat |-> IF n < 10 THEN 1 ELSE 1 + f[n \div 10]]
<1>0. \A n \in Nat : n \div 10 \in Nat /\ (n >= 10 => n \div 10 < n)
  OBVIOUS
<1>1. PICK f \in [Nat -> Nat] :
        \A n \in Nat : f[n] = IF prev[n] < n THEN step[n][f[prev[n]]] ELSE start
  <2>1. IsRecursion(prev, step, start)
    BY <1>0 DEF IsRecursion
  <2> HIDE DEF prev, step, start
  <2>2. HasSolution(prev, step, start)
    BY <2>1, RecursionDefines
  <2> QED
    BY <2>2 DEF HasSolution
<1>2. ASSUME NEW n \in Nat
      PROVE  f[n] = IF n < 10 THEN 1 ELSE 1 + f[n \div 10]
  <2>1. /\ prev[n] = IF n < 10 THEN n ELSE n \div 10
        /\ \A v \in Nat : step[n][v] = 1 + v
    OBVIOUS
  <2>2. f[n] = IF prev[n] < n THEN step[n][f[prev[n]]] ELSE start
    BY <1>1
  <2> HIDE DEF prev, step
  <2> QED
    BY <1>0, <2>1, <2>2
<1>3. IsIt(f)
  <2>1. f = [n \in Nat |-> f[n]]
    OBVIOUS
  <2> QED
    BY <1>2, <2>1
<1>4. IsIt(DigitsOf)
  <2>1. DigitsOf = CHOOSE g : IsIt(g)
    BY DEF DigitsOf
  <2> HIDE DEF IsIt
  <2> QED
    BY <1>3, <2>1
<1>5. \A n \in Nat : DigitsOf[n] = IF n < 10 THEN 1 ELSE 1 + DigitsOf[n \div 10]
  BY <1>4
<1>6. \A n \in Nat : DigitsOf[n] = f[n]
  <2> DEFINE S == {n \in Nat : DigitsOf[n] = f[n]}
  <2>1. ASSUME NEW n \in Nat, \A m \in 0 .. n - 1 : m \in S
        PROVE  n \in S
    <3>1. n >= 10 => n \div 10 \in 0 .. n - 1
      BY <1>0
    <3>2. n >= 10 => DigitsOf[n \div 10] = f[n \div 10]
      BY <2>1, <3>1
    <3> QED
      BY <1>2, <1>5, <3>2
  <2> HIDE DEF S
  <2>2. Nat \subseteq S
    BY <2>1, StrongInduction
  <2> QED
    BY <2>2 DEF S
<1>7. DigitsOf = [n \in Nat |-> DigitsOf[n]]
  BY <1>4
<1> QED
  BY <1>5, <1>6, <1>7

\* A number of k digits is below 10^k, and not below 10^(k - 1) unless it is 0.
LEMMA NumDigitsBounds ==
  ASSUME NEW n \in Nat
  PROVE  /\ NumDigits(n) \in Nat \ {0}
         /\ n < PowerOfTen[NumDigits(n)]
         /\ n # 0 => PowerOfTen[NumDigits(n) - 1] <= n
<1> DEFINE Bounded(m) == /\ DigitsOf[m] > 0
                         /\ m < PowerOfTen[DigitsOf[m]]
                         /\ m # 0 => PowerOfTen[DigitsOf[m] - 1] <= m
           S == {m \in Nat : Bounded(m)}
<1>1. ASSUME NEW m \in Nat, \A j \in 0 .. m - 1 : j \in S
      PROVE  m \in S
  <2>1. CASE m < 10
    <3>1. DigitsOf[m] = 1 /\ PowerOfTen[1] = 10 /\ PowerOfTen[0] = 1
      BY <2>1, DigitsOfDef, PowerOfTenDef
    <3> QED
      BY <2>1, <3>1
  <2>2. CASE m >= 10
    <3> DEFINE q == m \div 10
    <3>1. q \in 0 .. m - 1 /\ q # 0 /\ 10 * q <= m /\ m < 10 * q + 10
      BY <2>2
    <3>2. Bounded(q)
      BY <1>1, <3>1
    <3>3. DigitsOf[m] = 1 + DigitsOf[q] /\ DigitsOf[q] \in Nat
      BY <2>2, <3>1, DigitsOfDef
    <3> HIDE DEF q
    <3>4. /\ PowerOfTen[DigitsOf[m]] = 10 * PowerOfTen[DigitsOf[q]]
          /\ PowerOfTen[DigitsOf[m] - 1] = 10 * PowerOfTen[DigitsOf[q] - 1]
          /\ PowerOfTen[DigitsOf[q]] \in Nat /\ PowerOfTen[DigitsOf[q] - 1] \in Nat
      BY <3>2, <3>3, PowerOfTenDef
    <3> QED
      BY <3>1, <3>2, <3>3, <3>4
  <2> QED
    BY <2>1, <2>2
<1> HIDE DEF S
<1>2. Nat \subseteq S
  BY <1>1, StrongInduction
<1>3. Bounded(n)
  BY <1>2 DEF S
<1> QED
  BY <1>3, DigitsOfDef DEF NumDigits

\* The number of digits is the only one with these bounds.
LEMMA NumDigitsUnique ==
  ASSUME NEW n \in Nat \ {0}, NEW k \in Nat \ {0},
         n < PowerOfTen[k], PowerOfTen[k - 1] <= n
  PROVE  NumDigits(n) = k
<1> DEFINE d == NumDigits(n)
<1>1. d \in Nat \ {0} /\ n < PowerOfTen[d] /\ PowerOfTen[d - 1] <= n
  BY NumDigitsBounds
<1>2. PowerOfTen[k - 1] \in Nat /\ PowerOfTen[k] \in Nat /\ PowerOfTen[d] \in Nat /\ PowerOfTen[d - 1] \in Nat
  BY <1>1, PowerOfTenDef
<1> HIDE DEF d
<1>3. d < k => PowerOfTen[d] <= PowerOfTen[k - 1]
  <2>1. \A j \in Nat : 10 * PowerOfTen[j] >= PowerOfTen[j]
    BY PowerOfTenPositive
  <2> QED
    BY <1>1, <1>2, <2>1, PowerOfTenGrows
<1>4. k < d => PowerOfTen[k] <= PowerOfTen[d - 1]
  <2>1. \A j \in Nat : 10 * PowerOfTen[j] >= PowerOfTen[j]
    BY PowerOfTenPositive
  <2> QED
    BY <1>1, <1>2, <2>1, PowerOfTenGrows
<1>5. d = k
  BY <1>1, <1>2, <1>3, <1>4
<1> QED
  BY <1>5 DEF d

-------------------------------------------------------------------------------
(* Rounding of integers: what the neighbours of a number are to it. *)

UnsignedModes == {"trunc", "expand", "halfTrunc", "halfExpand", "halfEven"}

\* The neighbours of x among the multiples of step round it as the code chooses
\* between them: by the mode, or by which one is nearer.
LEMMA NeighboursRound ==
  ASSUME NEW x \in Nat, NEW step \in Nat \ {0}, NEW q \in Nat, NEW lower, NEW upper,
         lower = q * step, upper = (q + 1) * step, lower <= x, x < upper
  PROVE  /\ \A mode \in UnsignedModes : x = lower => RoundsTo(x, lower, step, mode)
         /\ RoundsTo(x, lower, step, "trunc")
         /\ x # lower => RoundsTo(x, upper, step, "expand")
         /\ \A mode \in UnsignedModes \ {"trunc", "expand"} :
              /\ 2 * x < lower + upper => RoundsTo(x, lower, step, mode)
              /\ 2 * x > lower + upper => RoundsTo(x, upper, step, mode)
         /\ 2 * x = lower + upper =>
              /\ RoundsTo(x, lower, step, "halfTrunc")
              /\ RoundsTo(x, upper, step, "halfExpand")
              /\ RoundsTo(x, IF q % 2 = 0 THEN lower ELSE upper, step, "halfEven")
<1>1. /\ lower \in Nat /\ upper \in Nat /\ upper = lower + step
      /\ lower % step = 0 /\ upper % step = 0
      /\ lower \div step = q /\ upper \div step = q + 1
  <2>1. q \in Int /\ q + 1 \in Int /\ q * step \in Nat /\ (q + 1) * step = q * step + step
    OBVIOUS
  <2> QED
    BY <2>1, Multiple
<1>2. q % 2 # 0 => (q + 1) % 2 = 0
  OBVIOUS
<1>3. \A mode \in UnsignedModes : x = lower => RoundsTo(x, lower, step, mode)
  <2>1. x = lower => /\ RoundsTo(x, lower, step, "trunc") /\ RoundsTo(x, lower, step, "expand")
                     /\ RoundsTo(x, lower, step, "halfTrunc")
                     /\ RoundsTo(x, lower, step, "halfExpand")
                     /\ RoundsTo(x, lower, step, "halfEven")
    BY <1>1 DEF RoundsTo, Magnitude
  <2> QED
    BY <2>1 DEF UnsignedModes
<1>4. RoundsTo(x, lower, step, "trunc") /\ (x # lower => RoundsTo(x, upper, step, "expand"))
  BY <1>1 DEF RoundsTo, Magnitude
<1>5. ASSUME NEW mode \in UnsignedModes \ {"trunc", "expand"}
      PROVE  /\ 2 * x < lower + upper => RoundsTo(x, lower, step, mode)
             /\ 2 * x > lower + upper => RoundsTo(x, upper, step, mode)
  <2>1. 2 * x < lower + upper => /\ RoundsTo(x, lower, step, "halfTrunc")
                                 /\ RoundsTo(x, lower, step, "halfExpand")
                                 /\ RoundsTo(x, lower, step, "halfEven")
    BY <1>1 DEF RoundsTo, Magnitude
  <2>2. 2 * x > lower + upper => /\ RoundsTo(x, upper, step, "halfTrunc")
                                 /\ RoundsTo(x, upper, step, "halfExpand")
                                 /\ RoundsTo(x, upper, step, "halfEven")
    BY <1>1 DEF RoundsTo, Magnitude
  <2> QED
    BY <2>1, <2>2 DEF UnsignedModes
<1>6. 2 * x = lower + upper =>
        /\ RoundsTo(x, lower, step, "halfTrunc")
        /\ RoundsTo(x, upper, step, "halfExpand")
        /\ RoundsTo(x, IF q % 2 = 0 THEN lower ELSE upper, step, "halfEven")
  BY <1>1, <1>2 DEF RoundsTo, Magnitude
<1> QED
  BY <1>3, <1>4, <1>5, <1>6

-------------------------------------------------------------------------------
(* Comparison. *)

LEMMA Lesser ==
  ASSUME NEW m \in Int, NEW n \in Int
  PROVE  /\ LesserOf(m, n) \in {m, n} /\ LesserOf(m, n) <= m /\ LesserOf(m, n) <= n
         /\ LesserOf(m, n) \in Int
         /\ GreaterOf(m, n) \in {m, n} /\ m <= GreaterOf(m, n) /\ n <= GreaterOf(m, n)
         /\ GreaterOf(m, n) \in Int
  BY DEF LesserOf, GreaterOf

\* A positive factor keeps the order of integers.
LEMMA FactorKeepsOrder ==
  ASSUME NEW a \in Int, NEW b \in Int, NEW g \in Nat \ {0}
  PROVE  /\ a < b <=> a * g < b * g
         /\ a = b <=> a * g = b * g
<1>1. a < b => a * g < b * g
  OBVIOUS
<1>2. b < a => b * g < a * g
  OBVIOUS
<1> QED
  BY <1>1, <1>2

\* Units of a smaller place are the same number of finer units.
LEMMA UnitsRescaled ==
  ASSUME NEW x \in Decimal, NEW u \in Int, NEW t \in Int, t <= u, u <= x.exp
  PROVE  /\ Units(x, u) \in Nat /\ SignedUnits(x, u) \in Int
         /\ PowerOfTen[u - t] \in Nat \ {0}
         /\ Units(x, t) = Units(x, u) * PowerOfTen[u - t]
         /\ SignedUnits(x, t) = SignedUnits(x, u) * PowerOfTen[u - t]
<1>1. x.coeff \in Nat /\ x.exp \in Int /\ x.negative \in BOOLEAN
  BY DEF Decimal
<1>2. x.exp - u \in Nat /\ u - t \in Nat /\ x.exp - t = (x.exp - u) + (u - t)
  BY <1>1
<1> DEFINE p == PowerOfTen[x.exp - u]
           g == PowerOfTen[u - t]
<1>3. PowerOfTen[x.exp - t] = p * g /\ p \in Nat \ {0} /\ g \in Nat \ {0}
  BY <1>2, PowerOfTenSum, PowerOfTenPositive
<1>4. Units(x, u) = x.coeff * p /\ Units(x, t) = x.coeff * (p * g)
  BY <1>3 DEF Units
<1> HIDE DEF p, g
<1>5. x.coeff * p \in Nat /\ x.coeff * (p * g) = (x.coeff * p) * g
  BY <1>1, <1>3
<1>6. \A n \in Nat : (-n) * g = -(n * g)
  BY <1>3
<1>7. Units(x, u) \in Nat /\ Units(x, t) = Units(x, u) * g
  BY <1>4, <1>5
<1>8. SignedUnits(x, u) \in Int /\ SignedUnits(x, t) = SignedUnits(x, u) * g
  BY <1>1, <1>6, <1>7 DEF SignedUnits
<1> QED
  BY <1>3, <1>7, <1>8 DEF g

\* Decimals compare as the integers they are in any units fine enough for both.
LEMMA CmpInUnits ==
  ASSUME NEW x \in Decimal, NEW y \in Decimal, NEW u \in Int, u <= x.exp, u <= y.exp
  PROVE  /\ Cmp(x, y) \in Int
         /\ Cmp(x, y) < 0 <=> SignedUnits(x, u) < SignedUnits(y, u)
         /\ Cmp(x, y) = 0 <=> SignedUnits(x, u) = SignedUnits(y, u)
         /\ Cmp(x, y) > 0 <=> SignedUnits(x, u) > SignedUnits(y, u)
<1> DEFINE m == LesserOf(x.exp, y.exp)
           a == SignedUnits(x, m)
           b == SignedUnits(y, m)
           g == PowerOfTen[m - u]
<1>1. x.exp \in Int /\ y.exp \in Int
  BY DEF Decimal
<1>2. m \in Int /\ u <= m /\ m <= x.exp /\ m <= y.exp
  BY <1>1, Lesser
<1>3. /\ a \in Int /\ b \in Int /\ g \in Nat \ {0}
      /\ SignedUnits(x, u) = a * g /\ SignedUnits(y, u) = b * g
  <2> HIDE DEF m
  <2> QED
    BY <1>2, UnitsRescaled
<1>4. Cmp(x, y) = a - b
  BY DEF Cmp
<1> HIDE DEF a, b, g
<1>5. /\ a < b <=> a * g < b * g
      /\ a = b <=> a * g = b * g
      /\ b < a <=> b * g < a * g
  BY <1>3, FactorKeepsOrder
<1> QED
  BY <1>3, <1>4, <1>5

-------------------------------------------------------------------------------
(* Rounding of decimals. *)

\* A decimal made of a coefficient, in units.
LEMMA UnitsOfNew ==
  ASSUME NEW coeff \in Nat, NEW exp \in Int, NEW u \in Int, u <= exp
  PROVE  /\ NewDecimal(coeff, exp) \in Decimal
         /\ Units(NewDecimal(coeff, exp), u) = coeff * PowerOfTen[exp - u]
         /\ SignedUnits(NewDecimal(coeff, exp), u) = coeff * PowerOfTen[exp - u]
  BY DEF NewDecimal, Decimal, Units, SignedUnits

\* ApplyUnsignedRoundingMode picks the neighbour that the mode asks for.
LEMMA ChoiceRounds ==
  ASSUME NEW x \in Decimal, ~x.negative, NEW increment \in Nat \ {0}, NEW exp \in Int, NEW q \in Nat,
         NEW u \in Int, u <= exp, u <= x.exp, NEW mode \in UnsignedModes,
         NEW step, step = increment * PowerOfTen[exp - u],
         q * step <= Units(x, u), Units(x, u) < (q + 1) * step,
         NEW r1, r1 = NewDecimal(q * increment, exp),
         NEW r2, r2 = NewDecimal((q + 1) * increment, exp),
         NEW r, r = ApplyUnsignedRoundingMode(x, r1, r2, mode)
  PROVE  r \in {r1, r2} /\ RoundsTo(Units(x, u), Units(r, u), step, mode)
<1> DEFINE g == PowerOfTen[exp - u]
           n == Units(x, u)
           lower == q * step
           upper == (q + 1) * step
<1>1. /\ x.coeff \in Nat /\ x.exp \in Int /\ n \in Nat /\ SignedUnits(x, u) = n
      /\ g \in Nat \ {0} /\ n = x.coeff * PowerOfTen[x.exp - u]
      /\ PowerOfTen[x.exp - u] \in Nat \ {0}
  BY UnitsRescaled, PowerOfTenPositive DEF Decimal, SignedUnits, Units
<1>2. step \in Nat \ {0} /\ lower \in Nat /\ upper \in Nat
      /\ (q * increment) * g = lower /\ ((q + 1) * increment) * g = upper
      /\ q * increment \in Nat /\ (q + 1) * increment \in Nat
  BY <1>1
<1>3. /\ r1 \in Decimal /\ Units(r1, u) = lower /\ SignedUnits(r1, u) = lower /\ r1.exp = exp
      /\ r2 \in Decimal /\ Units(r2, u) = upper /\ SignedUnits(r2, u) = upper /\ r2.exp = exp
      /\ r1.coeff = q * increment /\ r2.coeff = (q + 1) * increment
  BY <1>2, UnitsOfNew DEF NewDecimal
<1>4. Cmp(x, r1) = 0 <=> n = lower
  BY <1>1, <1>3, CmpInUnits
<1>5. Cmp(x, r2) # 0 /\ Cmp(r1, r2) # 0
  <2>1. lower # upper
    BY <1>2
  <2> QED
    BY <1>1, <1>3, <2>1, CmpInUnits
<1>6. LET c == CompareRoundingDistances(x, r1, r2)
      IN  /\ c < 0 <=> 2 * n < lower + upper
          /\ c > 0 <=> 2 * n > lower + upper
          /\ c \in Int
  <2> DEFINE twice == MulInt(x, 2)
             middle == NewDecimal(r1.coeff + r2.coeff, r1.exp)
  <2>1. twice \in Decimal /\ twice.exp = x.exp /\ ~twice.negative /\ twice.coeff = x.coeff * 2
    BY <1>1 DEF MulInt, Decimal
  <2>2. SignedUnits(twice, u) = 2 * n
    <3>1. (x.coeff * 2) * PowerOfTen[x.exp - u] = 2 * (x.coeff * PowerOfTen[x.exp - u])
      BY <1>1
    <3> QED
      BY <1>1, <2>1, <3>1 DEF SignedUnits, Units
  <2>3. middle \in Decimal /\ middle.exp = exp /\ SignedUnits(middle, u) = lower + upper
    <3>1. r1.coeff + r2.coeff \in Nat /\ (r1.coeff + r2.coeff) * g = lower + upper
      BY <1>1, <1>2, <1>3
    <3> QED
      BY <1>3, <3>1, UnitsOfNew DEF NewDecimal
  <2> HIDE DEF twice, middle
  <2>4. /\ Cmp(twice, middle) < 0 <=> 2 * n < lower + upper
        /\ Cmp(twice, middle) > 0 <=> 2 * n > lower + upper
        /\ Cmp(twice, middle) \in Int
    BY <2>1, <2>2, <2>3, <1>1, CmpInUnits
  <2> QED
    BY <2>4 DEF CompareRoundingDistances, twice, middle
<1>7. HalfEvenLower(r1, r2) <=> q % 2 = 0
  <2>1. r2.coeff - r1.coeff = increment
    BY <1>3
  <2>2. (q * increment) \div increment = q
    BY Multiple
  <2> QED
    BY <1>3, <2>1, <2>2 DEF HalfEvenLower
<1> HIDE DEF n, lower, upper, g
<1>8. /\ mode = "trunc" \/ mode = "expand" \/ mode \in UnsignedModes \ {"trunc", "expand"}
      /\ mode \in UnsignedModes \ {"trunc", "expand"} =>
           mode = "halfTrunc" \/ mode = "halfExpand" \/ mode = "halfEven"
  BY DEF UnsignedModes
<1>9. lower <= n /\ n < upper
  BY DEF lower, upper, n
<1>10. /\ \A m \in UnsignedModes : n = lower => RoundsTo(n, lower, step, m)
       /\ RoundsTo(n, lower, step, "trunc")
       /\ n # lower => RoundsTo(n, upper, step, "expand")
       /\ \A m \in UnsignedModes \ {"trunc", "expand"} :
            /\ 2 * n < lower + upper => RoundsTo(n, lower, step, m)
            /\ 2 * n > lower + upper => RoundsTo(n, upper, step, m)
       /\ 2 * n = lower + upper =>
            /\ RoundsTo(n, lower, step, "halfTrunc")
            /\ RoundsTo(n, upper, step, "halfExpand")
            /\ RoundsTo(n, IF q % 2 = 0 THEN lower ELSE upper, step, "halfEven")
  <2>1. lower = q * step /\ upper = (q + 1) * step
    BY DEF lower, upper
  <2> QED
    BY <1>1, <1>2, <1>9, <2>1, NeighboursRound
<1>11. r = IF n = lower THEN r1
           ELSE IF mode = "trunc" THEN r1
           ELSE IF mode = "expand" THEN r2
           ELSE IF 2 * n < lower + upper THEN r1
           ELSE IF 2 * n > lower + upper THEN r2
           ELSE IF mode = "halfTrunc" THEN r1
           ELSE IF mode = "halfExpand" THEN r2
           ELSE IF q % 2 = 0 THEN r1 ELSE r2
  BY <1>4, <1>5, <1>6, <1>7 DEF ApplyUnsignedRoundingMode
<1>12. RoundsTo(n, IF r = r1 THEN lower ELSE upper, step, mode) /\ r \in {r1, r2}
  <2>1. r1 # r2
    BY <1>2, <1>3
  <2>2. 2 * n = lower + upper \/ 2 * n < lower + upper \/ 2 * n > lower + upper
    <3>1. \A a, b \in Int : a = b \/ a < b \/ a > b
      OBVIOUS
    <3>2. 2 * n \in Int /\ lower + upper \in Int
      BY <1>1, <1>2
    <3> QED
      BY <3>1, <3>2
  <2> QED
    BY <1>8, <1>10, <1>11, <2>1, <2>2
<1> QED
  BY <1>3, <1>12 DEF n

\* The quotient is how often the increment goes into the value, also where a gap
\* beyond all digits is answered without the power of ten.
LEMMA QuotientBounds ==
  ASSUME NEW x \in Decimal, ~x.negative, NEW increment \in Nat \ {0}, NEW exp \in Int,
         NEW u \in Int, u <= exp, u <= x.exp,
         NEW step, step = increment * PowerOfTen[exp - u]
  PROVE  LET q == Quotient(x, increment, exp)
         IN  q \in Nat /\ q * step <= Units(x, u) /\ Units(x, u) < (q + 1) * step
<1> DEFINE q == Quotient(x, increment, exp)
           b == IF x.exp >= exp THEN exp ELSE x.exp
           n == Units(x, b)
           s == increment * PowerOfTen[exp - b]
           h == PowerOfTen[b - u]
<1>1. x.coeff \in Nat /\ x.exp \in Int /\ b \in Int /\ u <= b /\ b <= x.exp /\ b <= exp
  BY DEF Decimal
<1>2. n \in Nat /\ h \in Nat \ {0} /\ Units(x, u) = n * h
  <2> HIDE DEF b
  <2> QED
    BY <1>1, UnitsRescaled
<1>3. s \in Nat \ {0} /\ step = s * h
  <2>1. exp - b \in Nat /\ b - u \in Nat /\ exp - u = (exp - b) + (b - u)
    BY <1>1
  <2>2. PowerOfTen[exp - u] = PowerOfTen[exp - b] * h /\ PowerOfTen[exp - b] \in Nat \ {0}
    BY <2>1, PowerOfTenSum, PowerOfTenPositive
  <2> HIDE DEF b, h
  <2> QED
    BY <1>2, <2>2
<1>4. q \in Nat /\ q * s <= n /\ n < (q + 1) * s
  <2>1. \A m \in Nat, k \in Nat \ {0} :
          m \div k \in Nat /\ (m \div k) * k <= m /\ m < (m \div k + 1) * k
    BY QuotientOf
  <2>2. CASE x.exp >= exp
    <3>1. b = exp /\ PowerOfTen[exp - b] = 1
      BY <2>2, PowerOfTenDef
    <3>2. s = increment
      BY <3>1
    <3>3. q = n \div increment
      BY <2>2, <3>1 DEF Quotient, Units
    <3> HIDE DEF q, n, s
    <3> QED
      BY <1>2, <2>1, <3>2, <3>3
  <2>3. CASE x.exp < exp
    <3>1. b = x.exp /\ ~(x.exp >= exp) /\ exp - x.exp \in Nat /\ x.exp - b = 0
      BY <1>1, <2>3
    <3>2. n = x.coeff
      BY <1>1, <3>1, PowerOfTenDef DEF Units
    <3>3. CASE exp - x.exp >= NumDigits(x.coeff)
      <4>1. q = 0
        BY <3>1, <3>3 DEF Quotient
      <4>2. /\ x.coeff < PowerOfTen[NumDigits(x.coeff)] /\ NumDigits(x.coeff) \in Nat
            /\ PowerOfTen[NumDigits(x.coeff)] \in Nat /\ PowerOfTen[exp - x.exp] \in Nat
        BY <1>1, <3>1, NumDigitsBounds, PowerOfTenPositive
      <4>3. PowerOfTen[NumDigits(x.coeff)] <= PowerOfTen[exp - x.exp]
        <5>1. \A k \in Nat : PowerOfTen[k] <= 10 * PowerOfTen[k]
          BY PowerOfTenPositive
        <5>2. exp - x.exp = NumDigits(x.coeff) \/ NumDigits(x.coeff) < exp - x.exp
          BY <3>1, <3>3, <4>2
        <5> QED
          BY <3>1, <4>2, <5>1, <5>2, PowerOfTenGrows
      <4>4. \A m \in Nat, k \in Nat \ {0} : m <= k * m
        OBVIOUS
      <4>5. PowerOfTen[exp - x.exp] <= s
        BY <3>1, <4>2, <4>4
      <4> HIDE DEF s
      <4> QED
        BY <1>1, <1>3, <3>2, <4>1, <4>2, <4>3, <4>5
    <3>4. CASE ~(exp - x.exp >= NumDigits(x.coeff))
      <4>1. q = n \div s
        BY <3>1, <3>2, <3>4 DEF Quotient
      <4> HIDE DEF q, n, s
      <4> QED
        BY <1>2, <1>3, <2>1, <4>1
    <3> QED
      BY <3>3, <3>4
  <2> QED
    BY <1>1, <2>2, <2>3
<1> HIDE DEF q, n, s, h
<1>5. q * step = (q * s) * h /\ (q + 1) * step = ((q + 1) * s) * h /\ q * s \in Int /\ (q + 1) * s \in Int
  BY <1>2, <1>3, <1>4
<1>6. (q * s) * h <= n * h /\ n * h < ((q + 1) * s) * h
  <2>1. \A k, m \in Int : /\ k <= m => k * h <= m * h
                          /\ k < m => k * h < m * h
    BY <1>2
  <2> QED
    BY <1>2, <1>4, <1>5, <2>1
<1> QED
  BY <1>2, <1>4, <1>5, <1>6 DEF q

\* QuantizeToIncrement rounds to a multiple of the increment at the place, and
\* leaves what is one already as it is.
LEMMA QuantizeRounds ==
  ASSUME NEW x \in Decimal, ~x.negative, NEW increment \in Nat \ {0}, NEW exp \in Int,
         NEW mode \in UnsignedModes, NEW u \in Int, u <= exp, u <= x.exp,
         NEW r, r = QuantizeToIncrement(x, increment, exp, mode)
  PROVE  /\ r \in Decimal /\ ~r.negative /\ (r = x \/ r.exp = exp)
         /\ RoundsTo(Units(x, u), Units(r, u), increment * PowerOfTen[exp - u], mode)
<1> DEFINE step == increment * PowerOfTen[exp - u]
           n == Units(x, u)
<1>1. /\ PowerOfTen[exp - u] \in Nat \ {0} /\ step \in Nat \ {0} /\ n \in Nat
      /\ x.exp \in Int /\ x.coeff \in Nat
  <2>1. exp - u \in Nat /\ n \in Nat
    BY UnitsRescaled
  <2> QED
    BY <2>1, PowerOfTenPositive DEF Decimal
<1>2. CASE ExactMultiple(x, increment, exp)
  <2>1. r = x
    BY <1>2 DEF QuantizeToIncrement
  <2>2. x.exp >= exp /\ Units(x, exp) % increment = 0
    BY <1>2 DEF ExactMultiple, Units
  <2>3. Units(x, exp) \in Nat /\ n = Units(x, exp) * PowerOfTen[exp - u]
    BY <1>1, <2>2, UnitsRescaled
  <2>4. PICK k \in Int : Units(x, exp) = k * increment
    <3> DEFINE y == Units(x, exp)
    <3>1. y \in Int /\ y % increment = 0
      BY <2>2, <2>3
    <3> HIDE DEF y
    <3>2. \E k \in Int : y = k * increment
      BY <3>1, MultipleIsProduct
    <3> QED
      BY <3>2 DEF y
  <2>5. k \in Nat
    <3>1. k < 0 => k * increment < 0
      OBVIOUS
    <3> QED
      BY <2>3, <2>4, <3>1
  <2>6. n = k * step
    BY <1>1, <2>3, <2>4
  <2> HIDE DEF n, step
  <2>7. n < (k + 1) * step /\ n <= n
    BY <1>1, <2>5, <2>6
  <2>8. RoundsTo(n, n, step, mode)
    BY <1>1, <2>5, <2>6, <2>7, NeighboursRound
  <2> QED
    BY <2>1, <2>8 DEF n, step
<1>3. CASE ~ExactMultiple(x, increment, exp)
  <2> DEFINE q == Quotient(x, increment, exp)
             r1 == NewDecimal(q * increment, exp)
             r2 == NewDecimal((q + 1) * increment, exp)
  <2>1. r = ApplyUnsignedRoundingMode(x, r1, r2, mode)
    BY <1>3 DEF QuantizeToIncrement
  <2>2. q \in Nat /\ q * step <= n /\ n < (q + 1) * step
    BY QuotientBounds
  <2> HIDE DEF q
  <2>3. q * increment \in Nat /\ (q + 1) * increment \in Nat
    BY <2>2
  <2>4. /\ r1 \in Decimal /\ ~r1.negative /\ r1.exp = exp
        /\ r2 \in Decimal /\ ~r2.negative /\ r2.exp = exp
    BY <2>3 DEF NewDecimal, Decimal
  <2>5. r \in {r1, r2} /\ RoundsTo(n, Units(r, u), step, mode)
    <3> HIDE DEF r1, r2, step, n
    <3>1. step = increment * PowerOfTen[exp - u] /\ n = Units(x, u)
      BY DEF step, n
    <3>2. r1 = NewDecimal(q * increment, exp) /\ r2 = NewDecimal((q + 1) * increment, exp)
      BY DEF r1, r2
    <3> QED
      BY <2>1, <2>2, <3>1, <3>2, ChoiceRounds
  <2> QED
    BY <2>4, <2>5
<1> QED
  BY <1>2, <1>3

\* RoundsTo, mode by mode.
ByMode(x, r, step) ==
  LET near == r % step = 0 /\ Magnitude(r - x) < step
      half == near /\ 2 * Magnitude(r - x) <= step
      tie  == 2 * Magnitude(r - x) = step
  IN  /\ RoundsTo(x, r, step, "ceil")   <=> near /\ r >= x
      /\ RoundsTo(x, r, step, "floor")  <=> near /\ r <= x
      /\ RoundsTo(x, r, step, "expand") <=> near /\ Magnitude(r) >= Magnitude(x)
      /\ RoundsTo(x, r, step, "trunc")  <=> near /\ Magnitude(r) <= Magnitude(x)
      /\ RoundsTo(x, r, step, "halfCeil")  <=> half /\ (tie => r > x)
      /\ RoundsTo(x, r, step, "halfFloor") <=> half /\ (tie => r < x)
      /\ RoundsTo(x, r, step, "halfExpand") <=> half /\ (tie => Magnitude(r) > Magnitude(x))
      /\ RoundsTo(x, r, step, "halfTrunc")  <=> half /\ (tie => Magnitude(r) < Magnitude(x))
      /\ RoundsTo(x, r, step, "halfEven")   <=> half /\ (tie => (r \div step) % 2 = 0)

LEMMA RoundsToByMode ==
  ASSUME NEW x \in Int, NEW r \in Int, NEW step \in Nat \ {0}
  PROVE  ByMode(x, r, step)
  BY DEF ByMode, RoundsTo

\* A magnitude rounded by the unsigned mode, with its sign, is rounded by the mode.
LEMMA SignedRounds ==
  ASSUME NEW n \in Nat, NEW m \in Nat, NEW step \in Nat \ {0}, NEW mode \in RoundingModes,
         NEW negative \in BOOLEAN,
         RoundsTo(n, m, step, UnsignedRoundingMode(mode, negative))
  PROVE  RoundsTo(IF negative THEN -n ELSE n, IF negative THEN -m ELSE m, step, mode)
<1>1. PICK q \in Int : m = q * step
  <2>1. m \in Int /\ m % step = 0
    BY DEF RoundsTo
  <2> QED
    BY <2>1, MultipleIsProduct
<1>2. /\ -m = (-q) * step /\ -q \in Int
      /\ m % step = 0 /\ m \div step = q /\ (-m) % step = 0 /\ (-m) \div step = -q
  <2>1. -m = (-q) * step /\ -q \in Int
    BY <1>1
  <2> QED
    BY <1>1, <2>1, Multiple
<1>3. q % 2 = 0 <=> (-q) % 2 = 0
  OBVIOUS
<1>4. /\ mode = "expand" \/ mode = "trunc" \/ mode = "halfExpand" \/ mode = "halfTrunc"
           \/ mode = "halfEven" => UnsignedRoundingMode(mode, negative) = mode
      /\ mode = "ceil" => UnsignedRoundingMode(mode, negative) = IF negative THEN "trunc" ELSE "expand"
      /\ mode = "floor" => UnsignedRoundingMode(mode, negative) = IF negative THEN "expand" ELSE "trunc"
      /\ mode = "halfCeil" =>
           UnsignedRoundingMode(mode, negative) = IF negative THEN "halfTrunc" ELSE "halfExpand"
      /\ mode = "halfFloor" =>
           UnsignedRoundingMode(mode, negative) = IF negative THEN "halfExpand" ELSE "halfTrunc"
  BY DEF UnsignedRoundingMode
<1>5. CASE ~negative
  <2>1. /\ RoundsTo(n, m, step, "expand") => RoundsTo(n, m, step, "ceil")
        /\ RoundsTo(n, m, step, "trunc") => RoundsTo(n, m, step, "floor")
        /\ RoundsTo(n, m, step, "halfExpand") => RoundsTo(n, m, step, "halfCeil")
        /\ RoundsTo(n, m, step, "halfTrunc") => RoundsTo(n, m, step, "halfFloor")
    <3>1. Magnitude(n) = n /\ Magnitude(m) = m
      BY DEF Magnitude
    <3>2. ByMode(n, m, step)
      BY RoundsToByMode
    <3> QED
      BY <3>1, <3>2 DEF ByMode
  <2> QED
    BY <1>4, <1>5, <2>1 DEF RoundingModes
<1>6. CASE negative
  <2>1. /\ RoundsTo(n, m, step, "trunc") => RoundsTo(-n, -m, step, "ceil")
        /\ RoundsTo(n, m, step, "expand") => RoundsTo(-n, -m, step, "floor")
        /\ RoundsTo(n, m, step, "expand") => RoundsTo(-n, -m, step, "expand")
        /\ RoundsTo(n, m, step, "trunc") => RoundsTo(-n, -m, step, "trunc")
        /\ RoundsTo(n, m, step, "halfTrunc") => RoundsTo(-n, -m, step, "halfCeil")
        /\ RoundsTo(n, m, step, "halfExpand") => RoundsTo(-n, -m, step, "halfFloor")
        /\ RoundsTo(n, m, step, "halfExpand") => RoundsTo(-n, -m, step, "halfExpand")
        /\ RoundsTo(n, m, step, "halfTrunc") => RoundsTo(-n, -m, step, "halfTrunc")
        /\ RoundsTo(n, m, step, "halfEven") => RoundsTo(-n, -m, step, "halfEven")
    <3>1. /\ Magnitude(n) = n /\ Magnitude(m) = m /\ Magnitude(-n) = n /\ Magnitude(-m) = m
          /\ Magnitude((-m) - (-n)) = Magnitude(m - n)
          /\ -n \in Int /\ -m \in Int
      BY DEF Magnitude
    <3>2. ByMode(n, m, step) /\ ByMode(-n, -m, step)
      BY <3>1, RoundsToByMode
    <3> QED
      BY <1>2, <1>3, <3>1, <3>2 DEF ByMode
  <2> QED
    BY <1>4, <1>6, <2>1 DEF RoundingModes
<1> QED
  BY <1>5, <1>6

LEMMA UnsignedModesOnly ==
  ASSUME NEW mode \in RoundingModes, NEW negative \in BOOLEAN
  PROVE  UnsignedRoundingMode(mode, negative) \in UnsignedModes
  BY DEF UnsignedRoundingMode, UnsignedModes, RoundingModes

\* A decimal quantized in magnitude and given back its sign is rounded as the
\* rounding mode says, below zero too, in any units fine enough.
LEMMA QuantizedInUnits ==
  ASSUME NEW d \in Decimal, NEW increment \in Nat \ {0}, NEW place \in Int,
         NEW mode \in RoundingModes, NEW u \in Int, u <= place, u <= d.exp,
         NEW r, r = QuantizeToIncrement(Abs(d), increment, place,
                                        UnsignedRoundingMode(mode, d.negative))
  PROVE  /\ r \in Decimal /\ ~r.negative /\ (r = Abs(d) \/ r.exp = place) /\ u <= r.exp
         /\ RoundsTo(SignedUnits(d, u), SignedUnits(WithSign(r, d.negative), u),
                     increment * PowerOfTen[place - u], mode)
<1> DEFINE step == increment * PowerOfTen[place - u]
<1>1. /\ Abs(d) \in Decimal /\ ~Abs(d).negative /\ Abs(d).exp = d.exp /\ Abs(d).coeff = d.coeff
      /\ d.negative \in BOOLEAN /\ d.exp \in Int /\ d.coeff \in Nat
  BY DEF Abs, Decimal
<1>2. UnsignedRoundingMode(mode, d.negative) \in UnsignedModes
  BY <1>1, UnsignedModesOnly
<1>3. /\ r \in Decimal /\ ~r.negative /\ (r = Abs(d) \/ r.exp = place)
      /\ RoundsTo(Units(Abs(d), u), Units(r, u), step, UnsignedRoundingMode(mode, d.negative))
  BY <1>1, <1>2, QuantizeRounds
<1>4. u <= r.exp /\ Units(Abs(d), u) = Units(d, u)
  BY <1>1, <1>3 DEF Units
<1>5. step \in Nat \ {0} /\ Units(d, u) \in Nat /\ Units(r, u) \in Nat
  <2>1. place - u \in Nat
    OBVIOUS
  <2>2. PowerOfTen[place - u] \in Nat \ {0} /\ Units(d, u) \in Nat /\ Units(r, u) \in Nat
    BY <1>3, <1>4, <2>1, PowerOfTenPositive, UnitsRescaled
  <2> QED
    BY <2>2
<1>6. /\ SignedUnits(d, u) = IF d.negative THEN -Units(d, u) ELSE Units(d, u)
      /\ SignedUnits(WithSign(r, d.negative), u) = IF d.negative THEN -Units(r, u) ELSE Units(r, u)
  <2>1. WithSign(r, d.negative).negative = d.negative
        /\ Units(WithSign(r, d.negative), u) = Units(r, u)
    BY <1>1, <1>3 DEF WithSign, Decimal, Units
  <2> QED
    BY <2>1 DEF SignedUnits
<1>7. RoundsTo(SignedUnits(d, u), SignedUnits(WithSign(r, d.negative), u), step, mode)
  <2> HIDE DEF step
  <2> QED
    BY <1>1, <1>3, <1>4, <1>5, <1>6, SignedRounds
<1> QED
  BY <1>3, <1>4, <1>7

\* The units that RoundsAt takes are fine enough for both.
LEMMA LeastOfThree ==
  ASSUME NEW place \in Int, NEW m \in Int, NEW n \in Int
  PROVE  LET u == LesserOf(place, LesserOf(m, n)) IN u \in Int /\ u <= place /\ u <= m /\ u <= n
<1> DEFINE l == LesserOf(m, n)
<1>1. l \in Int /\ l <= m /\ l <= n
  BY Lesser
<1> HIDE DEF l
<1>2. LesserOf(place, l) \in Int /\ LesserOf(place, l) <= place /\ LesserOf(place, l) <= l
  BY <1>1, Lesser
<1>3. LesserOf(place, l) <= m /\ LesserOf(place, l) <= n
  BY <1>1, <1>2
<1> QED
  BY <1>2, <1>3 DEF l

LEMMA QuantizedIsRounded ==
  ASSUME NEW d \in Decimal, NEW increment \in Nat \ {0}, NEW place \in Int,
         NEW mode \in RoundingModes,
         NEW r, r = QuantizeToIncrement(Abs(d), increment, place,
                                        UnsignedRoundingMode(mode, d.negative))
  PROVE  RoundsAt(d, WithSign(r, d.negative), increment, place, mode)
<1>1. d.exp \in Int /\ LesserOf(place, d.exp) \in Int /\ LesserOf(place, d.exp) <= place
      /\ LesserOf(place, d.exp) <= d.exp
  BY Lesser DEF Decimal
<1>2. r \in Decimal
  BY <1>1, QuantizedInUnits
<1>3. WithSign(r, d.negative).exp = r.exp /\ r.exp \in Int
  BY <1>2 DEF WithSign, Decimal
<1> DEFINE s == WithSign(r, d.negative)
           u == LesserOf(place, LesserOf(d.exp, s.exp))
<1>4. u \in Int /\ u <= place /\ u <= d.exp
  BY <1>1, <1>3, LeastOfThree
<1>5. RoundsTo(SignedUnits(d, u), SignedUnits(s, u), increment * PowerOfTen[place - u], mode)
  <2> HIDE DEF u
  <2> QED
    BY <1>4, QuantizedInUnits
<1> QED
  BY <1>5 DEF RoundsAt

\* Zero is rounded to zero only.
LEMMA ZeroStaysZero ==
  ASSUME NEW r \in Int, NEW step \in Nat \ {0}, NEW mode, RoundsTo(0, r, step, mode)
  PROVE  r = 0
<1>1. r % step = 0 /\ Magnitude(r - 0) < step
  BY DEF RoundsTo
<1>2. PICK q \in Int : r = q * step
  BY <1>1, MultipleIsProduct
<1>3. \A k \in Int : (k >= 1 => k * step >= step) /\ (k <= -1 => k * step <= -step)
  OBVIOUS
<1> QED
  BY <1>1, <1>2, <1>3 DEF Magnitude

\* Rounding by the same mode to a finer grid is never further from the value.
LEMMA FinerIsNearer ==
  ASSUME NEW x \in Int, NEW fine \in Nat \ {0}, NEW k \in Nat \ {0}, NEW coarse, coarse = k * fine,
         NEW r \in Int, NEW s \in Int, NEW mode \in RoundingModes,
         RoundsTo(x, r, fine, mode), RoundsTo(x, s, coarse, mode)
  PROVE  Magnitude(r - x) <= Magnitude(s - x)
<1>1. coarse \in Nat \ {0}
  OBVIOUS
<1>2. r % fine = 0 /\ Magnitude(r - x) < fine /\ s % coarse = 0 /\ Magnitude(s - x) < coarse
  BY DEF RoundsTo
<1>3. PICK p \in Int : r = p * fine
  BY <1>2, MultipleIsProduct
<1>4. PICK q \in Int : s = q * fine
  <2>1. PICK n \in Int : s = n * coarse
    BY <1>1, <1>2, MultipleIsProduct
  <2>2. n * k \in Int /\ s = (n * k) * fine
    BY <2>1
  <2> QED
    BY <2>2
<1>5. r = s \/ s >= r + fine \/ s <= r - fine
  <2>1. p = q \/ q >= p + 1 \/ q <= p - 1
    OBVIOUS
  <2>2. /\ q >= p + 1 => q * fine >= (p + 1) * fine
        /\ q <= p - 1 => q * fine <= (p - 1) * fine
    OBVIOUS
  <2>3. (p + 1) * fine = p * fine + fine /\ (p - 1) * fine = p * fine - fine
    OBVIOUS
  <2> QED
    BY <1>3, <1>4, <2>1, <2>2, <2>3
<1>6. ByMode(x, r, fine) /\ ByMode(x, s, coarse)
  BY <1>1, RoundsToByMode
<1>7. \/ mode = "ceil" \/ mode = "floor" \/ mode = "expand" \/ mode = "trunc"
      \/ 2 * Magnitude(r - x) <= fine
  BY <1>6 DEF ByMode, RoundingModes
<1>8. /\ mode = "ceil" => r >= x /\ s >= x
      /\ mode = "floor" => r <= x /\ s <= x
      /\ mode = "expand" => Magnitude(r) >= Magnitude(x) /\ Magnitude(s) >= Magnitude(x)
      /\ mode = "trunc" => Magnitude(r) <= Magnitude(x) /\ Magnitude(s) <= Magnitude(x)
  BY <1>6 DEF ByMode
<1>9. CASE 2 * Magnitude(r - x) <= fine
  BY <1>5, <1>9 DEF Magnitude
<1>10. CASE mode = "ceil"
  BY <1>2, <1>5, <1>8, <1>10 DEF Magnitude
<1>11. CASE mode = "floor"
  BY <1>2, <1>5, <1>8, <1>11 DEF Magnitude
<1>12. CASE mode = "expand"
  BY <1>2, <1>5, <1>8, <1>12 DEF Magnitude
<1>13. CASE mode = "trunc"
  BY <1>2, <1>5, <1>8, <1>13 DEF Magnitude
<1> QED
  BY <1>7, <1>9, <1>10, <1>11, <1>12, <1>13

\* Powers are in the order of their exponents.
LEMMA PowersOrdered ==
  ASSUME NEW j \in Nat, NEW k \in Nat
  PROVE  /\ j <= k <=> PowerOfTen[j] <= PowerOfTen[k]
         /\ j < k <=> PowerOfTen[j] < PowerOfTen[k]
<1>1. PowerOfTen[j] \in Nat \ {0} /\ PowerOfTen[k] \in Nat \ {0}
  BY PowerOfTenPositive
<1>2. j < k => 10 * PowerOfTen[j] <= PowerOfTen[k]
  BY PowerOfTenGrows
<1>3. k < j => 10 * PowerOfTen[k] <= PowerOfTen[j]
  BY PowerOfTenGrows
<1>4. j = k \/ j < k \/ k < j
  OBVIOUS
<1> QED
  BY <1>1, <1>2, <1>3, <1>4

\* A number followed by zeros has that many digits more.
LEMMA ZerosAreDigits ==
  ASSUME NEW n \in Nat \ {0}, NEW k \in Nat
  PROVE  NumDigits(n * PowerOfTen[k]) = NumDigits(n) + k
<1> DEFINE d == NumDigits(n)
           p == PowerOfTen[k]
<1>1. d \in Nat \ {0} /\ n < PowerOfTen[d] /\ PowerOfTen[d - 1] <= n
  BY NumDigitsBounds
<1>2. p \in Nat \ {0}
  BY PowerOfTenPositive
<1>3. /\ PowerOfTen[d + k] = PowerOfTen[d] * p
      /\ PowerOfTen[(d + k) - 1] = PowerOfTen[d - 1] * p
      /\ PowerOfTen[d] \in Nat /\ PowerOfTen[d - 1] \in Nat
  <2>1. (d - 1) + k = (d + k) - 1 /\ d - 1 \in Nat
    BY <1>1
  <2> QED
    BY <1>1, <2>1, PowerOfTenSum, PowerOfTenPositive
<1> HIDE DEF d, p
<1>4. \A a, b \in Nat : /\ a < b => a * p < b * p
                        /\ a <= b => a * p <= b * p
  BY <1>2
<1>5. n * p < PowerOfTen[d + k] /\ PowerOfTen[(d + k) - 1] <= n * p /\ n * p \in Nat \ {0}
  BY <1>1, <1>2, <1>3, <1>4
<1>6. NumDigits(n * p) = d + k
  BY <1>1, <1>5, NumDigitsUnique
<1> QED
  BY <1>6 DEF d, p

\* The leading digit of a decimal that is not zero bounds it, in any units.
LEMMA LeadingDigit ==
  ASSUME NEW x \in Decimal, ~IsZero(x), NEW u \in Int, u <= x.exp
  PROVE  /\ Log10Floor(x) \in Int /\ x.exp <= Log10Floor(x)
         /\ PowerOfTen[Log10Floor(x) - u] <= Units(x, u)
         /\ Units(x, u) < PowerOfTen[Log10Floor(x) - u + 1]
<1> DEFINE d == NumDigits(x.coeff)
           p == PowerOfTen[x.exp - u]
<1>1. x.coeff \in Nat \ {0} /\ x.exp \in Int /\ x.exp - u \in Nat
  BY DEF Decimal, IsZero
<1>2. /\ d \in Nat \ {0} /\ x.coeff < PowerOfTen[d] /\ PowerOfTen[d - 1] <= x.coeff
      /\ p \in Nat \ {0} /\ PowerOfTen[d] \in Nat /\ PowerOfTen[d - 1] \in Nat
  BY <1>1, NumDigitsBounds, PowerOfTenPositive
<1>3. /\ PowerOfTen[d + (x.exp - u)] = PowerOfTen[d] * p
      /\ PowerOfTen[(d - 1) + (x.exp - u)] = PowerOfTen[d - 1] * p
  <2>1. d - 1 \in Nat /\ d \in Nat
    BY <1>2
  <2> QED
    BY <1>1, <2>1, PowerOfTenSum
<1>4. Log10Floor(x) = d - 1 + x.exp /\ Units(x, u) = x.coeff * p
  BY DEF Log10Floor, Units
<1> HIDE DEF d, p
<1>5. \A a, b \in Nat : /\ a < b => a * p < b * p
                        /\ a <= b => a * p <= b * p
  BY <1>2
<1>6. PowerOfTen[d - 1] * p <= x.coeff * p /\ x.coeff * p < PowerOfTen[d] * p
  BY <1>1, <1>2, <1>5
<1>7. Log10Floor(x) - u = (d - 1) + (x.exp - u) /\ Log10Floor(x) - u + 1 = d + (x.exp - u)
  BY <1>1, <1>2, <1>4
<1> QED
  BY <1>1, <1>2, <1>3, <1>4, <1>6, <1>7

-------------------------------------------------------------------------------
(* Rounding to fraction digits and to significant digits. *)

\* The place of the last significant digit of d.
SignificantPlace(d, opts) == Log10Floor(d) - opts.maximumSignificantDigits + 1

\* Which digits of an integer are its multiples of a place: a number between two
\* multiples of a step is rounded to no further than they are.
LEMMA RoundedBetween ==
  ASSUME NEW n \in Nat, NEW r \in Nat, NEW step \in Nat \ {0}, NEW low \in Nat, NEW high \in Nat,
         low % step = 0, high % step = 0, r % step = 0, Magnitude(r - n) < step,
         low <= n, n <= high
  PROVE  low <= r /\ r <= high
<1>0. low \in Int /\ high \in Int /\ r \in Int
  OBVIOUS
<1>1. PICK p \in Int : low = p * step
  BY <1>0, MultipleIsProduct
<1>2. PICK q \in Int : high = q * step
  BY <1>0, MultipleIsProduct
<1>3. PICK k \in Int : r = k * step
  BY <1>0, MultipleIsProduct
<1>4. r < low => r <= low - step
  <2>1. k < p => k <= p - 1
    OBVIOUS
  <2>2. k <= p - 1 => k * step <= (p - 1) * step
    OBVIOUS
  <2>3. p <= k => p * step <= k * step
    OBVIOUS
  <2>4. (p - 1) * step = p * step - step
    OBVIOUS
  <2> QED
    BY <1>1, <1>3, <2>1, <2>2, <2>3, <2>4
<1>5. r > high => r >= high + step
  <2>1. k > q => k >= q + 1
    OBVIOUS
  <2>2. k >= q + 1 => k * step >= (q + 1) * step
    OBVIOUS
  <2>3. k <= q => k * step <= q * step
    OBVIOUS
  <2>4. (q + 1) * step = q * step + step
    OBVIOUS
  <2> QED
    BY <1>2, <1>3, <2>1, <2>2, <2>3, <2>4
<1> QED
  BY <1>4, <1>5 DEF Magnitude

\* Powers of ten are multiples of the smaller ones.
LEMMA PowerIsMultiple ==
  ASSUME NEW j \in Nat, NEW k \in Nat, j <= k
  PROVE  PowerOfTen[k] = PowerOfTen[k - j] * PowerOfTen[j] /\ PowerOfTen[k] % PowerOfTen[j] = 0
<1>1. k - j \in Nat /\ k = (k - j) + j
  OBVIOUS
<1>2. PowerOfTen[k] = PowerOfTen[k - j] * PowerOfTen[j]
  BY <1>1, PowerOfTenSum
<1>3. PowerOfTen[k - j] \in Int /\ PowerOfTen[j] \in Nat \ {0}
  BY <1>1, PowerOfTenPositive
<1> QED
  BY <1>2, <1>3, Multiple

\* What rounds at a significant digit keeps its leading digit's place or carries
\* to the next one.
LEMMA RoundedLeads ==
  ASSUME NEW x \in Decimal, ~IsZero(x), ~x.negative, NEW place \in Int, place <= Log10Floor(x),
         NEW u \in Int, u <= x.exp, u <= place,
         NEW r \in Decimal, u <= r.exp, NEW mode,
         RoundsTo(Units(x, u), Units(r, u), PowerOfTen[place - u], mode)
  PROVE  ~IsZero(r) /\ Log10Floor(r) \in {Log10Floor(x), Log10Floor(x) + 1}
<1> DEFINE l == Log10Floor(x)
           n == Units(x, u)
           m == Units(r, u)
           step == PowerOfTen[place - u]
           low == PowerOfTen[l - u]
           high == PowerOfTen[l + 1 - u]
<1>1. l \in Int /\ l - u \in Nat /\ l + 1 - u \in Nat /\ place - u \in Nat /\ l - u + 1 = l + 1 - u
  BY LeadingDigit DEF Decimal
<1>2. n \in Nat /\ m \in Nat
  BY UnitsRescaled
<1>3. step \in Nat \ {0} /\ low \in Nat \ {0} /\ high \in Nat \ {0}
  BY <1>1, PowerOfTenPositive
<1>4. low <= n /\ n <= high
  <2>1. low <= n /\ n < high
    BY <1>1, LeadingDigit
  <2> HIDE DEF low, high, n
  <2> QED
    BY <1>2, <1>3, <2>1
<1>5. low % step = 0 /\ high % step = 0
  <2>1. place - u <= l - u /\ place - u <= l + 1 - u
    BY <1>1
  <2> HIDE DEF l
  <2> QED
    BY <1>1, <2>1, PowerIsMultiple
<1>6. m % step = 0 /\ Magnitude(m - n) < step
  BY DEF RoundsTo
<1> HIDE DEF n, m, step, low, high
<1>7. low <= m /\ m <= high
  BY <1>2, <1>3, <1>4, <1>5, <1>6, RoundedBetween
<1>8. ~IsZero(r)
  <2>1. IsZero(r) => m = 0
    <3>1. r.exp - u \in Nat
      BY DEF Decimal
    <3> QED
      BY <3>1, PowerOfTenPositive DEF IsZero, Units, m
  <2> QED
    BY <1>3, <1>7, <2>1
<1> DEFINE k == Log10Floor(r)
<1>9. k \in Int /\ k - u \in Nat /\ k - u + 1 \in Nat /\ PowerOfTen[k - u] <= m /\ m < PowerOfTen[k - u + 1]
  BY <1>8, LeadingDigit DEF Decimal, m
<1> HIDE DEF k, l
<1>10. PowerOfTen[k - u] \in Nat /\ PowerOfTen[k - u + 1] \in Nat
  BY <1>9, PowerOfTenPositive
<1>11. PowerOfTen[k - u] <= PowerOfTen[l + 1 - u] /\ PowerOfTen[l - u] < PowerOfTen[k - u + 1]
  BY <1>2, <1>3, <1>7, <1>9, <1>10 DEF low, high
<1>12. k - u <= l + 1 - u /\ l - u < k - u + 1
  BY <1>1, <1>9, <1>11, PowersOrdered
<1>13. k = l \/ k = l + 1
  BY <1>1, <1>9, <1>12
<1> QED
  BY <1>8, <1>13 DEF k, l

\* Digits that are few enough end at the last significant place or before it.
LEMMA FewDigits ==
  ASSUME NEW d \in Decimal, ~IsZero(d), NEW opts, opts.maximumSignificantDigits \in Nat,
         SignificantDigitCount(PlainUnits(d), PlainScale(d)) <= opts.maximumSignificantDigits
  PROVE  SignificantPlace(d, opts) <= d.exp
<1>1. d.coeff \in Nat \ {0} /\ d.exp \in Int
  BY DEF Decimal, IsZero
<1> DEFINE k == GreaterOf(0, d.exp)
<1>2. k \in Nat /\ k >= d.exp
  BY <1>1 DEF GreaterOf
<1>3. PlainUnits(d) = d.coeff * PowerOfTen[k]
  BY DEF PlainUnits
<1>4. NumDigits(PlainUnits(d)) = NumDigits(d.coeff) + k /\ NumDigits(d.coeff) \in Nat
  BY <1>1, <1>2, <1>3, ZerosAreDigits, NumDigitsBounds
<1>5. PlainUnits(d) # 0
  <2>1. PowerOfTen[k] \in Nat \ {0}
    BY <1>2, PowerOfTenPositive
  <2> HIDE DEF k
  <2> QED
    BY <1>1, <1>3, <2>1
<1>6. NumDigits(d.coeff) + k <= opts.maximumSignificantDigits
  BY <1>4, <1>5 DEF SignificantDigitCount
<1> HIDE DEF k
<1> QED
  BY <1>1, <1>2, <1>4, <1>6 DEF SignificantPlace, Log10Floor

\* What the rounding of one value needs of its options.
IsDigits(opts) ==
  /\ opts.roundingIncrement \in RoundingIncrements /\ opts.roundingMode \in RoundingModes
  /\ opts.maximumFractionDigits \in Nat /\ opts.maximumSignificantDigits \in Nat

LEMMA AbsOf ==
  ASSUME NEW d \in Decimal
  PROVE  /\ Abs(d) \in Decimal /\ ~Abs(d).negative /\ Abs(d).exp = d.exp /\ Abs(d).coeff = d.coeff
         /\ IsZero(Abs(d)) <=> IsZero(d)
         /\ Log10Floor(Abs(d)) = Log10Floor(d)
         /\ \A u : Units(Abs(d), u) = Units(d, u)
         /\ WithSign(Abs(d), d.negative) = d
         /\ d.exp \in Int /\ d.coeff \in Nat /\ d.negative \in BOOLEAN
  BY DEF Abs, Decimal, IsZero, Log10Floor, Units, WithSign

\* The fixed candidate is rounded at the last fraction digit.
LEMMA FixedRounds ==
  ASSUME NEW d \in Decimal, NEW opts, IsDigits(opts)
  PROVE  LET r == FixedCandidate(d, opts).rounded
             place == -opts.maximumFractionDigits
         IN  /\ r \in Decimal /\ r.negative = d.negative /\ (r = d \/ r.exp = place)
             /\ RoundsAt(d, r, opts.roundingIncrement, place, opts.roundingMode)
             /\ \A u \in Int : u <= place /\ u <= d.exp =>
                  RoundsTo(SignedUnits(d, u), SignedUnits(r, u),
                           opts.roundingIncrement * PowerOfTen[place - u], opts.roundingMode)
<1> DEFINE place == -opts.maximumFractionDigits
           increment == opts.roundingIncrement
           r == RoundFixed(d, opts)
<1>1. place \in Int /\ increment \in Nat \ {0} /\ opts.roundingMode \in RoundingModes
  BY DEF IsDigits, RoundingIncrements
<1>2. r = QuantizeToIncrement(Abs(d), increment, place, UnsignedRoundingMode(opts.roundingMode, d.negative))
  BY DEF RoundFixed
<1>3. FixedCandidate(d, opts).rounded = WithSign(r, d.negative)
  BY DEF FixedCandidate, Result
<1> HIDE DEF place, increment, r
<1>4. \A u \in Int : u <= place /\ u <= d.exp =>
        RoundsTo(SignedUnits(d, u), SignedUnits(WithSign(r, d.negative), u),
                 increment * PowerOfTen[place - u], opts.roundingMode)
  BY <1>1, <1>2, QuantizedInUnits
<1>5. RoundsAt(d, WithSign(r, d.negative), increment, place, opts.roundingMode)
  BY <1>1, <1>2, QuantizedIsRounded
<1>6. r \in Decimal /\ (r = Abs(d) \/ r.exp = place)
  <2>1. LesserOf(place, d.exp) \in Int /\ LesserOf(place, d.exp) <= place /\ LesserOf(place, d.exp) <= d.exp
    BY <1>1, AbsOf, Lesser
  <2> QED
    BY <1>1, <1>2, <2>1, QuantizedInUnits
<1>7. /\ WithSign(r, d.negative) \in Decimal /\ WithSign(r, d.negative).negative = d.negative
      /\ WithSign(r, d.negative) = d \/ WithSign(r, d.negative).exp = place
  BY <1>6, AbsOf DEF WithSign, Decimal
<1> QED
  BY <1>3, <1>4, <1>5, <1>7 DEF place, increment

\* Whether all digits of d are kept as significant ones.
KeepsAll(d, opts) ==
  IsZero(d) \/ SignificantDigitCount(PlainUnits(d), PlainScale(d)) <= opts.maximumSignificantDigits

\* The other candidate is the value itself, or rounded at the last significant digit.
LEMMA SignificantRounds ==
  ASSUME NEW d \in Decimal, NEW opts, IsDigits(opts)
  PROVE  LET r == SignificantCandidate(d, opts).rounded
             place == SignificantPlace(d, opts)
         IN  /\ r \in Decimal /\ r.negative = d.negative /\ (r = d \/ r.exp = place)
             /\ r = WithSign(RoundSignificant(d, opts), d.negative)
             /\ KeepsAll(d, opts) => r = d
             /\ ~KeepsAll(d, opts) =>
                  /\ place \in Int
                  /\ RoundsAt(d, r, 1, place, opts.roundingMode)
                  /\ \A u \in Int : u <= place /\ u <= d.exp =>
                       RoundsTo(SignedUnits(d, u), SignedUnits(r, u), PowerOfTen[place - u],
                                opts.roundingMode)
<1> DEFINE place == SignificantPlace(d, opts)
           r == RoundSignificant(d, opts)
           s == WithSign(r, d.negative)
<1>1. opts.maximumSignificantDigits \in Nat /\ opts.roundingMode \in RoundingModes
  BY DEF IsDigits
<1>2. SignificantCandidate(d, opts).rounded = s
  BY DEF SignificantCandidate, Result
<1>3. ASSUME KeepsAll(d, opts)
      PROVE  s = d
  BY <1>3, AbsOf DEF KeepsAll, RoundSignificant
<1>4. ASSUME ~KeepsAll(d, opts)
      PROVE  /\ s \in Decimal /\ s.negative = d.negative /\ (s = d \/ s.exp = place)
             /\ place \in Int
             /\ RoundsAt(d, s, 1, place, opts.roundingMode)
             /\ \A u \in Int : u <= place /\ u <= d.exp =>
                  RoundsTo(SignedUnits(d, u), SignedUnits(s, u), PowerOfTen[place - u],
                           opts.roundingMode)
  <2>1. Log10Floor(d) \in Int
    <3>1. ~IsZero(d) /\ d.exp \in Int /\ d.exp <= d.exp
      BY <1>4, AbsOf DEF KeepsAll
    <3> QED
      BY <3>1, LeadingDigit
  <2>2. place \in Int
    BY <1>1, <2>1 DEF SignificantPlace
  <2>3. r = QuantizeToIncrement(Abs(d), 1, place, UnsignedRoundingMode(opts.roundingMode, d.negative))
    BY <1>4 DEF KeepsAll, RoundSignificant, SignificantPlace
  <2> HIDE DEF place, r
  <2> DEFINE one == 1
  <2>one. one \in Nat \ {0} /\ one = 1
    OBVIOUS
  <2> HIDE DEF one
  <2>4. \A u \in Int : u <= place /\ u <= d.exp =>
          RoundsTo(SignedUnits(d, u), SignedUnits(WithSign(r, d.negative), u),
                   one * PowerOfTen[place - u], opts.roundingMode)
    <3>1. opts.roundingMode \in RoundingModes
      BY <1>1
    <3>2. r = QuantizeToIncrement(Abs(d), one, place, UnsignedRoundingMode(opts.roundingMode, d.negative))
      BY <2>3, <2>one
    <3> QED
      BY <2>2, <2>one, <3>1, <3>2, QuantizedInUnits
  <2>5. RoundsAt(d, s, one, place, opts.roundingMode)
    BY <1>1, <2>2, <2>3, <2>one, QuantizedIsRounded
  <2>6. r \in Decimal /\ (r = Abs(d) \/ r.exp = place)
    <3>1. LesserOf(place, d.exp) \in Int /\ LesserOf(place, d.exp) <= place /\ LesserOf(place, d.exp) <= d.exp
      BY <2>2, AbsOf, Lesser
    <3> QED
      BY <1>1, <2>2, <2>3, <3>1, QuantizedInUnits
  <2>7. s \in Decimal /\ s.negative = d.negative /\ (s = d \/ s.exp = place)
    BY <2>6, AbsOf DEF WithSign, Decimal
  <2>8. \A u \in Int : u <= place => 1 * PowerOfTen[place - u] = PowerOfTen[place - u]
    <3>1. \A u \in Int : u <= place => place - u \in Nat
      BY <2>2
    <3> QED
      BY <3>1, PowerOfTenPositive
  <2>9. \A u \in Int : u <= place /\ u <= d.exp =>
          RoundsTo(SignedUnits(d, u), SignedUnits(s, u), one * PowerOfTen[place - u], opts.roundingMode)
    BY <2>4
  <2> HIDE DEF s
  <2> QED
    BY <2>2, <2>5, <2>7, <2>8, <2>9, <2>one
<1> HIDE DEF s
<1>5. s \in Decimal /\ s.negative = d.negative /\ (s = d \/ s.exp = place)
  BY <1>3, <1>4
<1> QED
  BY <1>2, <1>3, <1>4, <1>5 DEF s

\* Rounding to significant digits leaves no zero, and the leading digit where it
\* was or one place further up.
LEMMA SignificantLeads ==
  ASSUME NEW d \in Decimal, NEW opts, IsDigits(opts), opts.maximumSignificantDigits >= 1,
         ~KeepsAll(d, opts)
  PROVE  LET r == RoundSignificant(d, opts)
         IN  ~IsZero(r) /\ Log10Floor(d) \in Int /\ Log10Floor(r) \in {Log10Floor(d), Log10Floor(d) + 1}
<1> DEFINE place == SignificantPlace(d, opts)
           x == Abs(d)
           mode == UnsignedRoundingMode(opts.roundingMode, d.negative)
           u == LesserOf(place, d.exp)
           one == 1
           r == QuantizeToIncrement(x, one, place, mode)
<1>1. /\ x \in Decimal /\ ~x.negative /\ ~IsZero(x) /\ x.exp = d.exp /\ d.exp \in Int
      /\ Log10Floor(x) = Log10Floor(d) /\ d.negative \in BOOLEAN
  BY AbsOf DEF KeepsAll
<1>2. Log10Floor(d) \in Int
  BY <1>1, LeadingDigit
<1>3. place \in Int /\ place <= Log10Floor(x)
  BY <1>1, <1>2 DEF SignificantPlace, IsDigits
<1>4. RoundSignificant(d, opts) = r
  BY DEF KeepsAll, RoundSignificant, SignificantPlace
<1>5. mode \in UnsignedModes
  BY <1>1, UnsignedModesOnly DEF IsDigits
<1>6. one \in Nat \ {0} /\ one = 1
  OBVIOUS
<1> HIDE DEF place, one, x, mode
<1>7. u \in Int /\ u <= place /\ u <= x.exp
  BY <1>1, <1>3, Lesser
<1> HIDE DEF u
<1>8. /\ r \in Decimal /\ (r = x \/ r.exp = place)
      /\ RoundsTo(Units(x, u), Units(r, u), one * PowerOfTen[place - u], mode)
  BY <1>1, <1>3, <1>5, <1>6, <1>7, QuantizeRounds
<1>9. one * PowerOfTen[place - u] = PowerOfTen[place - u]
  <2>1. place - u \in Nat
    BY <1>3, <1>7
  <2> QED
    BY <1>6, <2>1, PowerOfTenPositive
<1> HIDE DEF r
<1>10. u <= r.exp
  BY <1>7, <1>8
<1>11. ~IsZero(r) /\ Log10Floor(r) \in {Log10Floor(x), Log10Floor(x) + 1}
  <2>1. RoundsTo(Units(x, u), Units(r, u), PowerOfTen[place - u], mode)
    BY <1>8, <1>9
  <2>2. r \in Decimal /\ x \in Decimal /\ ~IsZero(x) /\ ~x.negative
    BY <1>1, <1>8
  <2>3. place \in Int /\ place <= Log10Floor(x) /\ u \in Int /\ u <= x.exp /\ u <= place /\ u <= r.exp
    BY <1>3, <1>7, <1>10
  <2> QED
    BY <2>1, <2>2, <2>3, RoundedLeads
<1> QED
  BY <1>1, <1>2, <1>4, <1>11

-------------------------------------------------------------------------------
(* Order. *)

LEMMA CmpReflexive ==
  ASSUME NEW x \in Decimal
  PROVE  Cmp(x, x) = 0
<1>1. x.exp \in Int /\ x.exp <= x.exp
  BY DEF Decimal
<1> QED
  BY <1>1, CmpInUnits

LEMMA CmpTyped ==
  ASSUME NEW x \in Decimal, NEW y \in Decimal
  PROVE  Cmp(x, y) \in Int
<1> DEFINE u == LesserOf(x.exp, y.exp)
<1>1. x.exp \in Int /\ y.exp \in Int
  BY DEF Decimal
<1>2. u \in Int /\ u <= x.exp /\ u <= y.exp
  BY <1>1, Lesser
<1> QED
  BY <1>2, CmpInUnits

LEMMA CmpMirrored ==
  ASSUME NEW x \in Decimal, NEW y \in Decimal, Cmp(x, y) < 0
  PROVE  Cmp(y, x) > 0
<1> DEFINE u == LesserOf(x.exp, y.exp)
<1>1. x.exp \in Int /\ y.exp \in Int
  BY DEF Decimal
<1>2. u \in Int /\ u <= x.exp /\ u <= y.exp /\ u <= u
  BY <1>1, Lesser
<1> HIDE DEF u
<1>3. SignedUnits(x, u) < SignedUnits(y, u)
  BY <1>2, CmpInUnits
<1>4. SignedUnits(x, u) \in Int /\ SignedUnits(y, u) \in Int
  BY <1>2, UnitsRescaled
<1>5. SignedUnits(y, u) > SignedUnits(x, u)
  BY <1>3, <1>4
<1> QED
  BY <1>2, <1>5, CmpInUnits

\* Comparison is transitive, and sees no difference between equal decimals.
LEMMA CmpTransitive ==
  ASSUME NEW x \in Decimal, NEW y \in Decimal, NEW z \in Decimal
  PROVE  /\ Cmp(x, y) < 0 /\ Cmp(y, z) < 0 => Cmp(x, z) < 0
         /\ Cmp(x, y) = 0 => /\ Cmp(x, z) < 0 <=> Cmp(y, z) < 0
                             /\ Cmp(x, z) = 0 <=> Cmp(y, z) = 0
                             /\ Cmp(x, z) > 0 <=> Cmp(y, z) > 0
<1> DEFINE u == LesserOf(x.exp, LesserOf(y.exp, z.exp))
<1>1. x.exp \in Int /\ y.exp \in Int /\ z.exp \in Int
  BY DEF Decimal
<1>2. u \in Int /\ u <= x.exp /\ u <= y.exp /\ u <= z.exp
  BY <1>1, LeastOfThree
<1> HIDE DEF u
<1>3. /\ Cmp(x, y) < 0 <=> SignedUnits(x, u) < SignedUnits(y, u)
      /\ Cmp(x, y) = 0 <=> SignedUnits(x, u) = SignedUnits(y, u)
  BY <1>2, CmpInUnits
<1>4. /\ Cmp(y, z) < 0 <=> SignedUnits(y, u) < SignedUnits(z, u)
      /\ Cmp(y, z) = 0 <=> SignedUnits(y, u) = SignedUnits(z, u)
      /\ Cmp(y, z) > 0 <=> SignedUnits(y, u) > SignedUnits(z, u)
  BY <1>2, CmpInUnits
<1>5. /\ Cmp(x, z) < 0 <=> SignedUnits(x, u) < SignedUnits(z, u)
      /\ Cmp(x, z) = 0 <=> SignedUnits(x, u) = SignedUnits(z, u)
      /\ Cmp(x, z) > 0 <=> SignedUnits(x, u) > SignedUnits(z, u)
  BY <1>2, CmpInUnits
<1>6. SignedUnits(x, u) \in Int /\ SignedUnits(y, u) \in Int /\ SignedUnits(z, u) \in Int
  <2>1. u <= u
    BY <1>2
  <2> QED
    BY <1>2, <2>1, UnitsRescaled
<1>7. Cmp(x, y) < 0 /\ Cmp(y, z) < 0 => Cmp(x, z) < 0
  BY <1>3, <1>4, <1>5, <1>6
<1> QED
  BY <1>3, <1>4, <1>5, <1>7

LEMMA LeadingTyped ==
  ASSUME NEW d \in Decimal, ~IsZero(d)
  PROVE  Log10Floor(d) \in Int
<1>1. d.exp \in Int /\ d.exp <= d.exp
  BY DEF Decimal
<1> QED
  BY <1>1, LeadingDigit

\* Of two decimals without a sign the one whose leading digit has the larger
\* exponent is larger.
LEMMA LargerLeads ==
  ASSUME NEW x \in Decimal, NEW y \in Decimal, ~x.negative, ~y.negative,
         ~IsZero(x), ~IsZero(y), Log10Floor(x) < Log10Floor(y)
  PROVE  Cmp(x, y) < 0
<1> DEFINE u == LesserOf(x.exp, y.exp)
           i == Log10Floor(x)
           j == Log10Floor(y)
<1>1. x.exp \in Int /\ y.exp \in Int
  BY DEF Decimal
<1>2. u \in Int /\ u <= x.exp /\ u <= y.exp
  BY <1>1, Lesser
<1> HIDE DEF u
<1>3. /\ i \in Int /\ x.exp <= i /\ Units(x, u) < PowerOfTen[i - u + 1]
      /\ j \in Int /\ y.exp <= j /\ PowerOfTen[j - u] <= Units(y, u)
  BY <1>2, LeadingDigit
<1>4. Units(x, u) \in Nat /\ Units(y, u) \in Nat
  <2>1. u <= u
    BY <1>2
  <2> QED
    BY <1>2, <2>1, UnitsRescaled
<1>5. SignedUnits(x, u) = Units(x, u) /\ SignedUnits(y, u) = Units(y, u)
  BY DEF SignedUnits
<1>6. i < j
  OBVIOUS
<1> HIDE DEF i, j
<1>7. i - u + 1 \in Nat /\ j - u \in Nat /\ i - u + 1 <= j - u
  BY <1>1, <1>2, <1>3, <1>6
<1>8. /\ PowerOfTen[i - u + 1] <= PowerOfTen[j - u]
      /\ PowerOfTen[i - u + 1] \in Nat /\ PowerOfTen[j - u] \in Nat
  BY <1>7, PowersOrdered, PowerOfTenPositive
<1>9. SignedUnits(x, u) < SignedUnits(y, u)
  BY <1>3, <1>4, <1>5, <1>8
<1> QED
  BY <1>2, <1>9, CmpInUnits

-------------------------------------------------------------------------------
(* Texts: padding, trimming and cutting change how many digits are written, *)
(* never what they mean.                                                     *)

\* TrimmedScale stops at the last fraction digit that is not 0.
LEMMA TrimmedIs ==
  ASSUME NEW units \in Nat, NEW scale \in Nat, NEW least \in 0 .. scale
  PROVE  LET s == TrimmedScale(units, scale, least)
         IN  /\ s \in least .. scale
             /\ units % PowerOfTen[scale - s] = 0
             /\ s > least => units % PowerOfTen[scale - s + 1] # 0
<1> DEFINE S == {s \in least .. scale : units % PowerOfTen[scale - s] = 0}
           Is(s) == /\ units % PowerOfTen[scale - s] = 0
                    /\ s > least => units % PowerOfTen[scale - s + 1] # 0
<1>1. scale \in S
  <2>1. scale \in least .. scale /\ scale - scale = 0
    OBVIOUS
  <2>2. PowerOfTen[0] = 1 /\ units % 1 = 0
    BY PowerOfTenDef
  <2> QED
    BY <2>1, <2>2
<1>2. PICK m \in S : \A n \in S : m <= n
  <2>1. S \in SUBSET Nat /\ S # {}
    BY <1>1
  <2> HIDE DEF S
  <2> QED
    BY <2>1, LeastElement
<1>3. m \in least .. scale /\ Is(m)
  <2>1. ASSUME m > least
        PROVE  units % PowerOfTen[scale - m + 1] # 0
    <3>1. m - 1 \in least .. scale /\ ~(m <= m - 1) /\ scale - (m - 1) = scale - m + 1
      BY <2>1
    <3>2. m - 1 \notin S
      <4> HIDE DEF S
      <4> QED
        BY <1>2, <3>1
    <3> QED
      BY <3>1, <3>2
  <2> QED
    BY <2>1
<1>4. \E s \in least .. scale : Is(s)
  BY <1>3
<1>5. TrimmedScale(units, scale, least) = CHOOSE s \in least .. scale : Is(s)
  BY DEF TrimmedScale
<1> HIDE DEF Is
<1>6. TrimmedScale(units, scale, least) \in least .. scale /\ Is(TrimmedScale(units, scale, least))
  BY <1>4, <1>5
<1> QED
  BY <1>6 DEF Is

\* The same digits with other numbers of zeros at their end.
SameDigits(units, scale, newUnits, newScale) ==
  /\ newScale >= scale => newUnits = units * PowerOfTen[newScale - scale]
  /\ newScale <= scale => units = newUnits * PowerOfTen[scale - newScale]

LEMMA SameDigitsEqual ==
  ASSUME NEW units \in Nat, NEW scale \in Nat, NEW newUnits \in Nat, NEW newScale \in Nat,
         SameDigits(units, scale, newUnits, newScale)
  PROVE  Cmp(NewDecimal(newUnits, -newScale), NewDecimal(units, -scale)) = 0
<1> DEFINE x == NewDecimal(newUnits, -newScale)
           y == NewDecimal(units, -scale)
<1>1. /\ x \in Decimal /\ x.exp = -newScale /\ y \in Decimal /\ y.exp = -scale
      /\ -newScale \in Int /\ -scale \in Int
  BY DEF NewDecimal, Decimal
<1>2. PowerOfTen[0] = 1
  BY PowerOfTenDef
<1>3. CASE newScale >= scale
  <2> DEFINE u == -newScale
  <2>1. u \in Int /\ u <= -newScale /\ u <= -scale
        /\ -newScale - u = 0 /\ -scale - u = newScale - scale
    BY <1>3
  <2>2. /\ SignedUnits(x, u) = newUnits * PowerOfTen[-newScale - u]
        /\ SignedUnits(y, u) = units * PowerOfTen[-scale - u]
    <3> HIDE DEF u
    <3> QED
      BY <1>1, <2>1, UnitsOfNew
  <2>3. SignedUnits(x, u) = SignedUnits(y, u)
    <3> HIDE DEF u, x, y
    <3> QED
      BY <1>2, <1>3, <2>1, <2>2 DEF SameDigits
  <2> HIDE DEF u, x, y
  <2> QED
    BY <1>1, <2>1, <2>3, CmpInUnits DEF x, y
<1>4. CASE newScale < scale
  <2> DEFINE u == -scale
  <2>1. u \in Int /\ u <= -newScale /\ u <= -scale
        /\ -newScale - u = scale - newScale /\ -scale - u = 0
    BY <1>4
  <2>2. /\ SignedUnits(x, u) = newUnits * PowerOfTen[-newScale - u]
        /\ SignedUnits(y, u) = units * PowerOfTen[-scale - u]
    <3> HIDE DEF u
    <3> QED
      BY <1>1, <2>1, UnitsOfNew
  <2>3. SignedUnits(x, u) = SignedUnits(y, u)
    <3> HIDE DEF u, x, y
    <3> QED
      BY <1>2, <1>4, <2>1, <2>2 DEF SameDigits
  <2> HIDE DEF u, x, y
  <2> QED
    BY <1>1, <2>1, <2>3, CmpInUnits DEF x, y
<1> QED
  BY <1>3, <1>4

\* Removing only zeros, Rescaled keeps the digits.
LEMMA RescaledIs ==
  ASSUME NEW units \in Nat, NEW scale \in Nat, NEW newScale \in Nat, NEW negative, NEW width \in Nat,
         newScale < scale => units % PowerOfTen[scale - newScale] = 0
  PROVE  LET t == Rescaled(negative, units, scale, newScale, width)
         IN  /\ t.units \in Nat /\ t.scale = newScale /\ t.negative = negative
             /\ t.width \in Nat \ {0} /\ t.width >= width
             /\ SameDigits(units, scale, t.units, newScale)
<1> DEFINE shown == IF newScale > scale THEN units * PowerOfTen[newScale - scale]
                                        ELSE units \div PowerOfTen[scale - newScale]
           t == Rescaled(negative, units, scale, newScale, width)
<1>1. /\ t.units = shown /\ t.scale = newScale /\ t.negative = negative
      /\ t.width = GreaterOf(width, IntegerDigits(shown, newScale))
  BY DEF Rescaled, Text
<1>2. PowerOfTen[0] = 1
  BY PowerOfTenDef
<1>3. shown \in Nat /\ SameDigits(units, scale, shown, newScale)
  <2>1. CASE newScale > scale
    <3>1. shown = units * PowerOfTen[newScale - scale] /\ newScale - scale \in Nat
      BY <2>1
    <3>2. PowerOfTen[newScale - scale] \in Nat
      BY <3>1, PowerOfTenPositive
    <3> QED
      BY <2>1, <3>1, <3>2 DEF SameDigits
  <2>2. CASE newScale = scale
    <3>1. shown = units \div PowerOfTen[0] /\ scale - newScale = 0 /\ newScale - scale = 0
      BY <2>2
    <3>2. shown = units
      BY <1>2, <3>1
    <3> QED
      BY <1>2, <3>1, <3>2 DEF SameDigits
  <2>3. CASE newScale < scale
    <3>1. shown = units \div PowerOfTen[scale - newScale] /\ scale - newScale \in Nat
      BY <2>3
    <3>2. PowerOfTen[scale - newScale] \in Nat \ {0} /\ units \in Int
      BY <3>1, PowerOfTenPositive
    <3>3. /\ shown \in Nat
          /\ units = shown * PowerOfTen[scale - newScale] + (units % PowerOfTen[scale - newScale])
      BY <3>1, <3>2, Division
    <3>4. shown * PowerOfTen[scale - newScale] \in Nat
      BY <3>2, <3>3
    <3> HIDE DEF shown
    <3>5. units = shown * PowerOfTen[scale - newScale]
      BY <2>3, <3>3, <3>4
    <3> QED
      BY <2>3, <3>3, <3>5 DEF SameDigits
  <2> QED
    BY <2>1, <2>2, <2>3
<1> HIDE DEF shown
<1>4. IntegerDigits(shown, newScale) \in Nat \ {0}
  <2>1. PowerOfTen[newScale] \in Nat \ {0}
    BY PowerOfTenPositive
  <2>2. shown \div PowerOfTen[newScale] \in Nat
    BY <1>3, <2>1, QuotientOf
  <2> QED
    BY <2>2, NumDigitsBounds DEF IntegerDigits
<1> HIDE DEF t
<1>5. t.width \in Nat \ {0} /\ t.width >= width
  BY <1>1, <1>4 DEF GreaterOf
<1> QED
  BY <1>1, <1>3, <1>5 DEF t

\* Digits whose last one is 0 are ten times as many units of one digit less.
LEMMA LastDigitKept ==
  ASSUME NEW units \in Nat, NEW k \in Nat, units % PowerOfTen[k + 1] # 0,
         NEW shown \in Nat, units = shown * PowerOfTen[k]
  PROVE  shown % 10 # 0
<1>1. PowerOfTen[k] \in Nat /\ PowerOfTen[k + 1] \in Nat \ {0} /\ PowerOfTen[k + 1] = 10 * PowerOfTen[k]
  <2>1. k + 1 \in Nat /\ k + 1 # 0 /\ (k + 1) - 1 = k
    OBVIOUS
  <2> QED
    BY <2>1, PowerOfTenDef, PowerOfTenPositive
<1>2. SUFFICES ASSUME shown % 10 = 0 PROVE FALSE
  OBVIOUS
<1>3. PICK q \in Int : shown = q * 10
  BY <1>2, MultipleIsProduct
<1>4. \A p \in Nat : (q * 10) * p = q * (10 * p)
  OBVIOUS
<1>5. units = q * PowerOfTen[k + 1]
  BY <1>1, <1>3, <1>4
<1> QED
  BY <1>1, <1>5, Multiple

\* The bounds of digits that texts are written with.
IsBounds(opts) ==
  /\ opts.minimumIntegerDigits \in Nat /\ opts.maximumFractionDigits \in Nat
  /\ opts.minimumFractionDigits \in 0 .. opts.maximumFractionDigits
  /\ opts.minimumSignificantDigits \in Nat

\* A text that says what a rounded value is, in as many integer digits as asked for.
Says10(text, r) == Cmp(NewDecimal(text.units, -text.scale), r) = 0

IsText(text, negative, r, opts) ==
  /\ text.units \in Nat /\ text.scale \in Nat /\ text.negative = negative
  /\ text.width \in Nat \ {0} /\ text.width >= opts.minimumIntegerDigits
  /\ Says10(text, r)

FixedBounds(text, opts) ==
  /\ text.scale <= opts.maximumFractionDigits
  /\ \/ text.scale >= opts.minimumFractionDigits
     \/ text.scale = 0 /\ opts.trailingZeroDisplay = "stripIfInteger"
  /\ text.scale > opts.minimumFractionDigits => text.units % 10 # 0

SignificantBounds(text, opts) ==
  \/ SignificantDigitCount(text.units, text.scale) >= opts.minimumSignificantDigits
  \/ text.scale = 0 /\ opts.trailingZeroDisplay = "stripIfInteger"

\* Digits that say what r is say it with other zeros.
LEMMA StillSays ==
  ASSUME NEW r \in Decimal, NEW units \in Nat, NEW scale \in Nat,
         Cmp(NewDecimal(units, -scale), r) = 0,
         NEW text, text.units \in Nat, text.scale \in Nat,
         SameDigits(units, scale, text.units, text.scale)
  PROVE  Says10(text, r)
<1> DEFINE x == NewDecimal(text.units, -text.scale)
           y == NewDecimal(units, -scale)
<1>1. Cmp(x, y) = 0
  BY SameDigitsEqual
<1>2. x \in Decimal /\ y \in Decimal
  BY DEF NewDecimal, Decimal
<1>3. Cmp(y, r) = 0
  OBVIOUS
<1> HIDE DEF x, y
<1>4. Cmp(x, r) = 0
  BY <1>1, <1>2, <1>3, CmpTransitive
<1> QED
  BY <1>4 DEF Says10, x

\* What is not cut off is said: r has no digit below 10^-scale.
LEMMA FixedUnitsSay ==
  ASSUME NEW r \in Decimal, ~r.negative, NEW scale \in Nat,
         r.exp + scale < 0 => r.coeff % PowerOfTen[-(r.exp + scale)] = 0
  PROVE  FixedUnits(r, scale) \in Nat /\ Cmp(NewDecimal(FixedUnits(r, scale), -scale), r) = 0
<1> DEFINE n == FixedUnits(r, scale)
           u == LesserOf(-scale, r.exp)
           k == r.exp + scale
<1>1. r.exp \in Int /\ r.coeff \in Nat /\ -scale \in Int /\ k \in Int
  BY DEF Decimal
<1>2. u \in Int /\ u <= -scale /\ u <= r.exp
  BY <1>1, Lesser
<1>3. PowerOfTen[0] = 1
  BY PowerOfTenDef
<1>4. /\ n \in Nat
      /\ n * PowerOfTen[-scale - u] = r.coeff * PowerOfTen[r.exp - u]
  <2>1. CASE k >= 0
    <3>1. n = r.coeff * PowerOfTen[k] /\ k \in Nat
      BY <1>1, <2>1 DEF FixedUnits
    <3>2. PowerOfTen[k] \in Nat
      BY <3>1, PowerOfTenPositive
    <3>3. u = -scale /\ -scale - u = 0 /\ r.exp - u = k
      BY <1>1, <2>1 DEF LesserOf
    <3> HIDE DEF n, u, k
    <3>4. n \in Nat
      BY <1>1, <3>1, <3>2
    <3> QED
      BY <1>3, <3>1, <3>3, <3>4
  <2>2. CASE k < 0
    <3>1. n = r.coeff \div PowerOfTen[-k] /\ -k \in Nat
      BY <1>1, <2>2 DEF FixedUnits
    <3>2. PowerOfTen[-k] \in Nat \ {0} /\ r.coeff \in Int
      BY <1>1, <3>1, PowerOfTenPositive
    <3>3. r.coeff = n * PowerOfTen[-k] + (r.coeff % PowerOfTen[-k]) /\ n \in Nat
      BY <1>1, <3>1, <3>2, Division
    <3>4. u = r.exp /\ -scale - u = -k /\ r.exp - u = 0
      BY <1>1, <2>2 DEF LesserOf
    <3>5. r.coeff % PowerOfTen[-k] = 0
      BY <2>2
    <3> HIDE DEF n, u, k
    <3>6. n * PowerOfTen[-k] \in Nat
      BY <3>2, <3>3
    <3> QED
      BY <1>1, <1>3, <3>3, <3>4, <3>5, <3>6
  <2> QED
    BY <1>1, <2>1, <2>2
<1> DEFINE x == NewDecimal(n, -scale)
<1>5. x \in Decimal /\ x.exp = -scale
  BY <1>1, <1>4 DEF NewDecimal, Decimal
<1>6. SignedUnits(x, u) = n * PowerOfTen[-scale - u]
  <2> HIDE DEF u, n
  <2> QED
    BY <1>1, <1>2, <1>4, UnitsOfNew
<1>7. SignedUnits(r, u) = r.coeff * PowerOfTen[r.exp - u]
  BY DEF SignedUnits, Units
<1>8. SignedUnits(x, u) = SignedUnits(r, u)
  BY <1>4, <1>6, <1>7
<1> HIDE DEF u, x
<1>9. Cmp(x, r) = 0
  BY <1>2, <1>5, <1>8, CmpInUnits
<1> QED
  BY <1>4, <1>9 DEF x

\* The text of a value that was rounded to a number of fraction digits.
LEMMA FixedTextIs ==
  ASSUME NEW d \in Decimal, NEW opts, IsBounds(opts), NEW r \in Decimal, ~r.negative,
         r.exp + opts.maximumFractionDigits < 0 =>
           r.coeff % PowerOfTen[-(r.exp + opts.maximumFractionDigits)] = 0
  PROVE  LET t == FixedText(d, r, opts)
         IN  IsText(t, d.negative, r, opts) /\ FixedBounds(t, opts)
<1> DEFINE scale == opts.maximumFractionDigits
           least == opts.minimumFractionDigits
           units == FixedUnits(r, scale)
           s == TrimmedScale(units, scale, least)
           newScale == TrimFraction(units, opts)
           t == Rescaled(d.negative, units, scale, newScale, opts.minimumIntegerDigits)
<1>1. scale \in Nat /\ least \in 0 .. scale /\ opts.minimumIntegerDigits \in Nat
  BY DEF IsBounds
<1>2. units \in Nat /\ Cmp(NewDecimal(units, -scale), r) = 0
  BY <1>1, FixedUnitsSay
<1>3. FixedText(d, r, opts) = t
  BY DEF FixedText
<1> HIDE DEF units
<1>4. /\ s \in least .. scale /\ units % PowerOfTen[scale - s] = 0
      /\ s > least => units % PowerOfTen[scale - s + 1] # 0
  BY <1>1, <1>2, TrimmedIs
<1>5. \/ newScale = s
      \/ newScale = 0 /\ opts.trailingZeroDisplay = "stripIfInteger" /\ units % PowerOfTen[scale] = 0
  <2>1. StripIntegerFraction(units, scale) = 0 => units % PowerOfTen[scale] = 0
    <3>1. CASE scale = 0
      <4>1. PowerOfTen[scale] = 1
        BY <3>1, PowerOfTenDef
      <4> QED
        BY <1>2, <4>1
    <3>2. CASE scale # 0
      BY <3>2 DEF StripIntegerFraction
    <3> QED
      BY <3>1, <3>2
  <2> QED
    BY <2>1 DEF TrimFraction
<1> HIDE DEF scale, least, s, newScale
<1>6. newScale \in 0 .. scale /\ units % PowerOfTen[scale - newScale] = 0
  <2>1. CASE newScale = s
    BY <1>1, <1>4, <2>1
  <2>2. CASE newScale = 0 /\ units % PowerOfTen[scale] = 0
    <3>1. scale - newScale = scale
      BY <1>1, <2>2
    <3> QED
      BY <1>1, <2>2, <3>1
  <2> QED
    BY <1>5, <2>1, <2>2
<1>7. newScale \in Nat /\ (newScale < scale => units % PowerOfTen[scale - newScale] = 0)
  BY <1>1, <1>6
<1>8. /\ t.units \in Nat /\ t.scale = newScale /\ t.negative = d.negative
      /\ t.width \in Nat \ {0} /\ t.width >= opts.minimumIntegerDigits
      /\ SameDigits(units, scale, t.units, newScale)
  BY <1>1, <1>2, <1>7, RescaledIs
<1> HIDE DEF t
<1>9. Says10(t, r)
  BY <1>1, <1>2, <1>7, <1>8, StillSays
<1>10. IsText(t, d.negative, r, opts)
  BY <1>7, <1>8, <1>9 DEF IsText
<1>11. newScale > least => t.units % 10 # 0
  <2> SUFFICES ASSUME newScale > least PROVE t.units % 10 # 0
    OBVIOUS
  <2>1. newScale = s /\ s > least
    BY <1>1, <1>5
  <2>2. units = t.units * PowerOfTen[scale - s] /\ scale - s \in Nat
    BY <1>1, <1>4, <1>6, <1>8, <2>1 DEF SameDigits
  <2> QED
    BY <1>2, <1>4, <1>8, <2>1, <2>2, LastDigitKept
<1>12. \/ newScale >= least
       \/ newScale = 0 /\ opts.trailingZeroDisplay = "stripIfInteger"
  BY <1>1, <1>4, <1>5
<1>13. FixedBounds(t, opts)
  BY <1>1, <1>6, <1>8, <1>11, <1>12 DEF FixedBounds, scale, least
<1> QED
  BY <1>3, <1>10, <1>13

\* Plain notation says what a decimal is, and shows all of its digits.
LEMMA PlainSays ==
  ASSUME NEW r \in Decimal, ~r.negative
  PROVE  /\ PlainUnits(r) \in Nat /\ PlainScale(r) \in Nat
         /\ Cmp(NewDecimal(PlainUnits(r), -PlainScale(r)), r) = 0
         /\ IsZero(r) <=> PlainUnits(r) = 0
<1> DEFINE n == PlainUnits(r)
           s == PlainScale(r)
           x == NewDecimal(n, -s)
           u == LesserOf(0, r.exp)
<1>1. r.exp \in Int /\ r.coeff \in Nat
  BY DEF Decimal
<1>2. PowerOfTen[0] = 1
  BY PowerOfTenDef
<1>3. CASE IsZero(r)
  <2>1. n = 0 /\ s = 0
    BY <1>3 DEF PlainUnits, PlainScale
  <2>2. x = NewDecimal(0, 0) /\ x \in Decimal /\ x.exp = 0
    <3>1. -s \in Int /\ -s <= 0 /\ -s >= 0
      <4>1. \A k \in Int : k <= 0 /\ k >= 0 => -k \in Int /\ -k <= 0 /\ -k >= 0
        OBVIOUS
      <4>2. s \in Int /\ s <= 0 /\ s >= 0
        BY <2>1
      <4> HIDE DEF s
      <4> QED
        BY <4>1, <4>2
    <3>2. x = NewDecimal(0, 0)
      BY <2>1, <3>1
    <3> QED
      BY <3>2 DEF NewDecimal, Decimal
  <2>3. u \in Int /\ u <= 0 /\ u <= r.exp /\ 0 - u \in Nat /\ r.exp - u \in Nat
    BY <1>1 DEF LesserOf
  <2> HIDE DEF u, x
  <2>4. SignedUnits(x, u) = 0 * PowerOfTen[0 - u]
    <3>1. 0 \in Nat /\ 0 \in Int
      OBVIOUS
    <3> QED
      BY <2>2, <2>3, <3>1, UnitsOfNew
  <2>5. PowerOfTen[0 - u] \in Nat /\ PowerOfTen[r.exp - u] \in Nat
    BY <2>3, PowerOfTenPositive
  <2>6. SignedUnits(r, u) = 0 * PowerOfTen[r.exp - u]
    BY <1>3 DEF SignedUnits, Units, IsZero
  <2>7. SignedUnits(x, u) = SignedUnits(r, u)
    BY <2>4, <2>5, <2>6
  <2>8. Cmp(x, r) = 0
    BY <2>2, <2>3, <2>7, CmpInUnits
  <2> QED
    BY <1>3, <2>1, <2>8 DEF x
<1>4. CASE ~IsZero(r)
  <2>1. n = r.coeff * PowerOfTen[GreaterOf(0, r.exp)] /\ s = GreaterOf(0, -r.exp)
        /\ r.coeff \in Nat \ {0}
    BY <1>1, <1>4 DEF PlainUnits, PlainScale, IsZero
  <2>2. /\ s \in Nat /\ GreaterOf(0, r.exp) \in Nat /\ u = -s /\ u \in Int /\ u <= r.exp
        /\ r.exp - u = GreaterOf(0, r.exp) /\ -s - u = 0 /\ u <= -s
    BY <1>1, <2>1 DEF GreaterOf, LesserOf
  <2>3. PowerOfTen[GreaterOf(0, r.exp)] \in Nat \ {0}
    BY <2>2, PowerOfTenPositive
  <2> HIDE DEF n, s, u
  <2>4. n \in Nat \ {0}
    BY <2>1, <2>3
  <2>5. x \in Decimal /\ x.exp = -s
    BY <2>2, <2>4 DEF NewDecimal, Decimal
  <2>6. SignedUnits(x, u) = n * PowerOfTen[-s - u] /\ -s \in Int
    BY <2>2, <2>4, UnitsOfNew
  <2>7. SignedUnits(r, u) = r.coeff * PowerOfTen[GreaterOf(0, r.exp)]
    BY <2>2 DEF SignedUnits, Units
  <2>8. SignedUnits(x, u) = SignedUnits(r, u)
    BY <1>2, <2>1, <2>2, <2>4, <2>6, <2>7
  <2>9. Cmp(x, r) = 0
    <3> HIDE DEF x
    <3> QED
      BY <2>2, <2>5, <2>8, CmpInUnits
  <2> QED
    BY <1>4, <2>2, <2>4, <2>9 DEF n, s
<1> QED
  BY <1>3, <1>4

\* Significant digits go with the zeros at the end.
LEMMA CountedDigits ==
  ASSUME NEW units \in Nat, NEW scale \in Nat, NEW newUnits \in Nat, NEW newScale \in Nat,
         SameDigits(units, scale, newUnits, newScale)
  PROVE  /\ SignificantDigitCount(units, scale) \in Nat \ {0}
         /\ SignificantDigitCount(newUnits, newScale)
              = SignificantDigitCount(units, scale) + (newScale - scale)
<1>1. \A n, k \in Nat : SignificantDigitCount(n, k) \in Nat \ {0}
  BY NumDigitsBounds DEF SignificantDigitCount
<1>2. CASE newScale >= scale
  <2> DEFINE k == newScale - scale
  <2>1. k \in Nat /\ newUnits = units * PowerOfTen[k] /\ newScale = scale + k
    BY <1>2 DEF SameDigits
  <2> HIDE DEF k
  <2>2. PowerOfTen[k] \in Nat \ {0}
    BY <2>1, PowerOfTenPositive
  <2>3. CASE units = 0
    BY <1>1, <1>2, <2>1, <2>2, <2>3 DEF SignificantDigitCount
  <2>4. CASE units # 0
    <3>1. NumDigits(units * PowerOfTen[k]) = NumDigits(units) + k
      BY <2>1, <2>4, ZerosAreDigits
    <3>2. newUnits # 0
      BY <2>1, <2>2, <2>4
    <3> QED
      BY <1>1, <2>1, <2>4, <3>1, <3>2 DEF SignificantDigitCount, k
  <2> QED
    BY <2>3, <2>4
<1>3. CASE newScale < scale
  <2> DEFINE k == scale - newScale
  <2>1. k \in Nat /\ units = newUnits * PowerOfTen[k] /\ scale = newScale + k /\ newScale - scale = -k
    BY <1>3 DEF SameDigits
  <2> HIDE DEF k
  <2>2. PowerOfTen[k] \in Nat \ {0}
    BY <2>1, PowerOfTenPositive
  <2>3. CASE newUnits = 0
    <3>1. units = 0
      BY <2>1, <2>2, <2>3
    <3>2. 1 + newScale = (1 + scale) + (newScale - scale)
      BY <1>3
    <3> QED
      BY <1>1, <2>3, <3>1, <3>2 DEF SignificantDigitCount
  <2>4. CASE newUnits # 0
    <3>1. NumDigits(newUnits * PowerOfTen[k]) = NumDigits(newUnits) + k
      BY <2>1, <2>4, ZerosAreDigits
    <3>2. units # 0
      BY <2>1, <2>2, <2>4
    <3>3. /\ SignificantDigitCount(newUnits, newScale) = NumDigits(newUnits)
          /\ SignificantDigitCount(units, scale) = NumDigits(newUnits) + k
      BY <2>1, <2>4, <3>1, <3>2 DEF SignificantDigitCount
    <3>4. NumDigits(newUnits) \in Nat
      BY NumDigitsBounds
    <3>5. NumDigits(newUnits) = (NumDigits(newUnits) + k) + (newScale - scale)
      BY <2>1, <3>4
    <3> QED
      BY <1>1, <3>3, <3>5
  <2> QED
    BY <2>3, <2>4
<1> QED
  BY <1>2, <1>3

\* The text of a value that was rounded to a number of significant digits.
LEMMA SignificantTextIs ==
  ASSUME NEW d, NEW opts, IsBounds(opts), NEW r \in Decimal, ~r.negative
  PROVE  LET t == SignificantText(d, r, opts)
         IN  IsText(t, d.negative, r, opts) /\ SignificantBounds(t, opts)
<1> DEFINE units == PlainUnits(r)
           plain == PlainScale(r)
           minimum == opts.minimumSignificantDigits
           count == SignificantDigitCount(units, plain)
           least == GreaterOf(0, plain - (count - minimum))
           scale == SignificantScale(units, plain, minimum)
           newScale == IF opts.trailingZeroDisplay = "stripIfInteger"
                         /\ StripIntegerFraction(units, plain) = 0 THEN 0 ELSE scale
           t == Rescaled(d.negative, units, plain, newScale, opts.minimumIntegerDigits)
<1>1. minimum \in Nat /\ opts.minimumIntegerDigits \in Nat
  BY DEF IsBounds
<1>2. /\ units \in Nat /\ plain \in Nat
      /\ Cmp(NewDecimal(units, -plain), r) = 0
  BY PlainSays
<1>3. SignificantText(d, r, opts) = t
  BY DEF SignificantText
<1> HIDE DEF units, plain, minimum
<1>4. count \in Nat \ {0}
  BY <1>2, NumDigitsBounds DEF SignificantDigitCount
<1>5. scale = IF count < minimum THEN plain + minimum - count ELSE TrimmedScale(units, plain, least)
  BY DEF SignificantScale
<1> HIDE DEF count, scale
<1>6. /\ scale \in Nat /\ scale - plain >= minimum - count
      /\ scale < plain => units % PowerOfTen[plain - scale] = 0
  <2>1. CASE count < minimum
    BY <1>1, <1>2, <1>4, <1>5, <2>1
  <2>2. CASE ~(count < minimum)
    <3>1. least \in 0 .. plain /\ least >= plain - (count - minimum)
      BY <1>1, <1>2, <1>4, <2>2 DEF GreaterOf
    <3> HIDE DEF least
    <3>2. scale \in least .. plain /\ units % PowerOfTen[plain - scale] = 0
      BY <1>2, <1>5, <2>2, <3>1, TrimmedIs
    <3> QED
      BY <1>1, <1>2, <1>4, <3>1, <3>2
  <2> QED
    BY <2>1, <2>2
<1>7. \/ newScale = scale
      \/ newScale = 0 /\ opts.trailingZeroDisplay = "stripIfInteger" /\ units % PowerOfTen[plain] = 0
  <2>1. StripIntegerFraction(units, plain) = 0 => units % PowerOfTen[plain] = 0
    <3>1. CASE plain = 0
      <4>1. PowerOfTen[plain] = 1
        BY <3>1, PowerOfTenDef
      <4> QED
        BY <1>2, <4>1
    <3>2. CASE plain # 0
      BY <3>2 DEF StripIntegerFraction
    <3> QED
      BY <3>1, <3>2
  <2> QED
    BY <2>1
<1> HIDE DEF newScale
<1>8. newScale \in Nat /\ (newScale < plain => units % PowerOfTen[plain - newScale] = 0)
  <2>1. CASE newScale = scale
    BY <1>6, <2>1
  <2>2. CASE newScale = 0 /\ units % PowerOfTen[plain] = 0
    <3>1. plain - newScale = plain
      BY <1>2, <2>2
    <3> QED
      BY <2>2, <3>1
  <2> QED
    BY <1>7, <2>1, <2>2
<1>9. /\ t.units \in Nat /\ t.scale = newScale /\ t.negative = d.negative
      /\ t.width \in Nat \ {0} /\ t.width >= opts.minimumIntegerDigits
      /\ SameDigits(units, plain, t.units, newScale)
  BY <1>1, <1>2, <1>8, RescaledIs
<1> HIDE DEF t
<1>10. Says10(t, r)
  BY <1>2, <1>8, <1>9, StillSays
<1>11. IsText(t, d.negative, r, opts)
  BY <1>8, <1>9, <1>10 DEF IsText
<1>12. CASE newScale = scale
  <2>1. SignificantDigitCount(t.units, newScale) = count + (newScale - plain)
    BY <1>2, <1>8, <1>9, CountedDigits DEF count
  <2>2. SignificantDigitCount(t.units, t.scale) >= minimum
    BY <1>1, <1>2, <1>4, <1>6, <1>9, <1>12, <2>1
  <2> QED
    BY <1>3, <1>11, <2>2 DEF SignificantBounds, minimum
<1>13. CASE newScale = 0 /\ opts.trailingZeroDisplay = "stripIfInteger"
  BY <1>3, <1>9, <1>11, <1>13 DEF SignificantBounds
<1> QED
  BY <1>7, <1>12, <1>13

\* A value rounded to a number of fraction digits has no others.
LEMMA FixedHasNoMore ==
  ASSUME NEW d \in Decimal, NEW opts, IsDigits(opts)
  PROVE  LET r == RoundFixed(d, opts)
         IN  /\ r \in Decimal /\ ~r.negative
             /\ r.exp + opts.maximumFractionDigits < 0 =>
                  r.coeff % PowerOfTen[-(r.exp + opts.maximumFractionDigits)] = 0
<1> DEFINE place == -opts.maximumFractionDigits
           increment == opts.roundingIncrement
           r == RoundFixed(d, opts)
           u == LesserOf(place, d.exp)
           g == PowerOfTen[place - u]
           s == WithSign(r, d.negative)
<1>1. /\ place \in Int /\ increment \in Nat \ {0} /\ opts.roundingMode \in RoundingModes
      /\ opts.maximumFractionDigits \in Nat
  BY DEF IsDigits, RoundingIncrements
<1>2. r = QuantizeToIncrement(Abs(d), increment, place, UnsignedRoundingMode(opts.roundingMode, d.negative))
  BY DEF RoundFixed
<1>3. d.exp \in Int /\ d.negative \in BOOLEAN
  BY AbsOf
<1> HIDE DEF r
<1>4. u \in Int /\ u <= place /\ u <= d.exp
  BY <1>1, <1>3, Lesser
<1>5. /\ r \in Decimal /\ ~r.negative /\ (r = Abs(d) \/ r.exp = place)
      /\ RoundsTo(SignedUnits(d, u), SignedUnits(s, u), increment * g, opts.roundingMode)
  <2> HIDE DEF place, increment, u
  <2> QED
    BY <1>1, <1>2, <1>4, QuantizedInUnits
<1>6. ASSUME r.exp + opts.maximumFractionDigits < 0
      PROVE  r.coeff % PowerOfTen[-(r.exp + opts.maximumFractionDigits)] = 0
  <2>1. r.exp \in Int /\ r.coeff \in Nat
    BY <1>5 DEF Decimal
  <2>2. r.exp < place
    BY <1>1, <1>6, <2>1
  <2>3. r.exp = d.exp
    BY <1>5, <2>1, <2>2, AbsOf
  <2>4. u = r.exp /\ place - u = -(r.exp + opts.maximumFractionDigits) /\ r.exp - u = 0
    BY <1>1, <2>1, <2>2, <2>3 DEF LesserOf
  <2>5. g \in Nat \ {0}
    <3>1. place - u \in Nat
      BY <1>1, <1>4
    <3> QED
      BY <3>1, PowerOfTenPositive
  <2> HIDE DEF g, u, place, increment
  <2>6. Units(s, u) = r.coeff
    <3>1. s.coeff = r.coeff /\ s.exp = r.exp
      BY <1>5 DEF WithSign, Decimal
    <3>2. PowerOfTen[s.exp - u] = 1
      BY <2>4, <3>1, PowerOfTenDef
    <3> QED
      BY <2>1, <3>1, <3>2 DEF Units
  <2>7. SignedUnits(s, u) % (increment * g) = 0 /\ SignedUnits(s, u) \in {r.coeff, -r.coeff}
    BY <1>5, <2>6 DEF RoundsTo, SignedUnits
  <2>8. increment * g \in Nat \ {0} /\ SignedUnits(s, u) \in Int
    BY <1>1, <2>1, <2>5, <2>7
  <2>9. PICK q \in Int : SignedUnits(s, u) = q * (increment * g)
    BY <2>7, <2>8, MultipleIsProduct
  <2>10. \A k \in Int : k * (increment * g) = (k * increment) * g
    BY <1>1, <2>5
  <2>11. SignedUnits(s, u) = (q * increment) * g /\ q * increment \in Int
    BY <1>1, <2>9, <2>10
  <2>12. r.coeff = (q * increment) * g \/ r.coeff = (-(q * increment)) * g
    <3> DEFINE k == q * increment
    <3>1. k \in Int /\ SignedUnits(s, u) = k * g
      BY <2>11
    <3> HIDE DEF k
    <3>2. (-k) * g = -(k * g) /\ k * g \in Int
      BY <2>5, <3>1
    <3>3. r.coeff = k * g \/ r.coeff = (-k) * g
      BY <2>1, <2>7, <3>1, <3>2
    <3> QED
      BY <3>3 DEF k
  <2>13. r.coeff % g = 0
    <3>1. -(q * increment) \in Int
      BY <2>11
    <3> QED
      BY <2>5, <2>11, <2>12, <3>1, Multiple
  <2> QED
    BY <2>4, <2>13 DEF g
<1> QED
  BY <1>5, <1>6 DEF r

LEMMA SignificantIsDecimal ==
  ASSUME NEW d \in Decimal, NEW opts, IsDigits(opts)
  PROVE  RoundSignificant(d, opts) \in Decimal /\ ~RoundSignificant(d, opts).negative
<1> DEFINE place == SignificantPlace(d, opts)
           one == 1
           u == LesserOf(place, d.exp)
<1>1. CASE KeepsAll(d, opts)
  BY <1>1, AbsOf DEF KeepsAll, RoundSignificant
<1>2. CASE ~KeepsAll(d, opts)
  <2>1. /\ opts.maximumSignificantDigits \in Nat /\ opts.roundingMode \in RoundingModes
        /\ d.exp \in Int /\ Log10Floor(d) \in Int /\ one \in Nat \ {0}
    BY <1>2, AbsOf, LeadingTyped DEF IsDigits, KeepsAll
  <2>2. place \in Int
    BY <2>1 DEF SignificantPlace
  <2>3. RoundSignificant(d, opts)
          = QuantizeToIncrement(Abs(d), one, place, UnsignedRoundingMode(opts.roundingMode, d.negative))
    BY <1>2 DEF KeepsAll, RoundSignificant, SignificantPlace
  <2> HIDE DEF place, one
  <2>4. u \in Int /\ u <= place /\ u <= d.exp
    BY <2>1, <2>2, Lesser
  <2> HIDE DEF u
  <2> QED
    BY <2>1, <2>2, <2>3, <2>4, QuantizedInUnits
<1> QED
  BY <1>1, <1>2

-------------------------------------------------------------------------------
(* Options. *)

\* The caller's options with their defaults, the four bounds, and the result.
Input(options) == WithDefaults(options)

MaximumDefault(options, low, high) == IF Input(options).roundingIncrement # 1 THEN low ELSE high

BoundsOf(options, low, high, notation) ==
  DigitBounds(Input(options), low, MaximumDefault(options, low, high), notation)

ResolvedOf(options, low, high, notation) ==
  Resolved(Input(options), BoundsOf(options, low, high, notation), RoundingType(Input(options), notation))

\* The options with defaults are of these types; the bounds may still be omitted.
LEMMA InputType ==
  ASSUME NEW options \in DigitOptionOverrides
  PROVE  LET in == Input(options)
         IN  /\ in.minimumIntegerDigits \in Int /\ in.roundingIncrement \in Int
             /\ in.roundingMode \in RoundingModes
             /\ in.roundingPriority \in RoundingPriorities
             /\ in.trailingZeroDisplay \in TrailingZeroDisplays
             /\ in.minimumIntegerDigits = Or(options.minimumIntegerDigits, 1)
             /\ in.roundingIncrement = Or(options.roundingIncrement, 1)
             /\ in.roundingMode = Or(options.roundingMode, "halfExpand")
             /\ in.roundingPriority = Or(options.roundingPriority, "auto")
             /\ in.trailingZeroDisplay = Or(options.trailingZeroDisplay, "auto")
             /\ in.minimumFractionDigits = options.minimumFractionDigits
             /\ in.maximumFractionDigits = options.maximumFractionDigits
             /\ in.minimumSignificantDigits = options.minimumSignificantDigits
             /\ in.maximumSignificantDigits = options.maximumSignificantDigits
             /\ in.minimumFractionDigits \in Int \cup {Unset}
             /\ in.maximumFractionDigits \in Int \cup {Unset}
             /\ in.minimumSignificantDigits \in Int \cup {Unset}
             /\ in.maximumSignificantDigits \in Int \cup {Unset}
  BY DEF Input, WithDefaults, Or, DigitOptionOverrides, RoundingModes, RoundingPriorities,
         TrailingZeroDisplays

\* What the checks ask for, whatever order they are made in.
Legal(in, bounds, resolved, notation) ==
  /\ in.minimumIntegerDigits \in 1 .. 21
  /\ in.roundingIncrement \in RoundingIncrements
  /\ NeedSignificant(in) =>
       /\ InRange(in.minimumSignificantDigits, 1, 21)
       /\ InRange(in.maximumSignificantDigits, 1, 21)
       /\ ~(bounds.significant[1] > bounds.significant[2])
  /\ NeedFraction(in, notation) =>
       /\ InRange(in.minimumFractionDigits, 0, 100)
       /\ InRange(in.maximumFractionDigits, 0, 100)
       /\ ~(bounds.fraction[1] > bounds.fraction[2])
  /\ IncrementAllowed(resolved)

LEMMA LegalIsNotInvalid ==
  ASSUME NEW in, NEW bounds, NEW resolved, NEW notation
  PROVE  FirstInvalid(in, bounds, resolved, notation) = Unset
           <=> Legal(in, bounds, resolved, notation)
<1>1. \A name \in DigitOptionNames : name # Unset
  BY UnsetIsNoValue
<1>2. /\ "minimumIntegerDigits" # Unset /\ "roundingIncrement" # Unset
      /\ "minimumSignificantDigits" # Unset /\ "maximumSignificantDigits" # Unset
      /\ "minimumFractionDigits" # Unset /\ "maximumFractionDigits" # Unset
  BY <1>1 DEF DigitOptionNames
<1> QED
  BY <1>2 DEF FirstInvalid, Legal

LEMMA ResolutionOf ==
  ASSUME NEW options, NEW low, NEW high, NEW notation
  PROVE  LET r == SetNumberFormatDigitOptions(options, low, high, notation)
             v == ResolvedOf(options, low, high, notation)
             legal == Legal(Input(options), BoundsOf(options, low, high, notation), v, notation)
         IN  /\ IsInvalid(r) <=> ~legal
             /\ legal => r = v
<1> DEFINE v == ResolvedOf(options, low, high, notation)
           b == BoundsOf(options, low, high, notation)
           legal == Legal(Input(options), b, v, notation)
<1>1. SetNumberFormatDigitOptions(options, low, high, notation)
        = Checked(Input(options), b, v, notation)
  BY DEF SetNumberFormatDigitOptions, SetDigitOptions, ResolveBounds, ResolvedOf, BoundsOf,
         MaximumDefault, Input
<1>2. ~IsInvalid(v)
  BY DEF ResolvedOf, Resolved, IsInvalid
<1>3. \A option : IsInvalid(Invalid(option))
  BY DEF Invalid, IsInvalid
<1> HIDE DEF v, b
<1>4. /\ IsInvalid(Checked(Input(options), b, v, notation)) <=> ~legal
      /\ legal => Checked(Input(options), b, v, notation) = v
  BY <1>2, <1>3, LegalIsNotInvalid DEF Checked
<1> QED
  BY <1>1, <1>4 DEF v, b

\* Bounds that belong to one rounding type, and the names that belong to them.
IsConsistent(resolved) ==
  /\ resolved.minimumFractionDigits <= resolved.maximumFractionDigits
  /\ resolved.minimumSignificantDigits <= resolved.maximumSignificantDigits
  /\ resolved.roundingType # "fractionDigits" => resolved.minimumSignificantDigits >= 1
  /\ resolved.roundingType = "fractionDigits" => resolved.maximumSignificantDigits = 0
  /\ resolved.roundingType = "significantDigits" => resolved.maximumFractionDigits = 0
  /\ resolved.roundingPriority =
       IF resolved.roundingType \in {"morePrecision", "lessPrecision"}
       THEN resolved.roundingType ELSE "auto"
  /\ IncrementAllowed(resolved)

\* The rounding type, by which kinds of digits are needed.
LEMMA RoundingTypeOf ==
  ASSUME NEW options \in DigitOptionOverrides, NEW notation \in Notations
  PROVE  LET in == Input(options)
         IN  /\ NeedSignificant(in) /\ ~NeedFraction(in, notation) =>
                  RoundingType(in, notation) = "significantDigits"
             /\ ~NeedSignificant(in) /\ NeedFraction(in, notation) =>
                  RoundingType(in, notation) = "fractionDigits"
             /\ ~NeedSignificant(in) /\ ~NeedFraction(in, notation) =>
                  RoundingType(in, notation) = "morePrecision"
             /\ NeedSignificant(in) /\ NeedFraction(in, notation) =>
                  /\ RoundingType(in, notation) = in.roundingPriority
                  /\ in.roundingPriority \in {"morePrecision", "lessPrecision"}
<1>1. Input(options).roundingPriority \in RoundingPriorities
  BY InputType
<1>2. \/ Input(options).roundingPriority = "auto"
      \/ Input(options).roundingPriority = "morePrecision"
      \/ Input(options).roundingPriority = "lessPrecision"
  BY <1>1 DEF RoundingPriorities
<1> QED
  BY <1>2 DEF NeedSignificant, NeedFraction, RoundingType

\* The bounds of each kind of digits, legal ones being integers in their range.
BoundsFit(options, in, bounds, notation) ==
  /\ NeedSignificant(in) =>
       /\ bounds.significant[1] \in 1 .. 21 /\ bounds.significant[2] \in 1 .. 21
       /\ bounds.significant[1] <= bounds.significant[2]
       /\ bounds.significant[1] = Or(options.minimumSignificantDigits, 1)
       /\ bounds.significant[2] = Or(options.maximumSignificantDigits, 21)
  /\ NeedFraction(in, notation) =>
       /\ bounds.fraction[1] \in 0 .. 100 /\ bounds.fraction[2] \in 0 .. 100
       /\ bounds.fraction[1] <= bounds.fraction[2]
       /\ options.minimumFractionDigits \in {Unset, bounds.fraction[1]}
       /\ options.maximumFractionDigits \in {Unset, bounds.fraction[2]}
  /\ ~NeedSignificant(in) /\ NeedFraction(in, notation) => bounds.significant = <<0, 0>>
  /\ NeedSignificant(in) /\ ~NeedFraction(in, notation) => bounds.fraction = <<0, 0>>
  /\ ~NeedSignificant(in) /\ ~NeedFraction(in, notation) =>
       bounds.fraction = <<0, 0>> /\ bounds.significant = <<1, 2>>

LEMMA LegalBounds ==
  ASSUME NEW options \in DigitOptionOverrides, NEW low \in 0 .. 100, NEW high \in 0 .. 100,
         low <= high, NEW notation \in Notations,
         ~IsInvalid(SetNumberFormatDigitOptions(options, low, high, notation))
  PROVE  BoundsFit(options, Input(options), BoundsOf(options, low, high, notation), notation)
<1> DEFINE in == Input(options)
           b == BoundsOf(options, low, high, notation)
           mx == MaximumDefault(options, low, high)
<1>1. Legal(in, b, ResolvedOf(options, low, high, notation), notation)
  BY ResolutionOf
<1>2. /\ in.minimumFractionDigits = options.minimumFractionDigits
      /\ in.maximumFractionDigits = options.maximumFractionDigits
      /\ in.minimumSignificantDigits = options.minimumSignificantDigits
      /\ in.maximumSignificantDigits = options.maximumSignificantDigits
  BY InputType
<1>3. mx \in 0 .. 100 /\ low <= mx
  BY DEF MaximumDefault
<1>4. b = DigitBounds(in, low, mx, notation)
  BY DEF BoundsOf
<1>5. Unset \notin Int
  BY UnsetIsNoValue
<1> HIDE DEF in, b, mx
<1>6. ASSUME NeedSignificant(in)
      PROVE  /\ b.significant[1] \in 1 .. 21 /\ b.significant[2] \in 1 .. 21
             /\ b.significant[1] <= b.significant[2]
             /\ b.significant[1] = Or(options.minimumSignificantDigits, 1)
             /\ b.significant[2] = Or(options.maximumSignificantDigits, 21)
  <2>1. b.significant = <<MinimumSignificant(in), MaximumSignificant(in)>>
    BY <1>4, <1>6 DEF DigitBounds
  <2>2. /\ InRange(in.minimumSignificantDigits, 1, 21) /\ InRange(in.maximumSignificantDigits, 1, 21)
        /\ ~(b.significant[1] > b.significant[2])
    BY <1>1, <1>6 DEF Legal
  <2> QED
    BY <1>2, <2>1, <2>2 DEF MinimumSignificant, MaximumSignificant, Or, InRange
<1>7. ASSUME NeedFraction(in, notation)
      PROVE  /\ b.fraction[1] \in 0 .. 100 /\ b.fraction[2] \in 0 .. 100
             /\ b.fraction[1] <= b.fraction[2]
             /\ options.minimumFractionDigits \in {Unset, b.fraction[1]}
             /\ options.maximumFractionDigits \in {Unset, b.fraction[2]}
  <2>1. b.fraction = <<MinimumFraction(in, low), MaximumFraction(in, mx)>>
    BY <1>4, <1>7 DEF DigitBounds
  <2>2. /\ InRange(in.minimumFractionDigits, 0, 100) /\ InRange(in.maximumFractionDigits, 0, 100)
        /\ ~(b.fraction[1] > b.fraction[2])
    BY <1>1, <1>7 DEF Legal
  <2> QED
    BY <1>2, <1>3, <1>5, <2>1, <2>2, SMTT(40)
    DEF MinimumFraction, MaximumFraction, Or, InRange, LesserOf, GreaterOf
<1>8. /\ ~NeedSignificant(in) /\ NeedFraction(in, notation) => b.significant = <<0, 0>>
      /\ NeedSignificant(in) /\ ~NeedFraction(in, notation) => b.fraction = <<0, 0>>
      /\ ~NeedSignificant(in) /\ ~NeedFraction(in, notation) =>
           b.fraction = <<0, 0>> /\ b.significant = <<1, 2>>
  BY <1>4 DEF DigitBounds
<1> QED
  BY <1>6, <1>7, <1>8 DEF BoundsFit, in, b

\* Options that are not rejected resolve to bounds that agree with each other.
LEMMA ResolvedIsTyped ==
  ASSUME NEW options \in DigitOptionOverrides, NEW low \in 0 .. 100, NEW high \in 0 .. 100,
         low <= high, NEW notation \in Notations,
         ~IsInvalid(SetNumberFormatDigitOptions(options, low, high, notation))
  PROVE  LET r == SetNumberFormatDigitOptions(options, low, high, notation)
         IN  r \in ResolvedDigitOptions /\ IsConsistent(r)
<1> DEFINE in == Input(options)
           b == BoundsOf(options, low, high, notation)
           type == RoundingType(in, notation)
           v == Resolved(in, b, type)
<1>1. Legal(in, b, v, notation) /\ SetNumberFormatDigitOptions(options, low, high, notation) = v
  BY ResolutionOf DEF ResolvedOf
<1>2. /\ in.roundingMode \in RoundingModes /\ in.trailingZeroDisplay \in TrailingZeroDisplays
      /\ in.minimumIntegerDigits \in 1 .. 21 /\ in.roundingIncrement \in RoundingIncrements
  BY <1>1, InputType DEF Legal
<1>3. /\ b.significant[1] \in 0 .. 21 /\ b.significant[2] \in 0 .. 21
      /\ b.fraction[1] \in 0 .. 100 /\ b.fraction[2] \in 0 .. 100
      /\ b.significant[1] <= b.significant[2] /\ b.fraction[1] <= b.fraction[2]
      /\ type \in RoundingTypes
      /\ type # "fractionDigits" => b.significant[1] >= 1
      /\ type = "fractionDigits" => b.significant[2] = 0
      /\ type = "significantDigits" => b.fraction[2] = 0
  <2> HIDE DEF in, b, type
  <2>1. BoundsFit(options, in, b, notation)
    BY LegalBounds DEF in, b
  <2>2. /\ NeedSignificant(in) /\ ~NeedFraction(in, notation) => type = "significantDigits"
        /\ ~NeedSignificant(in) /\ NeedFraction(in, notation) => type = "fractionDigits"
        /\ ~NeedSignificant(in) /\ ~NeedFraction(in, notation) => type = "morePrecision"
        /\ NeedSignificant(in) /\ NeedFraction(in, notation) =>
             type = "morePrecision" \/ type = "lessPrecision"
    BY RoundingTypeOf DEF in, type
  <2> QED
    BY <2>1, <2>2 DEF BoundsFit, RoundingTypes
<1> HIDE DEF in, b, type
<1>4. IncrementAllowed(v)
  BY <1>1 DEF Legal
<1>5. v \in ResolvedDigitOptions
  BY <1>2, <1>3 DEF Resolved, ResolvedDigitOptions, RoundingPriorities
<1>6. IsConsistent(v)
  BY <1>3, <1>4 DEF IsConsistent, Resolved
<1> QED
  BY <1>1, <1>5, <1>6

\* What is shown of resolved options resolves to the same, whatever the defaults.
LEMMA ResolvedAgain ==
  ASSUME NEW r \in ResolvedDigitOptions, IsConsistent(r), NEW low, NEW high, NEW notation
  PROVE  /\ ResolvedProperties(r) \in DigitOptionOverrides
         /\ SetNumberFormatDigitOptions(ResolvedProperties(r), low, high, notation) = r
<1> DEFINE p == ResolvedProperties(r)
           in == Input(p)
           b == BoundsOf(p, low, high, notation)
           mx == MaximumDefault(p, low, high)
           v == Resolved(in, b, RoundingType(in, notation))
<1>1. p \in DigitOptionOverrides
  BY DEF ResolvedProperties, DigitOptionOverrides, ResolvedDigitOptions, RoundingIncrements
<1>2. /\ Unset \notin Int /\ Unset \notin RoundingModes /\ Unset \notin RoundingPriorities
      /\ Unset \notin TrailingZeroDisplays
  BY UnsetIsNoValue
<1>3. /\ p.minimumIntegerDigits = r.minimumIntegerDigits
      /\ p.roundingIncrement = r.roundingIncrement
      /\ p.roundingMode = r.roundingMode
      /\ p.roundingPriority = r.roundingPriority
      /\ p.trailingZeroDisplay = r.trailingZeroDisplay
      /\ r.roundingType = "significantDigits" =>
           p.minimumFractionDigits = Unset /\ p.maximumFractionDigits = Unset
      /\ r.roundingType # "significantDigits" =>
           /\ p.minimumFractionDigits = r.minimumFractionDigits
           /\ p.maximumFractionDigits = r.maximumFractionDigits
      /\ r.roundingType = "fractionDigits" =>
           p.minimumSignificantDigits = Unset /\ p.maximumSignificantDigits = Unset
      /\ r.roundingType # "fractionDigits" =>
           /\ p.minimumSignificantDigits = r.minimumSignificantDigits
           /\ p.maximumSignificantDigits = r.maximumSignificantDigits
  BY DEF ResolvedProperties
<1>4. /\ r.minimumIntegerDigits \in 1 .. 21 /\ r.roundingIncrement \in RoundingIncrements
      /\ r.roundingMode \in RoundingModes /\ r.roundingPriority \in RoundingPriorities
      /\ r.trailingZeroDisplay \in TrailingZeroDisplays /\ r.roundingType \in RoundingTypes
      /\ r.minimumFractionDigits \in 0 .. 100 /\ r.maximumFractionDigits \in 0 .. 100
      /\ r.minimumSignificantDigits \in 0 .. 21 /\ r.maximumSignificantDigits \in 0 .. 21
      /\ r.roundingIncrement \in Int
  BY DEF ResolvedDigitOptions, RoundingIncrements
<1> HIDE DEF p
<1>5. /\ in.minimumIntegerDigits = r.minimumIntegerDigits
      /\ in.roundingIncrement = r.roundingIncrement
      /\ in.roundingMode = r.roundingMode
      /\ in.roundingPriority = r.roundingPriority
      /\ in.trailingZeroDisplay = r.trailingZeroDisplay
      /\ in.minimumFractionDigits = p.minimumFractionDigits
      /\ in.maximumFractionDigits = p.maximumFractionDigits
      /\ in.minimumSignificantDigits = p.minimumSignificantDigits
      /\ in.maximumSignificantDigits = p.maximumSignificantDigits
  <2>1. /\ in.minimumIntegerDigits = Or(p.minimumIntegerDigits, 1)
        /\ in.roundingIncrement = Or(p.roundingIncrement, 1)
        /\ in.roundingMode = Or(p.roundingMode, "halfExpand")
        /\ in.roundingPriority = Or(p.roundingPriority, "auto")
        /\ in.trailingZeroDisplay = Or(p.trailingZeroDisplay, "auto")
        /\ in.minimumFractionDigits = p.minimumFractionDigits
        /\ in.maximumFractionDigits = p.maximumFractionDigits
        /\ in.minimumSignificantDigits = p.minimumSignificantDigits
        /\ in.maximumSignificantDigits = p.maximumSignificantDigits
    BY <1>1, InputType
  <2> HIDE DEF in
  <2> QED
    BY <1>2, <1>3, <1>4, <2>1 DEF Or
<1>6. b = DigitBounds(in, low, mx, notation)
  BY DEF BoundsOf
<1>10. Legal(in, b, v, notation) => SetNumberFormatDigitOptions(p, low, high, notation) = v
  BY ResolutionOf DEF ResolvedOf
<1> HIDE DEF in, b, mx
<1>7. ASSUME r.roundingType = "significantDigits"
      PROVE  v = r /\ Legal(in, b, v, notation)
  <2>1. /\ r.maximumFractionDigits = 0 /\ r.minimumFractionDigits = 0
        /\ r.minimumSignificantDigits \in 1 .. 21 /\ r.maximumSignificantDigits \in 1 .. 21
        /\ r.minimumSignificantDigits <= r.maximumSignificantDigits
        /\ r.roundingPriority = "auto" /\ IncrementAllowed(r)
    BY <1>4, <1>7 DEF IsConsistent
  <2>2. /\ in.minimumSignificantDigits = r.minimumSignificantDigits
        /\ in.maximumSignificantDigits = r.maximumSignificantDigits
        /\ in.minimumSignificantDigits # Unset /\ in.maximumSignificantDigits # Unset
    BY <1>2, <1>3, <1>4, <1>5, <1>7
  <2>3. NeedSignificant(in) /\ ~NeedFraction(in, notation)
        /\ RoundingType(in, notation) = "significantDigits"
    BY <1>5, <2>1, <2>2 DEF NeedSignificant, NeedFraction, HasSignificant, RoundingType
  <2>4. b = [fraction |-> <<0, 0>>,
             significant |-> <<r.minimumSignificantDigits, r.maximumSignificantDigits>>]
    BY <1>6, <2>2, <2>3 DEF DigitBounds, MinimumSignificant, MaximumSignificant, Or
  <2>5. v = r
    BY <1>5, <1>7, <2>1, <2>3, <2>4 DEF Resolved, ResolvedDigitOptions
  <2>6. Legal(in, b, v, notation)
    BY <1>4, <1>5, <2>1, <2>2, <2>3, <2>4, <2>5, SMTT(60) DEF Legal, InRange
  <2> QED
    BY <2>5, <2>6
<1>8. ASSUME r.roundingType = "fractionDigits"
      PROVE  v = r /\ Legal(in, b, v, notation)
  <2>1. /\ r.maximumSignificantDigits = 0 /\ r.minimumSignificantDigits = 0
        /\ r.minimumFractionDigits <= r.maximumFractionDigits
        /\ r.roundingPriority = "auto" /\ IncrementAllowed(r)
    BY <1>4, <1>8 DEF IsConsistent
  <2>2. /\ in.minimumFractionDigits = r.minimumFractionDigits
        /\ in.maximumFractionDigits = r.maximumFractionDigits
        /\ in.minimumFractionDigits # Unset /\ in.maximumFractionDigits # Unset
        /\ in.minimumSignificantDigits = Unset /\ in.maximumSignificantDigits = Unset
    BY <1>2, <1>3, <1>4, <1>5, <1>8
  <2>3. ~NeedSignificant(in) /\ NeedFraction(in, notation)
        /\ RoundingType(in, notation) = "fractionDigits"
    BY <1>5, <2>1, <2>2 DEF NeedSignificant, NeedFraction, HasSignificant, HasFraction, RoundingType
  <2>4. b = [fraction |-> <<r.minimumFractionDigits, r.maximumFractionDigits>>,
             significant |-> <<0, 0>>]
    BY <1>6, <2>2, <2>3 DEF DigitBounds, MinimumFraction, MaximumFraction
  <2>5. v = r
    BY <1>5, <1>8, <2>1, <2>3, <2>4 DEF Resolved, ResolvedDigitOptions
  <2>6. Legal(in, b, v, notation)
    BY <1>4, <1>5, <2>1, <2>2, <2>3, <2>4, <2>5, SMTT(60) DEF Legal, InRange
  <2> QED
    BY <2>5, <2>6
<1>9. ASSUME r.roundingType \in {"morePrecision", "lessPrecision"}
      PROVE  v = r /\ Legal(in, b, v, notation)
  <2>1. /\ r.minimumFractionDigits <= r.maximumFractionDigits
        /\ r.minimumSignificantDigits \in 1 .. 21 /\ r.maximumSignificantDigits \in 1 .. 21
        /\ r.minimumSignificantDigits <= r.maximumSignificantDigits
        /\ r.roundingPriority = r.roundingType /\ IncrementAllowed(r)
    BY <1>4, <1>9 DEF IsConsistent
  <2>2. /\ in.minimumFractionDigits = r.minimumFractionDigits
        /\ in.maximumFractionDigits = r.maximumFractionDigits
        /\ in.minimumFractionDigits # Unset /\ in.maximumFractionDigits # Unset
        /\ in.minimumSignificantDigits = r.minimumSignificantDigits
        /\ in.maximumSignificantDigits = r.maximumSignificantDigits
        /\ in.minimumSignificantDigits # Unset /\ in.maximumSignificantDigits # Unset
    BY <1>2, <1>3, <1>4, <1>5, <1>9
  <2>3. NeedSignificant(in) /\ NeedFraction(in, notation)
        /\ RoundingType(in, notation) = r.roundingType
    BY <1>5, <1>9, <2>1, <2>2 DEF NeedSignificant, NeedFraction, RoundingType
  <2>4. b = [fraction |-> <<r.minimumFractionDigits, r.maximumFractionDigits>>,
             significant |-> <<r.minimumSignificantDigits, r.maximumSignificantDigits>>]
    BY <1>6, <2>2, <2>3
    DEF DigitBounds, MinimumFraction, MaximumFraction, MinimumSignificant, MaximumSignificant, Or
  <2>5. v = r
    BY <1>5, <1>9, <2>1, <2>3, <2>4 DEF Resolved, ResolvedDigitOptions
  <2>6. Legal(in, b, v, notation)
    BY <1>4, <1>5, <2>1, <2>2, <2>3, <2>4, <2>5, SMTT(60) DEF Legal, InRange
  <2> QED
    BY <2>5, <2>6
<1>11. v = r /\ Legal(in, b, v, notation)
  <2>1. \/ r.roundingType = "significantDigits" \/ r.roundingType = "fractionDigits"
        \/ r.roundingType \in {"morePrecision", "lessPrecision"}
    BY <1>4 DEF RoundingTypes
  <2> HIDE DEF v
  <2> QED
    BY <1>7, <1>8, <1>9, <2>1
<1>12. SetNumberFormatDigitOptions(p, low, high, notation) = r
  <2> HIDE DEF v
  <2> QED
    BY <1>10, <1>11
<1> QED
  BY <1>1, <1>12 DEF p

-------------------------------------------------------------------------------
(* Rounding. *)

\* A distance in units is the distance of the units.
LEMMA DistanceInUnits ==
  ASSUME NEW x \in Decimal, NEW r \in Decimal, NEW u \in Int, u <= x.exp, u <= r.exp
  PROVE  /\ Distance(x, r) \in Decimal /\ u <= Distance(x, r).exp
         /\ SignedUnits(Distance(x, r), u) = Magnitude(SignedUnits(r, u) - SignedUnits(x, u))
<1> DEFINE m == LesserOf(x.exp, r.exp)
           a == SignedUnits(x, m)
           b == SignedUnits(r, m)
           g == PowerOfTen[m - u]
<1>1. x.exp \in Int /\ r.exp \in Int
  BY DEF Decimal
<1>2. m \in Int /\ u <= m /\ m <= x.exp /\ m <= r.exp
  BY <1>1, Lesser
<1>3. /\ a \in Int /\ b \in Int /\ g \in Nat \ {0}
      /\ SignedUnits(x, u) = a * g /\ SignedUnits(r, u) = b * g
  <2> HIDE DEF m
  <2> QED
    BY <1>2, UnitsRescaled
<1>4. Distance(x, r) = [negative |-> FALSE, exp |-> m, coeff |-> Magnitude(a - b)]
  BY DEF Distance
<1> HIDE DEF m, a, b
<1>5. Magnitude(a - b) \in Nat
  BY <1>3 DEF Magnitude
<1>6. Distance(x, r) \in Decimal /\ Distance(x, r).exp = m
  BY <1>2, <1>4, <1>5 DEF Decimal
<1>7. SignedUnits(Distance(x, r), u) = Magnitude(a - b) * g
  BY <1>4 DEF SignedUnits, Units
<1> HIDE DEF g
<1>8. Magnitude(a - b) * g = Magnitude(b * g - a * g)
  <2>1. \A n \in Nat : /\ n * g \in Nat
                       /\ a - b = n => b * g - a * g = -(n * g)
                       /\ b - a = n => b * g - a * g = n * g
    BY <1>3
  <2>2. CASE a - b >= 0
    <3>1. a - b \in Nat /\ Magnitude(a - b) = a - b
      BY <1>3, <2>2 DEF Magnitude
    <3> QED
      BY <1>3, <2>1, <3>1 DEF Magnitude
  <2>3. CASE a - b < 0
    <3>1. b - a \in Nat /\ Magnitude(a - b) = b - a
      BY <1>3, <2>3 DEF Magnitude
    <3> QED
      BY <1>3, <2>1, <3>1 DEF Magnitude
  <2> QED
    BY <1>3, <2>2, <2>3
<1> QED
  BY <1>2, <1>3, <1>6, <1>7, <1>8

\* One value is no further from x than another when it is not in units.
LEMMA Nearer ==
  ASSUME NEW x \in Decimal, NEW r \in Decimal, NEW s \in Decimal,
         NEW u \in Int, u <= x.exp, u <= r.exp, u <= s.exp,
         Magnitude(SignedUnits(r, u) - SignedUnits(x, u)) <= Magnitude(SignedUnits(s, u) - SignedUnits(x, u))
  PROVE  Cmp(Distance(x, r), Distance(x, s)) <= 0 /\ Cmp(Distance(x, s), Distance(x, r)) >= 0
<1>1. /\ Distance(x, r) \in Decimal /\ u <= Distance(x, r).exp
      /\ Distance(x, s) \in Decimal /\ u <= Distance(x, s).exp
      /\ SignedUnits(Distance(x, r), u) = Magnitude(SignedUnits(r, u) - SignedUnits(x, u))
      /\ SignedUnits(Distance(x, s), u) = Magnitude(SignedUnits(s, u) - SignedUnits(x, u))
  BY DistanceInUnits
<1>2. SignedUnits(x, u) \in Int /\ SignedUnits(r, u) \in Int /\ SignedUnits(s, u) \in Int
  BY UnitsRescaled
<1> DEFINE m == Magnitude(SignedUnits(r, u) - SignedUnits(x, u))
           n == Magnitude(SignedUnits(s, u) - SignedUnits(x, u))
           p == Distance(x, r)
           q == Distance(x, s)
<1>3. m \in Nat /\ n \in Nat /\ m <= n
  BY <1>2 DEF Magnitude
<1> HIDE DEF m, n, p, q
<1>4. /\ p \in Decimal /\ u <= p.exp /\ q \in Decimal /\ u <= q.exp
      /\ SignedUnits(p, u) = m /\ SignedUnits(q, u) = n
  BY <1>1 DEF m, n, p, q
<1>5. /\ Cmp(p, q) \in Int /\ (Cmp(p, q) > 0 <=> m > n)
      /\ Cmp(q, p) \in Int /\ (Cmp(q, p) < 0 <=> n < m)
  BY <1>4, CmpInUnits
<1> QED
  BY <1>3, <1>5 DEF p, q

\* At a place that d reaches with its digits nothing is rounded.
LEMMA ReachedIsExact ==
  ASSUME NEW x \in Int, NEW r \in Int, NEW mode, RoundsTo(x, r, 1, mode)
  PROVE  r = x
  BY DEF RoundsTo, Magnitude

\* The candidate whose last digit is at the smaller place is never further from
\* the value, and the code's choice by the rounding magnitude finds it.
LEMMA CandidatesOrdered ==
  ASSUME NEW d \in Decimal, NEW opts, IsDigits(opts), opts.roundingIncrement = 1,
         opts.maximumSignificantDigits >= 1
  PROVE  LET f == FixedCandidate(d, opts).rounded
             s == SignificantCandidate(d, opts).rounded
         IN  /\ MorePreciseFixed(d, opts) => Cmp(Distance(d, f), Distance(d, s)) <= 0
                                             /\ Cmp(Distance(d, s), Distance(d, f)) >= 0
             /\ ~MorePreciseFixed(d, opts) => Cmp(Distance(d, s), Distance(d, f)) <= 0
                                              /\ Cmp(Distance(d, f), Distance(d, s)) >= 0
<1> DEFINE f == FixedCandidate(d, opts).rounded
           s == SignificantCandidate(d, opts).rounded
           last == -opts.maximumFractionDigits
           place == SignificantPlace(d, opts)
           more == MorePreciseFixed(d, opts)
           mode == opts.roundingMode
           Off(r, u) == Magnitude(SignedUnits(r, u) - SignedUnits(d, u))
<1>1. /\ d.exp \in Int /\ last \in Int /\ mode \in RoundingModes /\ opts.maximumSignificantDigits \in Nat
  BY DEF IsDigits, Decimal
<1>2. /\ f \in Decimal /\ (f = d \/ f.exp = last)
      /\ \A u \in Int : u <= last /\ u <= d.exp =>
           RoundsTo(SignedUnits(d, u), SignedUnits(f, u), 1 * PowerOfTen[last - u], mode)
  BY FixedRounds
<1>3. /\ s \in Decimal /\ (s = d \/ s.exp = place)
      /\ KeepsAll(d, opts) => s = d
      /\ ~KeepsAll(d, opts) =>
           /\ place \in Int
           /\ \A u \in Int : u <= place /\ u <= d.exp =>
                RoundsTo(SignedUnits(d, u), SignedUnits(s, u), PowerOfTen[place - u], mode)
  BY SignificantRounds
<1>4. more <=> last < SignificantRoundingMagnitude(RoundSignificant(d, opts), opts)
  BY DEF MorePreciseFixed
<1>5. /\ KeepsAll(d, opts) /\ ~IsZero(d) =>
           SignificantRoundingMagnitude(RoundSignificant(d, opts), opts) = place /\ place <= d.exp
      /\ KeepsAll(d, opts) \/ Log10Floor(d) \in Int
      /\ ~KeepsAll(d, opts) =>
           SignificantRoundingMagnitude(RoundSignificant(d, opts), opts) \in {place, place + 1}
  <2>1. ASSUME KeepsAll(d, opts), ~IsZero(d)
        PROVE  /\ SignificantRoundingMagnitude(RoundSignificant(d, opts), opts) = place
               /\ place <= d.exp
    <3>1. RoundSignificant(d, opts) = Abs(d)
      BY <2>1 DEF KeepsAll, RoundSignificant
    <3>2. ~IsZero(Abs(d)) /\ Log10Floor(Abs(d)) = Log10Floor(d)
      BY <2>1, AbsOf
    <3> QED
      BY <1>1, <2>1, <3>1, <3>2, FewDigits DEF KeepsAll, SignificantRoundingMagnitude, SignificantPlace
  <2>2. ASSUME ~KeepsAll(d, opts)
        PROVE  /\ Log10Floor(d) \in Int
               /\ SignificantRoundingMagnitude(RoundSignificant(d, opts), opts) \in {place, place + 1}
    <3>1. /\ ~IsZero(RoundSignificant(d, opts)) /\ Log10Floor(d) \in Int
          /\ Log10Floor(RoundSignificant(d, opts)) \in {Log10Floor(d), Log10Floor(d) + 1}
      BY <2>2, SignificantLeads
    <3> QED
      BY <1>1, <3>1 DEF SignificantRoundingMagnitude, SignificantPlace
  <2> QED
    BY <2>1, <2>2
<1> HIDE DEF f, s, last, place, more, mode
<1>6. \A u \in Int : u <= last /\ u <= d.exp => u <= f.exp
  BY <1>2
<1>7. \A u \in Int : u <= last /\ u <= d.exp =>
        RoundsTo(SignedUnits(d, u), SignedUnits(f, u), PowerOfTen[last - u], mode)
  <2>1. \A u \in Int : u <= last => last - u \in Nat
    BY <1>1
  <2>2. \A u \in Int : u <= last => 1 * PowerOfTen[last - u] = PowerOfTen[last - u]
    BY <2>1, PowerOfTenPositive
  <2> QED
    BY <1>2, <2>2
<1> DEFINE Ordered(r, t) == Cmp(Distance(d, r), Distance(d, t)) <= 0
                            /\ Cmp(Distance(d, t), Distance(d, r)) >= 0
<1>8. ASSUME NEW u \in Int, u <= d.exp, u <= f.exp, u <= s.exp
      PROVE  /\ Off(f, u) <= Off(s, u) => Ordered(f, s)
             /\ Off(s, u) <= Off(f, u) => Ordered(s, f)
  BY <1>2, <1>3, <1>8, Nearer
<1>9. ASSUME KeepsAll(d, opts)
      PROVE  /\ more => Ordered(f, s)
             /\ ~more => Ordered(s, f)
  <2> DEFINE u == LesserOf(last, d.exp)
  <2>1. u \in Int /\ u <= last /\ u <= d.exp /\ u \in {last, d.exp}
    BY <1>1, Lesser
  <2> HIDE DEF u
  <2>2. s = d /\ u <= f.exp
    BY <1>3, <1>6, <1>9, <2>1
  <2>3. SignedUnits(d, u) \in Int /\ SignedUnits(f, u) \in Int
    BY <1>2, <2>1, <2>2, UnitsRescaled
  <2>4. Off(s, u) = 0 /\ Off(f, u) >= 0
    BY <2>2, <2>3 DEF Magnitude
  <2>5. RoundsTo(SignedUnits(d, u), SignedUnits(f, u), PowerOfTen[last - u], mode)
    BY <1>7, <2>1
  <2>6. ASSUME more
        PROVE  Off(f, u) = 0
    <3>1. CASE IsZero(d)
      <4>1. SignedUnits(d, u) = 0
        <5>1. d.coeff = 0 /\ d.exp - u \in Nat
          BY <1>1, <2>1, <3>1 DEF IsZero
        <5>2. PowerOfTen[d.exp - u] \in Nat
          BY <5>1, PowerOfTenPositive
        <5> QED
          BY <5>1, <5>2 DEF SignedUnits, Units
      <4>2. PowerOfTen[last - u] \in Nat \ {0}
        <5>1. last - u \in Nat
          BY <1>1, <2>1
        <5> QED
          BY <5>1, PowerOfTenPositive
      <4>3. SignedUnits(f, u) = 0
        BY <2>3, <2>5, <4>1, <4>2, ZeroStaysZero
      <4> QED
        BY <4>1, <4>3 DEF Magnitude
    <3>2. CASE ~IsZero(d)
      <4>1. last < place /\ place <= d.exp
        BY <1>4, <1>5, <1>9, <2>6, <3>2
      <4>2. place \in Int
        <5>1. Log10Floor(d) \in Int
          BY <1>1, <3>2, LeadingDigit
        <5> QED
          BY <1>1, <5>1 DEF place, SignificantPlace
      <4>3. u = last
        BY <1>1, <2>1, <4>1, <4>2
      <4>4. PowerOfTen[last - u] = 1
        <5>1. last - u = 0
          BY <1>1, <4>3
        <5> QED
          BY <5>1, PowerOfTenDef
      <4>5. SignedUnits(f, u) = SignedUnits(d, u)
        BY <2>3, <2>5, <4>4, ReachedIsExact
      <4> QED
        BY <2>3, <4>5 DEF Magnitude
    <3> QED
      BY <3>1, <3>2
  <2> QED
    BY <1>8, <2>1, <2>2, <2>4, <2>6
<1>10. ASSUME ~KeepsAll(d, opts)
       PROVE  /\ more => Ordered(f, s)
              /\ ~more => Ordered(s, f)
  <2> DEFINE u == LesserOf(place, LesserOf(last, d.exp))
             fine == PowerOfTen[last - u]
             coarse == PowerOfTen[place - u]
             x == SignedUnits(d, u)
  <2>1. place \in Int
    BY <1>3, <1>10
  <2>2. u \in Int /\ u <= place /\ u <= last /\ u <= d.exp
    BY <1>1, <2>1, LeastOfThree
  <2> HIDE DEF u
  <2>3. u <= f.exp /\ u <= s.exp
    BY <1>2, <1>3, <2>2
  <2>4. x \in Int /\ SignedUnits(f, u) \in Int /\ SignedUnits(s, u) \in Int
    BY <1>2, <1>3, <2>2, <2>3, UnitsRescaled
  <2>5. RoundsTo(x, SignedUnits(f, u), fine, mode) /\ RoundsTo(x, SignedUnits(s, u), coarse, mode)
    BY <1>3, <1>7, <1>10, <2>2
  <2>6. last - u \in Nat /\ place - u \in Nat
    BY <1>1, <2>1, <2>2
  <2>7. fine \in Nat \ {0} /\ coarse \in Nat \ {0}
    BY <2>6, PowerOfTenPositive
  <2>8. CASE more
    <3>1. last - u <= place - u
      BY <1>1, <1>4, <1>5, <1>10, <2>1, <2>2, <2>8
    <3>2. /\ coarse = PowerOfTen[(place - u) - (last - u)] * fine
          /\ (place - u) - (last - u) \in Nat
      BY <2>6, <3>1, PowerIsMultiple
    <3>3. PowerOfTen[(place - u) - (last - u)] \in Nat \ {0}
      BY <3>2, PowerOfTenPositive
    <3> HIDE DEF x, fine, coarse
    <3>4. Magnitude(SignedUnits(f, u) - x) <= Magnitude(SignedUnits(s, u) - x)
      BY <1>1, <2>4, <2>5, <2>7, <3>2, <3>3, FinerIsNearer
    <3> QED
      BY <1>8, <2>2, <2>3, <2>8, <3>4 DEF x
  <2>9. CASE ~more
    <3>1. place - u <= last - u
      BY <1>1, <1>4, <1>5, <1>10, <2>1, <2>2, <2>9
    <3>2. /\ fine = PowerOfTen[(last - u) - (place - u)] * coarse
          /\ (last - u) - (place - u) \in Nat
      BY <2>6, <3>1, PowerIsMultiple
    <3>3. PowerOfTen[(last - u) - (place - u)] \in Nat \ {0}
      BY <3>2, PowerOfTenPositive
    <3> HIDE DEF x, fine, coarse
    <3>4. Magnitude(SignedUnits(s, u) - x) <= Magnitude(SignedUnits(f, u) - x)
      BY <1>1, <2>4, <2>5, <2>7, <3>2, <3>3, FinerIsNearer
    <3> QED
      BY <1>8, <2>2, <2>3, <2>9, <3>4 DEF x
  <2> QED
    BY <2>8, <2>9
<1> QED
  BY <1>9, <1>10 DEF f, s, more

\* A multiple rounds to itself.
LEMMA MultipleRounds ==
  ASSUME NEW a \in Int, NEW step \in Nat \ {0}, a % step = 0, NEW mode \in RoundingModes
  PROVE  RoundsTo(a, a, step, mode)
<1>1. a - a = 0 /\ Magnitude(0) = 0 /\ 2 * 0 = 0 /\ 0 < step /\ 0 # step /\ 0 <= step
      /\ a >= a /\ a <= a /\ Magnitude(a) >= Magnitude(a) /\ Magnitude(a) <= Magnitude(a)
  BY DEF Magnitude
<1>2. ByMode(a, a, step)
  BY RoundsToByMode
<1> QED
  BY <1>1, <1>2 DEF ByMode, RoundingModes

IsResolved(opts) == opts \in ResolvedDigitOptions /\ IsConsistent(opts)

LEMMA ResolvedDigits ==
  ASSUME NEW opts, IsResolved(opts)
  PROVE  /\ IsDigits(opts) /\ opts.roundingType \in RoundingTypes
         /\ opts.roundingType # "fractionDigits" =>
              opts.roundingIncrement = 1 /\ opts.maximumSignificantDigits >= 1
         /\ opts.maximumSignificantDigits = 0 => opts.roundingType = "fractionDigits"
<1>1. opts \in ResolvedDigitOptions /\ IsConsistent(opts)
  BY DEF IsResolved
<1>2. IsDigits(opts) /\ opts.roundingType \in RoundingTypes
      /\ opts.minimumSignificantDigits \in Nat /\ opts.maximumSignificantDigits \in Nat
  BY <1>1 DEF IsDigits, ResolvedDigitOptions
<1>3. opts.roundingType # "fractionDigits" => opts.roundingIncrement = 1
  BY <1>1 DEF IsConsistent, IncrementAllowed
<1>4. opts.roundingType # "fractionDigits" => opts.maximumSignificantDigits >= 1
  BY <1>1, <1>2 DEF IsConsistent
<1> QED
  BY <1>2, <1>3, <1>4

\* A value that is written as it is has no digit beyond the last fraction digit.
LEMMA WrittenAsItIs ==
  ASSUME NEW d \in Decimal, NEW opts, IsResolved(opts), CanUseRoundedString(d, opts)
  PROVE  /\ opts.roundingType = "fractionDigits"
         /\ RoundsAt(d, d, opts.roundingIncrement, -opts.maximumFractionDigits, opts.roundingMode)
<1> DEFINE place == -opts.maximumFractionDigits
           u == LesserOf(place, LesserOf(d.exp, d.exp))
           step == opts.roundingIncrement * PowerOfTen[place - u]
           mode == opts.roundingMode
<1>1. /\ opts.maximumSignificantDigits = 0 /\ opts.roundingIncrement = 1
      /\ PlainScale(d) <= opts.maximumFractionDigits
  BY DEF CanUseRoundedString
<1>2. /\ opts.roundingType = "fractionDigits" /\ mode \in RoundingModes
      /\ opts.maximumFractionDigits \in Nat
  BY <1>1, ResolvedDigits DEF IsDigits
<1>3. d.exp \in Int /\ d.coeff \in Nat /\ place \in Int
  BY <1>2 DEF Decimal
<1>4. u \in Int /\ u <= place /\ u <= d.exp
  BY <1>3, LeastOfThree
<1>5. u = LesserOf(place, d.exp)
  BY <1>3 DEF LesserOf
<1>6. place - u \in Nat /\ d.exp - u \in Nat
  BY <1>3, <1>4
<1>7. PowerOfTen[place - u] \in Nat \ {0} /\ PowerOfTen[d.exp - u] \in Nat
  BY <1>6, PowerOfTenPositive
<1>8. step \in Nat \ {0} /\ step = PowerOfTen[place - u]
  BY <1>1, <1>7
<1>9. SignedUnits(d, u) \in Int
  <2>1. u <= u
    BY <1>4
  <2> QED
    BY <1>4, <2>1, UnitsRescaled
<1>10. SignedUnits(d, u) % step = 0
  <2>1. CASE IsZero(d)
    <3>1. Units(d, u) = 0
      BY <1>7, <2>1 DEF Units, IsZero
    <3>2. SignedUnits(d, u) = 0
      BY <3>1 DEF SignedUnits
    <3>3. (0 * step) % step = 0 /\ 0 * step = 0
      BY <1>8, Multiple
    <3> QED
      BY <3>2, <3>3
  <2>2. CASE ~IsZero(d)
    <3>1. place <= d.exp
      BY <1>1, <1>2, <1>3, <2>2 DEF PlainScale, GreaterOf
    <3>2. u = place
      BY <1>3, <1>5, <3>1 DEF LesserOf
    <3>3. step = 1
      <4>1. place - u = 0
        BY <1>3, <3>2
      <4> QED
        BY <1>8, <4>1, PowerOfTenDef
    <3> QED
      BY <1>9, <3>3
  <2> QED
    BY <2>1, <2>2
<1> HIDE DEF step
<1>11. RoundsTo(SignedUnits(d, u), SignedUnits(d, u), step, mode)
  BY <1>2, <1>8, <1>9, <1>10, MultipleRounds
<1> QED
  BY <1>2, <1>11 DEF RoundsAt, step

\* Rounding by the last significant digit, of the options in use.
RoundsLast(x, r, opts) ==
  IF IsZero(x) THEN IsZero(r)
  ELSE Cmp(x, r) = 0 \/ RoundsAt(x, r, 1, SignificantPlace(x, opts), opts.roundingMode)

\* The candidates, each rounded as its kind of digits asks for.
LEMMA CandidatesRound ==
  ASSUME NEW x \in Decimal, NEW opts, IsResolved(opts)
  PROVE  LET f == FixedCandidate(x, opts).rounded
             s == SignificantCandidate(x, opts).rounded
         IN  /\ f \in Decimal /\ s \in Decimal /\ f.negative = x.negative /\ s.negative = x.negative
             /\ RoundsAt(x, f, opts.roundingIncrement, -opts.maximumFractionDigits, opts.roundingMode)
             /\ RoundsLast(x, s, opts)
<1> DEFINE f == FixedCandidate(x, opts).rounded
           s == SignificantCandidate(x, opts).rounded
<1>1. IsDigits(opts)
  BY ResolvedDigits
<1>2. /\ f \in Decimal /\ f.negative = x.negative
      /\ RoundsAt(x, f, opts.roundingIncrement, -opts.maximumFractionDigits, opts.roundingMode)
  BY <1>1, FixedRounds
<1>3. /\ s \in Decimal /\ s.negative = x.negative
      /\ KeepsAll(x, opts) => s = x
      /\ ~KeepsAll(x, opts) => RoundsAt(x, s, 1, SignificantPlace(x, opts), opts.roundingMode)
  BY <1>1, SignificantRounds
<1> HIDE DEF f, s
<1>4. RoundsLast(x, s, opts)
  <2>1. CASE KeepsAll(x, opts)
    BY <1>3, <2>1, CmpReflexive DEF RoundsLast
  <2>2. CASE ~KeepsAll(x, opts)
    BY <1>3, <2>2 DEF RoundsLast, KeepsAll
  <2> QED
    BY <2>1, <2>2
<1> QED
  BY <1>2, <1>3, <1>4 DEF f, s

\* What CorrectlyRounded says of a value, its rounded value and the options in use.
IsRounded(x, r, opts) ==
  LET fixed == RoundsAt(x, r, opts.roundingIncrement, -opts.maximumFractionDigits, opts.roundingMode)
      last  == RoundsLast(x, r, opts)
  IN  /\ opts.roundingType = "fractionDigits" => fixed
      /\ opts.roundingType = "significantDigits" => last
      /\ opts.roundingType \in {"morePrecision", "lessPrecision"} => fixed \/ last
      /\ \A candidate \in {FixedCandidate(x, opts), SignificantCandidate(x, opts)} :
           LET order == Cmp(Distance(x, r), Distance(x, candidate.rounded))
           IN  /\ opts.roundingType = "morePrecision" => order <= 0
               /\ opts.roundingType = "lessPrecision" => order >= 0

LEMMA ResultRounds ==
  ASSUME NEW x \in Decimal, NEW opts, IsResolved(opts)
  PROVE  LET r == FormatNumericToString(x, opts).rounded
         IN  r \in Decimal /\ r.negative = x.negative /\ IsRounded(x, r, opts)
<1> DEFINE r == FormatNumericToString(x, opts).rounded
           fixed == FixedCandidate(x, opts)
           last  == SignificantCandidate(x, opts)
           more  == MorePreciseFixed(x, opts)
<1> SUFFICES r \in Decimal /\ r.negative = x.negative /\ IsRounded(x, r, opts)
  OBVIOUS
<1>1. IsDigits(opts) /\ opts.roundingType \in RoundingTypes
  BY ResolvedDigits
<1>2. /\ fixed.rounded \in Decimal /\ last.rounded \in Decimal
      /\ fixed.rounded.negative = x.negative /\ last.rounded.negative = x.negative
      /\ RoundsAt(x, fixed.rounded, opts.roundingIncrement, -opts.maximumFractionDigits,
                  opts.roundingMode)
      /\ RoundsLast(x, last.rounded, opts)
  BY CandidatesRound
<1>3. CASE CanUseRoundedString(x, opts)
  <2>1. r = x
    BY <1>3 DEF FormatNumericToString, Result
  <2>2. /\ opts.roundingType = "fractionDigits"
        /\ RoundsAt(x, x, opts.roundingIncrement, -opts.maximumFractionDigits, opts.roundingMode)
    BY <1>3, WrittenAsItIs
  <2> QED
    BY <2>1, <2>2 DEF IsRounded
<1>4. CASE ~CanUseRoundedString(x, opts) /\ opts.roundingType = "fractionDigits"
  <2>1. r = fixed.rounded
    BY <1>4 DEF FormatNumericToString, GeneralResult
  <2> HIDE DEF fixed, last, r
  <2> QED
    BY <1>2, <1>4, <2>1 DEF IsRounded
<1>5. CASE ~CanUseRoundedString(x, opts) /\ opts.roundingType = "significantDigits"
  <2>1. r = last.rounded
    BY <1>5 DEF FormatNumericToString, GeneralResult
  <2> HIDE DEF fixed, last, r
  <2> QED
    BY <1>2, <1>5, <2>1 DEF IsRounded
<1>6. CASE ~CanUseRoundedString(x, opts) /\ opts.roundingType \in {"morePrecision", "lessPrecision"}
  <2>1. /\ more \in BOOLEAN
        /\ r = IF (opts.roundingType = "morePrecision") = more THEN fixed.rounded ELSE last.rounded
    <3>1. more \in BOOLEAN
      BY DEF MorePreciseFixed
    <3>2. opts.roundingType = "morePrecision" => r = PriorityCandidate(x, opts, TRUE).rounded
      BY <1>6 DEF FormatNumericToString, GeneralResult
    <3>3. opts.roundingType = "lessPrecision" => r = PriorityCandidate(x, opts, FALSE).rounded
      BY <1>6 DEF FormatNumericToString, GeneralResult
    <3> HIDE DEF r
    <3> QED
      BY <1>6, <3>1, <3>2, <3>3 DEF PriorityCandidate
  <2> DEFINE p == Distance(x, fixed.rounded)
             q == Distance(x, last.rounded)
  <2>2. /\ more => Cmp(p, q) <= 0 /\ Cmp(q, p) >= 0
        /\ ~more => Cmp(q, p) <= 0 /\ Cmp(p, q) >= 0
    BY <1>1, <1>6, ResolvedDigits, CandidatesOrdered
  <2>3. p \in Decimal /\ q \in Decimal
    <3>1. \A y \in Decimal : Distance(x, y) \in Decimal
      <4> SUFFICES ASSUME NEW y \in Decimal PROVE Distance(x, y) \in Decimal
        OBVIOUS
      <4> DEFINE u == LesserOf(x.exp, y.exp)
      <4>1. x.exp \in Int /\ y.exp \in Int
        BY DEF Decimal
      <4>2. u \in Int /\ u <= x.exp /\ u <= y.exp
        BY <4>1, Lesser
      <4> QED
        BY <4>2, DistanceInUnits
    <3> QED
      BY <1>2, <3>1
  <2>4. Cmp(p, p) = 0 /\ Cmp(q, q) = 0
    BY <2>3, CmpReflexive
  <2>5. r \in Decimal /\ r.negative = x.negative
    <3> HIDE DEF r
    <3> QED
      BY <1>2, <2>1
  <2>6. \/ RoundsAt(x, r, opts.roundingIncrement, -opts.maximumFractionDigits, opts.roundingMode)
        \/ RoundsLast(x, r, opts)
    <3> HIDE DEF r, fixed, last, more
    <3> QED
      BY <1>2, <2>1
  <2>7. ASSUME NEW c, c = p \/ c = q
        PROVE  /\ opts.roundingType = "morePrecision" => Cmp(Distance(x, r), c) <= 0
               /\ opts.roundingType = "lessPrecision" => Cmp(Distance(x, r), c) >= 0
    <3>1. Distance(x, r) = IF (opts.roundingType = "morePrecision") = more THEN p ELSE q
      <4> HIDE DEF r, fixed, last, more
      <4> QED
        BY <2>1
    <3> HIDE DEF r, p, q, more
    <3> QED
      BY <1>6, <2>1, <2>2, <2>4, <2>7, <3>1
  <2> HIDE DEF r
  <2> QED
    BY <1>6, <2>5, <2>6, <2>7 DEF IsRounded
<1> QED
  BY <1>1, <1>3, <1>4, <1>5, <1>6 DEF RoundingTypes

-------------------------------------------------------------------------------
(* Exponents. *)

\* Of the magnitudes with a pattern that are not above a magnitude, the largest.
LEMMA CompactMagnitudeIs ==
  ASSUME NEW magnitude \in Int, \E m \in DOMAIN CompactEntries : m <= magnitude
  PROVE  LET c == CompactMagnitude(magnitude)
         IN  /\ c \in DOMAIN CompactEntries /\ c \in 3 .. 14 /\ c <= magnitude
             /\ CompactEntries[c] \in 0 .. c
             /\ \A n \in DOMAIN CompactEntries : n <= magnitude => n <= c
<1> DEFINE D == {m \in DOMAIN CompactEntries : m <= magnitude}
           G == {14 - m : m \in D}
<1>1. \A m \in DOMAIN CompactEntries : m \in 3 .. 14 /\ CompactEntries[m] \in 0 .. m
  BY CompactConstants
<1>2. G \in SUBSET Nat /\ G # {}
  <2>1. \A m \in D : 14 - m \in Nat
    BY <1>1
  <2> QED
    BY <2>1
<1>3. PICK g \in G : \A n \in G : g <= n
  <2> HIDE DEF G
  <2> QED
    BY <1>2, LeastElement
<1>4. PICK most \in D : g = 14 - most
  BY <1>3
<1>5. \A n \in D : n <= most
  <2> SUFFICES ASSUME NEW n \in D PROVE n <= most
    OBVIOUS
  <2>1. 14 - most <= 14 - n
    BY <1>3, <1>4
  <2> QED
    BY <1>1, <1>4, <2>1
<1>6. \E m \in DOMAIN CompactEntries :
        m <= magnitude /\ \A n \in DOMAIN CompactEntries : n <= magnitude => n <= m
  BY <1>4, <1>5
<1>7. /\ CompactMagnitude(magnitude) \in DOMAIN CompactEntries
      /\ CompactMagnitude(magnitude) <= magnitude
      /\ \A n \in DOMAIN CompactEntries : n <= magnitude => n <= CompactMagnitude(magnitude)
  BY <1>6 DEF CompactMagnitude
<1> QED
  BY <1>1, <1>7

\* There is an exponent for a magnitude or none, and it is an integer that is not
\* above the magnitude; standard notation has none.
LEMMA ExponentIs ==
  ASSUME NEW notation \in Notations, NEW magnitude \in Int
  PROVE  LET e == ExponentForMagnitude(notation, magnitude)
         IN  /\ e.ok \in BOOLEAN /\ e.exponent \in Int
             /\ e.ok => e.exponent <= magnitude
             /\ ~e.ok => e.exponent = 0
             /\ notation \in {"scientific", "engineering"} => e.ok
             /\ notation = "compact" => (e.ok <=> \E m \in DOMAIN CompactEntries : m <= magnitude)
             /\ notation = "standard" => ~e.ok
<1> DEFINE e == ExponentForMagnitude(notation, magnitude)
           some == \E m \in DOMAIN CompactEntries : m <= magnitude
<1>1. magnitude % 3 \in 0 .. 2
  BY Division
<1>2. CASE notation = "scientific"
  <2>1. e.ok = TRUE /\ e.exponent = magnitude
    BY <1>2 DEF ExponentForMagnitude, SomeExponent
  <2>2. notation # "compact" /\ notation # "standard"
    BY <1>2
  <2> HIDE DEF e
  <2>3. e.exponent \in Int /\ e.exponent <= magnitude
    BY <2>1
  <2> QED
    BY <2>1, <2>2, <2>3, Zenon DEF e
<1>3. CASE notation = "engineering"
  <2>1. e.ok = TRUE /\ e.exponent = magnitude - (magnitude % 3)
    BY <1>3 DEF ExponentForMagnitude, SomeExponent
  <2>2. notation # "compact" /\ notation # "standard"
    BY <1>3
  <2> HIDE DEF e
  <2>3. e.exponent \in Int /\ e.exponent <= magnitude
    BY <1>1, <2>1
  <2> QED
    BY <2>1, <2>2, <2>3, Zenon DEF e
<1>4. CASE notation = "standard"
  <2>1. e.ok = FALSE /\ e.exponent = 0
    BY <1>4 DEF ExponentForMagnitude, NoExponent
  <2>2. notation \notin {"scientific", "engineering"} /\ notation # "compact"
    BY <1>4
  <2> HIDE DEF e
  <2>3. e.exponent \in Int
    BY <2>1
  <2> QED
    BY <2>1, <2>2, <2>3, Zenon DEF e
<1>5. CASE notation = "compact" /\ some
  <2>1. e = SomeExponent(CompactEntries[CompactMagnitude(magnitude)])
    BY <1>5 DEF ExponentForMagnitude
  <2>2. /\ CompactMagnitude(magnitude) \in 3 .. 14 /\ CompactMagnitude(magnitude) <= magnitude
        /\ CompactEntries[CompactMagnitude(magnitude)] \in 0 .. CompactMagnitude(magnitude)
    BY <1>5, CompactMagnitudeIs
  <2>3. e.ok = TRUE /\ e.exponent = CompactEntries[CompactMagnitude(magnitude)]
    BY <2>1 DEF SomeExponent
  <2>4. notation # "standard" /\ notation \notin {"scientific", "engineering"}
    BY <1>5
  <2> HIDE DEF e
  <2>5. e.exponent \in Int /\ e.exponent <= magnitude
    BY <2>2, <2>3
  <2> QED
    BY <1>5, <2>3, <2>4, <2>5, Zenon DEF e
<1>6. CASE notation = "compact" /\ ~some
  <2>1. e.ok = FALSE /\ e.exponent = 0
    BY <1>6 DEF ExponentForMagnitude, NoExponent
  <2>2. notation # "standard" /\ notation \notin {"scientific", "engineering"}
    BY <1>6
  <2> HIDE DEF e
  <2>3. e.exponent \in Int
    BY <2>1
  <2> QED
    BY <1>6, <2>1, <2>2, <2>3, Zenon DEF e
<1>7. notation \in {"standard", "scientific", "engineering", "compact"}
  BY DEF Notations
<1> QED
  BY <1>2, <1>3, <1>4, <1>5, <1>6, <1>7, Zenon

LEMMA ComputedTyped ==
  ASSUME NEW f, f.notation \in Notations, NEW d \in Decimal
  PROVE  ComputeExponent(f, d).exponent \in Int
<1>1. CASE IsZero(d)
  BY <1>1, ExponentIs DEF ComputeExponent
<1>2. CASE ~IsZero(d)
  <2> DEFINE magnitude == Log10Floor(d)
             e == ExponentForMagnitude(f.notation, magnitude)
  <2>1. magnitude \in Int /\ magnitude + 1 \in Int
    BY <1>2, LeadingTyped
  <2> HIDE DEF magnitude
  <2>2. e.exponent \in Int /\ ExponentForMagnitude(f.notation, magnitude + 1).exponent \in Int
    BY <2>1, ExponentIs
  <2>3. ComputeExponent(f, d) \in {e, ExponentForMagnitude(f.notation, magnitude + 1)}
    BY <1>2 DEF ComputeExponent, WithCarry, Carried, magnitude
  <2> QED
    BY <2>2, <2>3
<1> QED
  BY <1>1, <1>2

-------------------------------------------------------------------------------
(* What is written. *)

LEMMA ResolvedBounds ==
  ASSUME NEW opts, IsResolved(opts)
  PROVE  IsBounds(opts) /\ opts.minimumIntegerDigits >= 1
<1>1. opts \in ResolvedDigitOptions /\ opts.minimumFractionDigits <= opts.maximumFractionDigits
  BY DEF IsResolved, IsConsistent
<1> QED
  BY <1>1 DEF IsBounds, ResolvedDigitOptions

\* What TextShowsRounded says of a text and a rounded value.
IsWritten(text, r, opts) ==
  /\ IsText(text, r.negative, Abs(r), opts)
  /\ opts.roundingType = "fractionDigits" => FixedBounds(text, opts)
  /\ opts.roundingType = "significantDigits" => SignificantBounds(text, opts)

LEMMA FixedIsWritten ==
  ASSUME NEW x \in Decimal, NEW opts, IsResolved(opts)
  PROVE  LET c == FixedCandidate(x, opts)
         IN  IsText(c.text, c.rounded.negative, Abs(c.rounded), opts) /\ FixedBounds(c.text, opts)
<1> DEFINE r == RoundFixed(x, opts)
           t == FixedText(x, r, opts)
           s == WithSign(r, x.negative)
<1>1. IsDigits(opts) /\ IsBounds(opts)
  BY ResolvedDigits, ResolvedBounds
<1>2. FixedCandidate(x, opts).text = t /\ FixedCandidate(x, opts).rounded = s
  BY DEF FixedCandidate, Result
<1>3. /\ r \in Decimal /\ ~r.negative
      /\ r.exp + opts.maximumFractionDigits < 0 =>
           r.coeff % PowerOfTen[-(r.exp + opts.maximumFractionDigits)] = 0
  BY <1>1, FixedHasNoMore
<1> HIDE DEF r
<1>4. IsText(t, x.negative, r, opts) /\ FixedBounds(t, opts)
  BY <1>1, <1>3, FixedTextIs
<1>5. s.negative = x.negative /\ Abs(s) = r
  BY <1>3 DEF WithSign, Abs, Decimal
<1> HIDE DEF t, s
<1> QED
  BY <1>2, <1>4, <1>5

LEMMA SignificantIsWritten ==
  ASSUME NEW x \in Decimal, NEW opts, IsResolved(opts)
  PROVE  LET c == SignificantCandidate(x, opts)
         IN  IsText(c.text, c.rounded.negative, Abs(c.rounded), opts)
             /\ SignificantBounds(c.text, opts)
<1> DEFINE r == RoundSignificant(x, opts)
           t == SignificantText(x, r, opts)
           s == WithSign(r, x.negative)
<1>1. IsDigits(opts) /\ IsBounds(opts)
  BY ResolvedDigits, ResolvedBounds
<1>2. SignificantCandidate(x, opts).text = t /\ SignificantCandidate(x, opts).rounded = s
  BY DEF SignificantCandidate, Result
<1>3. r \in Decimal /\ ~r.negative
  BY <1>1, SignificantIsDecimal
<1> HIDE DEF r
<1>4. IsText(t, x.negative, r, opts) /\ SignificantBounds(t, opts)
  BY <1>1, <1>3, SignificantTextIs
<1>5. s.negative = x.negative /\ Abs(s) = r
  BY <1>3 DEF WithSign, Abs, Decimal
<1> HIDE DEF t, s
<1> QED
  BY <1>2, <1>4, <1>5

\* A value that is written as it is has no zero to trim.
LEMMA PlainIsWritten ==
  ASSUME NEW x \in Decimal, NEW opts, IsResolved(opts), CanUseRoundedString(x, opts)
  PROVE  LET t == Text(x.negative, PlainUnits(x), PlainScale(x),
                       IntegerDigits(PlainUnits(x), PlainScale(x)))
         IN  IsText(t, x.negative, Abs(x), opts) /\ FixedBounds(t, opts)
<1> DEFINE n == PlainUnits(x)
           s == PlainScale(x)
           w == IntegerDigits(n, s)
           t == Text(x.negative, n, s, w)
<1>1. t.negative = x.negative /\ t.units = n /\ t.scale = s /\ t.width = w
  BY DEF Text
<1>2. Abs(x) \in Decimal /\ ~Abs(x).negative /\ PlainUnits(Abs(x)) = n /\ PlainScale(Abs(x)) = s
  BY AbsOf DEF PlainUnits, PlainScale
<1>3. n \in Nat /\ s \in Nat /\ Cmp(NewDecimal(n, -s), Abs(x)) = 0
  <2> HIDE DEF n, s
  <2>1. /\ PlainUnits(Abs(x)) \in Nat /\ PlainScale(Abs(x)) \in Nat
        /\ Cmp(NewDecimal(PlainUnits(Abs(x)), -PlainScale(Abs(x))), Abs(x)) = 0
    BY <1>2, PlainSays
  <2> QED
    BY <1>2, <2>1
<1>4. /\ opts.minimumIntegerDigits = 1 /\ opts.minimumFractionDigits = 0
      /\ s <= opts.maximumFractionDigits
      /\ s > 0 => n % 10 # 0
  BY DEF CanUseRoundedString
<1> HIDE DEF n, s
<1>5. w \in Nat \ {0}
  <2>1. PowerOfTen[s] \in Nat \ {0}
    BY <1>3, PowerOfTenPositive
  <2>2. n \div PowerOfTen[s] \in Nat
    BY <1>3, <2>1, QuotientOf
  <2> QED
    BY <2>2, NumDigitsBounds DEF IntegerDigits
<1> HIDE DEF w, t
<1>6. IsText(t, x.negative, Abs(x), opts)
  BY <1>1, <1>3, <1>4, <1>5 DEF IsText, Says10
<1>7. FixedBounds(t, opts)
  BY <1>1, <1>3, <1>4 DEF FixedBounds
<1> QED
  BY <1>6, <1>7 DEF t, n, s, w

LEMMA ResultWritten ==
  ASSUME NEW x \in Decimal, NEW opts, IsResolved(opts)
  PROVE  LET result == FormatNumericToString(x, opts)
         IN  IsWritten(result.text, result.rounded, opts)
<1> DEFINE result == FormatNumericToString(x, opts)
           fixed == FixedCandidate(x, opts)
           last  == SignificantCandidate(x, opts)
<1> SUFFICES IsWritten(result.text, result.rounded, opts)
  OBVIOUS
<1>1. opts.roundingType \in RoundingTypes
  BY ResolvedDigits
<1>2. /\ IsText(fixed.text, fixed.rounded.negative, Abs(fixed.rounded), opts)
      /\ FixedBounds(fixed.text, opts)
  BY FixedIsWritten
<1>3. /\ IsText(last.text, last.rounded.negative, Abs(last.rounded), opts)
      /\ SignificantBounds(last.text, opts)
  BY SignificantIsWritten
<1>4. CASE CanUseRoundedString(x, opts)
  <2> DEFINE t == Text(x.negative, PlainUnits(x), PlainScale(x),
                       IntegerDigits(PlainUnits(x), PlainScale(x)))
  <2>1. result.text = t /\ result.rounded = x
    BY <1>4 DEF FormatNumericToString, Result
  <2>2. IsText(t, x.negative, Abs(x), opts) /\ FixedBounds(t, opts)
    BY <1>4, PlainIsWritten
  <2>3. opts.roundingType = "fractionDigits"
    BY <1>4, WrittenAsItIs
  <2> HIDE DEF t, result
  <2> QED
    BY <2>1, <2>2, <2>3 DEF IsWritten
<1>5. CASE ~CanUseRoundedString(x, opts) /\ opts.roundingType = "fractionDigits"
  <2>1. result = fixed
    BY <1>5 DEF FormatNumericToString, GeneralResult
  <2> HIDE DEF result, fixed
  <2> QED
    BY <1>2, <1>5, <2>1 DEF IsWritten
<1>6. CASE ~CanUseRoundedString(x, opts) /\ opts.roundingType = "significantDigits"
  <2>1. result = last
    BY <1>6 DEF FormatNumericToString, GeneralResult
  <2> HIDE DEF result, last
  <2> QED
    BY <1>3, <1>6, <2>1 DEF IsWritten
<1>7. CASE ~CanUseRoundedString(x, opts) /\ opts.roundingType \in {"morePrecision", "lessPrecision"}
  <2>1. result = fixed \/ result = last
    BY <1>7 DEF FormatNumericToString, GeneralResult, PriorityCandidate
  <2> HIDE DEF result, fixed, last
  <2> QED
    BY <1>2, <1>3, <1>7, <2>1 DEF IsWritten
<1> QED
  BY <1>1, <1>4, <1>5, <1>6, <1>7 DEF RoundingTypes

\* Units of nothing are none.
LEMMA ZeroUnits ==
  ASSUME NEW r \in Decimal, IsZero(r), NEW units \in Nat, NEW scale \in Nat,
         Cmp(NewDecimal(units, -scale), Abs(r)) = 0
  PROVE  units = 0
<1> DEFINE x == NewDecimal(units, -scale)
           u == LesserOf(-scale, r.exp)
<1>1. /\ Abs(r) \in Decimal /\ Abs(r).coeff = 0 /\ Abs(r).exp = r.exp /\ ~Abs(r).negative
      /\ r.exp \in Int /\ -scale \in Int
  BY AbsOf DEF IsZero
<1>2. u \in Int /\ u <= -scale /\ u <= r.exp
  BY <1>1, Lesser
<1> HIDE DEF u
<1>3. x \in Decimal /\ x.exp = -scale /\ SignedUnits(x, u) = units * PowerOfTen[-scale - u]
  <2>1. SignedUnits(x, u) = units * PowerOfTen[-scale - u] /\ x \in Decimal
    BY <1>1, <1>2, UnitsOfNew
  <2> QED
    BY <2>1 DEF NewDecimal
<1>4. Cmp(x, Abs(r)) = 0
  OBVIOUS
<1> HIDE DEF x
<1>5. SignedUnits(x, u) = SignedUnits(Abs(r), u)
  BY <1>1, <1>2, <1>3, <1>4, CmpInUnits
<1>6. SignedUnits(Abs(r), u) = 0
  <2>1. r.exp - u \in Nat
    BY <1>1, <1>2
  <2>2. PowerOfTen[r.exp - u] \in Nat
    BY <2>1, PowerOfTenPositive
  <2>3. Units(Abs(r), u) = 0
    BY <1>1, <2>2 DEF Units
  <2> QED
    BY <1>1, <2>3 DEF SignedUnits
<1>7. -scale - u \in Nat
  BY <1>1, <1>2
<1>8. PowerOfTen[-scale - u] \in Nat \ {0}
  BY <1>7, PowerOfTenPositive
<1> QED
  BY <1>3, <1>5, <1>6, <1>8

-------------------------------------------------------------------------------
(* Order. *)

\* Rounded alike, a larger integer never becomes smaller: no mode lets two values
\* between the same neighbours change sides.
LEMMA RoundingKeepsOrder ==
  ASSUME NEW x \in Int, NEW y \in Int, x <= y, NEW r \in Int, NEW s \in Int,
         NEW step \in Nat \ {0}, NEW mode \in RoundingModes,
         RoundsTo(x, r, step, mode), RoundsTo(y, s, step, mode)
  PROVE  r <= s
<1> SUFFICES ASSUME s < r PROVE FALSE
  OBVIOUS
<1>1. r % step = 0 /\ Magnitude(r - x) < step /\ s % step = 0 /\ Magnitude(s - y) < step
  BY DEF RoundsTo
<1>2. r < x + step /\ x < r + step /\ s < y + step /\ y < s + step
  BY <1>1 DEF Magnitude
<1>3. PICK a \in Int : r = a * step
  BY <1>1, MultipleIsProduct
<1>4. PICK b \in Int : s = b * step
  BY <1>1, MultipleIsProduct
<1>5. a = b + 1
  <2>1. b < a
    BY <1>3, <1>4, FactorKeepsOrder
  <2>2. (b + 2) * step = s + 2 * step
    BY <1>4
  <2>3. a * step < (b + 2) * step
    BY <1>2, <1>3, <2>2
  <2>4. a < b + 2
    BY <2>3, FactorKeepsOrder
  <2> QED
    BY <2>1, <2>4
<1>6. r = s + step
  BY <1>3, <1>4, <1>5
<1>7. s < x /\ y < r
  BY <1>2, <1>6
<1>8. s >= 0 \/ r <= 0
  <2>1. CASE b >= 0
    <3>1. 0 * step <= b * step
      BY <2>1
    <3> QED
      BY <1>4, <3>1
  <2>2. CASE b < 0
    <3>1. \A n \in Nat : -n * step <= 0
      OBVIOUS
    <3>2. -a \in Nat /\ a = -(-a)
      BY <1>5, <2>2
    <3> QED
      BY <1>3, <3>1, <3>2
  <2> QED
    BY <2>1, <2>2
<1>9. ByMode(x, r, step) /\ ByMode(y, s, step)
  BY RoundsToByMode
<1>10. CASE mode \in {"ceil", "floor", "expand", "trunc"}
  <2>1. /\ mode = "ceil" => s >= y
        /\ mode = "floor" => r <= x
        /\ mode = "expand" => Magnitude(r) >= Magnitude(x) /\ Magnitude(s) >= Magnitude(y)
        /\ mode = "trunc" => Magnitude(r) <= Magnitude(x) /\ Magnitude(s) <= Magnitude(y)
    BY <1>9 DEF ByMode
  <2> QED
    BY <1>7, <1>8, <1>10, <2>1 DEF Magnitude
<1>11. CASE mode \notin {"ceil", "floor", "expand", "trunc"}
  <2>1. 2 * Magnitude(r - x) <= step /\ 2 * Magnitude(s - y) <= step
    BY <1>9, <1>11 DEF ByMode, RoundingModes
  <2>2. x = y /\ 2 * Magnitude(r - x) = step /\ 2 * Magnitude(s - y) = step
    BY <1>6, <1>7, <2>1 DEF Magnitude
  <2>3. /\ mode = "halfCeil" => s > y
        /\ mode = "halfFloor" => r < x
        /\ mode = "halfExpand" => Magnitude(r) > Magnitude(x) /\ Magnitude(s) > Magnitude(y)
        /\ mode = "halfTrunc" => Magnitude(r) < Magnitude(x) /\ Magnitude(s) < Magnitude(y)
        /\ mode = "halfEven" => (r \div step) % 2 = 0 /\ (s \div step) % 2 = 0
    BY <1>9, <2>2 DEF ByMode
  <2>4. r \div step = a /\ s \div step = b
    BY <1>3, <1>4, Multiple
  <2>5. ~((a % 2) = 0 /\ (b % 2) = 0)
    BY <1>5
  <2>6. mode # "halfEven"
    BY <2>3, <2>4, <2>5
  <2> QED
    BY <1>7, <1>8, <1>11, <2>2, <2>3, <2>6 DEF Magnitude, RoundingModes
<1> QED
  BY <1>10, <1>11

\* A value rounds to one multiple.
LEMMA RoundsToOne ==
  ASSUME NEW x \in Int, NEW r \in Int, NEW s \in Int, NEW step \in Nat \ {0},
         NEW mode \in RoundingModes, RoundsTo(x, r, step, mode), RoundsTo(x, s, step, mode)
  PROVE  r = s
<1>1. x <= x
  OBVIOUS
<1>2. r <= s
  BY <1>1, RoundingKeepsOrder
<1>3. s <= r
  BY <1>1, RoundingKeepsOrder
<1> QED
  BY <1>2, <1>3

\* The place of the last digit that a value which is not zero is rounded to.
RoundingPlace(d, opts) ==
  CASE opts.roundingType = "fractionDigits"    -> -opts.maximumFractionDigits
    [] opts.roundingType = "significantDigits" -> SignificantPlace(d, opts)
    [] opts.roundingType = "morePrecision"     ->
         LesserOf(-opts.maximumFractionDigits, SignificantPlace(d, opts))
    [] opts.roundingType = "lessPrecision"     ->
         GreaterOf(-opts.maximumFractionDigits, SignificantPlace(d, opts))

\* d is rounded to r at a place, in any units fine enough.
RoundedAt(d, r, increment, place, mode) ==
  \A u \in Int : u <= place /\ u <= d.exp =>
    /\ u <= r.exp
    /\ RoundsTo(SignedUnits(d, u), SignedUnits(r, u), increment * PowerOfTen[place - u], mode)

\* A value without digits beyond a place is a multiple of that place.
LEMMA MultipleOfPlace ==
  ASSUME NEW d \in Decimal, NEW place \in Int, place <= d.exp, NEW u \in Int, u <= place
  PROVE  SignedUnits(d, u) \in Int /\ SignedUnits(d, u) % PowerOfTen[place - u] = 0
<1>1. /\ SignedUnits(d, place) \in Int
      /\ PowerOfTen[place - u] \in Nat \ {0}
      /\ SignedUnits(d, u) = SignedUnits(d, place) * PowerOfTen[place - u]
  BY UnitsRescaled
<1>2. (SignedUnits(d, place) * PowerOfTen[place - u]) % PowerOfTen[place - u] = 0
  BY <1>1, Multiple
<1> QED
  BY <1>1, <1>2

\* Rounded to significant digits, or left alone for having no more of them, a
\* value is rounded at the place of its last significant digit.
LEMMA SignificantAtPlace ==
  ASSUME NEW d \in Decimal, ~IsZero(d), NEW opts, IsDigits(opts)
  PROVE  LET s == SignificantCandidate(d, opts).rounded
         IN  /\ s \in Decimal /\ s.negative = d.negative /\ SignificantPlace(d, opts) \in Int
             /\ RoundedAt(d, s, 1, SignificantPlace(d, opts), opts.roundingMode)
<1> DEFINE s == SignificantCandidate(d, opts).rounded
           place == SignificantPlace(d, opts)
           mode == opts.roundingMode
<1>1. /\ s \in Decimal /\ s.negative = d.negative /\ (s = d \/ s.exp = place)
      /\ KeepsAll(d, opts) => s = d
      /\ ~KeepsAll(d, opts) =>
           \A u \in Int : u <= place /\ u <= d.exp =>
             RoundsTo(SignedUnits(d, u), SignedUnits(s, u), PowerOfTen[place - u], mode)
  BY SignificantRounds
<1>2. place \in Int
  <2>1. Log10Floor(d) \in Int
    BY LeadingTyped
  <2> QED
    BY <2>1 DEF SignificantPlace, IsDigits
<1>3. KeepsAll(d, opts) => place <= d.exp
  <2>1. opts.maximumSignificantDigits \in Nat
    BY DEF IsDigits
  <2> QED
    BY <2>1, FewDigits DEF KeepsAll
<1>4. mode \in RoundingModes /\ d.exp \in Int
  BY DEF IsDigits, Decimal
<1> HIDE DEF s, place, mode
<1>5. ASSUME NEW u \in Int, u <= place, u <= d.exp
      PROVE  /\ u <= s.exp
             /\ RoundsTo(SignedUnits(d, u), SignedUnits(s, u), 1 * PowerOfTen[place - u], mode)
  <2>1. place - u \in Nat
    BY <1>2, <1>5
  <2>2. PowerOfTen[place - u] \in Nat \ {0} /\ 1 * PowerOfTen[place - u] = PowerOfTen[place - u]
    BY <2>1, PowerOfTenPositive
  <2>3. u <= s.exp
    BY <1>1, <1>5
  <2>4. ASSUME KeepsAll(d, opts)
        PROVE  RoundsTo(SignedUnits(d, u), SignedUnits(s, u), PowerOfTen[place - u], mode)
    <3>1. SignedUnits(d, u) \in Int /\ SignedUnits(d, u) % PowerOfTen[place - u] = 0
      BY <1>2, <1>3, <1>5, <2>4, MultipleOfPlace
    <3>2. s = d
      BY <1>1, <2>4
    <3> QED
      BY <1>4, <2>2, <3>1, <3>2, MultipleRounds
  <2> QED
    BY <1>1, <1>5, <2>2, <2>3, <2>4
<1>6. RoundedAt(d, s, 1, place, mode)
  BY <1>5 DEF RoundedAt
<1> QED
  BY <1>1, <1>2, <1>6 DEF s, place, mode

LEMMA FixedAtPlace ==
  ASSUME NEW d \in Decimal, NEW opts, IsDigits(opts)
  PROVE  LET f == FixedCandidate(d, opts).rounded
         IN  /\ f \in Decimal /\ f.negative = d.negative /\ -opts.maximumFractionDigits \in Int
             /\ RoundedAt(d, f, opts.roundingIncrement, -opts.maximumFractionDigits, opts.roundingMode)
<1> DEFINE f == FixedCandidate(d, opts).rounded
           last == -opts.maximumFractionDigits
<1>1. /\ f \in Decimal /\ f.negative = d.negative /\ (f = d \/ f.exp = last)
      /\ \A u \in Int : u <= last /\ u <= d.exp =>
           RoundsTo(SignedUnits(d, u), SignedUnits(f, u),
                    opts.roundingIncrement * PowerOfTen[last - u], opts.roundingMode)
  BY FixedRounds
<1>2. last \in Int
  BY DEF IsDigits
<1> HIDE DEF f, last
<1>3. RoundedAt(d, f, opts.roundingIncrement, last, opts.roundingMode)
  BY <1>1 DEF RoundedAt
<1> QED
  BY <1>1, <1>2, <1>3 DEF f, last

\* Where the code chooses between both kinds of digits it compares the places of
\* the last digits, although a carry moves one of them.
LEMMA ChosenByPlace ==
  ASSUME NEW d \in Decimal, ~IsZero(d), NEW opts, IsDigits(opts), opts.maximumSignificantDigits >= 1
  PROVE  /\ MorePreciseFixed(d, opts) => -opts.maximumFractionDigits <= SignificantPlace(d, opts)
         /\ ~MorePreciseFixed(d, opts) => SignificantPlace(d, opts) <= -opts.maximumFractionDigits
<1> DEFINE place == SignificantPlace(d, opts)
           last == -opts.maximumFractionDigits
           magnitude == SignificantRoundingMagnitude(RoundSignificant(d, opts), opts)
<1>1. place \in Int /\ last \in Int /\ opts.maximumSignificantDigits \in Nat
  BY FixedAtPlace, SignificantAtPlace DEF IsDigits
<1>2. MorePreciseFixed(d, opts) <=> last < magnitude
  BY DEF MorePreciseFixed
<1>3. magnitude \in {place, place + 1}
  <2>1. Log10Floor(d) \in Int
    BY LeadingTyped
  <2>2. CASE KeepsAll(d, opts)
    <3>1. RoundSignificant(d, opts) = Abs(d)
      BY <2>2 DEF KeepsAll, RoundSignificant
    <3>2. ~IsZero(Abs(d)) /\ Log10Floor(Abs(d)) = Log10Floor(d)
      BY AbsOf
    <3> QED
      BY <3>1, <3>2 DEF SignificantRoundingMagnitude, SignificantPlace
  <2>3. CASE ~KeepsAll(d, opts)
    <3>1. /\ ~IsZero(RoundSignificant(d, opts))
          /\ Log10Floor(RoundSignificant(d, opts)) \in {Log10Floor(d), Log10Floor(d) + 1}
      BY <2>3, SignificantLeads
    <3> QED
      BY <1>1, <2>1, <3>1 DEF SignificantRoundingMagnitude, SignificantPlace
  <2> QED
    BY <2>2, <2>3
<1> HIDE DEF place, last, magnitude
<1> QED
  BY <1>1, <1>2, <1>3 DEF place, last

\* Rounded at one place, decimals keep their order.
LEMMA PlaceKeepsOrder ==
  ASSUME NEW x \in Decimal, NEW y \in Decimal, NEW r \in Decimal, NEW s \in Decimal,
         NEW increment \in Nat \ {0}, NEW place \in Int, NEW mode \in RoundingModes,
         RoundedAt(x, r, increment, place, mode), RoundedAt(y, s, increment, place, mode),
         Cmp(x, y) <= 0
  PROVE  Cmp(r, s) <= 0
<1> DEFINE u == LesserOf(place, LesserOf(x.exp, y.exp))
<1>1. x.exp \in Int /\ y.exp \in Int
  BY DEF Decimal
<1>2. u \in Int /\ u <= place /\ u <= x.exp /\ u <= y.exp
  BY <1>1, LeastOfThree
<1> HIDE DEF u
<1> DEFINE step == increment * PowerOfTen[place - u]
<1>3. /\ u <= r.exp /\ RoundsTo(SignedUnits(x, u), SignedUnits(r, u), step, mode)
      /\ u <= s.exp /\ RoundsTo(SignedUnits(y, u), SignedUnits(s, u), step, mode)
  BY <1>2 DEF RoundedAt
<1>4. SignedUnits(x, u) \in Int /\ SignedUnits(r, u) \in Int
      /\ SignedUnits(y, u) \in Int /\ SignedUnits(s, u) \in Int
  BY <1>2, <1>3, UnitsRescaled
<1>5. step \in Nat \ {0}
  <2>1. place - u \in Nat
    BY <1>2
  <2>2. PowerOfTen[place - u] \in Nat \ {0}
    BY <2>1, PowerOfTenPositive
  <2> QED
    BY <2>2
<1> HIDE DEF step
<1>6. /\ Cmp(x, y) \in Int /\ (Cmp(x, y) > 0 <=> SignedUnits(x, u) > SignedUnits(y, u))
      /\ Cmp(r, s) \in Int /\ (Cmp(r, s) > 0 <=> SignedUnits(r, u) > SignedUnits(s, u))
  BY <1>2, <1>3, CmpInUnits
<1>7. SignedUnits(x, u) <= SignedUnits(y, u)
  BY <1>4, <1>6
<1>8. SignedUnits(r, u) <= SignedUnits(s, u)
  BY <1>3, <1>4, <1>5, <1>7, RoundingKeepsOrder
<1> QED
  BY <1>4, <1>6, <1>8

\* A value rounded with its sign is near in magnitude, at a multiple of the step.
LEMMA MagnitudeRounds ==
  ASSUME NEW n \in Nat, NEW m \in Nat, NEW step \in Nat \ {0}, NEW mode, NEW negative \in BOOLEAN,
         RoundsTo(IF negative THEN -n ELSE n, IF negative THEN -m ELSE m, step, mode)
  PROVE  m % step = 0 /\ Magnitude(m - n) < step
<1>1. CASE negative = FALSE
  BY <1>1 DEF RoundsTo
<1>2. CASE negative = TRUE
  <2>1. (-m) % step = 0 /\ Magnitude(-m - (-n)) < step
    BY <1>2 DEF RoundsTo
  <2>2. PICK q \in Int : -m = q * step
    BY <2>1, MultipleIsProduct
  <2>3. -q \in Int /\ m = (-q) * step
    <3>1. \A k \in Int : (-k) * step = -(k * step)
      OBVIOUS
    <3> QED
      BY <2>2, <3>1
  <2>4. m % step = 0
    BY <2>3, MultipleIsProduct
  <2>5. Magnitude(m - n) = Magnitude(-m - (-n))
    BY DEF Magnitude
  <2> QED
    BY <2>1, <2>4, <2>5
<1> QED
  BY <1>1, <1>2

\* What RoundedAt says of magnitudes.
LEMMA PlaceMagnitude ==
  ASSUME NEW x \in Decimal, NEW r \in Decimal, r.negative = x.negative,
         NEW place \in Int, NEW mode, RoundedAt(x, r, 1, place, mode),
         NEW u \in Int, u <= place, u <= x.exp
  PROVE  /\ u <= r.exp /\ Units(x, u) \in Nat /\ Units(r, u) \in Nat
         /\ PowerOfTen[place - u] \in Nat \ {0}
         /\ Units(r, u) % PowerOfTen[place - u] = 0
         /\ Magnitude(Units(r, u) - Units(x, u)) < PowerOfTen[place - u]
<1>1. place - u \in Nat
  OBVIOUS
<1>2. PowerOfTen[place - u] \in Nat \ {0} /\ 1 * PowerOfTen[place - u] = PowerOfTen[place - u]
  BY <1>1, PowerOfTenPositive
<1>3. u <= r.exp /\ RoundsTo(SignedUnits(x, u), SignedUnits(r, u), 1 * PowerOfTen[place - u], mode)
  BY DEF RoundedAt
<1>4. Units(x, u) \in Nat /\ Units(r, u) \in Nat
  BY <1>3, UnitsRescaled
<1>5. x.negative \in BOOLEAN
  BY DEF Decimal
<1>6. RoundsTo(IF x.negative THEN -Units(x, u) ELSE Units(x, u),
               IF x.negative THEN -Units(r, u) ELSE Units(r, u), PowerOfTen[place - u], mode)
  BY <1>2, <1>3 DEF SignedUnits
<1>7. /\ Units(r, u) % PowerOfTen[place - u] = 0
      /\ Magnitude(Units(r, u) - Units(x, u)) < PowerOfTen[place - u]
  BY <1>2, <1>4, <1>5, <1>6, MagnitudeRounds
<1> QED
  BY <1>2, <1>3, <1>4, <1>7

\* The power of ten between two decades is not crossed from either side.
LEMMA DecadeKeepsOrder ==
  ASSUME NEW x \in Decimal, NEW y \in Decimal, ~IsZero(x), ~IsZero(y),
         Log10Floor(x) < Log10Floor(y),
         NEW r \in Decimal, NEW s \in Decimal, r.negative = x.negative, s.negative = y.negative,
         NEW p \in Int, NEW q \in Int, p <= Log10Floor(y), q <= Log10Floor(y), NEW mode,
         RoundedAt(x, r, 1, p, mode), RoundedAt(y, s, 1, q, mode)
  PROVE  \E u \in Int : /\ u <= r.exp /\ u <= s.exp
                        /\ Units(r, u) \in Nat /\ Units(s, u) \in Nat /\ Units(r, u) <= Units(s, u)
<1> DEFINE u == LesserOf(LesserOf(p, q), LesserOf(x.exp, y.exp))
           low == Log10Floor(x) - u
           high == Log10Floor(y) - u
           t == PowerOfTen[high]
<1>1. x.exp \in Int /\ y.exp \in Int
  BY DEF Decimal
<1>2. u \in Int /\ u <= p /\ u <= q /\ u <= x.exp /\ u <= y.exp
  <2>1. LesserOf(p, q) \in Int /\ LesserOf(p, q) <= p /\ LesserOf(p, q) <= q
    BY Lesser
  <2> HIDE DEF LesserOf
  <2>2. u \in Int /\ u <= LesserOf(p, q) /\ u <= x.exp /\ u <= y.exp
    BY <1>1, <2>1, LeastOfThree
  <2> QED
    BY <2>1, <2>2
<1> HIDE DEF u
<1>3. /\ u <= r.exp /\ Units(x, u) \in Nat /\ Units(r, u) \in Nat
      /\ PowerOfTen[p - u] \in Nat \ {0} /\ Units(r, u) % PowerOfTen[p - u] = 0
      /\ Magnitude(Units(r, u) - Units(x, u)) < PowerOfTen[p - u]
  BY <1>2, PlaceMagnitude
<1>4. /\ u <= s.exp /\ Units(y, u) \in Nat /\ Units(s, u) \in Nat
      /\ PowerOfTen[q - u] \in Nat \ {0} /\ Units(s, u) % PowerOfTen[q - u] = 0
      /\ Magnitude(Units(s, u) - Units(y, u)) < PowerOfTen[q - u]
  BY <1>2, PlaceMagnitude
<1>5. /\ Log10Floor(x) \in Int /\ x.exp <= Log10Floor(x) /\ Units(x, u) < PowerOfTen[low + 1]
      /\ Log10Floor(y) \in Int /\ y.exp <= Log10Floor(y)
      /\ PowerOfTen[high] <= Units(y, u) /\ Units(y, u) < PowerOfTen[high + 1]
  BY <1>2, LeadingDigit
<1>6. /\ low \in Nat /\ low + 1 \in Nat /\ high \in Nat /\ high + 1 \in Nat /\ low + 1 <= high
      /\ p - u \in Nat /\ q - u \in Nat /\ p - u <= high /\ q - u <= high /\ q - u <= high + 1
  BY <1>1, <1>2, <1>5
<1> HIDE DEF low, high
<1>7. t \in Nat /\ PowerOfTen[high + 1] \in Nat /\ PowerOfTen[low + 1] \in Nat
      /\ PowerOfTen[low + 1] <= t
  BY <1>6, PowerOfTenPositive, PowersOrdered
<1>8. t % PowerOfTen[p - u] = 0 /\ t % PowerOfTen[q - u] = 0
      /\ PowerOfTen[high + 1] % PowerOfTen[q - u] = 0
  BY <1>6, PowerIsMultiple
<1>9. 0 \in Nat /\ 0 % PowerOfTen[p - u] = 0
  <2>1. \A b \in Nat \ {0} : 0 % b = 0
    BY DivisionUnique
  <2> QED
    BY <1>3, <2>1
<1>10. /\ Units(x, u) <= t /\ 0 <= Units(x, u) /\ t <= Units(y, u)
       /\ Units(y, u) <= PowerOfTen[high + 1]
  BY <1>3, <1>4, <1>5, <1>7
<1> HIDE DEF t
<1> DEFINE a == Units(x, u)
           b == Units(r, u)
           c == Units(y, u)
           d == Units(s, u)
           g == PowerOfTen[p - u]
           h == PowerOfTen[q - u]
           top == PowerOfTen[high + 1]
<1>11. b <= t
  <2>1. a \in Nat /\ b \in Nat /\ g \in Nat \ {0} /\ b % g = 0 /\ Magnitude(b - a) < g
    BY <1>3
  <2>2. 0 \in Nat /\ t \in Nat /\ 0 % g = 0 /\ t % g = 0 /\ 0 <= a /\ a <= t
    BY <1>7, <1>8, <1>9, <1>10
  <2> HIDE DEF a, b, g
  <2> QED
    BY <2>1, <2>2, RoundedBetween
<1>12. t <= d
  <2>1. c \in Nat /\ d \in Nat /\ h \in Nat \ {0} /\ d % h = 0 /\ Magnitude(d - c) < h
    BY <1>4
  <2>2. top \in Nat /\ t \in Nat /\ top % h = 0 /\ t % h = 0 /\ t <= c /\ c <= top
    BY <1>7, <1>8, <1>10
  <2> HIDE DEF c, d, h, top
  <2> QED
    BY <2>1, <2>2, RoundedBetween
<1>13. Units(r, u) <= Units(s, u)
  BY <1>3, <1>4, <1>7, <1>11, <1>12
<1> QED
  BY <1>2, <1>3, <1>4, <1>13

\* Which kind of digits the result has.
LEMMA GeneralIs ==
  ASSUME NEW d, NEW opts, opts.roundingType \in RoundingTypes
  PROVE  GeneralResult(d, opts) =
           IF \/ opts.roundingType = "fractionDigits"
              \/ opts.roundingType = "morePrecision" /\ MorePreciseFixed(d, opts)
              \/ opts.roundingType = "lessPrecision" /\ ~MorePreciseFixed(d, opts)
           THEN FixedCandidate(d, opts) ELSE SignificantCandidate(d, opts)
<1>1. MorePreciseFixed(d, opts) \in BOOLEAN
  BY DEF MorePreciseFixed
<1>2. CASE opts.roundingType = "fractionDigits"
  BY <1>2 DEF GeneralResult
<1>3. CASE opts.roundingType = "significantDigits"
  BY <1>3 DEF GeneralResult
<1>4. CASE opts.roundingType = "morePrecision"
  BY <1>1, <1>4 DEF GeneralResult, PriorityCandidate
<1>5. CASE opts.roundingType = "lessPrecision"
  BY <1>1, <1>5 DEF GeneralResult, PriorityCandidate
<1> QED
  BY <1>2, <1>3, <1>4, <1>5 DEF RoundingTypes

\* Whatever kind of digits is chosen, a value is rounded at its rounding place.
LEMMA GeneralAtPlace ==
  ASSUME NEW d \in Decimal, ~IsZero(d), NEW opts, IsResolved(opts)
  PROVE  LET r == GeneralResult(d, opts).rounded
         IN  /\ r \in Decimal /\ r.negative = d.negative /\ RoundingPlace(d, opts) \in Int
             /\ RoundedAt(d, r, opts.roundingIncrement, RoundingPlace(d, opts), opts.roundingMode)
<1> DEFINE r == GeneralResult(d, opts).rounded
           f == FixedCandidate(d, opts).rounded
           s == SignificantCandidate(d, opts).rounded
           last == -opts.maximumFractionDigits
           place == SignificantPlace(d, opts)
           Fixed == \/ opts.roundingType = "fractionDigits"
                    \/ opts.roundingType = "morePrecision" /\ MorePreciseFixed(d, opts)
                    \/ opts.roundingType = "lessPrecision" /\ ~MorePreciseFixed(d, opts)
<1>1. /\ IsDigits(opts) /\ opts.roundingType \in RoundingTypes
      /\ opts.roundingType # "fractionDigits" =>
           opts.roundingIncrement = 1 /\ opts.maximumSignificantDigits >= 1
  BY ResolvedDigits
<1>2. /\ f \in Decimal /\ f.negative = d.negative /\ last \in Int
      /\ RoundedAt(d, f, opts.roundingIncrement, last, opts.roundingMode)
  BY <1>1, FixedAtPlace
<1>3. /\ s \in Decimal /\ s.negative = d.negative /\ place \in Int
      /\ RoundedAt(d, s, 1, place, opts.roundingMode)
  BY <1>1, SignificantAtPlace
<1>4. opts.roundingType # "fractionDigits" =>
        /\ MorePreciseFixed(d, opts) => last <= place
        /\ ~MorePreciseFixed(d, opts) => place <= last
  BY <1>1, ChosenByPlace
<1>5. r = IF Fixed THEN f ELSE s
  BY <1>1, GeneralIs
<1>6. RoundingPlace(d, opts) = IF Fixed THEN last ELSE place
  <2>1. RoundingPlace(d, opts) =
          CASE opts.roundingType = "fractionDigits"    -> last
            [] opts.roundingType = "significantDigits" -> place
            [] opts.roundingType = "morePrecision"     -> LesserOf(last, place)
            [] opts.roundingType = "lessPrecision"     -> GreaterOf(last, place)
    BY DEF RoundingPlace
  <2>2. last <= place => LesserOf(last, place) = last /\ GreaterOf(last, place) = place
    BY <1>2, <1>3 DEF LesserOf, GreaterOf
  <2>3. place <= last => LesserOf(last, place) = place /\ GreaterOf(last, place) = last
    BY <1>2, <1>3 DEF LesserOf, GreaterOf
  <2> HIDE DEF last, place
  <2> QED
    BY <1>1, <1>4, <2>1, <2>2, <2>3 DEF RoundingTypes
<1> HIDE DEF r, f, s, last, place
<1>7. r \in Decimal /\ r.negative = d.negative /\ RoundingPlace(d, opts) \in Int
      /\ RoundedAt(d, r, opts.roundingIncrement, RoundingPlace(d, opts), opts.roundingMode)
  <2>1. CASE Fixed
    BY <1>2, <1>5, <1>6, <2>1
  <2>2. CASE ~Fixed
    BY <1>1, <1>3, <1>5, <1>6, <2>2
  <2> QED
    BY <2>1, <2>2
<1> QED
  BY <1>7 DEF r

\* A zero is rounded to a zero of its sign.
LEMMA CandidatesOfZero ==
  ASSUME NEW d \in Decimal, IsZero(d), NEW opts, IsDigits(opts)
  PROVE  /\ FixedCandidate(d, opts).rounded \in Decimal /\ IsZero(FixedCandidate(d, opts).rounded)
         /\ FixedCandidate(d, opts).rounded.negative = d.negative
         /\ SignificantCandidate(d, opts).rounded = d
<1> DEFINE f == FixedCandidate(d, opts).rounded
           last == -opts.maximumFractionDigits
           u == LesserOf(last, d.exp)
<1>1. /\ f \in Decimal /\ f.negative = d.negative /\ last \in Int
      /\ RoundedAt(d, f, opts.roundingIncrement, last, opts.roundingMode)
  BY FixedAtPlace
<1>2. d.exp \in Int /\ d.coeff = 0
  BY DEF Decimal, IsZero
<1>3. u \in Int /\ u <= last /\ u <= d.exp
  BY <1>1, <1>2, Lesser
<1> HIDE DEF f, last, u
<1>4. last - u \in Nat /\ d.exp - u \in Nat
  BY <1>1, <1>2, <1>3
<1>5. PowerOfTen[last - u] \in Nat \ {0} /\ PowerOfTen[d.exp - u] \in Nat
  BY <1>4, PowerOfTenPositive
<1>6. opts.roundingIncrement \in Nat \ {0} /\ opts.roundingMode \in RoundingModes
  BY DEF IsDigits, RoundingIncrements
<1>7. opts.roundingIncrement * PowerOfTen[last - u] \in Nat \ {0}
  BY <1>5, <1>6
<1>8. SignedUnits(d, u) = 0
  BY <1>2, <1>5 DEF SignedUnits, Units
<1>9. u <= f.exp
      /\ RoundsTo(0, SignedUnits(f, u), opts.roundingIncrement * PowerOfTen[last - u], opts.roundingMode)
  BY <1>1, <1>3, <1>8 DEF RoundedAt
<1>10. SignedUnits(f, u) \in Int /\ Units(f, u) \in Nat /\ f.exp - u \in Nat
  <2>1. f.exp \in Int
    BY <1>1 DEF Decimal
  <2> QED
    BY <1>1, <1>3, <1>9, <2>1, UnitsRescaled
<1>11. SignedUnits(f, u) = 0
  BY <1>7, <1>9, <1>10, ZeroStaysZero
<1>12. Units(f, u) = 0
  BY <1>10, <1>11 DEF SignedUnits
<1>13. IsZero(f)
  <2>1. f.coeff \in Nat /\ PowerOfTen[f.exp - u] \in Nat \ {0}
    BY <1>1, <1>10, PowerOfTenPositive DEF Decimal
  <2>2. f.coeff * PowerOfTen[f.exp - u] = 0
    BY <1>12 DEF Units
  <2> QED
    BY <2>1, <2>2 DEF IsZero
<1>14. KeepsAll(d, opts)
  BY DEF KeepsAll
<1>15. SignificantCandidate(d, opts).rounded = d
  BY <1>14, SignificantRounds
<1> QED
  BY <1>1, <1>13, <1>15 DEF f

LEMMA GeneralOfZero ==
  ASSUME NEW d \in Decimal, IsZero(d), NEW opts, IsResolved(opts)
  PROVE  LET r == GeneralResult(d, opts).rounded
         IN  r \in Decimal /\ r.negative = d.negative /\ IsZero(r)
<1>1. IsDigits(opts) /\ opts.roundingType \in RoundingTypes
  BY ResolvedDigits
<1>2. /\ FixedCandidate(d, opts).rounded \in Decimal /\ IsZero(FixedCandidate(d, opts).rounded)
      /\ FixedCandidate(d, opts).rounded.negative = d.negative
      /\ SignificantCandidate(d, opts).rounded = d
  BY <1>1, CandidatesOfZero
<1>3. GeneralResult(d, opts) \in {FixedCandidate(d, opts), SignificantCandidate(d, opts)}
  BY <1>1, GeneralIs
<1> QED
  BY <1>2, <1>3

\* The value that is written as it is is rounded at the same place.
LEMMA ResultAtPlace ==
  ASSUME NEW d \in Decimal, ~IsZero(d), NEW opts, IsResolved(opts)
  PROVE  LET r == FormatNumericToString(d, opts).rounded
         IN  /\ r \in Decimal /\ r.negative = d.negative /\ RoundingPlace(d, opts) \in Int
             /\ RoundedAt(d, r, opts.roundingIncrement, RoundingPlace(d, opts), opts.roundingMode)
<1> DEFINE place == RoundingPlace(d, opts)
<1>1. CASE ~CanUseRoundedString(d, opts)
  BY <1>1, GeneralAtPlace DEF FormatNumericToString
<1>2. CASE CanUseRoundedString(d, opts)
  <2>1. FormatNumericToString(d, opts).rounded = d
    BY <1>2 DEF FormatNumericToString, Result
  <2>2. opts.roundingType = "fractionDigits" /\ opts.roundingIncrement = 1
        /\ opts.roundingMode \in RoundingModes /\ opts.maximumFractionDigits \in Nat
    BY <1>2, WrittenAsItIs, ResolvedDigits DEF CanUseRoundedString, IsDigits
  <2>3. place = -opts.maximumFractionDigits
    BY <2>2 DEF RoundingPlace
  <2>4. place \in Int /\ place <= d.exp /\ d.exp \in Int
    <3>1. d.exp \in Int
      BY DEF Decimal
    <3>2. PlainScale(d) <= opts.maximumFractionDigits
      BY <1>2 DEF CanUseRoundedString
    <3> QED
      BY <2>2, <2>3, <3>1, <3>2 DEF PlainScale, GreaterOf
  <2> HIDE DEF place
  <2>5. ASSUME NEW u \in Int, u <= place, u <= d.exp
        PROVE  RoundsTo(SignedUnits(d, u), SignedUnits(d, u),
                        opts.roundingIncrement * PowerOfTen[place - u], opts.roundingMode)
    <3>1. SignedUnits(d, u) \in Int /\ SignedUnits(d, u) % PowerOfTen[place - u] = 0
      BY <2>4, <2>5, MultipleOfPlace
    <3>2. place - u \in Nat
      BY <2>4, <2>5
    <3>3. PowerOfTen[place - u] \in Nat \ {0}
          /\ opts.roundingIncrement * PowerOfTen[place - u] = PowerOfTen[place - u]
      BY <2>2, <3>2, PowerOfTenPositive
    <3> QED
      BY <2>2, <3>1, <3>3, MultipleRounds
  <2>6. RoundedAt(d, d, opts.roundingIncrement, place, opts.roundingMode)
    BY <2>5 DEF RoundedAt
  <2> QED
    BY <2>1, <2>4, <2>6 DEF place
<1> QED
  BY <1>1, <1>2

LEMMA ResultOfZero ==
  ASSUME NEW d \in Decimal, IsZero(d), NEW opts, IsResolved(opts)
  PROVE  LET r == FormatNumericToString(d, opts).rounded
         IN  r \in Decimal /\ r.negative = d.negative /\ IsZero(r)
BY GeneralOfZero DEF FormatNumericToString, Result

\* The place does not become smaller from one decade to the next, and a place
\* that becomes larger is one that the larger value reaches.
LEMMA PlaceGrows ==
  ASSUME NEW x \in Decimal, NEW y \in Decimal, ~IsZero(x), ~IsZero(y), NEW opts, IsResolved(opts)
  PROVE  /\ Log10Floor(x) = Log10Floor(y) => RoundingPlace(x, opts) = RoundingPlace(y, opts)
         /\ Log10Floor(x) < Log10Floor(y) /\ RoundingPlace(x, opts) # RoundingPlace(y, opts) =>
              /\ opts.roundingType # "fractionDigits"
              /\ RoundingPlace(x, opts) <= RoundingPlace(y, opts)
              /\ RoundingPlace(y, opts) <= Log10Floor(y)
<1> DEFINE last == -opts.maximumFractionDigits
           p == SignificantPlace(x, opts)
           q == SignificantPlace(y, opts)
<1>1. /\ opts.maximumFractionDigits \in Nat /\ opts.maximumSignificantDigits \in Nat
      /\ opts.roundingType \in RoundingTypes
      /\ opts.roundingType # "fractionDigits" => opts.maximumSignificantDigits >= 1
  BY ResolvedDigits DEF IsDigits
<1>2. Log10Floor(x) \in Int /\ Log10Floor(y) \in Int
  BY LeadingTyped
<1>3. /\ last \in Int /\ p \in Int /\ q \in Int
      /\ Log10Floor(x) = Log10Floor(y) => p = q
      /\ Log10Floor(x) < Log10Floor(y) => p < q
      /\ opts.roundingType # "fractionDigits" => q <= Log10Floor(y)
  BY <1>1, <1>2 DEF SignificantPlace
<1>4. /\ RoundingPlace(x, opts) =
           CASE opts.roundingType = "fractionDigits"    -> last
             [] opts.roundingType = "significantDigits" -> p
             [] opts.roundingType = "morePrecision"     -> LesserOf(last, p)
             [] opts.roundingType = "lessPrecision"     -> GreaterOf(last, p)
      /\ RoundingPlace(y, opts) =
           CASE opts.roundingType = "fractionDigits"    -> last
             [] opts.roundingType = "significantDigits" -> q
             [] opts.roundingType = "morePrecision"     -> LesserOf(last, q)
             [] opts.roundingType = "lessPrecision"     -> GreaterOf(last, q)
  BY DEF RoundingPlace
<1> HIDE DEF last, p, q
<1>5. CASE opts.roundingType = "fractionDigits"
  BY <1>4, <1>5
<1>6. CASE opts.roundingType = "significantDigits"
  BY <1>3, <1>4, <1>6
<1>7. CASE opts.roundingType = "morePrecision"
  BY <1>2, <1>3, <1>4, <1>7 DEF LesserOf
<1>8. CASE opts.roundingType = "lessPrecision"
  BY <1>2, <1>3, <1>4, <1>8 DEF GreaterOf
<1> QED
  BY <1>1, <1>5, <1>6, <1>7, <1>8 DEF RoundingTypes

\* The sign and the magnitude in units are the value.
LEMMA SignAndMagnitude ==
  ASSUME NEW x \in Decimal, NEW u \in Int, u <= x.exp
  PROVE  /\ Units(x, u) \in Nat /\ SignedUnits(x, u) \in Int
         /\ x.negative => SignedUnits(x, u) = -Units(x, u)
         /\ ~x.negative => SignedUnits(x, u) = Units(x, u)
         /\ IsZero(x) <=> Units(x, u) = 0
         /\ IsZero(x) <=> SignedUnits(x, u) = 0
<1>1. x.exp \in Int /\ x.coeff \in Nat
  BY DEF Decimal
<1>2. Units(x, u) \in Nat /\ SignedUnits(x, u) \in Int
  BY <1>1, UnitsRescaled
<1>3. x.exp - u \in Nat
  BY <1>1
<1>4. PowerOfTen[x.exp - u] \in Nat \ {0}
  BY <1>3, PowerOfTenPositive
<1>5. x.coeff * PowerOfTen[x.exp - u] = 0 <=> x.coeff = 0
  BY <1>1, <1>4
<1>6. IsZero(x) <=> Units(x, u) = 0
  BY <1>5 DEF IsZero, Units
<1> QED
  BY <1>2, <1>6 DEF SignedUnits

\* Of two values in order the one in the larger decade is positive if it is the
\* second, and negative if it is the first.
LEMMA NegativeLeads ==
  ASSUME NEW x \in Decimal, NEW y \in Decimal, ~IsZero(x), ~IsZero(y), Cmp(x, y) <= 0,
         x.negative = y.negative
  PROVE  /\ Log10Floor(x) < Log10Floor(y) => ~x.negative
         /\ Log10Floor(y) < Log10Floor(x) => x.negative
<1>1. /\ Abs(x) \in Decimal /\ ~Abs(x).negative /\ Abs(x).exp = x.exp /\ ~IsZero(Abs(x))
      /\ Log10Floor(Abs(x)) = Log10Floor(x) /\ x.exp \in Int
      /\ \A u : Units(Abs(x), u) = Units(x, u)
  BY AbsOf
<1>2. /\ Abs(y) \in Decimal /\ ~Abs(y).negative /\ Abs(y).exp = y.exp /\ ~IsZero(Abs(y))
      /\ Log10Floor(Abs(y)) = Log10Floor(y) /\ y.exp \in Int
      /\ \A u : Units(Abs(y), u) = Units(y, u)
  BY AbsOf
<1> DEFINE u == LesserOf(x.exp, y.exp)
<1>3. u \in Int /\ u <= x.exp /\ u <= y.exp
  BY <1>1, <1>2, Lesser
<1> HIDE DEF u
<1>4. /\ Units(x, u) \in Nat /\ SignedUnits(x, u) \in Int
      /\ x.negative => SignedUnits(x, u) = -Units(x, u)
      /\ ~x.negative => SignedUnits(x, u) = Units(x, u)
  BY <1>3, SignAndMagnitude
<1>5. /\ Units(y, u) \in Nat /\ SignedUnits(y, u) \in Int
      /\ y.negative => SignedUnits(y, u) = -Units(y, u)
      /\ ~y.negative => SignedUnits(y, u) = Units(y, u)
  BY <1>3, SignAndMagnitude
<1>6. Cmp(x, y) \in Int /\ (Cmp(x, y) > 0 <=> SignedUnits(x, u) > SignedUnits(y, u))
  BY <1>3, CmpInUnits
<1>7. /\ Cmp(Abs(x), Abs(y)) < 0 <=> SignedUnits(Abs(x), u) < SignedUnits(Abs(y), u)
      /\ Cmp(Abs(y), Abs(x)) < 0 <=> SignedUnits(Abs(y), u) < SignedUnits(Abs(x), u)
  BY <1>1, <1>2, <1>3, CmpInUnits
<1>8. SignedUnits(Abs(x), u) = Units(x, u) /\ SignedUnits(Abs(y), u) = Units(y, u)
  BY <1>1, <1>2 DEF SignedUnits
<1>9. /\ Log10Floor(x) < Log10Floor(y) => Units(x, u) < Units(y, u)
      /\ Log10Floor(y) < Log10Floor(x) => Units(y, u) < Units(x, u)
  <2>1. Log10Floor(x) < Log10Floor(y) => Cmp(Abs(x), Abs(y)) < 0
    BY <1>1, <1>2, LargerLeads
  <2>2. Log10Floor(y) < Log10Floor(x) => Cmp(Abs(y), Abs(x)) < 0
    BY <1>1, <1>2, LargerLeads
  <2> QED
    BY <1>7, <1>8, <2>1, <2>2
<1> QED
  BY <1>4, <1>5, <1>6, <1>9

\* The code's result, for every value and all digit options: a larger value never
\* has a smaller one.
LEMMA ResultKeepsOrder ==
  ASSUME NEW x \in Decimal, NEW y \in Decimal, Cmp(x, y) <= 0, NEW opts, IsResolved(opts)
  PROVE  Cmp(FormatNumericToString(x, opts).rounded, FormatNumericToString(y, opts).rounded) <= 0
<1> DEFINE r == FormatNumericToString(x, opts).rounded
           s == FormatNumericToString(y, opts).rounded
           p == RoundingPlace(x, opts)
           q == RoundingPlace(y, opts)
           increment == opts.roundingIncrement
           mode == opts.roundingMode
<1>1. /\ r \in Decimal /\ r.negative = x.negative /\ (IsZero(x) => IsZero(r))
      /\ s \in Decimal /\ s.negative = y.negative /\ (IsZero(y) => IsZero(s))
  BY ResultAtPlace, ResultOfZero
<1>2. /\ ~IsZero(x) => p \in Int /\ RoundedAt(x, r, increment, p, mode)
      /\ ~IsZero(y) => q \in Int /\ RoundedAt(y, s, increment, q, mode)
  BY ResultAtPlace
<1>3. /\ increment \in Nat \ {0} /\ mode \in RoundingModes
      /\ opts.roundingType # "fractionDigits" => increment = 1
  BY ResolvedDigits DEF IsDigits, RoundingIncrements
<1>4. ~IsZero(x) /\ ~IsZero(y) =>
        /\ Log10Floor(x) \in Int /\ Log10Floor(y) \in Int
        /\ Log10Floor(x) = Log10Floor(y) => p = q
        /\ Log10Floor(x) < Log10Floor(y) /\ p # q =>
             opts.roundingType # "fractionDigits" /\ p <= q /\ q <= Log10Floor(y)
        /\ Log10Floor(y) < Log10Floor(x) /\ q # p =>
             opts.roundingType # "fractionDigits" /\ q <= p /\ p <= Log10Floor(x)
  BY PlaceGrows, LeadingTyped
<1>5. x.exp \in Int /\ y.exp \in Int /\ x.negative \in BOOLEAN /\ y.negative \in BOOLEAN
      /\ r.exp \in Int /\ s.exp \in Int
  BY <1>1 DEF Decimal
<1> HIDE DEF r, s, p, q, increment, mode
<1> SUFFICES Cmp(r, s) <= 0
  BY DEF r, s
<1>6. CASE \/ IsZero(x) \/ IsZero(y) \/ x.negative # y.negative
  <2> DEFINE u == LesserOf(LesserOf(x.exp, y.exp), LesserOf(r.exp, s.exp))
  <2>1. u \in Int /\ u <= x.exp /\ u <= y.exp /\ u <= r.exp /\ u <= s.exp
    <3>1. LesserOf(x.exp, y.exp) \in Int /\ LesserOf(x.exp, y.exp) <= x.exp
          /\ LesserOf(x.exp, y.exp) <= y.exp
      BY <1>5, Lesser
    <3> HIDE DEF LesserOf
    <3>2. u \in Int /\ u <= LesserOf(x.exp, y.exp) /\ u <= r.exp /\ u <= s.exp
      BY <1>5, <3>1, LeastOfThree
    <3> QED
      BY <1>5, <3>1, <3>2
  <2> HIDE DEF u
  <2>2. /\ Units(x, u) \in Nat /\ SignedUnits(x, u) \in Int
        /\ x.negative => SignedUnits(x, u) = -Units(x, u)
        /\ ~x.negative => SignedUnits(x, u) = Units(x, u)
        /\ IsZero(x) <=> SignedUnits(x, u) = 0
    BY <2>1, SignAndMagnitude
  <2>3. /\ Units(y, u) \in Nat /\ SignedUnits(y, u) \in Int
        /\ y.negative => SignedUnits(y, u) = -Units(y, u)
        /\ ~y.negative => SignedUnits(y, u) = Units(y, u)
        /\ IsZero(y) <=> SignedUnits(y, u) = 0
    BY <2>1, SignAndMagnitude
  <2>4. /\ Units(r, u) \in Nat /\ SignedUnits(r, u) \in Int
        /\ r.negative => SignedUnits(r, u) = -Units(r, u)
        /\ ~r.negative => SignedUnits(r, u) = Units(r, u)
        /\ IsZero(r) <=> SignedUnits(r, u) = 0
    BY <1>1, <2>1, SignAndMagnitude
  <2>5. /\ Units(s, u) \in Nat /\ SignedUnits(s, u) \in Int
        /\ s.negative => SignedUnits(s, u) = -Units(s, u)
        /\ ~s.negative => SignedUnits(s, u) = Units(s, u)
        /\ IsZero(s) <=> SignedUnits(s, u) = 0
    BY <1>1, <2>1, SignAndMagnitude
  <2>6. /\ Cmp(x, y) \in Int /\ (Cmp(x, y) > 0 <=> SignedUnits(x, u) > SignedUnits(y, u))
        /\ Cmp(r, s) \in Int /\ (Cmp(r, s) > 0 <=> SignedUnits(r, u) > SignedUnits(s, u))
    BY <1>1, <2>1, CmpInUnits
  <2> DEFINE a == SignedUnits(x, u)
             b == SignedUnits(y, u)
             c == SignedUnits(r, u)
             e == SignedUnits(s, u)
  <2>7. /\ a \in Int /\ b \in Int /\ c \in Int /\ e \in Int /\ a <= b
        /\ x.negative => a <= 0 /\ c <= 0
        /\ ~x.negative => a >= 0 /\ c >= 0
        /\ y.negative => b <= 0 /\ e <= 0
        /\ ~y.negative => b >= 0 /\ e >= 0
        /\ a = 0 => c = 0
        /\ b = 0 => e = 0
        /\ a = 0 \/ b = 0 \/ x.negative # y.negative
    BY <1>1, <1>6, <2>2, <2>3, <2>4, <2>5, <2>6
  <2> HIDE DEF a, b, c, e
  <2>8. c <= e
    BY <1>5, <2>7
  <2> QED
    BY <2>6, <2>7, <2>8 DEF c, e
<1>7. CASE ~IsZero(x) /\ ~IsZero(y) /\ p = q
  BY <1>1, <1>2, <1>3, <1>7, PlaceKeepsOrder
<1>8. CASE ~IsZero(x) /\ ~IsZero(y) /\ p # q /\ x.negative = y.negative
  <2>1. increment = 1 /\ p \in Int /\ q \in Int
    BY <1>2, <1>3, <1>4, <1>8
  <2>2. CASE Log10Floor(x) < Log10Floor(y)
    <3>1. p <= Log10Floor(y) /\ q <= Log10Floor(y)
      BY <1>4, <1>8, <2>1, <2>2
    <3>2. ~x.negative
      BY <1>8, <2>2, NegativeLeads
    <3>3. PICK u \in Int : /\ u <= r.exp /\ u <= s.exp /\ Units(r, u) \in Nat /\ Units(s, u) \in Nat
                           /\ Units(r, u) <= Units(s, u)
      BY <1>1, <1>2, <1>8, <2>1, <2>2, <3>1, DecadeKeepsOrder
    <3>4. SignedUnits(r, u) <= SignedUnits(s, u)
      BY <1>1, <1>8, <3>2, <3>3 DEF SignedUnits
    <3>5. /\ Cmp(r, s) \in Int /\ (Cmp(r, s) > 0 <=> SignedUnits(r, u) > SignedUnits(s, u))
          /\ SignedUnits(r, u) \in Int /\ SignedUnits(s, u) \in Int
      BY <1>1, <3>3, CmpInUnits, SignAndMagnitude
    <3> QED
      BY <3>4, <3>5
  <2>3. CASE Log10Floor(y) < Log10Floor(x)
    <3>1. p <= Log10Floor(x) /\ q <= Log10Floor(x)
      BY <1>4, <1>8, <2>1, <2>3
    <3>2. x.negative
      BY <1>8, <2>3, NegativeLeads
    <3>3. PICK u \in Int : /\ u <= s.exp /\ u <= r.exp /\ Units(s, u) \in Nat /\ Units(r, u) \in Nat
                           /\ Units(s, u) <= Units(r, u)
      BY <1>1, <1>2, <1>8, <2>1, <2>3, <3>1, DecadeKeepsOrder
    <3>4. SignedUnits(r, u) <= SignedUnits(s, u)
      BY <1>1, <1>8, <3>2, <3>3 DEF SignedUnits
    <3>5. /\ Cmp(r, s) \in Int /\ (Cmp(r, s) > 0 <=> SignedUnits(r, u) > SignedUnits(s, u))
          /\ SignedUnits(r, u) \in Int /\ SignedUnits(s, u) \in Int
      BY <1>1, <3>3, CmpInUnits, SignAndMagnitude
    <3> QED
      BY <3>4, <3>5
  <2> QED
    BY <1>4, <1>8, <2>2, <2>3
<1> QED
  BY <1>5, <1>6, <1>7, <1>8

-------------------------------------------------------------------------------
(* Values that are written with more or fewer zeros. *)

\* The same value with the same sign, whatever its last zeros.
Alike(x, y) == x.negative = y.negative /\ Cmp(x, y) = 0

LEMMA CmpBothWays ==
  ASSUME NEW x \in Decimal, NEW y \in Decimal
  PROVE  /\ Cmp(x, y) = 0 <=> Cmp(y, x) = 0
         /\ Cmp(x, y) <= 0 /\ Cmp(y, x) <= 0 => Cmp(x, y) = 0
<1> DEFINE u == LesserOf(x.exp, y.exp)
<1>1. x.exp \in Int /\ y.exp \in Int
  BY DEF Decimal
<1>2. u \in Int /\ u <= x.exp /\ u <= y.exp
  BY <1>1, Lesser
<1> HIDE DEF u
<1>3. /\ Cmp(x, y) \in Int /\ (Cmp(x, y) > 0 <=> SignedUnits(x, u) > SignedUnits(y, u))
      /\ (Cmp(x, y) = 0 <=> SignedUnits(x, u) = SignedUnits(y, u))
  BY <1>2, CmpInUnits
<1>4. /\ Cmp(y, x) \in Int /\ (Cmp(y, x) > 0 <=> SignedUnits(y, u) > SignedUnits(x, u))
      /\ (Cmp(y, x) = 0 <=> SignedUnits(y, u) = SignedUnits(x, u))
  BY <1>2, CmpInUnits
<1>5. SignedUnits(x, u) \in Int /\ SignedUnits(y, u) \in Int
  BY <1>2, SignAndMagnitude
<1> QED
  BY <1>3, <1>4, <1>5

LEMMA AlikeLead ==
  ASSUME NEW x \in Decimal, NEW y \in Decimal, Alike(x, y)
  PROVE  /\ IsZero(x) <=> IsZero(y)
         /\ ~IsZero(x) => Log10Floor(x) = Log10Floor(y) /\ Log10Floor(x) \in Int
<1>1. x.negative = y.negative /\ Cmp(x, y) = 0 /\ Cmp(y, x) = 0 /\ Cmp(x, y) <= 0 /\ Cmp(y, x) <= 0
  BY CmpBothWays DEF Alike
<1>2. IsZero(x) <=> IsZero(y)
  <2> DEFINE u == LesserOf(x.exp, y.exp)
  <2>1. x.exp \in Int /\ y.exp \in Int
    BY DEF Decimal
  <2>2. u \in Int /\ u <= x.exp /\ u <= y.exp
    BY <2>1, Lesser
  <2> HIDE DEF u
  <2>3. SignedUnits(x, u) = SignedUnits(y, u)
    BY <1>1, <2>2, CmpInUnits
  <2> QED
    BY <2>2, <2>3, SignAndMagnitude
<1>3. ASSUME ~IsZero(x)
      PROVE  Log10Floor(x) = Log10Floor(y) /\ Log10Floor(x) \in Int
  <2>1. ~IsZero(y) /\ Log10Floor(x) \in Int /\ Log10Floor(y) \in Int
    BY <1>2, <1>3, LeadingTyped
  <2>2. ~(Log10Floor(x) < Log10Floor(y))
    BY <1>1, <1>3, <2>1, NegativeLeads
  <2>3. ~(Log10Floor(y) < Log10Floor(x))
    BY <1>1, <1>3, <2>1, NegativeLeads
  <2> QED
    BY <2>1, <2>2, <2>3
<1> QED
  BY <1>2, <1>3

\* Both candidates of values that are alike are alike.
LEMMA AlikeCandidates ==
  ASSUME NEW x \in Decimal, NEW y \in Decimal, Alike(x, y), NEW opts, IsDigits(opts)
  PROVE  /\ Alike(FixedCandidate(x, opts).rounded, FixedCandidate(y, opts).rounded)
         /\ Alike(SignificantCandidate(x, opts).rounded, SignificantCandidate(y, opts).rounded)
<1>1. x.negative = y.negative /\ Cmp(x, y) <= 0 /\ Cmp(y, x) <= 0
  BY CmpBothWays DEF Alike
<1>2. /\ IsZero(x) <=> IsZero(y)
      /\ ~IsZero(x) => Log10Floor(x) = Log10Floor(y)
  BY AlikeLead
<1>3. opts.roundingIncrement \in Nat \ {0} /\ 1 \in Nat \ {0} /\ opts.roundingMode \in RoundingModes
  BY DEF IsDigits, RoundingIncrements
<1>4. Alike(FixedCandidate(x, opts).rounded, FixedCandidate(y, opts).rounded)
  <2> DEFINE r == FixedCandidate(x, opts).rounded
             s == FixedCandidate(y, opts).rounded
             place == -opts.maximumFractionDigits
  <2>1. /\ r \in Decimal /\ r.negative = x.negative /\ place \in Int
        /\ RoundedAt(x, r, opts.roundingIncrement, place, opts.roundingMode)
        /\ s \in Decimal /\ s.negative = y.negative
        /\ RoundedAt(y, s, opts.roundingIncrement, place, opts.roundingMode)
    BY FixedAtPlace
  <2> HIDE DEF r, s, place
  <2>2. Cmp(r, s) <= 0
    BY <1>1, <1>3, <2>1, PlaceKeepsOrder
  <2>3. Cmp(s, r) <= 0
    BY <1>1, <1>3, <2>1, PlaceKeepsOrder
  <2>4. Alike(r, s)
    BY <1>1, <2>1, <2>2, <2>3, CmpBothWays DEF Alike
  <2> QED
    BY <2>4 DEF r, s
<1>5. Alike(SignificantCandidate(x, opts).rounded, SignificantCandidate(y, opts).rounded)
  <2>1. CASE IsZero(x)
    <3>1. SignificantCandidate(x, opts).rounded = x /\ SignificantCandidate(y, opts).rounded = y
      BY <1>2, <2>1, CandidatesOfZero
    <3> QED
      BY <3>1
  <2>2. CASE ~IsZero(x)
    <3> DEFINE r == SignificantCandidate(x, opts).rounded
               s == SignificantCandidate(y, opts).rounded
               place == SignificantPlace(x, opts)
    <3>1. place = SignificantPlace(y, opts) /\ ~IsZero(y)
      BY <1>2, <2>2 DEF SignificantPlace
    <3>2. /\ r \in Decimal /\ r.negative = x.negative /\ place \in Int
          /\ RoundedAt(x, r, 1, place, opts.roundingMode)
      BY <2>2, SignificantAtPlace
    <3>3. s \in Decimal /\ s.negative = y.negative /\ RoundedAt(y, s, 1, place, opts.roundingMode)
      BY <3>1, SignificantAtPlace
    <3> HIDE DEF r, s, place
    <3>4. Cmp(r, s) <= 0
      BY <1>1, <1>3, <3>2, <3>3, PlaceKeepsOrder
    <3>5. Cmp(s, r) <= 0
      BY <1>1, <1>3, <3>2, <3>3, PlaceKeepsOrder
    <3>6. Alike(r, s)
      BY <1>1, <3>2, <3>3, <3>4, <3>5, CmpBothWays DEF Alike
    <3> QED
      BY <3>6 DEF r, s
  <2> QED
    BY <2>1, <2>2
<1> QED
  BY <1>4, <1>5

\* A multiple of a power of ten is one of every smaller power, and zeros written
\* after it are zeros of the power.
LEMMA FewerZeros ==
  ASSUME NEW a \in Nat, NEW j \in Nat, NEW k \in Nat, k <= j, a % PowerOfTen[j] = 0
  PROVE  a % PowerOfTen[k] = 0
<1>1. PowerOfTen[j] = PowerOfTen[j - k] * PowerOfTen[k] /\ j - k \in Nat
  BY PowerIsMultiple
<1>2. /\ PowerOfTen[j - k] \in Nat /\ PowerOfTen[k] \in Nat \ {0} /\ PowerOfTen[j] \in Nat \ {0}
      /\ a \in Int
  BY <1>1, PowerOfTenPositive
<1>3. PICK q \in Int : a = q * PowerOfTen[j]
  BY <1>2, MultipleIsProduct
<1>4. a = (q * PowerOfTen[j - k]) * PowerOfTen[k] /\ q * PowerOfTen[j - k] \in Int
  BY <1>1, <1>2, <1>3
<1> QED
  BY <1>2, <1>4, MultipleIsProduct

LEMMA ZerosShifted ==
  ASSUME NEW a \in Nat, NEW j \in Nat, NEW c \in Nat
  PROVE  (a * PowerOfTen[c]) % PowerOfTen[j + c] = 0 <=> a % PowerOfTen[j] = 0
<1>1. PowerOfTen[j + c] = PowerOfTen[j] * PowerOfTen[c]
  BY PowerOfTenSum
<1>2. /\ PowerOfTen[j] \in Nat \ {0} /\ PowerOfTen[c] \in Nat \ {0} /\ PowerOfTen[j + c] \in Nat \ {0}
      /\ a * PowerOfTen[c] \in Nat
  <2>1. j + c \in Nat
    OBVIOUS
  <2> QED
    BY <2>1, PowerOfTenPositive
<1> DEFINE p == PowerOfTen[j]
           g == PowerOfTen[c]
<1>3. p \in Nat \ {0} /\ g \in Nat \ {0} /\ PowerOfTen[j + c] = p * g /\ a * g \in Int
      /\ p * g \in Nat \ {0} /\ a \in Int
  BY <1>1, <1>2
<1> HIDE DEF p, g
<1>4. ASSUME a % p = 0
      PROVE  (a * g) % (p * g) = 0
  <2>1. PICK q \in Int : a = q * p
    BY <1>3, <1>4, MultipleIsProduct
  <2>2. a * g = q * (p * g)
    BY <1>3, <2>1
  <2> QED
    BY <1>3, <2>2, MultipleIsProduct
<1>5. ASSUME (a * g) % (p * g) = 0
      PROVE  a % p = 0
  <2>1. PICK q \in Int : a * g = q * (p * g)
    BY <1>3, <1>5, MultipleIsProduct
  <2>2. q * (p * g) = (q * p) * g /\ q * p \in Int
    BY <1>3
  <2>3. a = q * p
    BY <1>3, <2>1, <2>2, FactorKeepsOrder
  <2> QED
    BY <1>3, <2>3, MultipleIsProduct
<1> QED
  BY <1>3, <1>4, <1>5 DEF p, g

\* The last digit that is not zero is found at the same place in both.
LEMMA SameTrimmed ==
  ASSUME NEW m \in Nat, NEW s \in Nat, NEW n \in Nat, NEW t \in Nat, s <= t,
         n = m * PowerOfTen[t - s], NEW least \in 0 .. s
  PROVE  TrimmedScale(m, s, least) = TrimmedScale(n, t, least)
<1> DEFINE a == TrimmedScale(m, s, least)
           b == TrimmedScale(n, t, least)
<1>1. /\ a \in least .. s /\ m % PowerOfTen[s - a] = 0
      /\ a > least => m % PowerOfTen[s - a + 1] # 0
  BY TrimmedIs
<1>2. /\ b \in least .. t /\ n % PowerOfTen[t - b] = 0
      /\ b > least => n % PowerOfTen[t - b + 1] # 0
  <2>1. least \in 0 .. t
    OBVIOUS
  <2> QED
    BY <2>1, TrimmedIs
<1> HIDE DEF a, b
<1>3. \A j \in Nat : n % PowerOfTen[j + (t - s)] = 0 <=> m % PowerOfTen[j] = 0
  <2>1. t - s \in Nat
    OBVIOUS
  <2> QED
    BY <2>1, ZerosShifted
<1>4. a \in Nat /\ b \in Nat /\ s - a \in Nat /\ (s - a) + (t - s) = t - a
      /\ (s - a + 1) + (t - s) = t - a + 1 /\ t - a \in Nat /\ t - b \in Nat
  BY <1>1, <1>2
<1>5. n % PowerOfTen[t - a] = 0
  BY <1>1, <1>3, <1>4
<1>6. ~(b > a)
  <2> SUFFICES ASSUME b > a PROVE FALSE
    OBVIOUS
  <2>1. t - b + 1 \in Nat /\ t - b + 1 <= t - a /\ b > least
    BY <1>1, <1>4
  <2>2. n % PowerOfTen[t - b + 1] = 0
    BY <1>4, <1>5, <2>1, FewerZeros
  <2> QED
    BY <1>2, <2>1, <2>2
<1>7. ~(b < a)
  <2> SUFFICES ASSUME b < a PROVE FALSE
    OBVIOUS
  <2>1. t - a + 1 \in Nat /\ t - a + 1 <= t - b /\ a > least /\ s - a + 1 \in Nat
    BY <1>2, <1>4
  <2>2. n % PowerOfTen[t - a + 1] = 0
    BY <1>2, <1>4, <2>1, FewerZeros
  <2>3. m % PowerOfTen[s - a + 1] = 0
    BY <1>3, <1>4, <2>1, <2>2
  <2> QED
    BY <1>1, <2>1, <2>3
<1>8. a = b
  BY <1>4, <1>6, <1>7
<1> QED
  BY <1>8 DEF a, b

\* Zeros that are all to be kept are kept.
LEMMA TrimmedAtLeast ==
  ASSUME NEW n \in Nat, NEW t \in Nat, NEW least \in 0 .. t, n % PowerOfTen[t - least] = 0
  PROVE  TrimmedScale(n, t, least) = least
<1> DEFINE b == TrimmedScale(n, t, least)
<1>1. /\ b \in least .. t
      /\ b > least => n % PowerOfTen[t - b + 1] # 0
  BY TrimmedIs
<1> HIDE DEF b
<1>2. ~(b > least)
  <2> SUFFICES ASSUME b > least PROVE FALSE
    OBVIOUS
  <2>1. t - b + 1 \in Nat /\ t - b + 1 <= t - least /\ t - least \in Nat
    BY <1>1
  <2> QED
    BY <1>1, <2>1, FewerZeros
<1> QED
  BY <1>1, <1>2 DEF b

\* Digits that mean the same are the same digits with more or fewer zeros.
LEMMA EqualSameDigits ==
  ASSUME NEW m \in Nat, NEW s \in Nat, NEW n \in Nat, NEW t \in Nat,
         Cmp(NewDecimal(m, -s), NewDecimal(n, -t)) = 0
  PROVE  SameDigits(m, s, n, t)
<1> DEFINE x == NewDecimal(m, -s)
           y == NewDecimal(n, -t)
           u == LesserOf(-s, -t)
<1>1. -s \in Int /\ -t \in Int
  OBVIOUS
<1>2. u \in Int /\ u <= -s /\ u <= -t /\ u \in {-s, -t}
  BY <1>1, Lesser
<1> HIDE DEF u
<1>3. /\ x \in Decimal /\ x.exp = -s /\ SignedUnits(x, u) = m * PowerOfTen[-s - u]
      /\ y \in Decimal /\ y.exp = -t /\ SignedUnits(y, u) = n * PowerOfTen[-t - u]
  BY <1>1, <1>2, UnitsOfNew DEF NewDecimal
<1>4. SignedUnits(x, u) = SignedUnits(y, u)
  <2>1. Cmp(x, y) = 0
    OBVIOUS
  <2> HIDE DEF x, y
  <2> QED
    BY <1>2, <1>3, <2>1, CmpInUnits
<1> HIDE DEF x, y
<1>5. m * PowerOfTen[-s - u] = n * PowerOfTen[-t - u]
  BY <1>3, <1>4
<1>6. PowerOfTen[0] = 1
  BY PowerOfTenDef
<1>7. ASSUME t >= s
      PROVE  n = m * PowerOfTen[t - s]
  <2>1. -t - u = 0 /\ -s - u = t - s
    BY <1>2, <1>7
  <2> QED
    BY <1>5, <1>6, <2>1
<1>8. ASSUME t <= s
      PROVE  m = n * PowerOfTen[s - t]
  <2>1. -s - u = 0 /\ -t - u = s - t
    BY <1>2, <1>8
  <2> QED
    BY <1>5, <1>6, <2>1
<1> QED
  BY <1>7, <1>8 DEF SameDigits

\* Two ways to say the same value are the same digits.
LEMMA SaidAlike ==
  ASSUME NEW r \in Decimal, NEW q \in Decimal, Cmp(r, q) = 0,
         NEW m \in Nat, NEW s \in Nat, NEW n \in Nat, NEW t \in Nat,
         Cmp(NewDecimal(m, -s), r) = 0, Cmp(NewDecimal(n, -t), q) = 0
  PROVE  SameDigits(m, s, n, t) /\ (s = t => m = n)
<1> DEFINE x == NewDecimal(m, -s)
           y == NewDecimal(n, -t)
<1>1. x \in Decimal /\ y \in Decimal
  BY DEF NewDecimal, Decimal
<1>2. Cmp(x, r) = 0 /\ Cmp(y, q) = 0
  OBVIOUS
<1> HIDE DEF x, y
<1>3. Cmp(r, y) = 0
  <2>1. Cmp(q, y) = 0
    BY <1>1, <1>2, CmpBothWays
  <2> QED
    BY <1>1, <2>1, CmpTransitive
<1>4. Cmp(x, y) = 0
  BY <1>1, <1>2, <1>3, CmpTransitive
<1>5. SameDigits(m, s, n, t)
  BY <1>4, EqualSameDigits DEF x, y
<1>6. ASSUME s = t
      PROVE  m = n
  <2>1. n = m * PowerOfTen[0] /\ PowerOfTen[0] = 1
    <3>1. t - s = 0 /\ t >= s
      BY <1>6
    <3> QED
      BY <1>5, <3>1, PowerOfTenDef DEF SameDigits
  <2> QED
    BY <2>1
<1> QED
  BY <1>5, <1>6

\* The number of digits that are shown depends on the value.
LEMMA SameSignificantScale ==
  ASSUME NEW m \in Nat, NEW s \in Nat, NEW n \in Nat, NEW t \in Nat, s <= t,
         SameDigits(m, s, n, t), NEW minimum \in Nat
  PROVE  SignificantScale(m, s, minimum) = SignificantScale(n, t, minimum)
<1> DEFINE a == SignificantDigitCount(m, s)
           b == SignificantDigitCount(n, t)
           k == s + minimum - a
<1>1. a \in Nat \ {0} /\ b = a + (t - s)
  BY CountedDigits
<1>2. n = m * PowerOfTen[t - s] /\ t - s \in Nat
  BY DEF SameDigits
<1>3. /\ SignificantScale(m, s, minimum) =
           IF a < minimum THEN s + minimum - a ELSE TrimmedScale(m, s, GreaterOf(0, s - (a - minimum)))
      /\ SignificantScale(n, t, minimum) =
           IF b < minimum THEN t + minimum - b ELSE TrimmedScale(n, t, GreaterOf(0, t - (b - minimum)))
  BY DEF SignificantScale
<1> HIDE DEF a, b
<1>4. /\ k \in Int /\ t + minimum - b = k /\ s - (a - minimum) = k /\ t - (b - minimum) = k
      /\ a < minimum <=> s < k
      /\ b < minimum <=> t < k
  BY <1>1
<1> HIDE DEF k
<1>5. /\ SignificantScale(m, s, minimum) = IF s < k THEN k ELSE TrimmedScale(m, s, GreaterOf(0, k))
      /\ SignificantScale(n, t, minimum) = IF t < k THEN k ELSE TrimmedScale(n, t, GreaterOf(0, k))
  BY <1>3, <1>4 DEF k
<1>6. CASE t < k
  BY <1>4, <1>5, <1>6
<1>7. CASE s < k /\ k <= t
  <2>1. GreaterOf(0, k) = k /\ k \in 0 .. t
    BY <1>4, <1>7 DEF GreaterOf
  <2>2. n % PowerOfTen[t - k] = 0
    <3>1. PowerOfTen[t - s] \in Nat \ {0} /\ m \in Int /\ n \in Nat
      BY <1>2, PowerOfTenPositive
    <3>2. n % PowerOfTen[t - s] = 0
      BY <1>2, <3>1, Multiple
    <3>3. t - k \in Nat /\ t - k <= t - s
      BY <1>4, <1>7
    <3> QED
      BY <1>2, <3>2, <3>3, FewerZeros
  <2>3. TrimmedScale(n, t, k) = k
    BY <2>1, <2>2, TrimmedAtLeast
  <2> QED
    BY <1>4, <1>5, <1>7, <2>1, <2>3
<1>8. CASE k <= s
  <2>1. GreaterOf(0, k) \in 0 .. s
    BY <1>4, <1>8 DEF GreaterOf
  <2>2. TrimmedScale(m, s, GreaterOf(0, k)) = TrimmedScale(n, t, GreaterOf(0, k))
    BY <1>2, <2>1, SameTrimmed
  <2>3. ~(s < k) /\ ~(t < k)
    BY <1>4, <1>8
  <2> QED
    BY <1>5, <2>2, <2>3
<1> QED
  BY <1>4, <1>6, <1>7, <1>8

\* The integer digits are padded to their minimum.
IsPadded(text, opts) ==
  text = Text(text.negative, text.units, text.scale,
              GreaterOf(opts.minimumIntegerDigits, IntegerDigits(text.units, text.scale)))

LEMMA SameText ==
  ASSUME NEW r \in Decimal, NEW q \in Decimal, Cmp(r, q) = 0, NEW negative, NEW opts,
         NEW a, IsText(a, negative, r, opts), IsPadded(a, opts),
         NEW b, IsText(b, negative, q, opts), IsPadded(b, opts), a.scale = b.scale
  PROVE  a = b
<1>1. /\ a.units \in Nat /\ a.scale \in Nat /\ a.negative = negative
      /\ Cmp(NewDecimal(a.units, -a.scale), r) = 0
      /\ b.units \in Nat /\ b.scale \in Nat /\ b.negative = negative
      /\ Cmp(NewDecimal(b.units, -b.scale), q) = 0
  BY DEF IsText, Says10
<1>2. a.units = b.units
  BY <1>1, SaidAlike
<1> QED
  BY <1>1, <1>2 DEF IsPadded

LEMMA FixedTextScale ==
  ASSUME NEW d, NEW r, NEW opts
  PROVE  /\ FixedText(d, r, opts).scale = TrimFraction(FixedUnits(r, opts.maximumFractionDigits), opts)
         /\ IsPadded(FixedText(d, r, opts), opts)
  BY DEF FixedText, Rescaled, Text, IsPadded

LEMMA SignificantTextScale ==
  ASSUME NEW d, NEW r, NEW opts
  PROVE  /\ SignificantText(d, r, opts).scale =
              IF opts.trailingZeroDisplay = "stripIfInteger"
                 /\ StripIntegerFraction(PlainUnits(r), PlainScale(r)) = 0 THEN 0
              ELSE SignificantScale(PlainUnits(r), PlainScale(r), opts.minimumSignificantDigits)
         /\ IsPadded(SignificantText(d, r, opts), opts)
  BY DEF SignificantText, Rescaled, Text, IsPadded

\* With a fixed number of digits the text is that of the value.
LEMMA SameFixedText ==
  ASSUME NEW x \in Decimal, NEW y \in Decimal, NEW opts, IsResolved(opts), x.negative = y.negative,
         Cmp(RoundFixed(x, opts), RoundFixed(y, opts)) = 0
  PROVE  FixedCandidate(x, opts).text = FixedCandidate(y, opts).text
<1> DEFINE r == RoundFixed(x, opts)
           q == RoundFixed(y, opts)
           scale == opts.maximumFractionDigits
           a == FixedText(x, r, opts)
           b == FixedText(y, q, opts)
<1>1. IsDigits(opts) /\ IsBounds(opts) /\ scale \in Nat
  BY ResolvedDigits, ResolvedBounds DEF IsDigits
<1>2. /\ r \in Decimal /\ ~r.negative /\ (r.exp + scale < 0 => r.coeff % PowerOfTen[-(r.exp + scale)] = 0)
      /\ q \in Decimal /\ ~q.negative /\ (q.exp + scale < 0 => q.coeff % PowerOfTen[-(q.exp + scale)] = 0)
  BY <1>1, FixedHasNoMore
<1> HIDE DEF r, q
<1>3. /\ IsText(a, x.negative, r, opts) /\ a.scale = TrimFraction(FixedUnits(r, scale), opts)
      /\ IsPadded(a, opts)
  BY <1>1, <1>2, FixedTextIs, FixedTextScale
<1>4. /\ IsText(b, x.negative, q, opts) /\ b.scale = TrimFraction(FixedUnits(q, scale), opts)
      /\ IsPadded(b, opts)
  BY <1>1, <1>2, FixedTextIs, FixedTextScale
<1>5. FixedUnits(r, scale) = FixedUnits(q, scale)
  <2>1. /\ FixedUnits(r, scale) \in Nat /\ Cmp(NewDecimal(FixedUnits(r, scale), -scale), r) = 0
        /\ FixedUnits(q, scale) \in Nat /\ Cmp(NewDecimal(FixedUnits(q, scale), -scale), q) = 0
    BY <1>1, <1>2, FixedUnitsSay
  <2>2. Cmp(r, q) = 0
    BY DEF r, q
  <2> HIDE DEF scale
  <2> QED
    BY <1>1, <1>2, <2>1, <2>2, SaidAlike
<1> HIDE DEF a, b
<1>6. a = b
  <2>1. Cmp(r, q) = 0
    BY DEF r, q
  <2> QED
    BY <1>2, <1>3, <1>4, <1>5, <2>1, SameText
<1>7. FixedCandidate(x, opts).text = a /\ FixedCandidate(y, opts).text = b
  BY DEF FixedCandidate, Result, a, b, r, q
<1> QED
  BY <1>6, <1>7

\* Zeros are stripped from an integer, however many it was written with.
LEMMA SameInteger ==
  ASSUME NEW m \in Nat, NEW s \in Nat, NEW n \in Nat, NEW t \in Nat, s <= t, SameDigits(m, s, n, t)
  PROVE  StripIntegerFraction(m, s) = 0 <=> StripIntegerFraction(n, t) = 0
<1>1. \A k, c \in Nat : StripIntegerFraction(k, c) = 0 <=> k % PowerOfTen[c] = 0
  <2> SUFFICES ASSUME NEW k \in Nat, NEW c \in Nat
               PROVE  StripIntegerFraction(k, c) = 0 <=> k % PowerOfTen[c] = 0
    OBVIOUS
  <2>1. CASE c = 0
    <3>1. PowerOfTen[c] = 1 /\ (k % 1) = 0
      BY <2>1, PowerOfTenDef
    <3> QED
      BY <2>1, <3>1 DEF StripIntegerFraction
  <2>2. CASE c # 0
    BY <2>2 DEF StripIntegerFraction
  <2> QED
    BY <2>1, <2>2
<1>2. n = m * PowerOfTen[t - s] /\ t - s \in Nat /\ s + (t - s) = t
  BY DEF SameDigits
<1>3. n % PowerOfTen[t] = 0 <=> m % PowerOfTen[s] = 0
  BY <1>2, ZerosShifted
<1> QED
  BY <1>1, <1>3

LEMMA SameSignificantText ==
  ASSUME NEW x \in Decimal, NEW y \in Decimal, NEW opts, IsResolved(opts), x.negative = y.negative,
         Cmp(RoundSignificant(x, opts), RoundSignificant(y, opts)) = 0
  PROVE  SignificantCandidate(x, opts).text = SignificantCandidate(y, opts).text
<1> DEFINE r == RoundSignificant(x, opts)
           q == RoundSignificant(y, opts)
           a == SignificantText(x, r, opts)
           b == SignificantText(y, q, opts)
           m == PlainUnits(r)
           s == PlainScale(r)
           n == PlainUnits(q)
           t == PlainScale(q)
<1>1. IsDigits(opts) /\ IsBounds(opts) /\ opts.minimumSignificantDigits \in Nat
  BY ResolvedDigits, ResolvedBounds DEF IsBounds
<1>2. r \in Decimal /\ ~r.negative /\ q \in Decimal /\ ~q.negative /\ Cmp(r, q) = 0
  BY <1>1, SignificantIsDecimal
<1> HIDE DEF r, q
<1>3. /\ m \in Nat /\ s \in Nat /\ Cmp(NewDecimal(m, -s), r) = 0
      /\ n \in Nat /\ t \in Nat /\ Cmp(NewDecimal(n, -t), q) = 0
  BY <1>2, PlainSays
<1>4. /\ IsText(a, x.negative, r, opts) /\ IsPadded(a, opts)
      /\ a.scale = IF opts.trailingZeroDisplay = "stripIfInteger" /\ StripIntegerFraction(m, s) = 0 THEN 0
                   ELSE SignificantScale(m, s, opts.minimumSignificantDigits)
  BY <1>1, <1>2, SignificantTextIs, SignificantTextScale
<1>5. /\ IsText(b, x.negative, q, opts) /\ IsPadded(b, opts)
      /\ b.scale = IF opts.trailingZeroDisplay = "stripIfInteger" /\ StripIntegerFraction(n, t) = 0 THEN 0
                   ELSE SignificantScale(n, t, opts.minimumSignificantDigits)
  BY <1>1, <1>2, SignificantTextIs, SignificantTextScale
<1> HIDE DEF a, b, m, s, n, t
<1>6. SameDigits(m, s, n, t) /\ SameDigits(n, t, m, s)
  <2>1. Cmp(q, r) = 0
    BY <1>2, CmpBothWays
  <2> QED
    BY <1>2, <1>3, <2>1, SaidAlike
<1>7. a.scale = b.scale
  <2>1. CASE s <= t
    BY <1>1, <1>3, <1>4, <1>5, <1>6, <2>1, SameSignificantScale, SameInteger
  <2>2. CASE t <= s
    BY <1>1, <1>3, <1>4, <1>5, <1>6, <2>2, SameSignificantScale, SameInteger
  <2> QED
    BY <1>3, <2>1, <2>2
<1>8. a = b
  BY <1>2, <1>4, <1>5, <1>7, SameText
<1>9. SignificantCandidate(x, opts).text = a /\ SignificantCandidate(y, opts).text = b
  BY DEF SignificantCandidate, Result, a, b, r, q
<1> QED
  BY <1>8, <1>9

LEMMA ZerosEqual ==
  ASSUME NEW x \in Decimal, NEW y \in Decimal, IsZero(x), IsZero(y)
  PROVE  Cmp(x, y) = 0
<1> DEFINE u == LesserOf(x.exp, y.exp)
<1>1. x.exp \in Int /\ y.exp \in Int
  BY DEF Decimal
<1>2. u \in Int /\ u <= x.exp /\ u <= y.exp
  BY <1>1, Lesser
<1> HIDE DEF u
<1>3. SignedUnits(x, u) = 0 /\ SignedUnits(y, u) = 0
  BY <1>2, SignAndMagnitude
<1> QED
  BY <1>2, <1>3, CmpInUnits

\* Values that are alike have the same magnitude.
LEMMA AlikeMagnitude ==
  ASSUME NEW x \in Decimal, NEW y \in Decimal, x.negative = y.negative
  PROVE  Cmp(x, y) = 0 <=> Cmp(Abs(x), Abs(y)) = 0
<1> DEFINE u == LesserOf(x.exp, y.exp)
<1>1. /\ Abs(x) \in Decimal /\ ~Abs(x).negative /\ Abs(x).exp = x.exp /\ x.exp \in Int
      /\ Abs(y) \in Decimal /\ ~Abs(y).negative /\ Abs(y).exp = y.exp /\ y.exp \in Int
      /\ x.negative \in BOOLEAN
      /\ \A v : Units(Abs(x), v) = Units(x, v) /\ Units(Abs(y), v) = Units(y, v)
  BY AbsOf
<1>2. u \in Int /\ u <= x.exp /\ u <= y.exp
  BY <1>1, Lesser
<1> HIDE DEF u
<1>3. /\ Units(x, u) \in Nat /\ SignedUnits(x, u) \in Int
      /\ x.negative => SignedUnits(x, u) = -Units(x, u)
      /\ ~x.negative => SignedUnits(x, u) = Units(x, u)
  BY <1>2, SignAndMagnitude
<1>4. /\ Units(y, u) \in Nat /\ SignedUnits(y, u) \in Int
      /\ y.negative => SignedUnits(y, u) = -Units(y, u)
      /\ ~y.negative => SignedUnits(y, u) = Units(y, u)
  BY <1>2, SignAndMagnitude
<1>5. SignedUnits(Abs(x), u) = Units(x, u) /\ SignedUnits(Abs(y), u) = Units(y, u)
  BY <1>1 DEF SignedUnits
<1>6. /\ Cmp(x, y) = 0 <=> SignedUnits(x, u) = SignedUnits(y, u)
      /\ Cmp(Abs(x), Abs(y)) = 0 <=> SignedUnits(Abs(x), u) = SignedUnits(Abs(y), u)
  BY <1>1, <1>2, CmpInUnits
<1> QED
  BY <1>1, <1>3, <1>4, <1>5, <1>6

\* The candidates carry the sign of the value and the magnitude it is rounded to.
LEMMA CandidateMagnitudes ==
  ASSUME NEW d \in Decimal, NEW opts, IsDigits(opts)
  PROVE  /\ Abs(FixedCandidate(d, opts).rounded) = RoundFixed(d, opts)
         /\ Abs(SignificantCandidate(d, opts).rounded) = RoundSignificant(d, opts)
<1>1. /\ RoundFixed(d, opts) \in Decimal /\ ~RoundFixed(d, opts).negative
      /\ RoundSignificant(d, opts) \in Decimal /\ ~RoundSignificant(d, opts).negative
  BY FixedHasNoMore, SignificantIsDecimal
<1>2. /\ FixedCandidate(d, opts).rounded = WithSign(RoundFixed(d, opts), d.negative)
      /\ SignificantCandidate(d, opts).rounded = WithSign(RoundSignificant(d, opts), d.negative)
  BY DEF FixedCandidate, SignificantCandidate, Result
<1>3. \A r \in Decimal : ~r.negative => Abs(WithSign(r, d.negative)) = r
  BY DEF Abs, WithSign, Decimal
<1> QED
  BY <1>1, <1>2, <1>3

\* Writing a value as it is, without rounding it, gives what rounding it gives.
LEMMA ShortcutIsGeneral ==
  ASSUME NEW d \in Decimal, NEW opts, IsResolved(opts)
  PROVE  /\ FormatNumericToString(d, opts).text = GeneralResult(d, opts).text
         /\ Alike(FormatNumericToString(d, opts).rounded, GeneralResult(d, opts).rounded)
<1> DEFINE r == FormatNumericToString(d, opts)
           g == GeneralResult(d, opts)
<1>1. /\ r.rounded \in Decimal /\ r.rounded.negative = d.negative
      /\ g.rounded \in Decimal /\ g.rounded.negative = d.negative
      /\ IsZero(d) => IsZero(r.rounded) /\ IsZero(g.rounded)
  BY ResultAtPlace, ResultOfZero, GeneralAtPlace, GeneralOfZero
<1>2. Cmp(r.rounded, g.rounded) = 0
  <2>1. CASE IsZero(d)
    BY <1>1, <2>1, ZerosEqual
  <2>2. CASE ~IsZero(d)
    <3> DEFINE place == RoundingPlace(d, opts)
    <3>1. /\ place \in Int
          /\ RoundedAt(d, r.rounded, opts.roundingIncrement, place, opts.roundingMode)
          /\ RoundedAt(d, g.rounded, opts.roundingIncrement, place, opts.roundingMode)
      BY <2>2, ResultAtPlace, GeneralAtPlace
    <3>2. opts.roundingIncrement \in Nat \ {0} /\ opts.roundingMode \in RoundingModes
      BY ResolvedDigits DEF IsDigits, RoundingIncrements
    <3>3. Cmp(d, d) <= 0
      BY CmpReflexive
    <3> HIDE DEF r, g, place
    <3>4. Cmp(r.rounded, g.rounded) <= 0
      BY <1>1, <3>1, <3>2, <3>3, PlaceKeepsOrder
    <3>5. Cmp(g.rounded, r.rounded) <= 0
      BY <1>1, <3>1, <3>2, <3>3, PlaceKeepsOrder
    <3> QED
      BY <1>1, <3>4, <3>5, CmpBothWays
  <2> QED
    BY <2>1, <2>2
<1>3. r.text = g.text
  <2>1. CASE ~CanUseRoundedString(d, opts)
    BY <2>1 DEF FormatNumericToString
  <2>2. CASE CanUseRoundedString(d, opts)
    <3> DEFINE m == PlainUnits(d)
               s == PlainScale(d)
               a == Text(d.negative, m, s, IntegerDigits(m, s))
               q == RoundFixed(d, opts)
               scale == opts.maximumFractionDigits
               n == FixedUnits(q, scale)
               b == FixedText(d, q, opts)
    <3>1. r.text = a /\ r.rounded = d
      BY <2>2 DEF FormatNumericToString, Result
    <3>2. opts.roundingType = "fractionDigits" /\ IsDigits(opts) /\ IsBounds(opts) /\ scale \in Nat
      BY <2>2, WrittenAsItIs, ResolvedDigits, ResolvedBounds DEF IsDigits
    <3>3. g.text = b /\ Abs(g.rounded) = q
      <4>1. g = FixedCandidate(d, opts)
        BY <3>2 DEF GeneralResult
      <4> QED
        BY <3>2, <4>1, CandidateMagnitudes DEF FixedCandidate, Result
    <3>4. Cmp(Abs(d), q) = 0 /\ Abs(d) \in Decimal /\ Cmp(q, Abs(d)) = 0
      BY <1>1, <1>2, <3>1, <3>3, AlikeMagnitude, AbsOf, CmpBothWays
    <3>5. /\ q \in Decimal /\ ~q.negative
          /\ q.exp + scale < 0 => q.coeff % PowerOfTen[-(q.exp + scale)] = 0
      BY <3>2, FixedHasNoMore
    <3>6. /\ m \in Nat /\ s \in Nat /\ Cmp(NewDecimal(m, -s), Abs(d)) = 0
      <4>1. PlainUnits(Abs(d)) = m /\ PlainScale(Abs(d)) = s /\ ~Abs(d).negative
        BY AbsOf DEF PlainUnits, PlainScale
      <4> QED
        BY <3>4, <4>1, PlainSays
    <3>7. /\ opts.minimumIntegerDigits = 1 /\ opts.minimumFractionDigits = 0
          /\ opts.trailingZeroDisplay = "auto" /\ s <= scale
          /\ s > 0 => m % 10 # 0
      BY <2>2 DEF CanUseRoundedString
    <3>8. IsText(a, d.negative, Abs(d), opts)
      BY <2>2, PlainIsWritten
    <3> HIDE DEF q
    <3>9. /\ IsText(b, d.negative, q, opts) /\ IsPadded(b, opts) /\ b.scale = TrimFraction(n, opts)
      BY <3>2, <3>5, FixedTextIs, FixedTextScale
    <3>10. n \in Nat /\ Cmp(NewDecimal(n, -scale), q) = 0
      BY <3>2, <3>5, FixedUnitsSay
    <3> HIDE DEF m, s, n
    <3>11. n = m * PowerOfTen[scale - s]
      <4>1. SameDigits(m, s, n, scale)
        BY <3>2, <3>4, <3>5, <3>6, <3>10, SaidAlike
      <4> QED
        BY <3>7, <4>1 DEF SameDigits
    <3>12. TrimFraction(n, opts) = TrimmedScale(n, scale, 0)
      BY <3>7 DEF TrimFraction
    <3>13. TrimmedScale(m, s, 0) = TrimmedScale(n, scale, 0)
      <4>1. 0 \in 0 .. s
        BY <3>6
      <4> HIDE DEF scale
      <4> QED
        BY <3>2, <3>6, <3>7, <3>10, <3>11, <4>1, SameTrimmed
    <3>14. TrimmedScale(m, s, 0) = s
      <4> DEFINE k == TrimmedScale(m, s, 0)
      <4>1. k \in 0 .. s /\ m % PowerOfTen[s - k] = 0
        <5>1. 0 \in 0 .. s
          BY <3>6
        <5> QED
          BY <3>6, <5>1, TrimmedIs
      <4> HIDE DEF k
      <4>2. ~(k < s)
        <5> SUFFICES ASSUME k < s PROVE FALSE
          OBVIOUS
        <5>1. s - k \in Nat /\ 1 \in Nat /\ 1 <= s - k /\ s > 0
          BY <3>6, <4>1
        <5>2. m % PowerOfTen[1] = 0
          BY <3>6, <4>1, <5>1, FewerZeros
        <5>3. PowerOfTen[1] = 10
          <6>1. 1 \in Nat /\ 1 # 0 /\ 1 - 1 = 0 /\ 0 \in Nat /\ 10 * 1 = 10
            OBVIOUS
          <6> QED
            BY <6>1, PowerOfTenDef
        <5> QED
          BY <3>7, <5>1, <5>2, <5>3
      <4> QED
        BY <3>6, <4>1, <4>2 DEF k
    <3>15. IsPadded(a, opts)
      <4>1. a.units = m /\ a.scale = s /\ a.negative = d.negative /\ a.width = IntegerDigits(m, s)
        BY DEF Text
      <4>2. IntegerDigits(m, s) \in Nat \ {0}
        BY <3>8, <4>1 DEF IsText
      <4>3. GreaterOf(1, IntegerDigits(m, s)) = IntegerDigits(m, s)
        BY <4>2 DEF GreaterOf
      <4> QED
        BY <3>7, <4>1, <4>3 DEF IsPadded
    <3>16. a.scale = b.scale
      BY <3>9, <3>12, <3>13, <3>14 DEF Text
    <3> HIDE DEF a, b
    <3>17. a = b
      BY <3>4, <3>5, <3>8, <3>9, <3>15, <3>16, SameText
    <3> QED
      BY <3>1, <3>3, <3>17
  <2> QED
    BY <2>1, <2>2
<1> QED
  BY <1>1, <1>2, <1>3 DEF Alike

\* Values that are alike round alike and are written alike.
LEMMA ResultAlike ==
  ASSUME NEW x \in Decimal, NEW y \in Decimal, Alike(x, y), NEW opts, IsResolved(opts)
  PROVE  /\ FormatNumericToString(x, opts).text = FormatNumericToString(y, opts).text
         /\ FormatNumericToString(x, opts).rounded \in Decimal
         /\ FormatNumericToString(y, opts).rounded \in Decimal
         /\ Alike(FormatNumericToString(x, opts).rounded, FormatNumericToString(y, opts).rounded)
<1> DEFINE a == FormatNumericToString(x, opts)
           b == FormatNumericToString(y, opts)
           g == GeneralResult(x, opts)
           h == GeneralResult(y, opts)
<1>1. IsDigits(opts) /\ opts.roundingType \in RoundingTypes /\ x.negative = y.negative
  BY ResolvedDigits DEF Alike
<1>2. /\ a.rounded \in Decimal /\ b.rounded \in Decimal
      /\ a.rounded.negative = x.negative /\ b.rounded.negative = y.negative
      /\ g.rounded \in Decimal /\ h.rounded \in Decimal
  BY ResultAtPlace, ResultOfZero, GeneralAtPlace, GeneralOfZero
<1>3. /\ Alike(FixedCandidate(x, opts).rounded, FixedCandidate(y, opts).rounded)
      /\ Alike(SignificantCandidate(x, opts).rounded, SignificantCandidate(y, opts).rounded)
  BY <1>1, AlikeCandidates
<1>4. /\ RoundFixed(x, opts) \in Decimal /\ ~RoundFixed(x, opts).negative
      /\ RoundFixed(y, opts) \in Decimal /\ ~RoundFixed(y, opts).negative
      /\ RoundSignificant(x, opts) \in Decimal /\ ~RoundSignificant(x, opts).negative
      /\ RoundSignificant(y, opts) \in Decimal /\ ~RoundSignificant(y, opts).negative
  BY <1>1, FixedHasNoMore, SignificantIsDecimal
<1>5. /\ Cmp(RoundFixed(x, opts), RoundFixed(y, opts)) = 0
      /\ Cmp(RoundSignificant(x, opts), RoundSignificant(y, opts)) = 0
  <2>1. \A d \in {x, y} :
          /\ FixedCandidate(d, opts).rounded \in Decimal
          /\ SignificantCandidate(d, opts).rounded \in Decimal
          /\ FixedCandidate(d, opts).rounded.negative = d.negative
          /\ SignificantCandidate(d, opts).rounded.negative = d.negative
          /\ Abs(FixedCandidate(d, opts).rounded) = RoundFixed(d, opts)
          /\ Abs(SignificantCandidate(d, opts).rounded) = RoundSignificant(d, opts)
    BY <1>1, FixedRounds, SignificantRounds, CandidateMagnitudes
  <2>2. /\ Cmp(Abs(FixedCandidate(x, opts).rounded), Abs(FixedCandidate(y, opts).rounded)) = 0
    BY <1>1, <1>3, <2>1, AlikeMagnitude DEF Alike
  <2>3. /\ Cmp(Abs(SignificantCandidate(x, opts).rounded), Abs(SignificantCandidate(y, opts).rounded)) = 0
    BY <1>1, <1>3, <2>1, AlikeMagnitude DEF Alike
  <2> QED
    BY <2>1, <2>2, <2>3
<1>6. MorePreciseFixed(x, opts) = MorePreciseFixed(y, opts)
  <2> DEFINE r == RoundSignificant(x, opts)
             q == RoundSignificant(y, opts)
  <2>1. Alike(r, q) /\ r \in Decimal /\ q \in Decimal
    <3>1. r.negative = FALSE /\ q.negative = FALSE
      BY <1>4 DEF Decimal
    <3> QED
      BY <1>4, <1>5, <3>1 DEF Alike
  <2> HIDE DEF r, q
  <2>2. IsZero(r) <=> IsZero(q)
    BY <2>1, AlikeLead
  <2>3. ~IsZero(r) => Log10Floor(r) = Log10Floor(q)
    BY <2>1, AlikeLead
  <2>4. SignificantRoundingMagnitude(r, opts) = SignificantRoundingMagnitude(q, opts)
    BY <2>2, <2>3 DEF SignificantRoundingMagnitude
  <2> QED
    BY <2>4 DEF MorePreciseFixed, r, q
<1>7. g.text = h.text /\ Alike(g.rounded, h.rounded)
  <2>1. /\ FixedCandidate(x, opts).text = FixedCandidate(y, opts).text
        /\ SignificantCandidate(x, opts).text = SignificantCandidate(y, opts).text
    BY <1>1, <1>5, SameFixedText, SameSignificantText
  <2>2. \/ g = FixedCandidate(x, opts) /\ h = FixedCandidate(y, opts)
        \/ g = SignificantCandidate(x, opts) /\ h = SignificantCandidate(y, opts)
    BY <1>1, <1>6, GeneralIs
  <2> QED
    BY <1>3, <2>1, <2>2
<1>8. a.text = g.text /\ Alike(a.rounded, g.rounded) /\ b.text = h.text /\ Alike(b.rounded, h.rounded)
  BY ShortcutIsGeneral
<1> HIDE DEF a, b, g, h
<1>9. Cmp(a.rounded, b.rounded) = 0
  <2>1. Cmp(a.rounded, h.rounded) = 0
    BY <1>2, <1>7, <1>8, CmpTransitive DEF Alike
  <2>2. Cmp(h.rounded, b.rounded) = 0
    BY <1>2, <1>8, CmpBothWays DEF Alike
  <2> QED
    BY <1>2, <2>1, <2>2, CmpTransitive
<1>10. a.text = b.text /\ Alike(a.rounded, b.rounded)
  BY <1>1, <1>2, <1>7, <1>8, <1>9 DEF Alike
<1> QED
  BY <1>2, <1>10 DEF a, b

\* A factor of ten, or a positive one, keeps values alike and in order.
LEMMA ScaledAlike ==
  ASSUME NEW x \in Decimal, NEW y \in Decimal, NEW e \in Int, NEW n \in Nat \ {0}
  PROVE  /\ Scale10(x, e) \in Decimal /\ Scale10(x, e).negative = x.negative
         /\ MulInt(x, n) \in Decimal /\ MulInt(x, n).negative = x.negative
         /\ Cmp(Scale10(x, e), Scale10(y, e)) = Cmp(x, y)
         /\ Cmp(MulInt(x, n), MulInt(y, n)) <= 0 <=> Cmp(x, y) <= 0
         /\ Cmp(MulInt(x, n), MulInt(y, n)) = 0 <=> Cmp(x, y) = 0
<1> DEFINE u == LesserOf(x.exp, y.exp)
           v == LesserOf(x.exp + e, y.exp + e)
<1>1. /\ x.exp \in Int /\ x.coeff \in Nat /\ x.negative \in BOOLEAN
      /\ y.exp \in Int /\ y.coeff \in Nat /\ y.negative \in BOOLEAN
  BY DEF Decimal
<1>2. u \in Int /\ u <= x.exp /\ u <= y.exp /\ v = u + e
  <2>1. v = u + e
    BY <1>1 DEF LesserOf
  <2> QED
    BY <1>1, <2>1, Lesser
<1> HIDE DEF u, v
<1>3. \A d \in Decimal :
        /\ Scale10(d, e) \in Decimal /\ Scale10(d, e).negative = d.negative
        /\ Scale10(d, e).exp = d.exp + e /\ Scale10(d, e).coeff = d.coeff
  BY DEF Scale10, Decimal
<1>4. \A d \in Decimal :
        /\ MulInt(d, n) \in Decimal /\ MulInt(d, n).negative = d.negative
        /\ MulInt(d, n).exp = d.exp /\ MulInt(d, n).coeff = d.coeff * n
  <2> SUFFICES ASSUME NEW d \in Decimal
               PROVE  /\ MulInt(d, n) \in Decimal /\ MulInt(d, n).negative = d.negative
                      /\ MulInt(d, n).exp = d.exp /\ MulInt(d, n).coeff = d.coeff * n
    OBVIOUS
  <2>1. (n < 0) = FALSE
    OBVIOUS
  <2>2. d.negative \in BOOLEAN /\ d.exp \in Int /\ d.coeff * n \in Nat
    BY DEF Decimal
  <2>3. (d.negative # (n < 0)) = d.negative
    BY <2>1, <2>2, Zenon
  <2>4. MulInt(d, n) = [negative |-> d.negative, coeff |-> d.coeff * n, exp |-> d.exp]
    BY <2>1, <2>3, Zenon DEF MulInt
  <2> QED
    BY <2>2, <2>4 DEF Decimal
<1>5. Cmp(Scale10(x, e), Scale10(y, e)) = Cmp(x, y)
  <2>1. LesserOf(Scale10(x, e).exp, Scale10(y, e).exp) = v
    BY <1>3 DEF v
  <2>2. \A d \in {x, y} : SignedUnits(Scale10(d, e), v) = SignedUnits(d, u)
    <3> SUFFICES ASSUME NEW d \in {x, y} PROVE SignedUnits(Scale10(d, e), v) = SignedUnits(d, u)
      OBVIOUS
    <3>1. (d.exp + e) - v = d.exp - u
      BY <1>1, <1>2
    <3> QED
      BY <1>3, <3>1 DEF SignedUnits, Units
  <2> QED
    BY <2>1, <2>2 DEF Cmp, u
<1>6. \A d \in {x, y} : SignedUnits(d, u) \in Int /\ SignedUnits(MulInt(d, n), u) = SignedUnits(d, u) * n
  <2> SUFFICES ASSUME NEW d \in {x, y}
               PROVE  SignedUnits(d, u) \in Int /\ SignedUnits(MulInt(d, n), u) = SignedUnits(d, u) * n
    OBVIOUS
  <2>1. d \in Decimal /\ u <= d.exp
    BY <1>2
  <2>2. PowerOfTen[d.exp - u] \in Nat /\ d.coeff \in Nat
    <3>1. d.exp - u \in Nat
      BY <1>2, <2>1 DEF Decimal
    <3> QED
      BY <2>1, <3>1, PowerOfTenPositive DEF Decimal
  <2>3. \A c, p \in Nat : (c * n) * p = (c * p) * n /\ c * p \in Nat
    OBVIOUS
  <2>4. Units(MulInt(d, n), u) = Units(d, u) * n /\ Units(d, u) \in Nat
    BY <1>4, <2>1, <2>2, <2>3 DEF Units
  <2>5. \A c \in Nat : -(c * n) = (-c) * n
    OBVIOUS
  <2> QED
    BY <1>4, <2>1, <2>4, <2>5 DEF SignedUnits
<1>7. /\ Cmp(MulInt(x, n), MulInt(y, n)) <= 0 <=> Cmp(x, y) <= 0
      /\ Cmp(MulInt(x, n), MulInt(y, n)) = 0 <=> Cmp(x, y) = 0
  <2>1. u <= MulInt(x, n).exp /\ u <= MulInt(y, n).exp /\ MulInt(x, n) \in Decimal /\ MulInt(y, n) \in Decimal
    BY <1>2, <1>4
  <2>2. /\ Cmp(x, y) \in Int /\ (Cmp(x, y) = 0 <=> SignedUnits(x, u) = SignedUnits(y, u))
        /\ Cmp(x, y) > 0 <=> SignedUnits(x, u) > SignedUnits(y, u)
    BY <1>2, CmpInUnits
  <2>3. /\ Cmp(MulInt(x, n), MulInt(y, n)) \in Int
        /\ Cmp(MulInt(x, n), MulInt(y, n)) = 0 <=>
             SignedUnits(MulInt(x, n), u) = SignedUnits(MulInt(y, n), u)
        /\ Cmp(MulInt(x, n), MulInt(y, n)) > 0 <=>
             SignedUnits(MulInt(x, n), u) > SignedUnits(MulInt(y, n), u)
    BY <1>2, <2>1, CmpInUnits
  <2>4. /\ SignedUnits(x, u) = SignedUnits(y, u) <=> SignedUnits(x, u) * n = SignedUnits(y, u) * n
        /\ SignedUnits(y, u) < SignedUnits(x, u) <=> SignedUnits(y, u) * n < SignedUnits(x, u) * n
    BY <1>6, FactorKeepsOrder
  <2>5. /\ SignedUnits(x, u) \in Int /\ SignedUnits(y, u) \in Int
        /\ SignedUnits(x, u) * n \in Int /\ SignedUnits(y, u) * n \in Int
    BY <1>6
  <2> QED
    BY <1>6, <2>2, <2>3, <2>4, <2>5
<1> QED
  BY <1>3, <1>4, <1>5, <1>7

\* Values that are alike have the same exponent.
LEMMA SameExponent ==
  ASSUME NEW x \in Decimal, NEW y \in Decimal, Alike(x, y),
         NEW f, IsResolved(f.digits), f.notation \in Notations
  PROVE  ComputeExponent(f, x) = ComputeExponent(f, y)
<1>1. /\ IsZero(x) <=> IsZero(y)
      /\ ~IsZero(x) => Log10Floor(x) = Log10Floor(y) /\ Log10Floor(x) \in Int
  BY AlikeLead
<1>2. CASE IsZero(x)
  BY <1>1, <1>2 DEF ComputeExponent
<1>3. CASE ~IsZero(x)
  <2> DEFINE exponent == ExponentForMagnitude(f.notation, Log10Floor(x))
             e == exponent.exponent
             r == FormatNumericToString(Scale10(x, -e), f.digits).rounded
             q == FormatNumericToString(Scale10(y, -e), f.digits).rounded
  <2>1. e \in Int /\ -e \in Int
    BY <1>1, <1>3, ExponentIs
  <2>2. Scale10(x, -e) \in Decimal /\ Scale10(y, -e) \in Decimal /\ Alike(Scale10(x, -e), Scale10(y, -e))
    <3> DEFINE k == -e
    <3>1. 1 \in Nat \ {0} /\ k \in Int /\ x.negative = y.negative /\ Cmp(x, y) = 0
      BY <2>1 DEF Alike
    <3> HIDE DEF e, k
    <3>2. /\ Scale10(x, k) \in Decimal /\ Scale10(x, k).negative = x.negative
          /\ Scale10(y, k) \in Decimal /\ Scale10(y, k).negative = y.negative
          /\ Cmp(Scale10(x, k), Scale10(y, k)) = Cmp(x, y)
      BY <3>1, ScaledAlike
    <3>3. Alike(Scale10(x, k), Scale10(y, k))
      BY <3>1, <3>2 DEF Alike
    <3> QED
      BY <3>2, <3>3 DEF k
  <2>3. r \in Decimal /\ q \in Decimal /\ Alike(r, q)
    <3> HIDE DEF e
    <3> QED
      BY <2>2, ResultAlike
  <2>4. /\ ComputeExponent(f, x) = Carried(f.notation, exponent, r, Log10Floor(x))
        /\ ComputeExponent(f, y) = Carried(f.notation, exponent, q, Log10Floor(x))
    BY <1>1, <1>3 DEF ComputeExponent, WithCarry
  <2> HIDE DEF exponent, r, q
  <2>5. /\ IsZero(r) <=> IsZero(q)
        /\ ~IsZero(r) => Log10Floor(r) = Log10Floor(q)
    BY <2>3, AlikeLead
  <2>6. Carried(f.notation, exponent, r, Log10Floor(x)) = Carried(f.notation, exponent, q, Log10Floor(x))
    BY <2>5 DEF Carried
  <2> QED
    BY <2>4, <2>6
<1> QED
  BY <1>2, <1>3

-------------------------------------------------------------------------------
(* Values that are rounded already. *)

\* What is rounded to a place is a multiple of it, in any units fine enough.
LEMMA RoundedIsMultiple ==
  ASSUME NEW d \in Decimal, NEW r \in Decimal, NEW increment \in Nat \ {0}, NEW place \in Int,
         NEW mode, RoundedAt(d, r, increment, place, mode),
         NEW u \in Int, u <= place, u <= r.exp
  PROVE  /\ SignedUnits(r, u) \in Int /\ increment * PowerOfTen[place - u] \in Nat \ {0}
         /\ SignedUnits(r, u) % (increment * PowerOfTen[place - u]) = 0
<1> DEFINE t == LesserOf(u, d.exp)
           a == SignedUnits(r, u)
           p == increment * PowerOfTen[place - u]
           g == PowerOfTen[u - t]
<1>1. d.exp \in Int
  BY DEF Decimal
<1>2. t \in Int /\ t <= u /\ t <= d.exp /\ t <= place
  <2>1. t \in Int /\ t <= u /\ t <= d.exp
    BY <1>1, Lesser
  <2> HIDE DEF t
  <2> QED
    BY <2>1
<1> HIDE DEF t
<1>3. RoundsTo(SignedUnits(d, t), SignedUnits(r, t), increment * PowerOfTen[place - t], mode)
  BY <1>2 DEF RoundedAt
<1>4. SignedUnits(r, t) % (increment * PowerOfTen[place - t]) = 0
  BY <1>3 DEF RoundsTo
<1>5. a \in Int /\ g \in Nat \ {0} /\ SignedUnits(r, t) = a * g
  BY <1>2, UnitsRescaled
<1>6. /\ place - u \in Nat /\ u - t \in Nat /\ (place - u) + (u - t) = place - t
  BY <1>2
<1>7. PowerOfTen[place - t] = PowerOfTen[place - u] * g
  BY <1>6, PowerOfTenSum
<1>8. PowerOfTen[place - u] \in Nat \ {0}
  BY <1>6, PowerOfTenPositive
<1>9. p \in Nat \ {0} /\ increment * PowerOfTen[place - t] = p * g /\ p * g \in Nat \ {0}
  <2>1. \A x, y, z \in Nat \ {0} : x * (y * z) = (x * y) * z /\ x * y \in Nat \ {0}
    OBVIOUS
  <2> QED
    BY <1>5, <1>7, <1>8, <2>1
<1> HIDE DEF a, p, g
<1>10. PICK q \in Int : a * g = q * (p * g)
  <2>1. a * g \in Int
    BY <1>5
  <2> QED
    BY <1>4, <1>5, <1>9, <2>1, MultipleIsProduct
<1>11. q * (p * g) = (q * p) * g /\ q * p \in Int
  BY <1>5, <1>9
<1>12. a = q * p
  BY <1>5, <1>10, <1>11, FactorKeepsOrder
<1>13. a % p = 0
  BY <1>5, <1>9, <1>12, MultipleIsProduct
<1> QED
  BY <1>5, <1>9, <1>13 DEF a, p

\* Rounded again at the same place a value stays what it is.
LEMMA SettledAt ==
  ASSUME NEW d \in Decimal, NEW r \in Decimal, NEW increment \in Nat \ {0}, NEW place \in Int,
         NEW mode \in RoundingModes, RoundedAt(d, r, increment, place, mode)
  PROVE  RoundedAt(r, r, increment, place, mode)
<1> SUFFICES ASSUME NEW u \in Int, u <= place, u <= r.exp
             PROVE  RoundsTo(SignedUnits(r, u), SignedUnits(r, u), increment * PowerOfTen[place - u], mode)
  BY DEF RoundedAt
<1>1. /\ SignedUnits(r, u) \in Int /\ increment * PowerOfTen[place - u] \in Nat \ {0}
      /\ SignedUnits(r, u) % (increment * PowerOfTen[place - u]) = 0
  BY RoundedIsMultiple
<1> QED
  BY <1>1, MultipleRounds

\* So it does at a finer one.
LEMMA SettledFiner ==
  ASSUME NEW d \in Decimal, NEW r \in Decimal, NEW place \in Int, NEW finer \in Int, finer <= place,
         NEW mode \in RoundingModes, RoundedAt(d, r, 1, place, mode)
  PROVE  RoundedAt(r, r, 1, finer, mode)
<1> SUFFICES ASSUME NEW u \in Int, u <= finer, u <= r.exp
             PROVE  RoundsTo(SignedUnits(r, u), SignedUnits(r, u), 1 * PowerOfTen[finer - u], mode)
  BY DEF RoundedAt
<1> DEFINE a == SignedUnits(r, u)
           g == PowerOfTen[place - u]
           h == PowerOfTen[finer - u]
<1>1. u <= place /\ 1 \in Nat \ {0} /\ finer - u \in Nat /\ place - u \in Nat /\ finer - u <= place - u
  OBVIOUS
<1>2. /\ a \in Int /\ 1 * g \in Nat \ {0} /\ (a % (1 * g)) = 0
  BY <1>1, RoundedIsMultiple
<1>3. /\ g = PowerOfTen[(place - u) - (finer - u)] * h
      /\ PowerOfTen[(place - u) - (finer - u)] \in Nat \ {0} /\ h \in Nat \ {0} /\ g \in Nat \ {0}
  <2>1. (place - u) - (finer - u) \in Nat
    BY <1>1
  <2> QED
    BY <1>1, <2>1, PowerIsMultiple, PowerOfTenPositive
<1> DEFINE k == PowerOfTen[(place - u) - (finer - u)]
<1> HIDE DEF a, g, h, k
<1>4. k \in Nat \ {0} /\ g = k * h
  BY <1>3 DEF k
<1>5. PICK q \in Int : a = q * g
  <2>1. (a % g) = 0
    BY <1>2, <1>3
  <2> QED
    BY <1>2, <1>3, <2>1, MultipleIsProduct
<1>6. a = (q * k) * h /\ q * k \in Int
  BY <1>3, <1>4, <1>5
<1>7. (a % h) = 0 /\ 1 * h = h
  <2>1. \E c \in Int : a = c * h
    BY <1>6
  <2>2. a \in Int /\ h \in Nat \ {0}
    BY <1>2, <1>3
  <2>3. (a % h) = 0
    BY <2>1, <2>2, MultipleIsProduct
  <2> QED
    BY <2>2, <2>3
<1> QED
  BY <1>2, <1>3, <1>7, MultipleRounds DEF a, h

\* Rounded at one place a value becomes one.
LEMMA AlikeAtPlace ==
  ASSUME NEW x \in Decimal, NEW r \in Decimal, NEW s \in Decimal, r.negative = s.negative,
         NEW increment \in Nat \ {0}, NEW place \in Int, NEW mode \in RoundingModes,
         RoundedAt(x, r, increment, place, mode), RoundedAt(x, s, increment, place, mode)
  PROVE  Alike(r, s)
<1>1. Cmp(x, x) <= 0
  BY CmpReflexive
<1>2. Cmp(r, s) <= 0
  BY <1>1, PlaceKeepsOrder
<1>3. Cmp(s, r) <= 0
  BY <1>1, PlaceKeepsOrder
<1> QED
  BY <1>2, <1>3, CmpBothWays DEF Alike

\* r is a power of ten, or one below zero.
IsPower(r, k) == \A u \in Int : u <= r.exp /\ u <= k => Units(r, u) = PowerOfTen[k - u]

\* A power of ten is not changed by rounding it at a place up to its own.
LEMMA PowerSettles ==
  ASSUME NEW r \in Decimal, NEW k \in Int, IsPower(r, k), NEW place \in Int, place <= k,
         NEW mode \in RoundingModes
  PROVE  RoundedAt(r, r, 1, place, mode)
<1> SUFFICES ASSUME NEW u \in Int, u <= place, u <= r.exp
             PROVE  RoundsTo(SignedUnits(r, u), SignedUnits(r, u), 1 * PowerOfTen[place - u], mode)
  BY DEF RoundedAt
<1> DEFINE a == Units(r, u)
           h == PowerOfTen[place - u]
           c == PowerOfTen[(k - u) - (place - u)]
<1>1. place - u \in Nat /\ k - u \in Nat /\ place - u <= k - u /\ (k - u) - (place - u) \in Nat
  OBVIOUS
<1>2. a = PowerOfTen[k - u]
  BY DEF IsPower
<1>3. a = c * h /\ c \in Nat /\ h \in Nat \ {0} /\ 1 * h = h
  BY <1>1, <1>2, PowerIsMultiple, PowerOfTenPositive
<1> HIDE DEF a, h, c
<1>4. SignedUnits(r, u) \in Int /\ SignedUnits(r, u) % h = 0
  <2>1. SignedUnits(r, u) = IF r.negative THEN -a ELSE a
    BY DEF SignedUnits, a
  <2>2. -a = (-c) * h /\ -c \in Int /\ c \in Int /\ a \in Int /\ -a \in Int
    BY <1>3
  <2>3. (-a) % h = 0 /\ a % h = 0
    BY <1>3, <2>2, MultipleIsProduct
  <2> QED
    BY <2>1, <2>2, <2>3
<1> QED
  BY <1>3, <1>4, MultipleRounds DEF h

\* Rounding keeps the leading digit's place, or carries to a power of ten; a value
\* below the place becomes zero or that place's power.
LEMMA LeadsAtPlace ==
  ASSUME NEW x \in Decimal, ~IsZero(x), NEW r \in Decimal, r.negative = x.negative,
         NEW place \in Int, NEW mode, RoundedAt(x, r, 1, place, mode)
  PROVE  LET k == GreaterOf(place, Log10Floor(x) + 1)
         IN  /\ place <= Log10Floor(x) => ~IsZero(r)
             /\ ~IsZero(r) => \/ place <= Log10Floor(x) /\ Log10Floor(r) = Log10Floor(x)
                              \/ Log10Floor(r) = k /\ IsPower(r, k)
<1> DEFINE L == Log10Floor(x)
           k == GreaterOf(place, L + 1)
<1>1. x.exp \in Int /\ r.exp \in Int /\ L \in Int /\ x.exp <= L
  <2>1. x.exp \in Int /\ x.exp <= x.exp
    BY DEF Decimal
  <2> QED
    BY <2>1, LeadingDigit DEF Decimal
<1>2. k \in Int /\ place <= k /\ L + 1 <= k /\ k \in {place, L + 1}
  <2> DEFINE above == L + 1
  <2>1. above \in Int /\ k = GreaterOf(place, above)
    BY <1>1
  <2> HIDE DEF above, k
  <2>2. k \in Int /\ place <= k /\ above <= k /\ k \in {place, above}
    BY <2>1, Lesser
  <2> QED
    BY <2>2 DEF above
<1> HIDE DEF L, k
\* In fine units, r is at most the power, and at least that of the leading digit.
<1>3. ASSUME NEW t \in Int, t <= place, t <= x.exp
      PROVE  /\ t <= r.exp /\ Units(r, t) \in Nat /\ Units(r, t) <= PowerOfTen[k - t]
             /\ PowerOfTen[k - t] \in Nat \ {0} /\ PowerOfTen[place - t] \in Nat \ {0}
             /\ Units(r, t) % PowerOfTen[place - t] = 0
             /\ place <= L => PowerOfTen[L - t] <= Units(r, t) /\ PowerOfTen[L - t] \in Nat \ {0}
  <2> DEFINE n == Units(x, t)
             m == Units(r, t)
             step == PowerOfTen[place - t]
             high == PowerOfTen[k - t]
             low == PowerOfTen[L - t]
  <2>1. /\ t <= r.exp /\ n \in Nat /\ m \in Nat /\ step \in Nat \ {0}
        /\ (m % step) = 0 /\ Magnitude(m - n) < step
    BY <1>3, PlaceMagnitude
  <2>2. low <= n /\ n < PowerOfTen[L - t + 1]
    BY <1>3, LeadingDigit DEF L
  <2>3. /\ L - t \in Nat /\ L - t + 1 \in Nat /\ k - t \in Nat /\ place - t \in Nat
        /\ L - t + 1 <= k - t /\ place - t <= k - t
    BY <1>1, <1>2, <1>3
  <2>4. /\ high \in Nat \ {0} /\ low \in Nat \ {0} /\ PowerOfTen[L - t + 1] \in Nat
        /\ PowerOfTen[L - t + 1] <= high /\ (high % step) = 0
    BY <2>3, PowerOfTenPositive, PowersOrdered, PowerIsMultiple
  <2>5. place <= L => (low % step) = 0
    BY <1>1, <2>3, PowerIsMultiple
  <2> HIDE DEF n, m, step, high, low
  <2>6. 0 \in Nat /\ (0 % step) = 0
    <3>1. \A b \in Nat \ {0} : (0 % b) = 0
      BY DivisionUnique
    <3> QED
      BY <2>1, <3>1
  <2>7. m <= high
    <3>1. 0 <= n /\ n <= high /\ high \in Nat
      BY <2>1, <2>2, <2>4
    <3> QED
      BY <2>1, <2>4, <2>6, <3>1, RoundedBetween
  <2>8. place <= L => low <= m
    <3> SUFFICES ASSUME place <= L PROVE low <= m
      OBVIOUS
    <3>1. n <= high /\ high \in Nat /\ low \in Nat /\ (low % step) = 0
      BY <2>1, <2>2, <2>4, <2>5
    <3> QED
      BY <2>1, <2>2, <2>4, <3>1, RoundedBetween
  <2> QED
    BY <2>1, <2>4, <2>7, <2>8 DEF m, step, high, low
<1> DEFINE t == LesserOf(place, x.exp)
<1>4. t \in Int /\ t <= place /\ t <= x.exp
  BY <1>1, Lesser
<1> HIDE DEF t
<1>5. /\ t <= r.exp /\ Units(r, t) \in Nat /\ Units(r, t) <= PowerOfTen[k - t]
      /\ PowerOfTen[k - t] \in Nat \ {0} /\ PowerOfTen[place - t] \in Nat \ {0}
      /\ Units(r, t) % PowerOfTen[place - t] = 0
      /\ place <= L => PowerOfTen[L - t] <= Units(r, t) /\ PowerOfTen[L - t] \in Nat \ {0}
  BY <1>3, <1>4
<1>6. IsZero(r) <=> Units(r, t) = 0
  BY <1>4, <1>5, SignAndMagnitude
<1>7. place <= L => ~IsZero(r)
  BY <1>5, <1>6
<1>8. ASSUME ~IsZero(r), ~(place <= L /\ Log10Floor(r) = L)
      PROVE  Log10Floor(r) = k /\ IsPower(r, k)
  <2>1. /\ Log10Floor(r) \in Int /\ r.exp <= Log10Floor(r)
        /\ PowerOfTen[Log10Floor(r) - t] <= Units(r, t)
        /\ Units(r, t) < PowerOfTen[Log10Floor(r) - t + 1]
    BY <1>4, <1>5, <1>8, LeadingDigit
  <2>2. /\ k - t \in Nat /\ L - t \in Nat /\ Log10Floor(r) - t \in Nat /\ Log10Floor(r) - t + 1 \in Nat
        /\ place - t \in Nat
    BY <1>1, <1>2, <1>4, <1>5, <2>1
  <2>3. PowerOfTen[Log10Floor(r) - t] \in Nat /\ PowerOfTen[Log10Floor(r) - t + 1] \in Nat
    BY <2>2, PowerOfTenPositive
  <2>4. Units(r, t) = PowerOfTen[k - t]
    <3>1. CASE place <= L
      <4>1. k = L + 1
        BY <1>1, <1>2, <3>1
      <4> SUFFICES ASSUME Units(r, t) < PowerOfTen[k - t] PROVE FALSE
        BY <1>5
      <4>2. PowerOfTen[Log10Floor(r) - t] < PowerOfTen[k - t]
        BY <1>5, <2>1, <2>3
      <4>3. PowerOfTen[L - t] < PowerOfTen[Log10Floor(r) - t + 1]
        BY <1>5, <2>1, <2>3, <3>1
      <4>4. Log10Floor(r) - t < k - t /\ L - t < Log10Floor(r) - t + 1
        BY <2>2, <4>2, <4>3, PowersOrdered
      <4> QED
        BY <1>1, <1>4, <1>8, <2>1, <3>1, <4>1, <4>4
    <3>2. CASE ~(place <= L)
      <4>1. k = place
        BY <1>1, <1>2, <3>2
      <4>2. PICK q \in Int : Units(r, t) = q * PowerOfTen[place - t]
        <5>1. Units(r, t) \in Int
          BY <1>5
        <5> QED
          BY <1>5, <5>1, MultipleIsProduct
      <4>3. q >= 1
        <5>1. ASSUME q <= 0 PROVE Units(r, t) <= 0
          <6>1. \A c \in Nat : (-c) * PowerOfTen[place - t] <= 0
            BY <1>5
          <6>2. -q \in Nat /\ q = -(-q)
            BY <5>1
          <6> QED
            BY <4>2, <6>1, <6>2
        <5> QED
          BY <1>5, <1>6, <1>8, <5>1
      <4>4. PowerOfTen[place - t] <= q * PowerOfTen[place - t]
        <5>1. \A c \in Nat \ {0}, b \in Nat \ {0} : b <= c * b
          OBVIOUS
        <5>2. q \in Nat \ {0}
          BY <4>3
        <5> QED
          BY <1>5, <5>1, <5>2
      <4> QED
        BY <1>5, <4>1, <4>2, <4>4
    <3> QED
      BY <3>1, <3>2
  <2>5. Log10Floor(r) = k
    <3>1. Log10Floor(r) - t <= k - t /\ k - t < Log10Floor(r) - t + 1
      BY <2>1, <2>2, <2>4, PowersOrdered
    <3> QED
      BY <1>2, <1>4, <2>1, <3>1
  <2>6. ASSUME NEW u \in Int, u <= r.exp, u <= k
        PROVE  Units(r, u) = PowerOfTen[k - u]
    <3> DEFINE v == LesserOf(u, t)
               g == PowerOfTen[u - v]
    <3>1. v \in Int /\ v <= u /\ v <= t
      BY <1>4, Lesser
    <3> HIDE DEF v
    <3>2. Units(r, u) \in Nat /\ g \in Nat \ {0} /\ Units(r, v) = Units(r, u) * g
      BY <2>6, <3>1, UnitsRescaled
    <3>3. /\ Units(r, v) = Units(r, t) * PowerOfTen[t - v] /\ PowerOfTen[t - v] \in Nat
      BY <1>4, <1>5, <3>1, UnitsRescaled
    <3>4. /\ k - u \in Nat /\ u - v \in Nat /\ (k - u) + (u - v) = k - v
          /\ k - t \in Nat /\ t - v \in Nat /\ (k - t) + (t - v) = k - v
      BY <1>2, <1>4, <2>2, <2>6, <3>1
    <3>5. PowerOfTen[k - v] = PowerOfTen[k - u] * g /\ PowerOfTen[k - u] \in Nat
      <4>1. PowerOfTen[k - v] = PowerOfTen[k - u] * g
        BY <3>4, PowerOfTenSum
      <4>2. PowerOfTen[k - u] \in Nat
        BY <3>4, PowerOfTenPositive
      <4> QED
        BY <4>1, <4>2
    <3>6. PowerOfTen[k - v] = PowerOfTen[k - t] * PowerOfTen[t - v]
      BY <3>4, PowerOfTenSum
    <3> HIDE DEF g
    <3>7. Units(r, u) * g = PowerOfTen[k - u] * g
      BY <2>4, <3>2, <3>3, <3>5, <3>6
    <3>8. Units(r, u) \in Int /\ PowerOfTen[k - u] \in Int
      BY <3>2, <3>5
    <3> QED
      BY <3>2, <3>7, <3>8, FactorKeepsOrder
  <2> QED
    BY <2>5, <2>6 DEF IsPower
<1> QED
  BY <1>7, <1>8 DEF L, k

\* Either candidate, rounded again by its own kind of digits, stays what it is.
LEMMA FixedSettles ==
  ASSUME NEW d \in Decimal, NEW opts, IsDigits(opts),
         NEW g, g = FixedCandidate(d, opts).rounded
  PROVE  g \in Decimal /\ g.negative = d.negative /\ Alike(FixedCandidate(g, opts).rounded, g)
<1> DEFINE r == FixedCandidate(g, opts).rounded
           place == -opts.maximumFractionDigits
<1>1. /\ g \in Decimal /\ g.negative = d.negative /\ place \in Int
      /\ RoundedAt(d, g, opts.roundingIncrement, place, opts.roundingMode)
  BY FixedAtPlace
<1>2. /\ r \in Decimal /\ r.negative = g.negative
      /\ RoundedAt(g, r, opts.roundingIncrement, place, opts.roundingMode)
  BY <1>1, FixedAtPlace
<1>3. opts.roundingIncrement \in Nat \ {0} /\ opts.roundingMode \in RoundingModes
  BY DEF IsDigits, RoundingIncrements
<1> HIDE DEF r, place
<1>4. RoundedAt(g, g, opts.roundingIncrement, place, opts.roundingMode)
  BY <1>1, <1>3, SettledAt
<1>5. Alike(r, g)
  BY <1>1, <1>2, <1>3, <1>4, AlikeAtPlace
<1> QED
  BY <1>1, <1>5 DEF r

\* Rounding a value that is settled at its significant place changes nothing.
LEMMA SettledSignificant ==
  ASSUME NEW g \in Decimal, ~IsZero(g), NEW opts, IsDigits(opts),
         RoundedAt(g, g, 1, SignificantPlace(g, opts), opts.roundingMode)
  PROVE  /\ SignificantCandidate(g, opts).rounded \in Decimal
         /\ Alike(SignificantCandidate(g, opts).rounded, g)
<1> DEFINE r == SignificantCandidate(g, opts).rounded
           place == SignificantPlace(g, opts)
<1>1. /\ r \in Decimal /\ r.negative = g.negative /\ place \in Int
      /\ RoundedAt(g, r, 1, place, opts.roundingMode)
  BY SignificantAtPlace
<1>2. 1 \in Nat \ {0} /\ opts.roundingMode \in RoundingModes
      /\ RoundedAt(g, g, 1, place, opts.roundingMode)
  BY DEF IsDigits
<1> HIDE DEF r, place
<1>3. Alike(r, g)
  BY <1>1, <1>2, AlikeAtPlace
<1> QED
  BY <1>1, <1>3 DEF r

LEMMA SignificantPlaceIs ==
  ASSUME NEW d \in Decimal, ~IsZero(d), NEW opts, IsDigits(opts), opts.maximumSignificantDigits >= 1
  PROVE  /\ Log10Floor(d) \in Int /\ SignificantPlace(d, opts) \in Int
         /\ opts.maximumSignificantDigits \in Nat
         /\ SignificantPlace(d, opts) = Log10Floor(d) - opts.maximumSignificantDigits + 1
         /\ SignificantPlace(d, opts) <= Log10Floor(d)
<1>1. Log10Floor(d) \in Int /\ opts.maximumSignificantDigits \in Nat
  BY LeadingTyped DEF IsDigits
<1> QED
  BY <1>1 DEF SignificantPlace

LEMMA SignificantSettles ==
  ASSUME NEW d \in Decimal, ~IsZero(d), NEW opts, IsDigits(opts), opts.maximumSignificantDigits >= 1,
         NEW g, g = SignificantCandidate(d, opts).rounded
  PROVE  /\ g \in Decimal /\ g.negative = d.negative /\ ~IsZero(g)
         /\ SignificantCandidate(g, opts).rounded \in Decimal
         /\ Alike(SignificantCandidate(g, opts).rounded, g)
<1> DEFINE L == Log10Floor(d)
           place == SignificantPlace(d, opts)
           k == GreaterOf(place, L + 1)
<1>1. /\ g \in Decimal /\ g.negative = d.negative /\ place \in Int
      /\ RoundedAt(d, g, 1, place, opts.roundingMode)
  BY SignificantAtPlace
<1>2. L \in Int /\ place <= L
  BY SignificantPlaceIs
<1>3. ~IsZero(g) /\ (Log10Floor(g) = L \/ (Log10Floor(g) = k /\ IsPower(g, k)))
  BY <1>1, <1>2, LeadsAtPlace
<1>4. /\ Log10Floor(g) \in Int /\ SignificantPlace(g, opts) \in Int
      /\ SignificantPlace(g, opts) <= Log10Floor(g)
      /\ Log10Floor(g) = L => SignificantPlace(g, opts) = place
  BY <1>1, <1>3, SignificantPlaceIs DEF SignificantPlace
<1>5. 1 \in Nat \ {0} /\ opts.roundingMode \in RoundingModes
  BY DEF IsDigits
<1>6. RoundedAt(g, g, 1, SignificantPlace(g, opts), opts.roundingMode)
  <2> HIDE DEF L, place, k
  <2>1. CASE Log10Floor(g) = L
    <3>1. RoundedAt(g, g, 1, place, opts.roundingMode)
      BY <1>1, <1>5, SettledAt
    <3> QED
      BY <1>4, <2>1, <3>1
  <2>2. CASE Log10Floor(g) = k /\ IsPower(g, k)
    <3>1. IsPower(g, Log10Floor(g))
      BY <2>2
    <3> HIDE <2>2
    <3> QED
      BY <1>1, <1>4, <1>5, <3>1, PowerSettles
  <2> QED
    BY <1>3, <2>1, <2>2
<1> QED
  BY <1>1, <1>3, <1>6, SettledSignificant

\* What the choice between both kinds of digits looks at.
LEMMA KindByLead ==
  ASSUME NEW d \in Decimal, ~IsZero(d), NEW opts, IsDigits(opts), opts.maximumSignificantDigits >= 1,
         NEW s, s = SignificantCandidate(d, opts).rounded
  PROVE  /\ Log10Floor(s) \in Int
         /\ MorePreciseFixed(d, opts) <=>
              -opts.maximumFractionDigits < Log10Floor(s) - opts.maximumSignificantDigits + 1
<1> DEFINE r == RoundSignificant(d, opts)
<1>1. s \in Decimal /\ ~IsZero(s)
  BY SignificantSettles
<1>2. r = Abs(s)
  BY CandidateMagnitudes
<1>3. ~IsZero(r) /\ Log10Floor(r) = Log10Floor(s)
  BY <1>1, <1>2, AbsOf
<1>4. Log10Floor(s) \in Int
  BY <1>1, LeadingTyped
<1> HIDE DEF r
<1>5. SignificantRoundingMagnitude(r, opts) = Log10Floor(s) - opts.maximumSignificantDigits + 1
  BY <1>3 DEF SignificantRoundingMagnitude
<1> QED
  BY <1>4, <1>5 DEF MorePreciseFixed, r

\* Either candidate makes the choice that the value it is rounded from makes.
LEMMA SignificantKeepsKind ==
  ASSUME NEW d \in Decimal, ~IsZero(d), NEW opts, IsDigits(opts), opts.maximumSignificantDigits >= 1,
         NEW g, g = SignificantCandidate(d, opts).rounded
  PROVE  MorePreciseFixed(g, opts) = MorePreciseFixed(d, opts)
<1> DEFINE s == SignificantCandidate(g, opts).rounded
<1>1. g \in Decimal /\ ~IsZero(g) /\ s \in Decimal /\ Alike(s, g)
  BY SignificantSettles
<1>2. MorePreciseFixed(g, opts) <=>
        -opts.maximumFractionDigits < Log10Floor(s) - opts.maximumSignificantDigits + 1
  BY <1>1, KindByLead
<1>3. MorePreciseFixed(d, opts) <=>
        -opts.maximumFractionDigits < Log10Floor(g) - opts.maximumSignificantDigits + 1
  BY KindByLead
<1> HIDE DEF s
<1>4. Log10Floor(s) = Log10Floor(g)
  BY <1>1, AlikeLead
<1>5. MorePreciseFixed(g, opts) \in BOOLEAN /\ MorePreciseFixed(d, opts) \in BOOLEAN
  BY DEF MorePreciseFixed
<1> QED
  BY <1>2, <1>3, <1>4, <1>5

LEMMA FixedKeepsKind ==
  ASSUME NEW d \in Decimal, ~IsZero(d), NEW opts, IsDigits(opts), opts.maximumSignificantDigits >= 1,
         opts.roundingIncrement = 1, NEW g, g = FixedCandidate(d, opts).rounded, ~IsZero(g)
  PROVE  MorePreciseFixed(g, opts) = MorePreciseFixed(d, opts)
<1> DEFINE L == Log10Floor(d)
           last == -opts.maximumFractionDigits
           m == opts.maximumSignificantDigits
           place == SignificantPlace(d, opts)
           s == SignificantCandidate(d, opts).rounded
           t == SignificantCandidate(g, opts).rounded
           k == GreaterOf(last, L + 1)
           j == GreaterOf(place, L + 1)
           A == Log10Floor(g)
           B == Log10Floor(s)
           C == Log10Floor(t)
<1>1. 1 \in Nat \ {0} /\ opts.roundingMode \in RoundingModes /\ last \in Int /\ m \in Nat /\ m >= 1
  BY DEF IsDigits
<1>2. L \in Int /\ place \in Int /\ place = L - m + 1 /\ place <= L
  BY SignificantPlaceIs
<1>3. g \in Decimal /\ g.negative = d.negative /\ RoundedAt(d, g, 1, last, opts.roundingMode)
  BY FixedAtPlace
<1>4. s \in Decimal /\ s.negative = d.negative /\ RoundedAt(d, s, 1, place, opts.roundingMode)
  BY SignificantAtPlace
<1>5. /\ A \in Int /\ SignificantPlace(g, opts) \in Int /\ SignificantPlace(g, opts) <= A
      /\ SignificantPlace(g, opts) = A - m + 1
  BY <1>3, SignificantPlaceIs
<1>6. t \in Decimal /\ t.negative = g.negative /\ RoundedAt(g, t, 1, SignificantPlace(g, opts), opts.roundingMode)
  BY <1>3, SignificantAtPlace
<1>7. B \in Int /\ C \in Int
      /\ (MorePreciseFixed(d, opts) <=> last < B - m + 1)
      /\ (MorePreciseFixed(g, opts) <=> last < C - m + 1)
  BY <1>3, KindByLead
<1>8. MorePreciseFixed(g, opts) \in BOOLEAN /\ MorePreciseFixed(d, opts) \in BOOLEAN
  BY DEF MorePreciseFixed
\* Where the values lead.
<1>9. (last <= L /\ A = L) \/ (A = k /\ IsPower(g, k))
  BY <1>1, <1>3, LeadsAtPlace
<1>10. B \in {L, L + 1}
  <2>1. ~IsZero(s) /\ (B = L \/ B = j)
    BY <1>2, <1>4, LeadsAtPlace
  <2>2. j = L + 1
    BY <1>2 DEF GreaterOf
  <2> QED
    BY <2>1, <2>2
<1>11. /\ last <= L => k = L + 1
       /\ ~(last <= L) => k = last
  BY <1>1, <1>2 DEF GreaterOf
<1> HIDE DEF k, j
<1>12. C \in {A, A + 1}
  <2> DEFINE place2 == SignificantPlace(g, opts)
             i == GreaterOf(place2, A + 1)
  <2>1. ~IsZero(t) /\ (C = A \/ C = i)
    BY <1>3, <1>5, <1>6, LeadsAtPlace
  <2>2. i = A + 1
    BY <1>5 DEF GreaterOf
  <2> QED
    BY <2>1, <2>2
\* Rounded at one place, both candidates are one value.
<1>13. last = place => B = A
  <2> SUFFICES ASSUME last = place PROVE B = A
    OBVIOUS
  <2>1. Alike(s, g)
    <3> HIDE DEF last, place, s, L
    <3> QED
      BY <1>1, <1>2, <1>3, <1>4, AlikeAtPlace
  <2>2. ~IsZero(s) /\ s \in Decimal
    BY SignificantSettles
  <2> HIDE DEF s
  <2> QED
    BY <1>3, <1>4, <2>1, <2>2, AlikeLead
\* A value with few enough digits keeps them.
<1>14. RoundedAt(g, g, 1, SignificantPlace(g, opts), opts.roundingMode) => C = A
  <2> SUFFICES ASSUME RoundedAt(g, g, 1, SignificantPlace(g, opts), opts.roundingMode) PROVE C = A
    OBVIOUS
  <2>1. t \in Decimal /\ Alike(t, g)
    BY <1>3, SettledSignificant
  <2> HIDE DEF t
  <2> QED
    BY <1>3, <2>1, AlikeLead
<1> HIDE DEF L, last, m, place, s, t, A, B, C
<1>15. CASE A = k /\ IsPower(g, k)
  <2>1. C = A
    BY <1>1, <1>3, <1>5, <1>14, <1>15, PowerSettles
  <2>2. CASE last <= L
    BY <1>1, <1>2, <1>5, <1>7, <1>8, <1>10, <1>11, <1>13, <1>15, <2>1, <2>2
  <2>3. CASE ~(last <= L)
    BY <1>1, <1>2, <1>5, <1>7, <1>8, <1>10, <1>11, <1>15, <2>1, <2>3
  <2> QED
    BY <2>2, <2>3
<1>16. CASE last <= L /\ A = L
  <2>1. CASE place <= last
    <3>1. SignificantPlace(g, opts) = place
      BY <1>2, <1>5, <1>16
    <3>2. RoundedAt(g, g, 1, place, opts.roundingMode)
      BY <1>1, <1>2, <1>3, <2>1, SettledFiner
    <3>3. C = A
      BY <1>14, <3>1, <3>2
    <3> QED
      BY <1>1, <1>2, <1>5, <1>7, <1>8, <1>10, <1>13, <1>16, <2>1, <3>3
  <2>2. CASE last < place
    BY <1>1, <1>2, <1>5, <1>7, <1>8, <1>10, <1>12, <1>16, <2>2
  <2> QED
    BY <1>1, <1>2, <2>1, <2>2
<1> QED
  BY <1>9, <1>15, <1>16

\* A value that was rounded, written again by the same kind of digits.
LEMMA CandidateTextSettles ==
  ASSUME NEW d \in Decimal, NEW opts, IsResolved(opts)
  PROVE  /\ FixedCandidate(FixedCandidate(d, opts).rounded, opts).text = FixedCandidate(d, opts).text
         /\ ~IsZero(d) /\ opts.maximumSignificantDigits >= 1 =>
              SignificantCandidate(SignificantCandidate(d, opts).rounded, opts).text
                = SignificantCandidate(d, opts).text
<1>1. IsDigits(opts)
  BY ResolvedDigits
<1>2. FixedCandidate(FixedCandidate(d, opts).rounded, opts).text = FixedCandidate(d, opts).text
  <2> DEFINE g == FixedCandidate(d, opts).rounded
             h == FixedCandidate(g, opts).rounded
  <2>1. g \in Decimal /\ g.negative = d.negative /\ Alike(h, g) /\ Abs(g) = RoundFixed(d, opts)
    BY <1>1, FixedSettles, CandidateMagnitudes
  <2>2. h \in Decimal /\ Abs(h) = RoundFixed(g, opts)
    BY <1>1, <2>1, FixedAtPlace, CandidateMagnitudes
  <2> HIDE DEF g, h
  <2>3. Cmp(Abs(h), Abs(g)) = 0
    BY <2>1, <2>2, AlikeMagnitude DEF Alike
  <2>4. FixedCandidate(g, opts).text = FixedCandidate(d, opts).text
    BY <2>1, <2>2, <2>3, SameFixedText
  <2> QED
    BY <2>4 DEF g
<1>3. ASSUME ~IsZero(d), opts.maximumSignificantDigits >= 1
      PROVE  SignificantCandidate(SignificantCandidate(d, opts).rounded, opts).text
               = SignificantCandidate(d, opts).text
  <2> DEFINE g == SignificantCandidate(d, opts).rounded
             h == SignificantCandidate(g, opts).rounded
  <2>1. g \in Decimal /\ g.negative = d.negative /\ h \in Decimal /\ Alike(h, g)
    BY <1>1, <1>3, SignificantSettles
  <2>2. Abs(g) = RoundSignificant(d, opts) /\ Abs(h) = RoundSignificant(g, opts)
    BY <1>1, <2>1, CandidateMagnitudes
  <2> HIDE DEF g, h
  <2>3. Cmp(Abs(h), Abs(g)) = 0
    BY <2>1, <2>2, AlikeMagnitude DEF Alike
  <2>4. SignificantCandidate(g, opts).text = SignificantCandidate(d, opts).text
    BY <2>1, <2>2, <2>3, SameSignificantText
  <2> QED
    BY <2>4 DEF g
<1> QED
  BY <1>2, <1>3

LEMMA GeneralSettles ==
  ASSUME NEW d \in Decimal, ~IsZero(d), NEW opts, IsResolved(opts),
         NEW g, g = GeneralResult(d, opts).rounded,
         opts.roundingType \in {"morePrecision", "lessPrecision"} => ~IsZero(g)
  PROVE  GeneralResult(g, opts).text = GeneralResult(d, opts).text
<1> DEFINE Fixed(x) == \/ opts.roundingType = "fractionDigits"
                       \/ opts.roundingType = "morePrecision" /\ MorePreciseFixed(x, opts)
                       \/ opts.roundingType = "lessPrecision" /\ ~MorePreciseFixed(x, opts)
<1>1. /\ IsDigits(opts) /\ opts.roundingType \in RoundingTypes
      /\ opts.roundingType # "fractionDigits" =>
           opts.roundingIncrement = 1 /\ opts.maximumSignificantDigits >= 1
  BY ResolvedDigits
<1>2. \A x : GeneralResult(x, opts) =
               IF Fixed(x) THEN FixedCandidate(x, opts) ELSE SignificantCandidate(x, opts)
  <2> SUFFICES ASSUME NEW x
               PROVE  GeneralResult(x, opts) =
                        IF Fixed(x) THEN FixedCandidate(x, opts) ELSE SignificantCandidate(x, opts)
    OBVIOUS
  <2> QED
    BY <1>1, GeneralIs
<1>3. CASE Fixed(d)
  <2>1. g = FixedCandidate(d, opts).rounded
    BY <1>2, <1>3
  <2>2. Fixed(g)
    <3>1. CASE opts.roundingType = "fractionDigits"
      BY <3>1
    <3>2. CASE opts.roundingType \in {"morePrecision", "lessPrecision"}
      <4>1. MorePreciseFixed(g, opts) = MorePreciseFixed(d, opts)
        BY <1>1, <2>1, <3>2, FixedKeepsKind
      <4> QED
        BY <1>3, <4>1
    <3> QED
      BY <1>3, <3>1, <3>2
  <2>3. FixedCandidate(g, opts).text = FixedCandidate(d, opts).text
    BY <2>1, CandidateTextSettles
  <2> HIDE DEF Fixed
  <2> QED
    BY <1>2, <1>3, <2>2, <2>3
<1>4. CASE ~Fixed(d)
  <2>1. g = SignificantCandidate(d, opts).rounded
    BY <1>2, <1>4
  <2>2. opts.roundingType # "fractionDigits" /\ opts.maximumSignificantDigits >= 1
    BY <1>1, <1>4
  <2>3. MorePreciseFixed(g, opts) = MorePreciseFixed(d, opts)
    BY <1>1, <2>1, <2>2, SignificantKeepsKind
  <2>4. ~Fixed(g)
    BY <1>4, <2>3
  <2>5. SignificantCandidate(g, opts).text = SignificantCandidate(d, opts).text
    BY <2>1, <2>2, CandidateTextSettles
  <2> HIDE DEF Fixed
  <2> QED
    BY <1>2, <1>4, <2>4, <2>5
<1> QED
  BY <1>3, <1>4

\* What is shown, shown again: no value is rounded twice, or by the other kind of
\* digits.
LEMMA ResultSettles ==
  ASSUME NEW d \in Decimal, NEW opts, IsResolved(opts),
         NEW r, r = FormatNumericToString(d, opts).rounded,
         opts.roundingType \in {"morePrecision", "lessPrecision"} => ~IsZero(r)
  PROVE  FormatNumericToString(r, opts).text = FormatNumericToString(d, opts).text
<1> DEFINE g == GeneralResult(d, opts).rounded
<1>1. /\ r \in Decimal /\ g \in Decimal
      /\ Alike(r, g) /\ FormatNumericToString(d, opts).text = GeneralResult(d, opts).text
      /\ r.negative = d.negative /\ g.negative = d.negative
      /\ IsZero(d) => IsZero(r) /\ IsZero(g)
  BY ResultAtPlace, ResultOfZero, GeneralAtPlace, GeneralOfZero, ShortcutIsGeneral
<1>2. CASE IsZero(d)
  <2>1. Alike(r, d)
    BY <1>1, <1>2, ZerosEqual DEF Alike
  <2> QED
    BY <1>1, <2>1, ResultAlike
<1>3. CASE ~IsZero(d)
  <2>1. opts.roundingType \in {"morePrecision", "lessPrecision"} => ~IsZero(g)
    <3> HIDE DEF g
    <3> QED
      BY <1>1, AlikeLead
  <2>2. GeneralResult(g, opts).text = GeneralResult(d, opts).text
    BY <1>3, <2>1, GeneralSettles
  <2> HIDE DEF g
  <2>3. FormatNumericToString(r, opts).text = FormatNumericToString(g, opts).text
    BY <1>1, ResultAlike
  <2>4. FormatNumericToString(g, opts).text = GeneralResult(g, opts).text
    BY <1>1, ShortcutIsGeneral
  <2> QED
    BY <1>1, <2>2, <2>3, <2>4
<1> QED
  BY <1>2, <1>3

-------------------------------------------------------------------------------
(* The exponent of what is shown. *)

\* A larger magnitude has no smaller exponent. It has one where a smaller has one,
\* and magnitudes up to zero have one in all magnitudes' notations only.
LEMMA ExponentsGrow ==
  ASSUME NEW notation \in Notations, NEW m \in Int
  PROVE  LET a == ExponentForMagnitude(notation, m)
             b == ExponentForMagnitude(notation, m + 1)
         IN  /\ a.ok => b.ok
             /\ b.ok => a.exponent <= b.exponent
             /\ b.ok /\ ~a.ok => m >= 2
             /\ ~b.ok => \A n \in Int : n <= 0 => ExponentForMagnitude(notation, n).exponent = 0
<1> DEFINE a == ExponentForMagnitude(notation, m)
           b == ExponentForMagnitude(notation, m + 1)
<1>1. m + 1 \in Int /\ m <= m + 1
  OBVIOUS
<1>2. CASE notation = "scientific"
  BY <1>2 DEF ExponentForMagnitude, SomeExponent
<1>3. CASE notation = "engineering"
  <2>1. a = SomeExponent(m - (m % 3)) /\ b = SomeExponent((m + 1) - ((m + 1) % 3))
    BY <1>3 DEF ExponentForMagnitude
  <2>2. m - (m % 3) <= (m + 1) - ((m + 1) % 3)
    OBVIOUS
  <2> QED
    BY <2>1, <2>2 DEF SomeExponent
<1>4. CASE notation = "standard"
  <2>1. \A n : ExponentForMagnitude(notation, n) = NoExponent
    BY <1>4 DEF ExponentForMagnitude
  <2> QED
    BY <2>1 DEF NoExponent
<1>5. CASE notation = "compact"
  <2>1. /\ a.ok <=> \E n \in DOMAIN CompactEntries : n <= m
        /\ b.ok <=> \E n \in DOMAIN CompactEntries : n <= m + 1
        /\ ~a.ok => a.exponent = 0
    BY <1>1, <1>5, ExponentIs
  <2>2. \A n \in DOMAIN CompactEntries : n \in 3 .. 14 /\ CompactEntries[n] \in 0 .. n
    BY CompactConstants
  <2>3. a.ok => b.ok
    BY <1>1, <2>1, <2>2
  <2>4. b.ok /\ ~a.ok => m >= 2
    BY <1>1, <2>1, <2>2
  <2>5. ASSUME b.ok
        PROVE  a.exponent <= b.exponent
    <3> DEFINE d == CompactMagnitude(m + 1)
    <3>1. b.exponent = CompactEntries[d]
      BY <1>5, <2>1, <2>5 DEF ExponentForMagnitude, SomeExponent
    <3>2. /\ d \in DOMAIN CompactEntries /\ CompactEntries[d] \in 0 .. d /\ d \in 3 .. 14
          /\ \A n \in DOMAIN CompactEntries : n <= m + 1 => n <= d
      BY <1>1, <2>1, <2>5, CompactMagnitudeIs
    <3> HIDE DEF d
    <3>3. CASE a.ok
      <4> DEFINE c == CompactMagnitude(m)
      <4>1. a.exponent = CompactEntries[c]
        BY <1>5, <2>1, <3>3 DEF ExponentForMagnitude, SomeExponent
      <4>2. c \in DOMAIN CompactEntries /\ c <= m /\ c \in 3 .. 14
        BY <2>1, <3>3, CompactMagnitudeIs
      <4> HIDE DEF c
      <4>3. c <= d
        BY <1>1, <3>2, <4>2
      <4> QED
        BY <3>1, <3>2, <4>1, <4>2, <4>3, CompactConstants
    <3>4. CASE ~a.ok
      BY <2>1, <3>1, <3>2, <3>4
    <3> QED
      BY <3>3, <3>4
  <2>6. ASSUME NEW n \in Int, n <= 0
        PROVE  ExponentForMagnitude(notation, n).exponent = 0
    <3>1. ~ \E k \in DOMAIN CompactEntries : k <= n
      BY <2>2, <2>6
    <3> QED
      BY <1>5, <3>1, ExponentIs
  <2> QED
    BY <2>3, <2>4, <2>5, <2>6
<1> QED
  BY <1>2, <1>3, <1>4, <1>5 DEF Notations

\* What rounds up to a multiple of a larger step does so by the larger step too.
LEMMA CoarserToo ==
  ASSUME NEW x \in Int, NEW r \in Int, NEW fine \in Nat \ {0}, NEW k \in Nat \ {0},
         NEW coarse, coarse = k * fine, NEW mode \in RoundingModes,
         RoundsTo(x, r, fine, mode), r % coarse = 0
  PROVE  RoundsTo(x, r, coarse, mode)
<1>1. coarse \in Nat \ {0} /\ (k = 1 => coarse = fine) /\ (k # 1 => fine < coarse)
  <2>1. k # 1 => 2 * fine <= k * fine
    <3>1. \A c \in Nat : (c + 2) * fine = c * fine + 2 * fine /\ c * fine >= 0
      OBVIOUS
    <3>2. k # 1 => k - 2 \in Nat /\ k = (k - 2) + 2
      OBVIOUS
    <3> QED
      BY <3>1, <3>2
  <2>2. k * fine \in Nat
    OBVIOUS
  <2>3. k = 1 => k * fine = fine
    OBVIOUS
  <2> QED
    BY <2>1, <2>2, <2>3
<1>2. CASE k = 1
  BY <1>1, <1>2
<1>3. CASE k # 1
  <2>1. ByMode(x, r, fine) /\ ByMode(x, r, coarse)
    BY <1>1, RoundsToByMode
  <2>2. Magnitude(r - x) \in Nat /\ (r % fine) \in Int
    BY DEF Magnitude
  <2> QED
    BY <1>1, <1>3, <2>1, <2>2 DEF ByMode, RoundingModes
<1> QED
  BY <1>2, <1>3

\* Rounding does not depend on the units.
LEMMA UnscaledRounds ==
  ASSUME NEW x \in Int, NEW r \in Int, NEW step \in Nat \ {0}, NEW g \in Nat \ {0},
         NEW mode \in RoundingModes, RoundsTo(x * g, r * g, step * g, mode), r % step = 0
  PROVE  RoundsTo(x, r, step, mode)
<1> DEFINE a == x * g
           b == r * g
           c == step * g
<1>1. a \in Int /\ b \in Int /\ c \in Nat \ {0}
  OBVIOUS
<1>2. RoundsTo(a, b, c, mode) /\ ByMode(a, b, c)
  BY <1>1, RoundsToByMode
<1>3. ByMode(x, r, step)
  BY RoundsToByMode
<1>4. \A y \in Int : Magnitude(y) \in Nat /\ Magnitude(y * g) = Magnitude(y) * g
  <2> SUFFICES ASSUME NEW y \in Int PROVE Magnitude(y) \in Nat /\ Magnitude(y * g) = Magnitude(y) * g
    OBVIOUS
  <2>1. 0 * g = 0 /\ (-y) * g = -(y * g) /\ y * g \in Int
    OBVIOUS
  <2>2. y < 0 <=> y * g < 0
    <3>1. 0 \in Int
      OBVIOUS
    <3> QED
      BY <2>1, <3>1, FactorKeepsOrder
  <2> QED
    BY <2>1, <2>2 DEF Magnitude
<1>5. (r - x) * g = b - a /\ r - x \in Int
  OBVIOUS
<1>6. Magnitude(b - a) = Magnitude(r - x) * g
  BY <1>4, <1>5
<1>7. Magnitude(a) = Magnitude(x) * g /\ Magnitude(b) = Magnitude(r) * g
  BY <1>4
<1>8. /\ Magnitude(x) \in Int /\ Magnitude(r) \in Int /\ Magnitude(r - x) \in Int
      /\ Magnitude(a) \in Int /\ Magnitude(b) \in Int /\ Magnitude(b - a) \in Int
      /\ 2 * Magnitude(r - x) \in Int /\ 2 * Magnitude(b - a) = (2 * Magnitude(r - x)) * g
  <2>1. b - a \in Int
    BY <1>1
  <2>2. /\ Magnitude(x) \in Nat /\ Magnitude(r) \in Nat /\ Magnitude(r - x) \in Nat
        /\ Magnitude(a) \in Nat /\ Magnitude(b) \in Nat /\ Magnitude(b - a) \in Nat
    BY <1>1, <1>4, <1>5, <2>1
  <2>3. \A n \in Nat : 2 * (n * g) = (2 * n) * g
    OBVIOUS
  <2> QED
    BY <1>6, <2>2, <2>3
<1>9. /\ Magnitude(b - a) < c <=> Magnitude(r - x) < step
      /\ b >= a <=> r >= x
      /\ b <= a <=> r <= x
      /\ b > a <=> r > x
      /\ b < a <=> r < x
      /\ Magnitude(b) >= Magnitude(a) <=> Magnitude(r) >= Magnitude(x)
      /\ Magnitude(b) <= Magnitude(a) <=> Magnitude(r) <= Magnitude(x)
      /\ Magnitude(b) > Magnitude(a) <=> Magnitude(r) > Magnitude(x)
      /\ Magnitude(b) < Magnitude(a) <=> Magnitude(r) < Magnitude(x)
      /\ 2 * Magnitude(b - a) <= c <=> 2 * Magnitude(r - x) <= step
      /\ 2 * Magnitude(b - a) = c <=> 2 * Magnitude(r - x) = step
  <2>1. \A y, z \in Int : /\ y * g < z * g <=> y < z
                          /\ y * g = z * g <=> y = z
                          /\ y * g \in Int
    BY FactorKeepsOrder
  <2>2. \A y, z \in Int : (y * g <= z * g <=> y <= z)
    <3>1. \A y, z \in Int : (y <= z <=> (y < z \/ y = z))
      OBVIOUS
    <3> QED
      BY <2>1, <3>1
  <2>3. step \in Int
    OBVIOUS
  <2>4. Magnitude(b - a) < c <=> Magnitude(r - x) < step
    BY <1>6, <1>8, <2>1, <2>3
  <2>5. b <= a <=> r <= x
    BY <2>2
  <2>6. a <= b <=> x <= r
    BY <2>2
  <2>7. Magnitude(b) <= Magnitude(a) <=> Magnitude(r) <= Magnitude(x)
    BY <1>7, <1>8, <2>2
  <2>8. Magnitude(a) <= Magnitude(b) <=> Magnitude(x) <= Magnitude(r)
    BY <1>7, <1>8, <2>2
  <2>9. 2 * Magnitude(b - a) <= c <=> 2 * Magnitude(r - x) <= step
    BY <1>8, <2>2, <2>3
  <2>10. 2 * Magnitude(b - a) = c <=> 2 * Magnitude(r - x) = step
    BY <1>8, <2>1, <2>3
  <2> HIDE DEF a, b, c
  <2> QED
    BY <1>1, <1>8, <2>4, <2>5, <2>6, <2>7, <2>8, <2>9, <2>10
<1>10. (r % step) = 0 /\ b \div c = r \div step
  <2>1. PICK q \in Int : r = q * step
    BY MultipleIsProduct
  <2>2. b = q * c
    BY <2>1
  <2> HIDE DEF b, c
  <2> QED
    BY <1>1, <2>1, <2>2, Multiple
<1> HIDE DEF a, b, c
<1> QED
  BY <1>2, <1>3, <1>9, <1>10, ZenonT(30) DEF ByMode, RoundingModes

\* A power of ten can be reached at a coarser place than it was: at any place up
\* to its own. Written without zeros it has no digits below such a place.
LEMMA PowerReached ==
  ASSUME NEW y \in Decimal, NEW s \in Decimal, s.negative = y.negative, NEW k \in Int, IsPower(s, k),
         NEW p \in Int, NEW q \in Int, p <= q, q <= k, NEW mode \in RoundingModes,
         RoundedAt(y, s, 1, p, mode)
  PROVE  LET t == WithSign(NewDecimal(1, k), y.negative)
         IN  /\ t \in Decimal /\ t.negative = y.negative /\ ~IsZero(t) /\ Log10Floor(t) = k
             /\ RoundedAt(y, t, 1, q, mode)
<1> DEFINE t == WithSign(NewDecimal(1, k), y.negative)
<1>1. t \in Decimal /\ t.negative = y.negative /\ t.coeff = 1 /\ t.exp = k
  BY DEF WithSign, NewDecimal, Decimal
<1>2. ~IsZero(t) /\ Log10Floor(t) = k
  <2>1. NumDigits(1) = 1
    <3>1. 1 \in Nat /\ 1 < 10
      OBVIOUS
    <3> QED
      BY <3>1, DigitsOfDef DEF NumDigits
  <2> QED
    BY <1>1, <2>1 DEF IsZero, Log10Floor
<1> HIDE DEF t
<1>3. ASSUME NEW u \in Int, u <= q, u <= y.exp
      PROVE  RoundsTo(SignedUnits(y, u), SignedUnits(t, u), 1 * PowerOfTen[q - u], mode)
  <2> DEFINE w == LesserOf(u, p)
  <2>1. w \in Int /\ w <= u /\ w <= p /\ w <= q /\ w <= y.exp /\ w <= k
    <3>1. w \in Int /\ w <= u /\ w <= p
      BY Lesser
    <3>2. y.exp \in Int
      BY DEF Decimal
    <3> HIDE DEF w
    <3> QED
      BY <1>3, <3>1, <3>2
  <2> HIDE DEF w
  <2> DEFINE a == SignedUnits(y, u)
             b == SignedUnits(t, u)
             g == PowerOfTen[u - w]
             step == PowerOfTen[q - u]
             fine == PowerOfTen[p - w]
             times == PowerOfTen[q - p]
  <2>2. w <= s.exp /\ RoundsTo(SignedUnits(y, w), SignedUnits(s, w), 1 * fine, mode)
    BY <2>1 DEF RoundedAt
  <2>3. /\ a \in Int /\ b \in Int /\ g \in Nat \ {0}
        /\ SignedUnits(y, w) = a * g /\ SignedUnits(t, w) = b * g
    <3>1. u <= t.exp
      BY <1>1, <1>3
    <3> QED
      BY <1>1, <1>3, <2>1, <3>1, UnitsRescaled
  <2>4. SignedUnits(s, w) = SignedUnits(t, w)
    <3>1. Units(s, w) = PowerOfTen[k - w]
      BY <2>1, <2>2 DEF IsPower
    <3>2. Units(t, w) = 1 * PowerOfTen[k - w] /\ k - w \in Nat
      BY <1>1, <2>1 DEF Units
    <3>3. 1 * PowerOfTen[k - w] = PowerOfTen[k - w]
      BY <3>2, PowerOfTenPositive
    <3> QED
      BY <1>1, <3>1, <3>2, <3>3 DEF SignedUnits
  <2>5. /\ fine \in Nat \ {0} /\ times \in Nat \ {0} /\ step \in Nat \ {0}
        /\ PowerOfTen[q - w] = times * fine /\ PowerOfTen[q - w] = step * g
        /\ 1 * fine = fine /\ 1 * step = step
    <3>1. /\ p - w \in Nat /\ q - p \in Nat /\ q - u \in Nat /\ u - w \in Nat
          /\ (q - p) + (p - w) = q - w /\ (q - u) + (u - w) = q - w
      BY <1>3, <2>1
    <3>2. fine \in Nat \ {0} /\ times \in Nat \ {0} /\ step \in Nat \ {0}
      BY <3>1, PowerOfTenPositive
    <3>3. PowerOfTen[q - w] = times * fine /\ PowerOfTen[q - w] = step * g
      BY <3>1, PowerOfTenSum
    <3> QED
      BY <3>2, <3>3
  <2>6. (b % step) = 0
    <3>1. q - u \in Nat /\ k - u \in Nat /\ q - u <= k - u /\ (k - u) - (q - u) \in Nat
      BY <1>3
    <3> DEFINE c == PowerOfTen[(k - u) - (q - u)]
    <3>2. PowerOfTen[k - u] = c * step /\ c \in Nat
      BY <3>1, PowerIsMultiple, PowerOfTenPositive
    <3>3. Units(t, u) = 1 * PowerOfTen[k - u]
      BY <1>1 DEF Units
    <3> HIDE DEF c, step
    <3>4. b = c * step \/ b = (-c) * step
      BY <2>5, <3>2, <3>3 DEF SignedUnits
    <3>5. \E n \in Int : b = n * step
      BY <3>2, <3>4
    <3> HIDE DEF b
    <3> QED
      BY <2>3, <2>5, <3>5, MultipleIsProduct
  <2> HIDE DEF a, b, g, step, fine, times
  <2>7. RoundsTo(a * g, b * g, fine, mode)
    BY <2>2, <2>3, <2>4, <2>5
  <2>8. ((b * g) % (step * g)) = 0
    <3>1. PICK n \in Int : b = n * step
      BY <2>3, <2>5, <2>6, MultipleIsProduct
    <3>2. b * g = n * (step * g) /\ step * g \in Nat \ {0}
      BY <2>3, <2>5, <3>1
    <3> DEFINE h == step * g
    <3> HIDE DEF h
    <3>3. (n * h) % h = 0
      BY <3>2, Multiple DEF h
    <3> QED
      BY <3>2, <3>3 DEF h
  <2>9. RoundsTo(a * g, b * g, step * g, mode)
    <3> DEFINE x == a * g
               r == b * g
               coarse == step * g
    <3>1. x \in Int /\ r \in Int /\ coarse = times * fine
      BY <2>3, <2>5
    <3>2. RoundsTo(x, r, fine, mode) /\ (r % coarse) = 0
      BY <2>7, <2>8
    <3> HIDE DEF x, r, coarse
    <3>3. RoundsTo(x, r, coarse, mode)
      BY <2>5, <3>1, <3>2, CoarserToo
    <3> QED
      BY <3>3 DEF x, r, coarse
  <2>10. RoundsTo(a, b, step, mode)
    BY <2>3, <2>5, <2>6, <2>9, UnscaledRounds
  <2> QED
    BY <2>5, <2>10 DEF a, b, step
<1>4. RoundedAt(y, t, 1, q, mode)
  BY <1>1, <1>3 DEF RoundedAt
<1> QED
  BY <1>1, <1>2, <1>4 DEF t

\* Rounding does not depend on the exponent that a value is shown with.
LEMMA RoundedScaled ==
  ASSUME NEW x \in Decimal, NEW r \in Decimal, NEW place \in Int, NEW mode,
         RoundedAt(x, r, 1, place, mode), NEW e \in Int
  PROVE  /\ RoundedAt(Scale10(x, e), Scale10(r, e), 1, place + e, mode)
         /\ \A k \in Int : IsPower(r, k) => IsPower(Scale10(r, e), k + e)
<1>1. \A d \in Decimal :
        /\ d.exp \in Int /\ Scale10(d, e).exp = d.exp + e /\ Scale10(d, e).coeff = d.coeff
        /\ Scale10(d, e).negative = d.negative
  BY DEF Scale10, Decimal
<1>2. \A d \in Decimal, u \in Int :
        /\ Units(Scale10(d, e), u) = Units(d, u - e)
        /\ SignedUnits(Scale10(d, e), u) = SignedUnits(d, u - e)
  <2> SUFFICES ASSUME NEW d \in Decimal, NEW u \in Int
               PROVE  /\ Units(Scale10(d, e), u) = Units(d, u - e)
                      /\ SignedUnits(Scale10(d, e), u) = SignedUnits(d, u - e)
    OBVIOUS
  <2>1. (d.exp + e) - u = d.exp - (u - e)
    BY <1>1
  <2> QED
    BY <1>1, <2>1 DEF Units, SignedUnits
<1>3. ASSUME NEW u \in Int, u <= place + e, u <= Scale10(x, e).exp
      PROVE  /\ u <= Scale10(r, e).exp
             /\ RoundsTo(SignedUnits(Scale10(x, e), u), SignedUnits(Scale10(r, e), u),
                         1 * PowerOfTen[(place + e) - u], mode)
  <2> DEFINE w == u - e
  <2>1. w \in Int /\ w <= place /\ w <= x.exp /\ place - w = (place + e) - u
    BY <1>1, <1>3
  <2> HIDE DEF w
  <2>2. w <= r.exp /\ RoundsTo(SignedUnits(x, w), SignedUnits(r, w), 1 * PowerOfTen[place - w], mode)
    BY <2>1 DEF RoundedAt
  <2>3. u <= Scale10(r, e).exp
    BY <1>1, <2>2 DEF w
  <2> QED
    BY <1>2, <2>1, <2>2, <2>3 DEF w
<1>4. ASSUME NEW k \in Int, IsPower(r, k), NEW u \in Int, u <= Scale10(r, e).exp, u <= k + e
      PROVE  Units(Scale10(r, e), u) = PowerOfTen[(k + e) - u]
  <2> DEFINE w == u - e
  <2>1. w \in Int /\ w <= r.exp /\ w <= k /\ k - w = (k + e) - u
    BY <1>1, <1>4
  <2> HIDE DEF w
  <2>2. Units(r, w) = PowerOfTen[k - w]
    BY <1>4, <2>1 DEF IsPower
  <2> QED
    BY <1>2, <2>1, <2>2 DEF w
<1>5. RoundedAt(Scale10(x, e), Scale10(r, e), 1, place + e, mode)
  BY <1>3 DEF RoundedAt
<1>6. \A k \in Int : IsPower(r, k) => IsPower(Scale10(r, e), k + e)
  BY <1>4 DEF IsPower
<1> QED
  BY <1>5, <1>6

\* A value that is made smaller is rounded at a place that does not go down by
\* more, and never at one above both its leading digit and the units.
LEMMA PlaceScales ==
  ASSUME NEW x \in Decimal, ~IsZero(x), NEW down \in Nat, NEW opts, IsResolved(opts)
  PROVE  LET y == Scale10(x, -down)
         IN  /\ y \in Decimal /\ ~IsZero(y) /\ y.negative = x.negative
             /\ Log10Floor(x) \in Int /\ Log10Floor(y) = Log10Floor(x) - down
             /\ RoundingPlace(x, opts) \in Int /\ RoundingPlace(y, opts) \in Int
             /\ RoundingPlace(x, opts) <= GreaterOf(0, Log10Floor(x))
             /\ RoundingPlace(x, opts) - down <= RoundingPlace(y, opts)
<1> DEFINE y == Scale10(x, -down)
           last == -opts.maximumFractionDigits
           p == SignificantPlace(x, opts)
           q == SignificantPlace(y, opts)
<1>1. /\ opts.maximumFractionDigits \in Nat /\ opts.maximumSignificantDigits \in Nat
      /\ opts.roundingType \in RoundingTypes
      /\ opts.roundingType # "fractionDigits" => opts.maximumSignificantDigits >= 1
  BY ResolvedDigits DEF IsDigits
<1>2. Log10Floor(x) \in Int
  BY LeadingTyped
<1>3. /\ y \in Decimal /\ ~IsZero(y) /\ y.negative = x.negative
      /\ Log10Floor(y) = Log10Floor(x) - down
  <2>1. /\ x.coeff \in Nat /\ x.exp \in Int /\ x.negative \in BOOLEAN
        /\ y.coeff = x.coeff /\ y.exp = x.exp - down /\ y.negative = x.negative
    BY DEF Scale10, Decimal
  <2>2. y \in Decimal
    BY DEF Scale10, Decimal
  <2>3. NumDigits(x.coeff) \in Nat
    BY <2>1, NumDigitsBounds
  <2> QED
    BY <2>1, <2>2, <2>3 DEF IsZero, Log10Floor
<1> DEFINE lead == Log10Floor(x)
<1>4. /\ last \in Int /\ last <= 0 /\ p \in Int /\ q = p - down
      /\ opts.roundingType # "fractionDigits" => p <= lead
  BY <1>1, <1>2, <1>3 DEF SignificantPlace
<1>5. /\ RoundingPlace(x, opts) =
           CASE opts.roundingType = "fractionDigits"    -> last
             [] opts.roundingType = "significantDigits" -> p
             [] opts.roundingType = "morePrecision"     -> LesserOf(last, p)
             [] opts.roundingType = "lessPrecision"     -> GreaterOf(last, p)
      /\ RoundingPlace(y, opts) =
           CASE opts.roundingType = "fractionDigits"    -> last
             [] opts.roundingType = "significantDigits" -> q
             [] opts.roundingType = "morePrecision"     -> LesserOf(last, q)
             [] opts.roundingType = "lessPrecision"     -> GreaterOf(last, q)
  BY DEF RoundingPlace
<1> DEFINE a == RoundingPlace(x, opts)
           b == RoundingPlace(y, opts)
<1> HIDE DEF y, last, p, q, lead, a, b
<1>6. a \in Int /\ b \in Int /\ a <= GreaterOf(0, lead) /\ a - down <= b
  <2>1. lead \in Int
    BY <1>2 DEF lead
  <2>2. CASE opts.roundingType = "fractionDigits"
    BY <1>4, <1>5, <2>1, <2>2 DEF GreaterOf, a, b
  <2>3. CASE opts.roundingType = "significantDigits"
    BY <1>4, <1>5, <2>1, <2>3 DEF GreaterOf, a, b
  <2>4. CASE opts.roundingType = "morePrecision"
    BY <1>4, <1>5, <2>1, <2>4 DEF GreaterOf, LesserOf, a, b
  <2>5. CASE opts.roundingType = "lessPrecision"
    BY <1>4, <1>5, <2>1, <2>5 DEF GreaterOf, a, b
  <2> QED
    BY <1>1, <2>2, <2>3, <2>4, <2>5 DEF RoundingTypes
<1> QED
  BY <1>2, <1>3, <1>6 DEF y, lead, a, b

\* What is shown has the exponent of its own magnitude: where rounding carries a
\* value to the next magnitude, rounding again with that magnitude's exponent
\* carries it there too, and not one further.
LEMMA ExponentSettles ==
  ASSUME NEW f, IsResolved(f.digits), f.digits.roundingIncrement = 1, f.notation \in Notations,
         NEW d \in Decimal, NEW e, e = ComputeExponent(f, d).exponent,
         NEW r, r = FormatNumericToString(Scale10(d, -e), f.digits).rounded, ~IsZero(r)
  PROVE  ExponentForMagnitude(f.notation, Log10Floor(r) + e).exponent = e
<1> DEFINE m == Log10Floor(d)
           E(n) == ExponentForMagnitude(f.notation, n)
           e0 == E(m).exponent
           e1 == E(m + 1).exponent
           v0 == Scale10(d, -e0)
           r0 == FormatNumericToString(v0, f.digits).rounded
           mode == f.digits.roundingMode
           p0 == RoundingPlace(v0, f.digits)
           n0 == m - e0
           k == GreaterOf(p0, n0 + 1)
<1>1. e \in Int /\ d.exp \in Int /\ d.coeff \in Nat /\ d.negative \in BOOLEAN
  BY ComputedTyped DEF Decimal
<1>2. ~IsZero(d)
  <2> SUFFICES ASSUME IsZero(d) PROVE FALSE
    OBVIOUS
  <2>1. Scale10(d, -e) \in Decimal /\ IsZero(Scale10(d, -e))
    BY <1>1 DEF Scale10, Decimal, IsZero
  <2> QED
    BY <2>1, ResultOfZero
<1>3. m \in Int /\ m + 1 \in Int
  BY <1>2, LeadingTyped
<1>4. /\ E(m).ok \in BOOLEAN /\ E(m + 1).ok \in BOOLEAN /\ e0 \in Int /\ e1 \in Int
      /\ E(m).ok => e0 <= m
      /\ ~E(m).ok => e0 = 0
      /\ E(m + 1).ok => e1 <= m + 1
      /\ ~E(m + 1).ok => e1 = 0
  <2> HIDE DEF m
  <2> DEFINE next == m + 1
  <2>1. next \in Int
    BY <1>3
  <2> HIDE DEF next
  <2>2. /\ E(next).ok \in BOOLEAN /\ E(next).exponent \in Int
        /\ E(next).ok => E(next).exponent <= next
        /\ ~E(next).ok => E(next).exponent = 0
    BY <2>1, ExponentIs
  <2>3. /\ E(m).ok \in BOOLEAN /\ E(m).exponent \in Int
        /\ E(m).ok => E(m).exponent <= m
        /\ ~E(m).ok => E(m).exponent = 0
    BY <1>3, ExponentIs
  <2> QED
    BY <2>2, <2>3 DEF next
<1>5. /\ E(m).ok => E(m + 1).ok
      /\ E(m + 1).ok => e0 <= e1
      /\ E(m + 1).ok /\ ~E(m).ok => m >= 2
      /\ ~E(m + 1).ok => \A n \in Int : n <= 0 => E(n).exponent = 0
  BY <1>3, ExponentsGrow
<1>6. v0 \in Decimal /\ ~IsZero(v0) /\ v0.negative = d.negative /\ Log10Floor(v0) = n0
  <2> HIDE DEF e0
  <2>1. v0 \in Decimal /\ v0.negative = d.negative /\ v0.coeff = d.coeff /\ v0.exp = d.exp - e0
    BY <1>1, <1>4 DEF Scale10, Decimal
  <2>2. NumDigits(d.coeff) \in Nat
    BY <1>1, NumDigitsBounds
  <2> QED
    BY <1>1, <1>2, <1>4, <2>1, <2>2 DEF IsZero, Log10Floor
<1> HIDE DEF v0
<1>7. /\ r0 \in Decimal /\ r0.negative = v0.negative /\ p0 \in Int /\ mode \in RoundingModes
      /\ RoundedAt(v0, r0, 1, p0, mode)
  BY <1>6, ResultAtPlace, ResolvedDigits DEF IsDigits
<1>8. p0 <= GreaterOf(0, n0)
  <2>1. 0 \in Nat
    OBVIOUS
  <2> QED
    BY <1>6, <2>1, PlaceScales
<1>9. ComputeExponent(f, d) =
        IF IsZero(r0) \/ Log10Floor(r0) = n0 \/ ~E(m + 1).ok THEN E(m) ELSE E(m + 1)
  BY <1>2 DEF ComputeExponent, WithCarry, Carried, v0
<1> HIDE DEF r0, p0, mode
<1>10. ~IsZero(r0) => \/ p0 <= n0 /\ Log10Floor(r0) = n0
                      \/ Log10Floor(r0) = k /\ IsPower(r0, k)
  BY <1>6, <1>7, LeadsAtPlace
<1> HIDE DEF m, e0, e1, E
<1>11. n0 \in Int /\ k \in Int /\ k \in {p0, n0 + 1} /\ n0 + 1 <= k
  BY <1>3, <1>4, <1>7 DEF GreaterOf
<1>12. CASE IsZero(r0) \/ Log10Floor(r0) = n0 \/ ~E(m + 1).ok
  <2>1. e = e0 /\ r = r0
    BY <1>9, <1>12 DEF e0, r0, v0
  <2>2. CASE Log10Floor(r0) = n0
    <3>1. Log10Floor(r) + e = m
      BY <1>3, <1>4, <2>1, <2>2
    <3> QED
      BY <2>1, <3>1 DEF E, e0
  <2>3. CASE Log10Floor(r0) # n0
    <3>1. ~E(m + 1).ok /\ ~E(m).ok /\ e0 = 0 /\ Log10Floor(r0) = k
      BY <1>4, <1>5, <1>10, <1>12, <2>1, <2>3
    <3>2. k = m + 1 \/ k <= 0
      BY <1>3, <1>7, <1>8, <1>11, <3>1 DEF GreaterOf
    <3>3. E(k).exponent = 0
      BY <1>4, <1>5, <1>11, <3>1, <3>2 DEF e1
    <3>4. Log10Floor(r) + e = k
      BY <1>11, <2>1, <3>1
    <3> QED
      BY <2>1, <3>1, <3>3, <3>4 DEF E
  <2> QED
    BY <2>2, <2>3
<1>13. CASE ~IsZero(r0) /\ Log10Floor(r0) # n0 /\ E(m + 1).ok
  <2> DEFINE down == e1 - e0
             v1 == Scale10(v0, -down)
             p1 == RoundingPlace(v1, f.digits)
             top == k - down
             t == WithSign(NewDecimal(1, top), v1.negative)
  <2>1. e = e1
    BY <1>9, <1>13 DEF e1
  <2>2. IsPower(r0, k) /\ 0 <= n0 /\ k = n0 + 1 /\ p0 <= n0
    <3>1. 0 <= n0
      BY <1>3, <1>4, <1>5, <1>13
    <3> QED
      BY <1>7, <1>8, <1>10, <1>11, <1>13, <3>1 DEF GreaterOf
  <2>3. down \in Nat /\ -down \in Int
    BY <1>4, <1>5, <1>13
  <2>4. v1 = Scale10(d, -e)
    <3>1. (d.exp + (-e0)) + (-down) = d.exp + (-e)
      BY <1>1, <1>4, <2>1
    <3>2. v1 = [[d EXCEPT !.exp = d.exp + (-e0)] EXCEPT !.exp = (d.exp + (-e0)) + (-down)]
      BY DEF v0, Scale10, Decimal
    <3> QED
      BY <3>1, <3>2 DEF Scale10, Decimal
  <2> HIDE DEF down
  <2>5. /\ v1 \in Decimal /\ ~IsZero(v1) /\ v1.negative = v0.negative
        /\ Log10Floor(v1) = n0 - down
        /\ p1 \in Int /\ p0 - down <= p1
    BY <1>6, <2>3, PlaceScales DEF p0
  <2>6. p1 <= GreaterOf(0, n0 - down)
    <3>1. 0 \in Nat
      OBVIOUS
    <3> QED
      BY <2>5, <3>1, PlaceScales
  <2>7. top = m + 1 - e1 /\ top >= 0 /\ top \in Int /\ n0 - down = top - 1
    BY <1>3, <1>4, <1>13, <2>2, <2>3 DEF down
  <2>8. p1 <= top
    BY <2>5, <2>6, <2>7 DEF GreaterOf
  <2>9. r \in Decimal /\ r.negative = v1.negative /\ RoundedAt(v1, r, 1, p1, mode)
    <3> HIDE DEF v1
    <3> QED
      BY <2>4, <2>5, ResultAtPlace DEF p1, mode
  <2> DEFINE s == Scale10(r0, -down)
             q == p0 + (-down)
  <2>10. /\ s \in Decimal /\ s.negative = v1.negative
         /\ RoundedAt(v1, s, 1, q, mode) /\ IsPower(s, top)
    <3>1. s \in Decimal /\ s.negative = r0.negative
      BY <1>7, <2>3 DEF Scale10, Decimal
    <3> DEFINE up == -down
    <3>2. up \in Int /\ top = k + up
      BY <1>11, <2>3
    <3> HIDE DEF up, k
    <3>3. RoundedAt(Scale10(v0, up), Scale10(r0, up), 1, p0 + up, mode) /\ IsPower(Scale10(r0, up), k + up)
      BY <1>6, <1>7, <1>11, <2>2, <3>2, RoundedScaled
    <3> QED
      BY <1>7, <2>5, <3>1, <3>2, <3>3 DEF up
  <2>11. q \in Int /\ q <= p1
    BY <1>7, <2>3, <2>5
  <2> HIDE DEF v1, p1, top, s, q, k
  <2>12. t \in Decimal /\ t.negative = v1.negative /\ ~IsZero(t) /\ Log10Floor(t) = top
         /\ RoundedAt(v1, t, 1, p1, mode)
    BY <1>7, <2>5, <2>7, <2>8, <2>10, <2>11, PowerReached
  <2> HIDE DEF t
  <2>13. Alike(r, t)
    <3>1. 1 \in Nat \ {0}
      OBVIOUS
    <3> QED
      BY <1>7, <2>5, <2>9, <2>12, <3>1, AlikeAtPlace
  <2>14. Log10Floor(r) = top
    BY <2>9, <2>12, <2>13, AlikeLead
  <2>15. Log10Floor(r) + e = m + 1
    BY <1>3, <1>4, <2>1, <2>7, <2>14
  <2> QED
    BY <2>1, <2>15 DEF E, e1
<1>14. IsZero(r0) \in BOOLEAN
  BY DEF IsZero
<1> QED
  BY <1>12, <1>13
===============================================================================
