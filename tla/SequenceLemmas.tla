---------------------------- MODULE SequenceLemmas ----------------------------
(***************************************************************************)
(* Induction, as facts about sets of natural numbers, and what recursive   *)
(* functions and the operators on sequences compute. The library's         *)
(* theorems take the formula or the recursion as an operator; here it is a *)
(* set or a function, which the provers can supply.                        *)
(***************************************************************************)
EXTENDS Integers, Sequences, SequencesExt, FiniteSetsExt,
        WellFoundedInduction, FiniteSetTheorems, SequenceTheorems, TLAPS

-------------------------------------------------------------------------------
(* Induction. *)

\* A set of natural numbers that is not empty has a least element.
LEMMA LeastElement ==
  ASSUME NEW S \in SUBSET Nat, S # {}
  PROVE  \E m \in S : \A n \in S : m <= n
<1> DEFINE R == OpToRel(<, Nat)
<1>1. IsWellFoundedOn(R, Nat)
  BY NatLessThanWellFounded
<1>2. PICK m \in S : \A n \in S : <<n, m>> \notin R
  <2> HIDE DEF R
  <2> QED
    BY <1>1, WFMin
<1>3. ASSUME NEW n \in S
      PROVE  m <= n
  <2>1. n \in Nat /\ m \in Nat
    OBVIOUS
  <2>2. n < m => <<n, m>> \in R
    BY <2>1 DEF OpToRel
  <2> HIDE DEF R
  <2> QED
    BY <1>2, <2>1, <2>2
<1> QED
  BY <1>3

\* A set that has every number all of whose predecessors it has, has them all.
LEMMA StrongInduction ==
  ASSUME NEW S, \A n \in Nat : (\A m \in 0 .. n - 1 : m \in S) => n \in S
  PROVE  Nat \subseteq S
<1> SUFFICES ASSUME Nat \ S # {} PROVE FALSE
  OBVIOUS
<1>1. PICK m \in Nat \ S : \A n \in Nat \ S : m <= n
  BY LeastElement
<1>2. \A n \in 0 .. m - 1 : n \in S
  BY <1>1
<1> QED
  BY <1>2

LEMMA Induction ==
  ASSUME NEW S, 0 \in S, \A n \in Nat : n \in S => n + 1 \in S
  PROVE  Nat \subseteq S
<1>1. ASSUME NEW n \in Nat, \A m \in 0 .. n - 1 : m \in S
      PROVE  n \in S
  <2>1. CASE n = 0
    BY <2>1
  <2>2. CASE n # 0
    <3>1. n - 1 \in Nat /\ n - 1 \in S
      BY <1>1, <2>2
    <3>2. (n - 1) + 1 \in S
      BY <3>1
    <3> QED
      BY <3>2
  <2> QED
    BY <2>1, <2>2
<1> QED
  BY <1>1, StrongInduction

\* The recursion of the functions below: a start, or a step from a smaller number.
Follows(f, m, prev, step, start) ==
  /\ f \in [0 .. m -> Nat]
  /\ \A n \in 0 .. m : f[n] = IF prev[n] < n THEN step[n][f[prev[n]]] ELSE start

IsRecursion(prev, step, start) ==
  prev \in [Nat -> Nat] /\ start \in Nat /\ \A n, v \in Nat : step[n][v] \in Nat

HasSolution(prev, step, start) ==
  \E f \in [Nat -> Nat] : \A n \in Nat : f[n] = IF prev[n] < n THEN step[n][f[prev[n]]] ELSE start

\* Such functions exist on every initial segment, agree, and so make one.
LEMMA RecursionDefines ==
  ASSUME NEW prev, NEW step, NEW start, IsRecursion(prev, step, start)
  PROVE  HasSolution(prev, step, start)
<1> USE DEF IsRecursion
<1>1. \A m \in Nat : \E f : Follows(f, m, prev, step, start)
  <2> DEFINE S == {m \in Nat : \E f : Follows(f, m, prev, step, start)}
  <2>1. 0 \in S
    <3>1. Follows([n \in 0 .. 0 |-> start], 0, prev, step, start)
      BY DEF Follows
    <3> QED
      BY <3>1
  <2>2. ASSUME NEW m \in Nat, m \in S
        PROVE  m + 1 \in S
    <3>1. PICK f : Follows(f, m, prev, step, start)
      BY <2>2
    <3> DEFINE last == IF prev[m + 1] < m + 1 THEN step[m + 1][f[prev[m + 1]]] ELSE start
    <3> DEFINE g == [n \in 0 .. m + 1 |-> IF n = m + 1 THEN last ELSE f[n]]
    <3>2. last \in Nat
      <4>1. m + 1 \in Nat /\ (prev[m + 1] < m + 1 => prev[m + 1] \in 0 .. m)
        OBVIOUS
      <4>2. \A k \in 0 .. m : f[k] \in Nat
        BY <3>1 DEF Follows
      <4> QED
        BY <4>1, <4>2
    <3>3. \A n \in 0 .. m + 1 : n = m + 1 \/ n \in 0 .. m
      OBVIOUS
    <3>4. g[m + 1] = last /\ \A n \in 0 .. m : g[n] = f[n]
      <4> HIDE DEF last
      <4>1. m + 1 \in 0 .. m + 1 /\ \A n \in 0 .. m : n # m + 1 /\ n \in 0 .. m + 1
        OBVIOUS
      <4> QED
        BY <4>1
    <3>5. g \in [0 .. m + 1 -> Nat]
      <4> HIDE DEF last
      <4> QED
        BY <3>1, <3>2, <3>3 DEF Follows
    <3>6. ASSUME NEW n \in 0 .. m + 1
          PROVE  g[n] = IF prev[n] < n THEN step[n][g[prev[n]]] ELSE start
      <4>1. n \in Nat /\ prev[n] \in Nat
        OBVIOUS
      <4>2. prev[n] < n => prev[n] \in 0 .. m
        BY <4>1
      <4> HIDE DEF g
      <4>3. CASE n = m + 1
        BY <3>4, <4>1, <4>2, <4>3
      <4>4. CASE n \in 0 .. m
        BY <3>1, <3>4, <4>1, <4>2, <4>4 DEF Follows
      <4> QED
        BY <3>3, <4>3, <4>4
    <3>7. Follows(g, m + 1, prev, step, start)
      <4> HIDE DEF g
      <4> QED
        BY <3>5, <3>6 DEF Follows
    <3> QED
      BY <3>7
  <2> HIDE DEF S
  <2>3. Nat \subseteq S
    BY <2>1, <2>2, Induction
  <2> QED
    BY <2>3 DEF S
<1>2. ASSUME NEW m \in Nat, NEW n \in Nat, NEW f, NEW g,
             Follows(f, m, prev, step, start), Follows(g, n, prev, step, start)
      PROVE  \A k \in Nat : k <= m /\ k <= n => f[k] = g[k]
  <2> DEFINE S == {k \in Nat : k <= m /\ k <= n => f[k] = g[k]}
  <2>1. ASSUME NEW k \in Nat, \A j \in 0 .. k - 1 : j \in S
        PROVE  k \in S
    <3>1. prev[k] \in Nat
      OBVIOUS
    <3>2. prev[k] < k /\ k <= m /\ k <= n => f[prev[k]] = g[prev[k]]
      <4> HIDE DEF S
      <4>1. prev[k] < k => prev[k] \in S
        BY <2>1, <3>1
      <4> QED
        BY <3>1, <4>1 DEF S
    <3>3. ASSUME k <= m, k <= n
          PROVE  f[k] = g[k]
      <4>1. k \in 0 .. m /\ k \in 0 .. n
        BY <3>3
      <4> QED
        BY <1>2, <3>1, <3>2, <3>3, <4>1 DEF Follows
    <3> QED
      BY <3>3
  <2> HIDE DEF S
  <2>2. Nat \subseteq S
    BY <2>1, StrongInduction
  <2> QED
    BY <2>2 DEF S
<1> DEFINE upTo(n) == CHOOSE f : Follows(f, n, prev, step, start)
           h == [n \in Nat |-> upTo(n)[n]]
<1>3. \A n \in Nat : Follows(upTo(n), n, prev, step, start)
  BY <1>1
<1>4. \A n \in Nat : h[n] = upTo(n)[n]
  OBVIOUS
<1>5. h \in [Nat -> Nat]
  <2> HIDE DEF upTo
  <2> QED
    BY <1>3 DEF Follows
<1> HIDE DEF upTo, h
<1>6. ASSUME NEW n \in Nat
      PROVE  h[n] = IF prev[n] < n THEN step[n][h[prev[n]]] ELSE start
  <2>1. upTo(n)[n] = IF prev[n] < n THEN step[n][upTo(n)[prev[n]]] ELSE start
    <3>1. n \in 0 .. n
      OBVIOUS
    <3>2. Follows(upTo(n), n, prev, step, start)
      BY <1>3
    <3> QED
      BY <3>1, <3>2 DEF Follows
  <2>2. prev[n] < n => upTo(n)[prev[n]] = upTo(prev[n])[prev[n]]
    <3>1. prev[n] \in Nat
      OBVIOUS
    <3>2. Follows(upTo(n), n, prev, step, start) /\ Follows(upTo(prev[n]), prev[n], prev, step, start)
      BY <1>3, <3>1
    <3>3. \A k \in Nat : k <= n /\ k <= prev[n] => upTo(n)[k] = upTo(prev[n])[k]
      BY <1>2, <3>1, <3>2
    <3> QED
      BY <3>1, <3>3
  <2> QED
    BY <1>4, <2>1, <2>2
<1> QED
  BY <1>5, <1>6 DEF HasSolution

-------------------------------------------------------------------------------
(* Folds: from a base, one step for each element of a set, picked one by one. *)

IsFold(S, T, base, pick, step) ==
  /\ IsFiniteSet(S)
  /\ base \in T
  /\ \A s \in SUBSET S : s # {} => pick[s] \in s
  /\ step \in [T \X S -> T]

FoldedBy(it, S, base, pick, step) ==
  \A s \in SUBSET S :
    it[s] = IF s = {} THEN base ELSE step[<<it[s \ {pick[s]}], pick[s]>>]

\* What a fold computes exists, for the subsets up to each size and so for all.
LEMMA FoldDefines ==
  ASSUME NEW S, NEW T, NEW base, NEW pick, NEW step, IsFold(S, T, base, pick, step)
  PROVE  \E it \in [SUBSET S -> T] : FoldedBy(it, S, base, pick, step)
<1> DEFINE Small(n) == {s \in SUBSET S : Cardinality(s) <= n}
           Solves(it, n) ==
             /\ it \in [Small(n) -> T]
             /\ \A s \in Small(n) :
                  it[s] = IF s = {} THEN base ELSE step[<<it[s \ {pick[s]}], pick[s]>>]
           Solved == {n \in Nat : \E it : Solves(it, n)}
<1>1. \A s \in SUBSET S : /\ Cardinality(s) \in Nat
                          /\ Cardinality(s) <= Cardinality(S)
                          /\ Cardinality(s) = 0 <=> s = {}
  BY FS_Subset, FS_CardinalityType, FS_EmptySet DEF IsFold
<1>2. \A s \in SUBSET S : s # {} => /\ s \ {pick[s]} \in SUBSET S
                                    /\ Cardinality(s \ {pick[s]}) = Cardinality(s) - 1
                                    /\ pick[s] \in S
  <2> SUFFICES ASSUME NEW s \in SUBSET S, s # {}
               PROVE  /\ s \ {pick[s]} \in SUBSET S
                      /\ Cardinality(s \ {pick[s]}) = Cardinality(s) - 1
                      /\ pick[s] \in S
    OBVIOUS
  <2>1. pick[s] \in s /\ IsFiniteSet(s)
    BY FS_Subset DEF IsFold
  <2> QED
    BY <2>1, FS_RemoveElement
<1>3. 0 \in Solved
  <2>1. Solves([s \in Small(0) |-> base], 0)
    BY <1>1 DEF IsFold
  <2> QED
    BY <2>1
<1>4. ASSUME NEW n \in Nat, n \in Solved
      PROVE  n + 1 \in Solved
  <2>1. PICK it : Solves(it, n)
    BY <1>4
  <2> DEFINE more == [s \in Small(n + 1) |->
                        IF s = {} THEN base ELSE step[<<it[s \ {pick[s]}], pick[s]>>]]
  <2>2. \A s \in Small(n + 1) : s # {} => s \ {pick[s]} \in Small(n) /\ pick[s] \in S
    BY <1>1, <1>2
  <2>3. more \in [Small(n + 1) -> T]
    <3> SUFFICES ASSUME NEW s \in Small(n + 1)
                 PROVE  (IF s = {} THEN base ELSE step[<<it[s \ {pick[s]}], pick[s]>>]) \in T
      OBVIOUS
    <3>1. CASE s = {}
      BY <3>1 DEF IsFold
    <3>2. CASE s # {}
      <4>1. s \ {pick[s]} \in Small(n) /\ pick[s] \in S
        BY <2>2, <3>2
      <4>2. it[s \ {pick[s]}] \in T
        <5> HIDE DEF Small
        <5> QED
          BY <2>1, <4>1
      <4> HIDE DEF Small
      <4>3. step[<<it[s \ {pick[s]}], pick[s]>>] \in T
        BY <4>1, <4>2 DEF IsFold
      <4> QED
        BY <3>2, <4>3
    <3> QED
      BY <3>1, <3>2
  <2>4. \A s \in Small(n) : s \in Small(n + 1) /\ more[s] = it[s]
    <3> SUFFICES ASSUME NEW s \in Small(n)
                 PROVE  s \in Small(n + 1) /\ more[s] = it[s]
      OBVIOUS
    <3>1. s \in Small(n + 1)
      BY <1>1
    <3>2. it[s] = IF s = {} THEN base ELSE step[<<it[s \ {pick[s]}], pick[s]>>]
      <4> HIDE DEF Small
      <4> QED
        BY <2>1
    <3> HIDE DEF Small
    <3> QED
      BY <3>1, <3>2
  <2>5. \A s \in Small(n + 1) :
          more[s] = IF s = {} THEN base ELSE step[<<more[s \ {pick[s]}], pick[s]>>]
    <3> HIDE DEF Small
    <3> SUFFICES ASSUME NEW s \in Small(n + 1)
                 PROVE  more[s] = IF s = {} THEN base ELSE step[<<more[s \ {pick[s]}], pick[s]>>]
      OBVIOUS
    <3>1. s # {} => more[s \ {pick[s]}] = it[s \ {pick[s]}]
      <4> HIDE DEF more
      <4> QED
        BY <2>2, <2>4
    <3> QED
      BY <3>1
  <2> HIDE DEF more, Small
  <2>6. Solves(more, n + 1)
    BY <2>3, <2>5
  <2> QED
    BY <2>6
<1>5. Nat \subseteq Solved
  <2> HIDE DEF Solved
  <2> QED
    BY <1>3, <1>4, Induction
<1>6. Cardinality(S) \in Nat
  BY FS_CardinalityType DEF IsFold
<1>7. PICK it : Solves(it, Cardinality(S))
  <2> HIDE DEF Solves
  <2> QED
    BY <1>5, <1>6
<1>8. Small(Cardinality(S)) = SUBSET S
  BY <1>1
<1> HIDE DEF Small
<1> QED
  BY <1>7, <1>8 DEF FoldedBy

\* The ends of a set of numbers that is not empty.
LEMMA GreatestOf ==
  ASSUME NEW n \in Nat, NEW s \in SUBSET (1 .. n), s # {}
  PROVE  Max(s) \in s /\ \A y \in s : Max(s) >= y
<1> DEFINE Over == {n - y : y \in s}
<1>1. Over \in SUBSET Nat /\ Over # {}
  <2>1. \A y \in s : y \in Nat /\ y <= n
    OBVIOUS
  <2>2. \A y \in s : n - y \in Nat
    BY <2>1
  <2> QED
    BY <2>2
<1>2. PICK m \in Over : \A k \in Over : m <= k
  BY <1>1, LeastElement
<1>3. PICK x \in s : m = n - x
  BY <1>2
<1>4. \A y \in s : n - y \in Over
  OBVIOUS
<1>5. \A y \in s : x >= y
  <2> HIDE DEF Over
  <2> QED
    BY <1>2, <1>3, <1>4
<1> QED
  BY <1>5 DEF Max

LEMMA LeastOf ==
  ASSUME NEW n \in Nat, NEW s \in SUBSET (1 .. n), s # {}
  PROVE  Min(s) \in s /\ \A y \in s : Min(s) <= y
<1>1. PICK m \in s : \A y \in s : m <= y
  BY LeastElement
<1> QED
  BY <1>1 DEF Min

\* An interval without its greatest element.
LEMMA IntervalEnds ==
  ASSUME NEW n \in Nat, NEW i \in 1 .. n
  PROVE  /\ 1 .. i \in SUBSET (1 .. n) /\ 1 .. i # {}
         /\ Max(1 .. i) = i
         /\ (1 .. i) \ {i} = 1 .. i - 1
<1>1. i \in 1 .. i /\ 1 .. i \in SUBSET (1 .. i)
  OBVIOUS
<1>2. Max(1 .. i) \in 1 .. i /\ Max(1 .. i) >= i
  <2>1. i \in Nat
    OBVIOUS
  <2> QED
    BY <1>1, <2>1, GreatestOf
<1> QED
  BY <1>2

\* The fold of a sequence from the left exists.
LeftFold(it, n, T, base, step) ==
  /\ it \in [SUBSET (1 .. n) -> T]
  /\ \A s \in SUBSET (1 .. n) :
       it[s] = IF s = {} THEN base ELSE step[<<it[s \ {Max(s)}], Max(s)>>]

LEMMA LeftFoldDefines ==
  ASSUME NEW n \in Nat, NEW T, NEW base \in T, NEW step \in [T \X (1 .. n) -> T]
  PROVE  \E it : LeftFold(it, n, T, base, step)
<1> DEFINE pick == [s \in SUBSET (1 .. n) |-> Max(s)]
<1>1. IsFiniteSet(1 .. n)
  BY FS_Interval
<1>2. \A s \in SUBSET (1 .. n) : s # {} => pick[s] \in s
  BY GreatestOf
<1>3. \A s \in SUBSET (1 .. n) : pick[s] = Max(s)
  OBVIOUS
<1> HIDE DEF pick
<1>4. \E it \in [SUBSET (1 .. n) -> T] : FoldedBy(it, 1 .. n, base, pick, step)
  BY <1>1, <1>2, FoldDefines DEF IsFold
<1> QED
  BY <1>3, <1>4 DEF FoldedBy, LeftFold

-------------------------------------------------------------------------------
(* Folds from the right, and sequences made of others. *)

RightFold(it, n, T, base, step) ==
  /\ it \in [SUBSET (1 .. n) -> T]
  /\ \A s \in SUBSET (1 .. n) :
       it[s] = IF s = {} THEN base ELSE step[<<it[s \ {Min(s)}], Min(s)>>]

LEMMA RightFoldDefines ==
  ASSUME NEW n \in Nat, NEW T, NEW base \in T, NEW step \in [T \X (1 .. n) -> T]
  PROVE  \E it : RightFold(it, n, T, base, step)
<1> DEFINE pick == [s \in SUBSET (1 .. n) |-> Min(s)]
<1>1. IsFiniteSet(1 .. n)
  BY FS_Interval
<1>2. \A s \in SUBSET (1 .. n) : s # {} => pick[s] \in s
  BY LeastOf
<1>3. \A s \in SUBSET (1 .. n) : pick[s] = Min(s)
  OBVIOUS
<1> HIDE DEF pick
<1>4. \E it \in [SUBSET (1 .. n) -> T] : FoldedBy(it, 1 .. n, base, pick, step)
  BY <1>1, <1>2, FoldDefines DEF IsFold
<1> QED
  BY <1>3, <1>4 DEF FoldedBy, RightFold

\* An interval without its least element.
LEMMA IntervalStarts ==
  ASSUME NEW n \in Nat, NEW i \in 1 .. n
  PROVE  /\ i .. n \in SUBSET (1 .. n) /\ i .. n # {}
         /\ Min(i .. n) = i
         /\ (i .. n) \ {i} = i + 1 .. n
<1>1. i \in i .. n /\ i .. n \in SUBSET (1 .. n)
  OBVIOUS
<1>2. Min(i .. n) \in i .. n /\ Min(i .. n) <= i
  BY <1>1, LeastOf
<1> QED
  BY <1>1, <1>2

\* FlattenSeq concatenates one sequence after the other.
Flattening(f, seqs) ==
  /\ f[0] = <<>>
  /\ \A i \in 1 .. Len(seqs) : f[i] = f[i - 1] \o seqs[i]
  /\ FlattenSeq(seqs) = f[Len(seqs)]

LEMMA FlatteningExists ==
  ASSUME NEW R, NEW seqs \in Seq(Seq(R))
  PROVE  \E f \in [0 .. Len(seqs) -> Seq(R)] : Flattening(f, seqs)
<1> DEFINE n == Len(seqs)
           step == [p \in Seq(R) \X (1 .. n) |-> p[1] \o seqs[p[2]]]
           F == CHOOSE g : g = [i \in 1 .. n |-> IF i = 1 THEN seqs[i] ELSE g[i - 1] \o seqs[i]]
<1>1. n \in Nat /\ \A i \in 1 .. n : seqs[i] \in Seq(R)
  BY LenProperties, ElementOfSeq
<1>2. step \in [Seq(R) \X (1 .. n) -> Seq(R)] /\ <<>> \in Seq(R)
  BY <1>1, ConcatProperties
<1>3. PICK it : LeftFold(it, n, Seq(R), <<>>, step)
  <2> HIDE DEF n, step
  <2> QED
    BY <1>1, <1>2, LeftFoldDefines
<1> DEFINE f == [i \in 0 .. n |-> it[1 .. i]]
<1>4. f \in [0 .. n -> Seq(R)]
  <2> HIDE DEF n, step
  <2>1. \A i \in 0 .. n : 1 .. i \in SUBSET (1 .. n)
    BY <1>1
  <2> QED
    BY <1>3, <2>1 DEF LeftFold
<1>5. f[0] = <<>>
  <2> HIDE DEF n, step
  <2>1. 1 .. 0 = {} /\ 1 .. 0 \in SUBSET (1 .. n) /\ 0 \in 0 .. n
    BY <1>1
  <2> QED
    BY <1>3, <2>1 DEF LeftFold
<1>6. ASSUME NEW i \in 1 .. n
      PROVE  f[i] = f[i - 1] \o seqs[i]
  <2>1. /\ 1 .. i \in SUBSET (1 .. n) /\ 1 .. i # {}
        /\ Max(1 .. i) = i
        /\ (1 .. i) \ {i} = 1 .. i - 1
    <3> HIDE DEF n
    <3> QED
      BY <1>1, IntervalEnds
  <2>2. it[1 .. i] = step[<<it[1 .. i - 1], i>>]
    <3> HIDE DEF n, step
    <3> QED
      BY <1>3, <2>1 DEF LeftFold
  <2>3. i \in 0 .. n /\ i - 1 \in 0 .. n
    BY <1>1
  <2>4. f[i - 1] \in Seq(R) /\ f[i - 1] = it[1 .. i - 1] /\ f[i] = it[1 .. i]
    <3> HIDE DEF n
    <3> QED
      BY <1>4, <2>3
  <2> QED
    BY <2>2, <2>4
<1> HIDE DEF f
<1>7. CASE n = 0
  <2>1. seqs = <<>>
    BY <1>7, EmptySeq
  <2> QED
    BY <1>4, <1>5, <1>7, <2>1 DEF Flattening, FlattenSeq
<1>8. CASE n # 0
  <2> DEFINE g == [i \in 1 .. n |-> f[i]]
  <2>1. g = [i \in 1 .. n |-> IF i = 1 THEN seqs[i] ELSE g[i - 1] \o seqs[i]]
    <3>1. ASSUME NEW i \in 1 .. n
          PROVE  f[i] = IF i = 1 THEN seqs[i] ELSE g[i - 1] \o seqs[i]
      <4>1. CASE i = 1
        <5> HIDE DEF n, g, F, step
        <5>1. f[i] = f[i - 1] \o seqs[i]
          BY <1>6
        <5>2. i - 1 = 0 /\ seqs[i] \in Seq(R)
          BY <1>1, <4>1
        <5>3. f[i - 1] = <<>>
          BY <1>5, <5>2
        <5> QED
          BY <4>1, <5>1, <5>2, <5>3, ConcatEmptySeq
      <4>2. CASE i # 1
        <5>1. i - 1 \in 1 .. n
          BY <1>1, <4>2
        <5> HIDE DEF n
        <5> QED
          BY <1>6, <4>2, <5>1
      <4> QED
        BY <4>1, <4>2
    <3> HIDE DEF n
    <3> QED
      BY <3>1
  <2>2. F = [i \in 1 .. n |-> IF i = 1 THEN seqs[i] ELSE F[i - 1] \o seqs[i]]
    <3> HIDE DEF n, g
    <3> QED
      BY <2>1
  <2>3. FlattenSeq(seqs) = F[n]
    BY <1>8 DEF FlattenSeq
  <2> DEFINE Same == {i \in Nat : 1 <= i /\ i <= n => F[i] = f[i]}
  <2> HIDE DEF F, n, g
  <2>4. 0 \in Same
    OBVIOUS
  <2>5. ASSUME NEW i \in Nat, i \in Same
        PROVE  i + 1 \in Same
    <3>1. ASSUME NEW k \in 1 .. n, k - 1 = i
          PROVE  F[k] = f[k]
      <4>1. f[k] = f[k - 1] \o seqs[k]
        BY <1>6
      <4>2. F[k] = IF k = 1 THEN seqs[k] ELSE F[k - 1] \o seqs[k]
        BY <2>2
      <4>3. CASE k = 1
        <5>1. seqs[1] \in Seq(R) /\ f[k - 1] = <<>>
          BY <1>1, <1>5, <4>3
        <5> QED
          BY <4>1, <4>2, <4>3, <5>1, ConcatEmptySeq
      <4>4. CASE k # 1
        <5>1. F[k - 1] = f[k - 1]
          BY <1>1, <2>5, <3>1, <4>4
        <5> QED
          BY <4>1, <4>2, <4>4, <5>1
      <4> QED
        BY <4>3, <4>4
    <3>2. i + 1 <= n => i + 1 \in 1 .. n /\ (i + 1) - 1 = i
      BY <1>1
    <3> QED
      BY <3>1, <3>2
  <2> HIDE DEF Same
  <2>6. n \in Same
    BY <1>1, <2>4, <2>5, Induction
  <2>7. F[n] = f[n]
    BY <1>1, <1>8, <2>6 DEF Same
  <2> QED
    BY <1>4, <1>5, <1>6, <2>3, <2>7 DEF Flattening, n
<1> QED
  BY <1>7, <1>8

\* Sequences of one element each add up to the sequence of these elements.
Piece(part, m, l)    == [i \in 1 .. l - m |-> part[m + i]]
AddsOnes(f, part, S, m, l) ==
  \A k \in m + 1 .. l : part[k] \in S /\ f[k] = f[k - 1] \o <<part[k]>>

AddedUp(f, part, m, l) == f[l] = f[m] \o Piece(part, m, l)

LEMMA SingletonsAddUp ==
  ASSUME NEW S, NEW n \in Nat, NEW f \in [0 .. n -> Seq(S)], NEW part,
         NEW m \in 0 .. n, NEW l \in m .. n, AddsOnes(f, part, S, m, l)
  PROVE  AddedUp(f, part, m, l)
<1> USE DEF AddsOnes
<1> DEFINE tail(j) == [i \in 1 .. j |-> part[m + i]]
           Added   == {j \in Nat : m + j <= l => f[m + j] = f[m] \o tail(j)}
<1>0. \A a, b, c \in Seq(S) : (a \o b) \o c = a \o (b \o c)
  <2> SUFFICES ASSUME NEW a \in Seq(S), NEW b \in Seq(S), NEW c \in Seq(S)
               PROVE  (a \o b) \o c = a \o (b \o c)
    OBVIOUS
  <2> QED
    BY ConcatAssociative
<1>1. ASSUME NEW j \in Nat, m + j <= l
      PROVE  tail(j) \in Seq(S) /\ Len(tail(j)) = j
  <2>1. \A i \in 1 .. j : m + i \in m + 1 .. l
    BY <1>1
  <2>2. \A i \in 1 .. j : part[m + i] \in S
    BY <2>1
  <2> QED
    BY <2>2
<1>2. f[m] \in Seq(S)
  OBVIOUS
<1>3. 0 \in Added
  <2>1. tail(0) = <<>>
    OBVIOUS
  <2>2. f[m] \o <<>> = f[m] /\ m + 0 = m
    BY <1>2, ConcatEmptySeq
  <2> HIDE DEF tail
  <2> QED
    BY <2>1, <2>2
<1>4. ASSUME NEW j \in Nat, j \in Added
      PROVE  j + 1 \in Added
  <2>1. ASSUME m + (j + 1) <= l
        PROVE  f[m + (j + 1)] = f[m] \o tail(j + 1)
    <3>1. PICK k \in m + 1 .. l : k = m + (j + 1) /\ k - 1 = m + j /\ m + j <= l
      BY <2>1
    <3>2. tail(j) \in Seq(S) /\ tail(j + 1) \in Seq(S) /\ Len(tail(j)) = j /\ Len(tail(j + 1)) = j + 1
      <4> HIDE DEF tail
      <4> QED
        BY <1>1, <2>1, <3>1
    <3>3. f[k - 1] = f[m] \o tail(j)
      BY <1>4, <3>1
    <3>4. part[k] \in S /\ f[k] = f[k - 1] \o <<part[k]>> /\ <<part[k]>> \in Seq(S)
      BY <3>1
    <3>5. tail(j) \o <<part[k]>> = tail(j + 1)
      <4>1. /\ tail(j) \o <<part[k]>> \in Seq(S)
            /\ Len(tail(j) \o <<part[k]>>) = j + 1
            /\ \A i \in 1 .. j + 1 :
                 (tail(j) \o <<part[k]>>)[i] = IF i <= j THEN tail(j)[i] ELSE <<part[k]>>[i - j]
        <5> HIDE DEF tail
        <5>1. Len(<<part[k]>>) = 1
          OBVIOUS
        <5> QED
          BY <3>2, <3>4, <5>1, ConcatProperties
      <4>2. ASSUME NEW i \in 1 .. j + 1
            PROVE  (tail(j) \o <<part[k]>>)[i] = tail(j + 1)[i]
        <5>1. CASE i <= j
          <6>1. i \in 1 .. j /\ i \in 1 .. j + 1
            BY <5>1
          <6>2. tail(j)[i] = part[m + i] /\ tail(j + 1)[i] = part[m + i]
            BY <6>1
          <6> HIDE DEF tail
          <6> QED
            BY <4>1, <5>1, <6>2
        <5>2. CASE ~(i <= j)
          <6>1. i = j + 1 /\ i - j = 1 /\ m + i = k
            BY <3>1, <5>2
          <6>2. tail(j + 1)[i] = part[m + i]
            OBVIOUS
          <6> HIDE DEF tail
          <6>3. (tail(j) \o <<part[k]>>)[i] = <<part[k]>>[1]
            BY <4>1, <5>2, <6>1
          <6> QED
            BY <6>1, <6>2, <6>3
        <5> QED
          BY <5>1, <5>2
      <4> HIDE DEF tail
      <4> QED
        BY <3>2, <4>1, <4>2, SeqEqual
    <3> HIDE DEF tail
    <3>6. (f[m] \o tail(j)) \o <<part[k]>> = f[m] \o (tail(j) \o <<part[k]>>)
      <4> DEFINE a == f[m]
                 b == tail(j)
                 c == <<part[k]>>
      <4>1. a \in Seq(S) /\ b \in Seq(S) /\ c \in Seq(S)
        BY <1>2, <3>2, <3>4
      <4> HIDE DEF a, b, c
      <4>2. (a \o b) \o c = a \o (b \o c)
        BY <1>0, <4>1
      <4> QED
        BY <4>2 DEF a, b, c
    <3> QED
      BY <3>1, <3>3, <3>4, <3>5, <3>6
  <2> HIDE DEF tail
  <2> QED
    BY <2>1
<1>5. l - m \in Added
  <2> HIDE DEF Added
  <2>1. Nat \subseteq Added
    BY <1>3, <1>4, Induction
  <2>2. l - m \in Nat
    OBVIOUS
  <2> QED
    BY <2>1, <2>2
<1>6. m + (l - m) = l /\ l - m \in Nat
  OBVIOUS
<1> HIDE DEF tail
<1>7. f[l] = f[m] \o tail(l - m)
  BY <1>5, <1>6
<1> QED
  BY <1>7 DEF tail, Piece, AddedUp

\* A function on an initial segment is a sequence.
LEMMA FunctionIsSeq ==
  ASSUME NEW S, NEW n \in Nat, NEW f \in [1 .. n -> S]
  PROVE  f \in Seq(S) /\ Len(f) = n /\ DOMAIN f = 1 .. n
PROOF OBVIOUS

\* Short sequences put together.
LEMMA Joined ==
  ASSUME NEW S, NEW x \in S, NEW y \in S, NEW z \in S
  PROVE  <<x>> \o <<y>> = <<x, y>> /\ <<x, y>> \o <<z>> = <<x, y, z>>
<1>1. /\ <<x>> \in Seq(S) /\ <<y>> \in Seq(S) /\ <<z>> \in Seq(S)
      /\ <<x, y>> \in Seq(S) /\ <<x, y, z>> \in Seq(S)
      /\ Len(<<x>>) = 1 /\ Len(<<y>>) = 1 /\ Len(<<z>>) = 1
      /\ Len(<<x, y>>) = 2 /\ Len(<<x, y, z>>) = 3
  OBVIOUS
<1>2. <<x>> \o <<y>> = <<x, y>>
  <2> DEFINE a == <<x>>
             b == <<y>>
             c == <<x, y>>
  <2>1. a[1] = x /\ b[1] = y /\ c[1] = x /\ c[2] = y
    OBVIOUS
  <2>2. a \in Seq(S) /\ b \in Seq(S) /\ c \in Seq(S) /\ Len(a) = 1 /\ Len(b) = 1 /\ Len(c) = 2
    BY <1>1
  <2> HIDE DEF a, b, c
  <2>3. /\ a \o b \in Seq(S) /\ Len(a \o b) = Len(a) + Len(b)
        /\ \A i \in 1 .. Len(a) + Len(b) : (a \o b)[i] = IF i <= Len(a) THEN a[i] ELSE b[i - Len(a)]
    BY <2>2, ConcatProperties
  <2>4. Len(a \o b) = 2 /\ (a \o b)[1] = x /\ (a \o b)[2] = y
    BY <2>1, <2>2, <2>3
  <2>5. \A i \in 1 .. 2 : i = 1 \/ i = 2
    OBVIOUS
  <2>6. \A i \in 1 .. Len(c) : (a \o b)[i] = c[i]
    BY <2>1, <2>2, <2>4, <2>5
  <2>7. a \o b = c
    BY <2>2, <2>3, <2>4, <2>6, SeqEqual
  <2> QED
    BY <2>7 DEF a, b, c
<1>3. <<x, y>> \o <<z>> = <<x, y, z>>
  <2> DEFINE a == <<x, y>>
             b == <<z>>
             c == <<x, y, z>>
  <2>1. a[1] = x /\ a[2] = y /\ b[1] = z /\ c[1] = x /\ c[2] = y /\ c[3] = z
    OBVIOUS
  <2>2. a \in Seq(S) /\ b \in Seq(S) /\ c \in Seq(S) /\ Len(a) = 2 /\ Len(b) = 1 /\ Len(c) = 3
    BY <1>1
  <2> HIDE DEF a, b, c
  <2>3. /\ a \o b \in Seq(S) /\ Len(a \o b) = Len(a) + Len(b)
        /\ \A i \in 1 .. Len(a) + Len(b) : (a \o b)[i] = IF i <= Len(a) THEN a[i] ELSE b[i - Len(a)]
    BY <2>2, ConcatProperties
  <2>4. Len(a \o b) = 3 /\ (a \o b)[1] = x /\ (a \o b)[2] = y /\ (a \o b)[3] = z
    BY <2>1, <2>2, <2>3
  <2>5. \A i \in 1 .. 3 : i = 1 \/ i = 2 \/ i = 3
    OBVIOUS
  <2>6. \A i \in 1 .. Len(c) : (a \o b)[i] = c[i]
    BY <2>1, <2>2, <2>4, <2>5
  <2>7. a \o b = c
    BY <2>2, <2>3, <2>4, <2>6, SeqEqual
  <2> QED
    BY <2>7 DEF a, b, c
<1> QED
  BY <1>2, <1>3

\* One more sequence comes last.
LEMMA FlattenAppend ==
  ASSUME NEW R, NEW seqs \in Seq(Seq(R)), NEW last \in Seq(R)
  PROVE  /\ FlattenSeq(seqs) \in Seq(R)
         /\ FlattenSeq(Append(seqs, last)) = FlattenSeq(seqs) \o last
<1> DEFINE n == Len(seqs)
           more == Append(seqs, last)
<1>1. n \in Nat
  BY LenProperties
<1>2. /\ more \in Seq(Seq(R)) /\ Len(more) = n + 1 /\ more[n + 1] = last
      /\ \A i \in 1 .. n : more[i] = seqs[i]
  BY AppendProperties
<1>3. PICK f \in [0 .. n -> Seq(R)] : Flattening(f, seqs)
  BY FlatteningExists
<1> HIDE DEF more
<1>4. PICK g \in [0 .. n + 1 -> Seq(R)] : Flattening(g, more)
  <2>1. \E g \in [0 .. Len(more) -> Seq(R)] : Flattening(g, more)
    BY <1>2, FlatteningExists
  <2> QED
    BY <1>2, <2>1
<1>5. f[0] = <<>> /\ FlattenSeq(seqs) = f[n] /\ \A i \in 1 .. n : f[i] = f[i - 1] \o seqs[i]
  BY <1>3 DEF Flattening
<1>6. g[0] = <<>> /\ FlattenSeq(more) = g[n + 1] /\ \A i \in 1 .. n + 1 : g[i] = g[i - 1] \o more[i]
  BY <1>2, <1>4 DEF Flattening
<1> HIDE DEF n
<1> DEFINE Same == {i \in Nat : i <= n => g[i] = f[i]}
<1>7. 0 \in Same
  BY <1>5, <1>6
<1>8. ASSUME NEW i \in Nat, i \in Same
      PROVE  i + 1 \in Same
  <2>1. ASSUME NEW k \in 1 .. n, k - 1 = i
        PROVE  g[k] = f[k]
    <3>1. k \in 1 .. n + 1 /\ i <= n
      BY <1>1, <2>1
    <3> QED
      BY <1>2, <1>5, <1>6, <1>8, <2>1, <3>1
  <2>2. i + 1 <= n => i + 1 \in 1 .. n /\ (i + 1) - 1 = i
    BY <1>1
  <2> QED
    BY <2>1, <2>2
<1>9. g[n] = f[n]
  <2>1. Nat \subseteq Same
    <3> HIDE DEF Same
    <3> QED
      BY <1>7, <1>8, Induction
  <2> QED
    BY <1>1, <2>1
<1>10. n + 1 \in 1 .. n + 1 /\ (n + 1) - 1 = n /\ n \in 0 .. n
  BY <1>1
<1>11. g[n + 1] = g[n] \o last
  BY <1>2, <1>6, <1>10
<1> QED
  BY <1>3, <1>5, <1>6, <1>9, <1>10, <1>11 DEF more

LEMMA FlattenEmpty == FlattenSeq(<<>>) = <<>>
BY DEF FlattenSeq

\* What comes last comes last in what is put after something.
LastStays(a, b, e) == Append(a \o b, e) = a \o Append(b, e)

LEMMA AppendConcat ==
  ASSUME NEW R, NEW a \in Seq(R), NEW b \in Seq(R), NEW e \in R
  PROVE  LastStays(a, b, e)
<1> DEFINE l == Append(a \o b, e)
           r == a \o Append(b, e)
           m == Len(a)
           n == Len(b)
<1>1. m \in Nat /\ n \in Nat
  BY LenProperties
<1>2. /\ a \o b \in Seq(R) /\ Len(a \o b) = m + n
      /\ \A i \in 1 .. m + n : (a \o b)[i] = IF i <= m THEN a[i] ELSE b[i - m]
  BY ConcatProperties
<1>3. /\ Append(b, e) \in Seq(R) /\ Len(Append(b, e)) = n + 1
      /\ \A i \in 1 .. n : Append(b, e)[i] = b[i]
      /\ Append(b, e)[n + 1] = e
  BY AppendProperties
<1>4. /\ l \in Seq(R) /\ Len(l) = Len(a \o b) + 1
      /\ \A i \in 1 .. Len(a \o b) : l[i] = (a \o b)[i]
      /\ l[Len(a \o b) + 1] = e
  BY <1>2, AppendProperties
<1>5. /\ r \in Seq(R) /\ Len(r) = m + Len(Append(b, e))
      /\ \A i \in 1 .. m + Len(Append(b, e)) :
           r[i] = IF i <= m THEN a[i] ELSE Append(b, e)[i - m]
  BY <1>3, ConcatProperties
<1> HIDE DEF l, r, m, n
<1>6. Len(l) = m + n + 1 /\ Len(r) = m + n + 1
  BY <1>1, <1>2, <1>3, <1>4, <1>5
<1>7. ASSUME NEW i \in 1 .. m + n + 1
      PROVE  l[i] = r[i]
  <2>1. CASE i = m + n + 1
    <3>1. ~(i <= m) /\ i - m = n + 1 /\ i \in 1 .. m + Len(Append(b, e))
      BY <1>1, <1>3, <2>1
    <3> QED
      BY <1>2, <1>3, <1>4, <1>5, <2>1, <3>1
  <2>2. CASE i # m + n + 1
    <3>1. i \in 1 .. m + n /\ i \in 1 .. m + Len(Append(b, e)) /\ (~(i <= m) => i - m \in 1 .. n)
      BY <1>1, <1>3, <2>2
    <3>2. l[i] = (a \o b)[i]
      BY <1>2, <1>4, <3>1
    <3> QED
      BY <1>2, <1>3, <1>5, <3>1, <3>2
  <2> QED
    BY <2>1, <2>2
<1>8. l = r
  <2>1. \A i \in 1 .. Len(l) : l[i] = r[i]
    BY <1>6, <1>7
  <2> QED
    BY <1>4, <1>5, <1>6, <2>1, SeqEqual
<1> QED
  BY <1>8 DEF l, r, LastStays

-------------------------------------------------------------------------------
(* Division. *)

LEMMA Division ==
  ASSUME NEW a \in Int, NEW b \in Nat \ {0}
  PROVE  /\ a \div b \in Int /\ a % b \in 0 .. b - 1
         /\ a = (a \div b) * b + (a % b)
         /\ a \in Nat => a \div b \in Nat
  OBVIOUS

LEMMA QuotientOf ==
  ASSUME NEW a \in Nat, NEW b \in Nat \ {0}
  PROVE  a \div b \in Nat /\ (a \div b) * b <= a /\ a < (a \div b + 1) * b
<1>0. a \in Int /\ a \div b \in Nat /\ a % b \in 0 .. b - 1 /\ a = (a \div b) * b + (a % b)
  OBVIOUS
<1> DEFINE q == a \div b
           r == a % b
<1>1. q \in Nat /\ r \in 0 .. b - 1 /\ a = q * b + r
  BY <1>0
<1> HIDE DEF q, r
<1>2. q * b <= a /\ a < (q + 1) * b
  BY <1>1
<1> QED
  BY <1>1, <1>2 DEF q

\* A quotient and a remainder in range are those of the division.
LEMMA DivisionUnique ==
  ASSUME NEW a \in Int, NEW b \in Nat \ {0}, NEW q \in Int, NEW r \in 0 .. b - 1,
         a = q * b + r
  PROVE  a \div b = q /\ a % b = r
<1> DEFINE p == a \div b
           s == a % b
<1>1. p \in Int /\ s \in 0 .. b - 1 /\ a = p * b + s
  BY Division
<1> HIDE DEF p, s
<1>2. (p - q) * b = r - s
  BY <1>1
<1>3. \A k \in Int : k >= 1 => k * b >= b
  OBVIOUS
<1>4. \A k \in Int : k <= -1 => k * b <= -b
  OBVIOUS
<1>5. p - q \in Int /\ r - s < b /\ r - s > -b
  BY <1>1
<1>6. p - q = 0
  <2> DEFINE k == p - q
  <2>1. k \in Int /\ ~(k * b >= b) /\ ~(k * b <= -b)
    BY <1>2, <1>5
  <2> HIDE DEF k
  <2>2. k = 0
    BY <1>3, <1>4, <2>1
  <2> QED
    BY <2>2 DEF k
<1>7. p = q /\ r = s
  BY <1>1, <1>2, <1>6
<1> QED
  BY <1>7 DEF p, s

LEMMA Multiple ==
  ASSUME NEW q \in Int, NEW b \in Nat \ {0}
  PROVE  (q * b) \div b = q /\ (q * b) % b = 0
<1>1. q * b \in Int /\ q * b = q * b + 0 /\ 0 \in 0 .. b - 1
  OBVIOUS
<1> QED
  BY <1>1, DivisionUnique

\* Multiples of b are the products of b.
LEMMA MultipleIsProduct ==
  ASSUME NEW a \in Int, NEW b \in Nat \ {0}
  PROVE  a % b = 0 <=> \E q \in Int : a = q * b
<1>1. ASSUME a % b = 0
      PROVE  \E q \in Int : a = q * b
  <2>1. a \div b \in Int /\ a = (a \div b) * b + (a % b)
    BY Division
  <2>2. a = (a \div b) * b
    BY <1>1, <2>1
  <2> QED
    BY <2>1, <2>2
<1>2. ASSUME NEW q \in Int, a = q * b
      PROVE  a % b = 0
  BY <1>2, Multiple
<1> QED
  BY <1>1, <1>2

-------------------------------------------------------------------------------
(* Sums: a base and the weight of each element, in whatever order. *)

Summing(it, S, base, weight) ==
  /\ it \in [SUBSET S -> Int]
  /\ \A s \in SUBSET S :
       it[s] = IF s = {} THEN base
               ELSE it[s \ {CHOOSE x \in s : TRUE}] + weight[CHOOSE x \in s : TRUE]

LEMMA SummingExists ==
  ASSUME NEW S, IsFiniteSet(S), NEW base \in Int, NEW weight \in [S -> Int]
  PROVE  \E it : Summing(it, S, base, weight)
<1> DEFINE pick == [s \in SUBSET S |-> CHOOSE x \in s : TRUE]
           step == [p \in Int \X S |-> p[1] + weight[p[2]]]
<1>1. /\ \A s \in SUBSET S : s # {} => pick[s] \in s
      /\ \A s \in SUBSET S : pick[s] = CHOOSE x \in s : TRUE
  OBVIOUS
<1>2. /\ step \in [Int \X S -> Int]
      /\ \A v \in Int, x \in S : step[<<v, x>>] = v + weight[x]
  OBVIOUS
<1> HIDE DEF pick, step
<1>3. IsFold(S, Int, base, pick, step)
  BY <1>1, <1>2 DEF IsFold
<1>4. PICK it \in [SUBSET S -> Int] : FoldedBy(it, S, base, pick, step)
  BY <1>3, FoldDefines
<1>5. ASSUME NEW s \in SUBSET S, s # {}
      PROVE  it[s] = it[s \ {pick[s]}] + weight[pick[s]]
  <2>1. it[s \ {pick[s]}] \in Int /\ pick[s] \in S
    BY <1>1, <1>5
  <2> QED
    BY <1>2, <1>4, <1>5, <2>1 DEF FoldedBy
<1>6. it[{}] = base
  BY <1>4 DEF FoldedBy
<1>7. ASSUME NEW s \in SUBSET S, s # {}
      PROVE  it[s] = it[s \ {CHOOSE x \in s : TRUE}] + weight[CHOOSE x \in s : TRUE]
  <2>1. pick[s] = CHOOSE x \in s : TRUE
    BY <1>1
  <2> QED
    BY <1>5, <1>7, <2>1
<1>8. Summing(it, S, base, weight)
  BY <1>6, <1>7 DEF Summing
<1> QED
  BY <1>8

\* Any element may be added last.
AnyLast(it, S, weight) ==
  \A s \in SUBSET S : \A x \in s : it[s] = it[s \ {x}] + weight[x]

LEMMA SummingAdds ==
  ASSUME NEW S, IsFiniteSet(S), NEW base \in Int, NEW weight \in [S -> Int],
         NEW it, Summing(it, S, base, weight)
  PROVE  AnyLast(it, S, weight)
<1> DEFINE Adds == {n \in Nat : \A r \in SUBSET S : Cardinality(r) = n =>
                                  \A y \in r : it[r] = it[r \ {y}] + weight[y]}
<1>1. \A r \in SUBSET S : IsFiniteSet(r) /\ Cardinality(r) \in Nat
  BY FS_Subset, FS_CardinalityType
<1>2. ASSUME NEW n \in Nat, \A m \in 0 .. n - 1 : m \in Adds
      PROVE  n \in Adds
  <2> SUFFICES ASSUME NEW r \in SUBSET S, Cardinality(r) = n, NEW y \in r
               PROVE  it[r] = it[r \ {y}] + weight[y]
    OBVIOUS
  <2> DEFINE z == CHOOSE e \in r : TRUE
  <2>1. z \in r /\ it[r] = it[r \ {z}] + weight[z]
    BY DEF Summing
  <2> HIDE DEF z
  <2>2. CASE y = z
    BY <2>1, <2>2
  <2>3. CASE y # z
    <3> DEFINE a == r \ {z}
               b == r \ {y}
               c == (r \ {z}) \ {y}
    <3>1. /\ a \in SUBSET S /\ b \in SUBSET S /\ c \in SUBSET S
          /\ y \in a /\ z \in b /\ a \ {y} = c /\ b \ {z} = c
      BY <2>1, <2>3
    <3>2. Cardinality(a) = n - 1 /\ Cardinality(b) = n - 1
      BY <1>1, <2>1, FS_RemoveElement
    <3>3. Cardinality(a) \in Nat
      BY <1>1, <3>1
    <3> HIDE DEF a, b, c
    <3>4. n - 1 \in Adds
      <4>1. n - 1 \in 0 .. n - 1
        BY <3>2, <3>3
      <4> HIDE DEF Adds
      <4> QED
        BY <1>2, <4>1
    <3>5. it[a] = it[c] + weight[y] /\ it[b] = it[c] + weight[z]
      BY <3>1, <3>2, <3>4
    <3>6. it[c] \in Int /\ weight[y] \in Int /\ weight[z] \in Int
      BY <2>1, <3>1 DEF Summing
    <3>7. it[r] = it[a] + weight[z]
      BY <2>1 DEF a
    <3> QED
      BY <3>5, <3>6, <3>7 DEF b
  <2> QED
    BY <2>2, <2>3
<1>3. Nat \subseteq Adds
  <2> HIDE DEF Adds
  <2> QED
    BY <1>2, StrongInduction
<1> QED
  BY <1>1, <1>3 DEF AnyLast

\* The recursion that a sum is defined by.
SumRecursion(it, S, base, weight) ==
  /\ it = [s \in SUBSET S |-> it[s]]
  /\ it[{}] = base
  /\ \A s \in SUBSET S : s # {} =>
       it[s] = it[s \ {CHOOSE x \in s : TRUE}] + weight[CHOOSE x \in s : TRUE]

LEMMA SumRecursionSums ==
  ASSUME NEW S, IsFiniteSet(S), NEW base \in Int, NEW weight \in [S -> Int],
         NEW it, SumRecursion(it, S, base, weight)
  PROVE  Summing(it, S, base, weight)
<1> DEFINE Typed == {n \in Nat : \A s \in SUBSET S : Cardinality(s) = n => it[s] \in Int}
<1>1. \A s \in SUBSET S : IsFiniteSet(s) /\ Cardinality(s) \in Nat
  BY FS_Subset, FS_CardinalityType
<1>2. ASSUME NEW n \in Nat, \A m \in 0 .. n - 1 : m \in Typed
      PROVE  n \in Typed
  <2> SUFFICES ASSUME NEW s \in SUBSET S, Cardinality(s) = n
               PROVE  it[s] \in Int
    OBVIOUS
  <2>1. CASE s = {}
    BY <2>1 DEF SumRecursion
  <2>2. CASE s # {}
    <3> DEFINE x == CHOOSE x \in s : TRUE
               r == s \ {x}
    <3>1. x \in s /\ r \in SUBSET S
      BY <2>2
    <3>2. it[s] = it[r] + weight[x]
      BY <2>2 DEF SumRecursion
    <3> HIDE DEF x
    <3>3. Cardinality(r) = n - 1
      BY <1>1, <3>1, FS_RemoveElement
    <3>4. n - 1 \in 0 .. n - 1
      BY <1>1, <3>1, <3>3
    <3> HIDE DEF r
    <3>5. n - 1 \in Typed
      <4> HIDE DEF Typed
      <4> QED
        BY <1>2, <3>4
    <3>6. it[r] \in Int /\ weight[x] \in Int
      BY <3>1, <3>3, <3>5
    <3> QED
      BY <3>2, <3>6
  <2> QED
    BY <2>1, <2>2
<1>3. Nat \subseteq Typed
  <2> HIDE DEF Typed
  <2> QED
    BY <1>2, StrongInduction
<1>4. \A s \in SUBSET S : it[s] \in Int
  BY <1>1, <1>3
<1> QED
  BY <1>4 DEF SumRecursion, Summing
===============================================================================
