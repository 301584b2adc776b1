------------------------------ MODULE Induction ------------------------------
(***************************************************************************)
(* Induction, for the proofs of what recursive functions and sums compute: *)
(* over the natural numbers and over finite sets, stated with sets for     *)
(* predicates and functions for steps, so that first-order provers can     *)
(* apply them.  They follow from the library's theorem that the strict     *)
(* inclusion of finite sets is well-founded.                               *)
(***************************************************************************)
EXTENDS Sums, FiniteSetTheorems, WellFoundedInduction, TLAPS

\* A set of natural numbers that is not empty has a least element.
LEMMA SmallestElement ==
    ASSUME NEW T \in SUBSET Nat, T # {}
    PROVE  \E x \in T : \A y \in T : x <= y
<1> DEFINE below(n) == 0..(n - 1)
           B == {below(n) : n \in T}
<1>1. B \subseteq FiniteSubsetsOf(Nat) /\ B # {}
  <2>1. \A n \in Nat : below(n) \in SUBSET Nat /\ IsFiniteSet(below(n))
    BY FS_Interval
  <2> QED
    BY <2>1 DEF FiniteSubsetsOf
<1> HIDE DEF B
<1>2. PICK X \in B : \A Y \in B : ~(<<Y, X>> \in StrictSubsetOrdering(Nat))
  BY <1>1, FS_StrictSubsetOrderingWellFounded, WFMin
<1>3. PICK x \in T : X = below(x)
  BY <1>2 DEF B
<1>4. ASSUME NEW y \in T, ~(x <= y) PROVE FALSE
  <2>1. below(y) \in B
    BY DEF B
  <2>2. below(y) \subseteq X /\ below(y) # X
    <3>1. y \in X /\ y \notin below(y)
      BY <1>3, <1>4
    <3>2. below(y) \subseteq X
      BY <1>3, <1>4
    <3> QED
      BY <3>1, <3>2
  <2>3. below(y) \in SUBSET Nat /\ X \in SUBSET Nat
    BY <1>3
  <2>4. <<below(y), X>> \in StrictSubsetOrdering(Nat)
    BY <2>2, <2>3 DEF StrictSubsetOrdering
  <2> QED
    BY <1>2, <2>1, <2>4
<1> QED
  BY <1>4


\* Induction over the natural numbers, of membership in a set.
LEMMA NaturalInduction == 
    ASSUME NEW S, 0 \in S, \A n \in Nat : n \in S => n + 1 \in S
    PROVE  Nat \subseteq S
<1>1. ASSUME Nat \ S # {} PROVE FALSE
  <2> DEFINE T == Nat \ S
  <2>1. T \in SUBSET Nat /\ T # {}
    BY <1>1
  <2> HIDE DEF T
  <2>2. PICK x \in T : \A y \in T : x <= y
    BY <2>1, SmallestElement
  <2>3. x \in Nat /\ x \notin S
    BY <2>2 DEF T
  <2>4. x # 0
    BY <2>3
  <2>5. x - 1 \in Nat /\ ~(x <= x - 1) /\ (x - 1) + 1 = x
    BY <2>3, <2>4
  <2>7. x - 1 \in S
    BY <2>2, <2>5 DEF T
  <2> QED
    BY <2>3, <2>5, <2>7
<1> QED
  BY <1>1

\* A set of integers with an upper bound that is not empty has a greatest element.
LEMMA GreatestElement ==
    ASSUME NEW T \in SUBSET Int, T # {}, NEW bound \in Int, \A y \in T : y <= bound
    PROVE  \E x \in T : \A y \in T : y <= x
<1> DEFINE gaps == {bound - y : y \in T}
<1>1. gaps \in SUBSET Nat /\ gaps # {}
  <2>1. \A y \in T : bound - y \in Nat
    OBVIOUS
  <2> QED
    BY <2>1
<1> HIDE DEF gaps
<1>2. PICK g \in gaps : \A k \in gaps : g <= k
  BY <1>1, SmallestElement
<1>3. PICK x \in T : g = bound - x
  BY <1>2 DEF gaps
<1>4. ASSUME NEW y \in T PROVE y <= x
  <2>1. bound - y \in gaps
    BY DEF gaps
  <2>2. bound - x <= bound - y
    BY <1>2, <1>3, <2>1
  <2> QED
    BY <2>2
<1> QED
  BY <1>4

\* Induction over the subsets of a finite set, one element at a time.
LEMMA FiniteSetInduction ==
    ASSUME NEW S, IsFiniteSet(S), NEW F, {} \in F,
           \A T \in SUBSET S : \A x \in S \ T : T \in F => T \cup {x} \in F
    PROVE  S \in F
<1> DEFINE N == {n \in Nat : \A T \in SUBSET S : Cardinality(T) = n => T \in F}
<1>1. 0 \in N
  <2>1. \A T \in SUBSET S : Cardinality(T) = 0 => T = {}
    BY FS_EmptySet, FS_Subset
  <2> QED
    BY <2>1
<1>2. ASSUME NEW n \in Nat, n \in N PROVE n + 1 \in N
  <2>1. ASSUME NEW T \in SUBSET S, Cardinality(T) = n + 1 PROVE T \in F
    <3>1. IsFiniteSet(T) /\ T # {}
      BY <2>1, FS_EmptySet, FS_Subset
    <3>2. PICK x \in T : TRUE
      BY <3>1
    <3>3. Cardinality(T \ {x}) = n
      <4>1. Cardinality(T \ {x}) = Cardinality(T) - 1
        BY <3>1, <3>2, FS_RemoveElement
      <4> QED
        BY <2>1, <4>1
    <3>4. T \ {x} \in F
      BY <1>2, <3>3
    <3>5. T = (T \ {x}) \cup {x} /\ x \in S \ (T \ {x}) /\ T \ {x} \in SUBSET S
      BY <3>2
    <3> QED
      BY <3>4, <3>5
  <2> QED
    BY <2>1
<1> HIDE DEF N
<1>3. Nat \subseteq N
  BY <1>1, <1>2, NaturalInduction
<1>4. Cardinality(S) \in Nat
  BY FS_CardinalityType
<1> QED
  BY <1>3, <1>4 DEF N

\* The steps, from one value to the next, of a function on an interval, and what
\* it is to follow them.
StepsAlong(lo, hi, V) == [lo + 1..hi -> [V -> V]]
Follows(f, lo, hi, first, step) ==
    f = [n \in lo..hi |-> IF n = lo THEN first ELSE step[n][f[n - 1]]]

\* A function that is defined along an interval, each value from the one before,
\* exists and stays within the values.
LEMMA IntervalRecursion ==
    ASSUME NEW lo \in Int, NEW hi \in Int, lo <= hi, NEW V, NEW first \in V,
           NEW step \in StepsAlong(lo, hi, V)
    PROVE  \E f \in [lo..hi -> V] : Follows(f, lo, hi, first, step)
<1> DEFINE Upto(f, n) == f[lo] = first /\ \A i \in lo + 1..lo + n : f[i] = step[i][f[i - 1]]
           N == {n \in Nat : lo + n > hi \/ \E f \in [lo..lo + n -> V] : Upto(f, n)}
<1>1. 0 \in N
  <2> DEFINE f == [i \in lo..lo + 0 |-> first]
  <2>1. f \in [lo..lo + 0 -> V] /\ Upto(f, 0)
    OBVIOUS
  <2> QED
    BY <2>1
<1>2. ASSUME NEW n \in Nat, n \in N PROVE n + 1 \in N
  <2>1. CASE lo + n + 1 > hi
    BY <2>1
  <2>2. CASE lo + n + 1 <= hi
    <3>1. PICK f \in [lo..lo + n -> V] : Upto(f, n)
      BY <1>2, <2>2
    <3> DEFINE g == [i \in lo..lo + (n + 1) |->
                        IF i = lo + n + 1 THEN step[lo + n + 1][f[lo + n]] ELSE f[i]]
    <3>2. step[lo + n + 1][f[lo + n]] \in V
      <4>1. step[lo + n + 1] \in [V -> V]
        BY <2>2 DEF StepsAlong
      <4>2. f[lo + n] \in V
        OBVIOUS
      <4> QED
        BY <4>1, <4>2
    <3>3. g \in [lo..lo + (n + 1) -> V]
      BY <3>2
    <3>4. g[lo] = first
      BY <3>1
    <3>5. ASSUME NEW i \in lo + 1..lo + (n + 1) PROVE g[i] = step[i][g[i - 1]]
      <4>1. CASE i = lo + n + 1
        <5>1. g[i] = step[i][f[i - 1]] /\ g[i - 1] = f[i - 1]
          BY <4>1
        <5> QED
          BY <5>1
      <4>2. CASE i # lo + n + 1
        <5>1. i \in lo + 1..lo + n /\ i \in lo..lo + (n + 1) /\ i - 1 \in lo..lo + (n + 1)
              /\ i - 1 # lo + n + 1
          BY <4>2
        <5>2. g[i] = f[i] /\ g[i - 1] = f[i - 1]
          BY <4>2, <5>1
        <5> QED
          BY <3>1, <5>1, <5>2
      <4> QED
        BY <4>1, <4>2
    <3> HIDE DEF g
    <3>6. Upto(g, n + 1)
      BY <3>4, <3>5
    <3> HIDE DEF Upto
    <3> QED
      BY <3>3, <3>6
  <2> QED
    BY <2>1, <2>2
<1> HIDE DEF N
<1>3. hi - lo \in N
  <2>1. Nat \subseteq N
    BY <1>1, <1>2, NaturalInduction
  <2> QED
    BY <2>1
<1>4. PICK f \in [lo..lo + (hi - lo) -> V] : Upto(f, hi - lo)
  BY <1>3 DEF N
<1>5. lo + (hi - lo) = hi
  OBVIOUS
<1>6. f \in [lo..hi -> V] /\ f[lo] = first /\ \A i \in lo + 1..hi : f[i] = step[i][f[i - 1]]
  BY <1>4, <1>5
<1>7. \A n \in lo..hi : f[n] = IF n = lo THEN first ELSE step[n][f[n - 1]]
  BY <1>6
<1> QED
  BY <1>6, <1>7 DEF Follows

-----------------------------------------------------------------------------
(* Sums. *)

\* What the partial sums of a function are to satisfy: one element is chosen, the
\* others are summed before.
PartialStep(values, g) ==
    [S \in SUBSET DOMAIN values |->
        IF S = {} THEN 0 ELSE LET x == CHOOSE x \in S : TRUE IN values[x] + g[S \ {x}]]
PartialSums(values) == CHOOSE g : g = PartialStep(values, g)
OfSize(D, n) == {S \in SUBSET D : Cardinality(S) <= n}

LEMMA SumIsPartialSum ==
    ASSUME NEW values
    PROVE  SumOf(values) = PartialSums(values)[DOMAIN values]
BY DEF SumOf, MapThenSumSet, MapThenFoldSet, PartialSums, PartialStep

\* Without one of its elements a finite set is smaller by one.
LEMMA OneLess ==
    ASSUME NEW D, IsFiniteSet(D), NEW n \in Nat, NEW S \in OfSize(D, n + 1), NEW x \in S
    PROVE  S \ {x} \in OfSize(D, n)
<1>1. S \in SUBSET D /\ Cardinality(S) <= n + 1
  BY DEF OfSize
<1>2. IsFiniteSet(S) /\ Cardinality(S) \in Nat
  BY <1>1, FS_Subset, FS_CardinalityType
<1>3. Cardinality(S \ {x}) = Cardinality(S) - 1
  BY <1>2, FS_RemoveElement
<1> QED
  BY <1>1, <1>2, <1>3 DEF OfSize

LEMMA SmallestIsEmpty ==
    ASSUME NEW D, IsFiniteSet(D), NEW S \in OfSize(D, 0)
    PROVE  S = {}
<1>1. S \in SUBSET D /\ Cardinality(S) <= 0
  BY DEF OfSize
<1>2. IsFiniteSet(S) /\ Cardinality(S) \in Nat
  BY <1>1, FS_Subset, FS_CardinalityType
<1> QED
  BY <1>1, <1>2, FS_EmptySet

\* Induction over the subsets of a finite set by their size.
LEMMA SizeInduction ==
    ASSUME NEW D, IsFiniteSet(D), NEW F, {} \in F,
           \A n \in Nat : OfSize(D, n) \subseteq F => OfSize(D, n + 1) \subseteq F
    PROVE  SUBSET D \subseteq F
<1> DEFINE N == {n \in Nat : OfSize(D, n) \subseteq F}
<1>1. 0 \in N
  BY SmallestIsEmpty
<1>2. \A n \in Nat : n \in N => n + 1 \in N
  OBVIOUS
<1> HIDE DEF N
<1>3. Nat \subseteq N
  BY <1>1, <1>2, NaturalInduction
<1>4. ASSUME NEW S \in SUBSET D PROVE S \in F
  <2>1. IsFiniteSet(S) /\ Cardinality(S) \in Nat
    BY FS_Subset, FS_CardinalityType
  <2>2. S \in OfSize(D, Cardinality(S))
    BY <2>1 DEF OfSize
  <2> QED
    BY <1>3, <2>1, <2>2 DEF N
<1> QED
  BY <1>4

\* The partial sums of a function on a finite set exist.
LEMMA PartialSumsExist ==
    ASSUME NEW D, IsFiniteSet(D), NEW values \in [D -> Int]
    PROVE  PartialSums(values) = PartialStep(values, PartialSums(values))
<1> DEFINE pick(S) == CHOOSE x \in S : TRUE
           V == [SUBSET D -> Int]
           first == [S \in SUBSET D |-> 0]
           more(g) == [S \in SUBSET D |-> IF S = {} THEN 0 ELSE values[pick(S)] + g[S \ {pick(S)}]]
           size == Cardinality(D)
           top == size + 1
           step == [n \in 1..top |-> [g \in V |-> more(g)]]
<1>0. size \in Nat /\ top \in Nat
  BY FS_CardinalityType
<1>1. ASSUME NEW g \in V PROVE more(g) \in V
  <2>1. \A S \in SUBSET D : S # {} => pick(S) \in S
    OBVIOUS
  <2> HIDE DEF pick
  <2>2. ASSUME NEW S \in SUBSET D, S # {} PROVE values[pick(S)] + g[S \ {pick(S)}] \in Int
    <3>1. pick(S) \in D /\ S \ {pick(S)} \in SUBSET D
      BY <2>1, <2>2
    <3>2. values[pick(S)] \in Int /\ g[S \ {pick(S)}] \in Int
      BY <3>1
    <3> QED
      BY <3>2
  <2> QED
    BY <2>2
<1>2. first \in V
  OBVIOUS
<1> HIDE DEF V, more, first
<1>3. step \in StepsAlong(0, top, V)
  <2>1. \A n \in 1..top : [g \in V |-> more(g)] \in [V -> V]
    BY <1>1
  <2> QED
    BY <2>1 DEF StepsAlong
<1>4. \A n \in 1..top : \A g \in V : step[n][g] = more(g)
  OBVIOUS
<1> HIDE DEF step, top
<1>5. PICK f \in [0..top -> V] : Follows(f, 0, top, first, step)
  <2>1. 0 \in Int /\ top \in Int /\ 0 <= top /\ first \in V /\ step \in StepsAlong(0, top, V)
    BY <1>0, <1>2, <1>3
  <2> QED
    BY <2>1, IntervalRecursion
<1>6. \A n \in 0..top : f[n] \in V
  OBVIOUS
<1>7. ASSUME NEW n \in Nat, n + 1 <= top PROVE f[n + 1] = more(f[n])
  <2>1. n \in 0..top /\ n + 1 \in 0..top /\ n + 1 \in 1..top /\ (n + 1) - 1 = n /\ n + 1 # 0
    BY <1>0, <1>7
  <2>2. f[n + 1] = step[n + 1][f[(n + 1) - 1]]
    BY <1>5, <2>1 DEF Follows
  <2> QED
    BY <1>4, <1>6, <2>1, <2>2
<1> DEFINE N == {n \in Nat : n + 1 <= top => \A S \in OfSize(D, n) : f[n][S] = f[n + 1][S]}
<1>8. ASSUME NEW g \in V, NEW S \in SUBSET D
      PROVE  more(g)[S] = IF S = {} THEN 0 ELSE values[pick(S)] + g[S \ {pick(S)}]
  BY DEF more
<1>9. \A S \in SUBSET D : S # {} => pick(S) \in S
  OBVIOUS
<1> HIDE DEF pick
<1>10. 0 \in N
  <2> SUFFICES ASSUME 1 <= top, NEW S \in OfSize(D, 0) PROVE f[0][S] = f[0 + 1][S]
    OBVIOUS
  <2>1. S = {} /\ S \in SUBSET D
    BY SmallestIsEmpty
  <2>2. 0 \in 0..top /\ f[0] = first
    BY <1>0, <1>5 DEF Follows
  <2>3. 0 \in Nat /\ 0 + 1 <= top /\ f[0] \in V
    BY <1>6, <2>2
  <2>4. f[0 + 1] = more(f[0])
    BY <1>7, <2>3
  <2>5. more(f[0])[S] = 0
    BY <1>8, <2>1, <2>3
  <2> QED
    BY <2>1, <2>2, <2>4, <2>5 DEF first
<1>11. ASSUME NEW n \in Nat, n \in N PROVE n + 1 \in N
  <2> SUFFICES ASSUME (n + 1) + 1 <= top, NEW S \in OfSize(D, n + 1)
               PROVE  f[n + 1][S] = f[(n + 1) + 1][S]
    OBVIOUS
  <2>1. S \in SUBSET D /\ n + 1 \in Nat /\ n + 1 <= top /\ n \in 0..top /\ n + 1 \in 0..top
    BY <1>0 DEF OfSize
  <2>2. f[n + 1] = more(f[n]) /\ f[(n + 1) + 1] = more(f[n + 1])
    BY <1>7, <2>1
  <2>3. f[n] \in V /\ f[n + 1] \in V
    BY <1>6, <2>1
  <2>4. CASE S = {}
    BY <1>8, <2>1, <2>2, <2>3, <2>4
  <2>5. CASE S # {}
    <3>1. S \ {pick(S)} \in OfSize(D, n)
      BY <1>9, <2>1, <2>5, OneLess
    <3>2. f[n][S \ {pick(S)}] = f[n + 1][S \ {pick(S)}]
      BY <1>11, <2>1, <3>1
    <3>3. /\ more(f[n])[S] = values[pick(S)] + f[n][S \ {pick(S)}]
          /\ more(f[n + 1])[S] = values[pick(S)] + f[n + 1][S \ {pick(S)}]
      BY <1>8, <2>1, <2>3, <2>5
    <3> QED
      BY <2>2, <3>2, <3>3
  <2> QED
    BY <2>4, <2>5
<1> HIDE DEF N
<1>12. Nat \subseteq N
  BY <1>10, <1>11, NaturalInduction
<1> DEFINE g == f[size]
<1>13. size + 1 = top
  BY DEF top
<1>14. g \in V /\ f[size + 1] = more(g)
  BY <1>0, <1>6, <1>7, <1>13
<1>15. \A S \in SUBSET D : g[S] = more(g)[S]
  <2>1. \A S \in SUBSET D : S \in OfSize(D, size)
    <3>1. \A S \in SUBSET D : Cardinality(S) <= Cardinality(D)
      BY FS_Subset
    <3> QED
      BY <3>1 DEF OfSize
  <2>2. size \in N /\ size + 1 <= top
    BY <1>0, <1>12, <1>13
  <2>3. \A S \in OfSize(D, size) : f[size][S] = f[size + 1][S]
    BY <1>0, <2>2 DEF N
  <2> QED
    BY <1>14, <2>1, <2>3
<1> HIDE DEF g
<1>16. g = more(g)
  BY <1>14, <1>15 DEF V, more
<1>17. more(g) = PartialStep(values, g)
  <2>1. DOMAIN values = D
    OBVIOUS
  <2> QED
    BY <2>1 DEF more, PartialStep, pick
<1>18. g = PartialStep(values, g)
  BY <1>16, <1>17
<1> QED
  BY <1>18 DEF PartialSums

LEMMA PartialSumsStep ==
    ASSUME NEW D, IsFiniteSet(D), NEW values \in [D -> Int]
    PROVE  /\ PartialSums(values)[{}] = 0
           /\ \A S \in SUBSET D : S # {} =>
                  \E x \in S : PartialSums(values)[S] = values[x] + PartialSums(values)[S \ {x}]
<1> DEFINE P == PartialSums(values)
           pick(S) == CHOOSE x \in S : TRUE
<1>1. P = PartialStep(values, P)
  BY PartialSumsExist
<1>2. \A S \in SUBSET D : S # {} => pick(S) \in S
  OBVIOUS
<1> HIDE DEF P
<1>3. \A S \in SUBSET D : P[S] = IF S = {} THEN 0 ELSE values[pick(S)] + P[S \ {pick(S)}]
  <2>1. PartialStep(values, P)
          = [S \in SUBSET D |-> IF S = {} THEN 0 ELSE values[pick(S)] + P[S \ {pick(S)}]]
    BY DEF PartialStep
  <2> HIDE DEF pick
  <2>2. \A S \in SUBSET D :
            PartialStep(values, P)[S] = IF S = {} THEN 0 ELSE values[pick(S)] + P[S \ {pick(S)}]
    BY <2>1
  <2> QED
    BY <1>1, <2>2
<1> HIDE DEF pick
<1> QED
  BY <1>2, <1>3 DEF P

LEMMA PartialSumsType ==
    ASSUME NEW D, IsFiniteSet(D), NEW values \in [D -> Int]
    PROVE  \A S \in SUBSET D : PartialSums(values)[S] \in Int
<1> DEFINE P == PartialSums(values)
           F == {S \in SUBSET D : P[S] \in Int}
<1>1. {} \in F
  BY PartialSumsStep
<1>2. ASSUME NEW n \in Nat, OfSize(D, n) \subseteq F PROVE OfSize(D, n + 1) \subseteq F
  <2> SUFFICES ASSUME NEW S \in OfSize(D, n + 1), S # {} PROVE P[S] \in Int
    BY <1>1 DEF OfSize
  <2>1. S \in SUBSET D
    BY DEF OfSize
  <2>2. PICK x \in S : P[S] = values[x] + P[S \ {x}]
    BY <2>1, PartialSumsStep
  <2>3. S \ {x} \in F
    BY <1>2, OneLess
  <2>4. values[x] \in Int /\ P[S \ {x}] \in Int
    BY <2>1, <2>3
  <2> QED
    BY <2>2, <2>4
<1> HIDE DEF F
<1>3. SUBSET D \subseteq F
  BY <1>1, <1>2, SizeInduction
<1> QED
  BY <1>3 DEF F

\* Whichever element is added last, the partial sum is the same.
LEMMA PartialSumsAdd ==
    ASSUME NEW D, IsFiniteSet(D), NEW values \in [D -> Int]
    PROVE  \A S \in SUBSET D : \A y \in S :
               PartialSums(values)[S] = values[y] + PartialSums(values)[S \ {y}]
<1> DEFINE P == PartialSums(values)
           Any(S) == \A y \in S : P[S] = values[y] + P[S \ {y}]
           F == {S \in SUBSET D : Any(S)}
<1>1. {} \in F
  OBVIOUS
<1>2. ASSUME NEW n \in Nat, OfSize(D, n) \subseteq F PROVE OfSize(D, n + 1) \subseteq F
  <2> SUFFICES ASSUME NEW S \in OfSize(D, n + 1), NEW y \in S
               PROVE  P[S] = values[y] + P[S \ {y}]
    BY DEF OfSize
  <2>1. S \in SUBSET D
    BY DEF OfSize
  <2>2. PICK x \in S : P[S] = values[x] + P[S \ {x}]
    BY <2>1, PartialSumsStep
  <2>3. CASE x = y
    BY <2>2, <2>3
  <2>4. CASE x # y
    <3>1. S \ {x} \in F /\ S \ {y} \in F
      BY <1>2, OneLess
    <3>2. y \in S \ {x} /\ x \in S \ {y}
      BY <2>4
    <3>3. Any(S \ {x}) /\ Any(S \ {y})
      BY <3>1
    <3>4. /\ P[S \ {x}] = values[y] + P[(S \ {x}) \ {y}]
          /\ P[S \ {y}] = values[x] + P[(S \ {y}) \ {x}]
      BY <3>2, <3>3
    <3>5. (S \ {x}) \ {y} = (S \ {y}) \ {x}
      OBVIOUS
    <3>6. (S \ {y}) \ {x} \in SUBSET D
      BY <2>1
    <3>7. values[x] \in Int /\ values[y] \in Int /\ P[(S \ {y}) \ {x}] \in Int
      BY <2>1, <3>6, PartialSumsType
    <3> HIDE DEF P
    <3> DEFINE a == values[x]
               b == values[y]
               c == P[(S \ {y}) \ {x}]
    <3>8. P[S \ {x}] = b + c /\ P[S \ {y}] = a + c
      BY <3>4, <3>5
    <3>9. P[S] = a + P[S \ {x}]
      BY <2>2
    <3>10. a \in Int /\ b \in Int /\ c \in Int
      BY <3>7
    <3> HIDE DEF a, b, c
    <3>11. P[S] = b + (a + c)
      BY <3>8, <3>9, <3>10
    <3> QED
      BY <3>8, <3>11 DEF b
  <2> QED
    BY <2>3, <2>4
<1> HIDE DEF F
<1>3. SUBSET D \subseteq F
  BY <1>1, <1>2, SizeInduction
<1> QED
  BY <1>3 DEF F

\* Two functions that agree on a set have the same sum over it.
LEMMA PartialSumsAgree ==
    ASSUME NEW D, IsFiniteSet(D), NEW values \in [D -> Int], NEW E \in SUBSET D,
           NEW few \in [E -> Int], \A x \in E : few[x] = values[x]
    PROVE  \A S \in SUBSET E : PartialSums(few)[S] = PartialSums(values)[S]
<1> DEFINE P == PartialSums(values)
           Q == PartialSums(few)
           F == {S \in SUBSET E : Q[S] = P[S]}
<1>0. IsFiniteSet(E)
  BY FS_Subset
<1>1. {} \in F
  <2>1. P[{}] = 0
    BY PartialSumsStep
  <2>2. Q[{}] = 0
    BY <1>0, PartialSumsStep
  <2> QED
    BY <2>1, <2>2
<1>2. ASSUME NEW n \in Nat, OfSize(E, n) \subseteq F PROVE OfSize(E, n + 1) \subseteq F
  <2> SUFFICES ASSUME NEW S \in OfSize(E, n + 1), S # {} PROVE Q[S] = P[S]
    BY <1>1 DEF OfSize
  <2>1. S \in SUBSET E /\ S \in SUBSET D
    BY DEF OfSize
  <2>2. PICK x \in S : Q[S] = few[x] + Q[S \ {x}]
    BY <1>0, <2>1, PartialSumsStep
  <2>3. P[S] = values[x] + P[S \ {x}]
    <3>1. x \in S
      OBVIOUS
    <3>2. \A y \in S : P[S] = values[y] + P[S \ {y}]
      BY <2>1, PartialSumsAdd
    <3> HIDE DEF P
    <3> QED
      BY <3>1, <3>2
  <2>4. S \ {x} \in F
    BY <1>0, <1>2, OneLess
  <2>5. few[x] = values[x] /\ Q[S \ {x}] = P[S \ {x}]
    BY <2>1, <2>4
  <2> HIDE DEF P, Q
  <2> QED
    BY <2>2, <2>3, <2>5
<1> HIDE DEF F
<1>3. SUBSET E \subseteq F
  BY <1>0, <1>1, <1>2, SizeInduction
<1> QED
  BY <1>3 DEF F

\* A sum is a number, of no value it is 0, and any one value can be taken out of it.
LEMMA SumType ==
    ASSUME NEW D, IsFiniteSet(D), NEW values \in [D -> Int]
    PROVE  SumOf(values) \in Int
<1>1. D \in SUBSET D /\ DOMAIN values = D
  OBVIOUS
<1> QED
  BY <1>1, PartialSumsType, SumIsPartialSum

LEMMA SumEmpty ==
    ASSUME NEW values \in [{} -> Int]
    PROVE  SumOf(values) = 0
<1>1. DOMAIN values = {} /\ IsFiniteSet({})
  BY FS_EmptySet
<1> QED
  BY <1>1, PartialSumsStep, SumIsPartialSum

LEMMA SumAdd ==
    ASSUME NEW D, IsFiniteSet(D), NEW values \in [D -> Int], NEW x \in D
    PROVE  SumOf(values) = values[x] + SumOf([y \in D \ {x} |-> values[y]])
<1> DEFINE E == D \ {x}
           few == [y \in E |-> values[y]]
<1>1. DOMAIN values = D /\ DOMAIN few = E /\ E \in SUBSET D /\ D \in SUBSET D /\ E \in SUBSET E
  OBVIOUS
<1>2. few \in [E -> Int] /\ \A y \in E : few[y] = values[y]
  OBVIOUS
<1> HIDE DEF few
<1>3. PartialSums(values)[D] = values[x] + PartialSums(values)[E]
  BY <1>1, PartialSumsAdd
<1> HIDE DEF E
<1>4. PartialSums(few)[E] = PartialSums(values)[E]
  BY <1>1, <1>2, PartialSumsAgree
<1>5. SumOf(values) = PartialSums(values)[D] /\ SumOf(few) = PartialSums(few)[E]
  BY <1>1, SumIsPartialSum
<1> QED
  BY <1>3, <1>4, <1>5 DEF few, E

\* A sum changes by what the values that change do.
LEMMA SumChanges ==
    ASSUME NEW D, IsFiniteSet(D), NEW old \in [D -> Int], NEW new \in [D -> Int],
           NEW E \in SUBSET D, \A x \in D \ E : new[x] = old[x]
    PROVE  SumOf(new) = SumOf(old) + SumOf([x \in E |-> new[x] - old[x]])
<1> DEFINE Changes(T, f) == [x \in T |-> f[x] - old[x]]
           Claim(T) == \A f \in [D -> Int] : (\A x \in D \ T : f[x] = old[x])
                           => SumOf(f) = SumOf(old) + SumOf(Changes(T, f))
           F == {T \in SUBSET E : Claim(T)}
<1>0. IsFiniteSet(E) /\ SumOf(old) \in Int
  BY FS_Subset, SumType
<1>1. {} \in F
  <2> SUFFICES ASSUME NEW f \in [D -> Int], \A x \in D : f[x] = old[x]
               PROVE  SumOf(f) = SumOf(old) + SumOf(Changes({}, f))
    OBVIOUS
  <2>1. f = old
    OBVIOUS
  <2>2. SumOf(Changes({}, f)) = 0
    <3>1. Changes({}, f) \in [{} -> Int]
      OBVIOUS
    <3> HIDE DEF Changes
    <3> QED
      BY <3>1, SumEmpty
  <2> HIDE DEF Changes
  <2> QED
    BY <1>0, <2>1, <2>2
<1>2. ASSUME NEW T \in SUBSET E, NEW y \in E \ T, T \in F PROVE T \cup {y} \in F
  <2> SUFFICES ASSUME NEW f \in [D -> Int], \A x \in D \ (T \cup {y}) : f[x] = old[x]
               PROVE  SumOf(f) = SumOf(old) + SumOf(Changes(T \cup {y}, f))
    OBVIOUS
  <2> DEFINE h == [x \in D |-> IF x = y THEN old[y] ELSE f[x]]
             U == T \cup {y}
             more == Changes(U, f)
             rest == [x \in D \ {y} |-> f[x]]
  <2>1. h \in [D -> Int] /\ (\A x \in D \ T : h[x] = old[x]) /\ h[y] = old[y]
    OBVIOUS
  <2>2. SumOf(h) = SumOf(old) + SumOf(Changes(T, h))
    BY <1>2, <2>1
  <2>3. Changes(T, h) = Changes(T, f)
    OBVIOUS
  <2>4. [x \in D \ {y} |-> h[x]] = rest
    OBVIOUS
  <2>5. y \in D /\ y \in U /\ U \ {y} = T
    BY <1>2
  <2>6. IsFiniteSet(U) /\ IsFiniteSet(T)
    BY <1>0, FS_Subset
  <2>7. more \in [U -> Int] /\ Changes(T, f) \in [T -> Int] /\ more[y] = f[y] - old[y]
    BY <2>5
  <2>8. [x \in U \ {y} |-> more[x]] = Changes(T, f)
    BY <2>5
  <2>9. f[y] \in Int /\ old[y] \in Int
    BY <2>5
  <2> HIDE DEF h, more, Changes
  <2>10. SumOf(f) = f[y] + SumOf(rest)
    BY <2>5, SumAdd
  <2>11. SumOf(h) = old[y] + SumOf(rest)
    <3>1. IsFiniteSet(D) /\ h \in [D -> Int] /\ y \in D
      BY <2>1, <2>5
    <3>2. SumOf(h) = h[y] + SumOf([x \in D \ {y} |-> h[x]])
      BY ONLY <3>1, SumAdd
    <3> QED
      BY <2>1, <2>4, <3>2
  <2> HIDE DEF U, rest
  <2>12. SumOf(more) = (f[y] - old[y]) + SumOf(Changes(T, f))
    <3>1. IsFiniteSet(U) /\ more \in [U -> Int] /\ y \in U
      BY <2>5, <2>6, <2>7
    <3>2. SumOf(more) = more[y] + SumOf([x \in U \ {y} |-> more[x]])
      BY ONLY <3>1, SumAdd
    <3> QED
      BY <2>7, <2>8, <3>2
  <2>13. SumOf(rest) \in Int
    <3>1. D \ {y} \in SUBSET D /\ rest \in [D \ {y} -> Int]
      BY DEF rest
    <3>2. IsFiniteSet(D \ {y})
      BY <3>1, FS_Subset
    <3> QED
      BY <3>1, <3>2, SumType
  <2>14. SumOf(Changes(T, f)) \in Int
    BY <2>6, <2>7, SumType
  <2> DEFINE a == SumOf(f)
             b == SumOf(rest)
             c == SumOf(Changes(T, f))
             d == SumOf(old)
             e == f[y]
             g == old[y]
  <2>15. a = e + b /\ g + b = d + c
    BY <2>2, <2>3, <2>10, <2>11
  <2>16. b \in Int /\ c \in Int /\ d \in Int /\ e \in Int /\ g \in Int
    BY <1>0, <2>9, <2>13, <2>14
  <2> HIDE DEF a, b, c, d, e, g
  <2>17. a = d + ((e - g) + c)
    BY ONLY <2>15, <2>16
  <2> QED
    BY <2>12, <2>17 DEF a, c, d, e, g, more, U
<1> HIDE DEF F
<1>3. E \in F
  BY <1>0, <1>1, <1>2, FiniteSetInduction
<1> HIDE DEF Changes
<1>4. SumOf(new) = SumOf(old) + SumOf(Changes(E, new))
  BY <1>3 DEF F
<1> QED
  BY <1>4 DEF Changes

\* Values that are 0 may be left out of a sum.
LEMMA SumOfZeros ==
    ASSUME NEW D, IsFiniteSet(D)
    PROVE  SumOf([x \in D |-> 0]) = 0
<1> DEFINE f == [x \in D |-> 0]
           g == [x \in D |-> f[x] - f[x]]
<1>1. f \in [D -> Int] /\ g = f
  OBVIOUS
<1> HIDE DEF f
<1>2. SumOf(f) = SumOf(f) + SumOf(g)
  BY <1>1, SumChanges
<1>3. SumOf(f) \in Int
  BY <1>1, SumType
<1> HIDE DEF g
<1> DEFINE a == SumOf(f)
<1>4. a = a + a /\ a \in Int
  BY <1>1, <1>2, <1>3
<1> HIDE DEF a
<1>5. a = 0
  BY <1>4
<1> QED
  BY <1>5 DEF a, f

LEMMA SumWithoutZeros ==
    ASSUME NEW D, IsFiniteSet(D), NEW values \in [D -> Int], NEW E \in SUBSET D,
           \A x \in D \ E : values[x] = 0
    PROVE  SumOf(values) = SumOf([x \in E |-> values[x]])
<1> DEFINE none == [x \in D |-> 0]
           few == [x \in E |-> values[x] - none[x]]
<1>1. none \in [D -> Int] /\ \A x \in D \ E : values[x] = none[x]
  OBVIOUS
<1>2. few = [x \in E |-> values[x]]
  OBVIOUS
<1>3. SumOf(none) = 0
  BY SumOfZeros
<1> HIDE DEF none
<1>4. SumOf(values) = SumOf(none) + SumOf(few)
  BY <1>1, SumChanges
<1>5. SumOf(few) \in Int
  <2>1. IsFiniteSet(E) /\ few \in [E -> Int]
    BY <1>1, FS_Subset
  <2> HIDE DEF few
  <2> QED
    BY <2>1, SumType
<1> HIDE DEF few
<1>6. SumOf(values) = SumOf(few)
  BY <1>3, <1>4, <1>5
<1> QED
  BY <1>2, <1>6

\* A sum of natural numbers is one.
LEMMA SumOfNaturals ==
    ASSUME NEW D, IsFiniteSet(D), NEW values \in [D -> Nat]
    PROVE  SumOf(values) \in Nat
<1> DEFINE part(T) == [x \in T |-> values[x]]
           F == {T \in SUBSET D : SumOf(part(T)) \in Nat}
<1>1. {} \in F
  <2>1. part({}) \in [{} -> Int]
    OBVIOUS
  <2> HIDE DEF part
  <2> QED
    BY <2>1, SumEmpty
<1>2. ASSUME NEW T \in SUBSET D, NEW y \in D \ T, T \in F PROVE T \cup {y} \in F
  <2> DEFINE U == T \cup {y}
             more == part(U)
  <2>1. U \in SUBSET D /\ y \in U /\ U \ {y} = T
    BY <1>2
  <2>2. more \in [U -> Int] /\ more[y] = values[y] /\ [x \in U \ {y} |-> more[x]] = part(T)
    BY <2>1
  <2>3. IsFiniteSet(U)
    BY <2>1, FS_Subset
  <2> HIDE DEF U, more
  <2>4. SumOf(more) = more[y] + SumOf([x \in U \ {y} |-> more[x]])
    <3>1. y \in U /\ more \in [U -> Int]
      BY <2>1, <2>2
    <3> QED
      BY ONLY <2>3, <3>1, SumAdd
  <2>5. values[y] \in Nat /\ SumOf(part(T)) \in Nat
    BY <1>2
  <2>6. SumOf(more) \in Nat
    BY <2>2, <2>4, <2>5
  <2> QED
    BY <2>1, <2>6 DEF more, U
<1> HIDE DEF F
<1>3. D \in F
  BY <1>1, <1>2, FiniteSetInduction
<1>4. part(D) = values
  OBVIOUS
<1> QED
  BY <1>3, <1>4 DEF F

=============================================================================
