--------------------------- MODULE InductionLemmas ---------------------------
(***************************************************************************)
(* Lemmas that several proof modules need: induction over the naturals and *)
(* over the parts of a finite set, stated for a set of what has been shown *)
(* instead of a predicate, least elements, and sums.  A sum of the         *)
(* community modules is a fold, which is a recursive function on the parts *)
(* of a set; that the function exists is proved here, and so is that the   *)
(* order in which the fold takes the elements does not matter.             *)
(***************************************************************************)
EXTENDS Integers, SequencesExt, FiniteSetTheorems, WellFoundedInduction, TLAPS

---------------------------------------------------------------------------
(* Induction *)

Smaller == {ij \in Nat \X Nat : ij[1] < ij[2]}

LEMMA SmallerIsWellFounded == IsWellFoundedOn(Smaller, Nat)
  BY NatLessThanWellFounded DEF OpToRel, Smaller

\* A set of naturals has a least element.
LEMMA LeastNat ==
  ASSUME NEW S \in SUBSET Nat, S # {}
  PROVE  \E x \in S : \A y \in S : x <= y
<1>0. \E x \in S : \A y \in S : ~ (<<y, x>> \in Smaller)
  <2>1. S \subseteq Nat
    OBVIOUS
  <2>. QED
    BY <2>1, SmallerIsWellFounded, WFMin, Zenon
<1>1. PICK x \in S : \A y \in S : ~ (<<y, x>> \in Smaller)
  BY <1>0
<1>2. ASSUME NEW y \in S PROVE x <= y
  <2>1. x \in Nat /\ y \in Nat /\ <<y, x>> \notin Smaller
    BY <1>1
  <2>2. ~ y < x
    BY <2>1 DEF Smaller
  <2>. QED
    BY <2>1, <2>2
<1>. QED
  BY <1>2

\* What holds of 0, and of n + 1 when it holds of n, holds of every natural.
LEMMA NatGrowth ==
  ASSUME NEW G \in SUBSET Nat, 0 \in G, \A n \in G : n + 1 \in G
  PROVE  G = Nat
<1>. SUFFICES ASSUME Nat \ G # {} PROVE FALSE
  OBVIOUS
<1>1. Nat \ G \in SUBSET Nat
  OBVIOUS
<1>2. PICK x \in Nat \ G : \A y \in Nat \ G : x <= y
  BY <1>1, LeastNat
<1>3. x # 0 /\ x - 1 \in Nat
  BY <1>2
<1>4. x - 1 \in G
  BY <1>2, <1>3
<1>5. (x - 1) + 1 \in G
  BY <1>4
<1>. QED
  BY <1>2, <1>5

\* The same up to a bound.
LEMMA IntervalGrowth ==
  ASSUME NEW m \in Nat, NEW G \in SUBSET (0..m), 0 \in G, \A n \in G : n < m => n + 1 \in G
  PROVE  G = 0..m
<1> DEFINE H == {n \in Nat : n > m \/ n \in G}
<1>1. H \in SUBSET Nat /\ 0 \in H
  OBVIOUS
<1>2. ASSUME NEW n \in H PROVE n + 1 \in H
  <2>1. n \in Nat /\ n + 1 \in Nat
    OBVIOUS
  <2>2. CASE n \in G /\ n < m
    BY <2>1, <2>2
  <2>3. CASE n + 1 > m
    BY <2>1, <2>3
  <2>. QED
    BY <2>1, <2>2, <2>3
<1>3. H = Nat
  <2>. HIDE DEF H
  <2>. QED
    BY <1>1, <1>2, NatGrowth
<1>4. \A n \in 0..m : n \in Nat /\ ~ (n > m)
  OBVIOUS
<1>5. G \subseteq 0..m
  OBVIOUS
<1>. QED
  BY <1>3, <1>4, <1>5

\* What holds of no elements, and of one more when it holds of some, holds of
\* all parts of a finite set.
LEMMA SetGrowth ==
  ASSUME NEW S, IsFiniteSet(S), NEW G \in SUBSET (SUBSET S), {} \in G,
         \A T \in G : \A x \in S \ T : T \cup {x} \in G
  PROVE  G = SUBSET S
<1> DEFINE N == {n \in Nat : \A T \in SUBSET S : Cardinality(T) = n => T \in G}
<1>1. \A T \in SUBSET S : IsFiniteSet(T) /\ Cardinality(T) \in Nat
  BY FS_Subset, FS_CardinalityType
<1>2. 0 \in N
  BY <1>1, FS_EmptySet
<1>3. ASSUME NEW n \in N PROVE n + 1 \in N
  <2>. SUFFICES ASSUME NEW T \in SUBSET S, Cardinality(T) = n + 1 PROVE T \in G
    OBVIOUS
  <2>1. T # {}
    BY FS_EmptySet
  <2>2. PICK x \in T : TRUE
    BY <2>1
  <2>3. Cardinality(T \ {x}) = n
    BY <1>1, <2>2, FS_RemoveElement
  <2>4. T \ {x} \in G
    BY <2>3
  <2>5. (T \ {x}) \cup {x} = T /\ x \in S \ (T \ {x})
    BY <2>2
  <2>. QED
    BY <2>4, <2>5
<1>4. N \in SUBSET Nat
  OBVIOUS
<1>5. N = Nat
  <2>. HIDE DEF N
  <2>. QED
    BY <1>2, <1>3, <1>4, NatGrowth
<1>. QED
  BY <1>1, <1>5

---------------------------------------------------------------------------
(* Least and greatest values of a function, and ranking by it *)

LEMMA LeastValue ==
  ASSUME NEW S, IsFiniteSet(S), S # {}, NEW f, \A x \in S : f[x] \in Int
  PROVE  \E x \in S : \A y \in S : f[x] <= f[y]
<1> DEFINE G == {T \in SUBSET S : T = {} \/ \E x \in T : \A y \in T : f[x] <= f[y]}
<1>1. G \in SUBSET (SUBSET S) /\ {} \in G
  OBVIOUS
<1>2. ASSUME NEW T \in G, NEW z \in S \ T PROVE T \cup {z} \in G
  <2>1. CASE T = {}
    <3>1. f[z] <= f[z]
      OBVIOUS
    <3>. QED
      BY <2>1, <3>1
  <2>2. CASE T # {}
    <3>1. PICK x \in T : \A y \in T : f[x] <= f[y]
      BY <2>2
    <3>2. T \subseteq S /\ f[x] \in Int /\ f[z] \in Int
      OBVIOUS
    <3>3. CASE f[x] <= f[z]
      BY <3>1, <3>2, <3>3
    <3>4. CASE f[z] < f[x]
      <4>1. \A y \in T \cup {z} : f[z] <= f[y]
        <5>1. \A y \in T : f[y] \in Int /\ f[x] <= f[y]
          BY <3>1, <3>2
        <5>. QED
          BY <3>2, <3>4, <5>1
      <4>. QED
        BY <3>2, <4>1
    <3>. QED
      BY <3>2, <3>3, <3>4
  <2>. QED
    BY <2>1, <2>2
<1>3. G = SUBSET S
  <2>. HIDE DEF G
  <2>. QED
    BY <1>1, <1>2, SetGrowth
<1>. QED
  BY <1>3

LEMMA GreatestValue ==
  ASSUME NEW S, IsFiniteSet(S), S # {}, NEW f, \A x \in S : f[x] \in Int
  PROVE  \E x \in S : \A y \in S : f[y] <= f[x]
<1> DEFINE g == [x \in S |-> - f[x]]
<1>1. \A x \in S : g[x] \in Int /\ g[x] = - f[x]
  OBVIOUS
<1>. HIDE DEF g
<1>2. PICK x \in S : \A y \in S : g[x] <= g[y]
  BY <1>1, LeastValue
<1>. QED
  BY <1>1, <1>2

\* The range of a function that is one-to-one on 1..m, as a part of S.
LEMMA RangeSize ==
  ASSUME NEW S, IsFiniteSet(S), NEW m \in Nat, NEW r \in [1..m -> S],
         \A j, k \in 1..m : j # k => r[j] # r[k]
  PROVE  LET R == {r[k] : k \in 1..m}
         IN R \subseteq S /\ IsFiniteSet(R) /\ Cardinality(R) = m
<1> DEFINE R == {r[k] : k \in 1..m}
<1>1. IsFiniteSet(1..m) /\ Cardinality(1..m) = m
  <2>1. /\ IsFiniteSet(1..m)
        /\ Cardinality(1..m) = IF 1 > m THEN 0 ELSE m - 1 + 1
    BY FS_Interval
  <2>. QED
    BY <2>1
<1>2. r \in Surjection(1..m, R) /\ r \in Injection(1..m, R)
  BY DEF Surjection, Injection, IsInjective
<1>3. /\ IsFiniteSet(R)
      /\ Cardinality(R) = Cardinality(1..m)
  BY <1>1, <1>2, FS_Surjection
<1>. QED
  BY <1>1, <1>3

\* The elements of a finite set can be put in the order of their values.
Ranks(r, S, f) ==
  /\ r \in Bijection(1..Cardinality(S), S)
  /\ \A j, k \in 1..Cardinality(S) : j < k => f[r[j]] <= f[r[k]]

LEMMA RankingExists ==
  ASSUME NEW S, IsFiniteSet(S), NEW f, \A x \in S : f[x] \in Int
  PROVE  \E r : Ranks(r, S, f)
<1> DEFINE n == Cardinality(S)
           Start(r, m) == /\ r \in [1..m -> S]
                          /\ \A j, k \in 1..m : j # k => r[j] # r[k]
                          /\ \A j, k \in 1..m : j < k => f[r[j]] <= f[r[k]]
                          /\ \A k \in 1..m : \A x \in S \ {r[j] : j \in 1..m} : f[r[k]] <= f[x]
           G == {m \in 0..n : \E r : Start(r, m)}
<1>0. n \in Nat
  BY FS_CardinalityType
<1>1. 0 \in G
  <2>1. Start([k \in 1..0 |-> 0], 0)
    OBVIOUS
  <2>2. 0 \in 0..n
    BY <1>0
  <2>. HIDE DEF Start
  <2>. QED
    BY <2>1, <2>2
<1>2. ASSUME NEW m \in G, m < n PROVE m + 1 \in G
  <2>. HIDE DEF n
  <2>0. m \in Nat /\ m + 1 \in 0..n
    BY <1>0, <1>2
  <2>1. PICK r : Start(r, m)
    OBVIOUS
  <2> DEFINE R == {r[k] : k \in 1..m}
  <2>2. R \subseteq S /\ IsFiniteSet(R) /\ Cardinality(R) = m
    BY <2>0, <2>1, RangeSize
  <2>3. S \ R # {} /\ IsFiniteSet(S \ R)
    <3>. HIDE DEF R
    <3>1. S # R
      BY <1>2, <2>0, <2>2 DEF n
    <3>2. S \ R # {}
      BY <2>2, <3>1
    <3>. QED
      BY <3>2, FS_Subset
  <2>4. PICK x \in S \ R : \A y \in S \ R : f[x] <= f[y]
    <3>. HIDE DEF R
    <3>. QED
      BY <2>3, LeastValue
  <2> DEFINE q == [k \in 1..(m + 1) |-> IF k = m + 1 THEN x ELSE r[k]]
  <2>5. /\ q \in [1..(m + 1) -> S] /\ q[m + 1] = x
        /\ \A k \in 1..m : q[k] = r[k] /\ q[k] \in R
        /\ \A k \in 1..(m + 1) : k = m + 1 \/ k \in 1..m
    <3>1. \A k \in 1..(m + 1) : k = m + 1 \/ k \in 1..m
      BY <2>0
    <3>2. /\ m + 1 \in 1..(m + 1)
          /\ \A k \in 1..m : k \in 1..(m + 1) /\ k # m + 1
      BY <2>0
    <3>3. r \in [1..m -> S] /\ x \in S
      BY <2>1, <2>4
    <3>4. q \in [1..(m + 1) -> S]
      BY <3>1, <3>3
    <3>. QED
      BY <3>1, <3>2, <3>4
  <2>6. \A j, k \in 1..(m + 1) : j # k => q[j] # q[k]
    <3>. HIDE DEF q, R
    <3>. QED
      BY <2>1, <2>4, <2>5
  <2>7. \A j, k \in 1..(m + 1) : j < k => f[q[j]] <= f[q[k]]
    <3>1. \A k \in 1..m : f[r[k]] <= f[x]
      BY <2>1, <2>4
    <3>2. \A j, k \in 1..(m + 1) : j < k => j \in 1..m
      BY <2>0
    <3>. HIDE DEF q, R
    <3>. QED
      BY <2>1, <2>5, <3>1, <3>2
  <2>8. \A k \in 1..(m + 1) : \A y \in S \ {q[j] : j \in 1..(m + 1)} : f[q[k]] <= f[y]
    <3>1. \A y \in S \ {q[j] : j \in 1..(m + 1)} : y \in S \ R
      <4>1. \A j \in 1..m : j \in 1..(m + 1)
        BY <2>0
      <4>. HIDE DEF q
      <4>. QED
        BY <2>5, <4>1
    <3>2. \A k \in 1..m : \A y \in S \ R : f[r[k]] <= f[y]
      BY <2>1
    <3>. HIDE DEF q, R
    <3>. QED
      BY <2>4, <2>5, <3>1, <3>2
  <2>9. Start(q, m + 1)
    <3>. HIDE DEF q
    <3>. QED
      BY <2>5, <2>6, <2>7, <2>8
  <2>. QED
    <3>. HIDE DEF q, Start
    <3>. QED
      BY <2>0, <2>9
<1>3. G = 0..n
  <2>1. G \in SUBSET (0..n)
    OBVIOUS
  <2>. HIDE DEF G, n
  <2>. QED
    BY <1>0, <1>1, <1>2, <2>1, IntervalGrowth
<1>4. PICK r : Start(r, n)
  <2>. HIDE DEF n, Start
  <2>1. n \in 0..n
    BY <1>0
  <2>. QED
    BY <1>3, <2>1
<1> DEFINE R == {r[k] : k \in 1..n}
<1>5. R \subseteq S /\ IsFiniteSet(R) /\ Cardinality(R) = n
  BY <1>0, <1>4, RangeSize
<1>6. R = S
  BY <1>5, FS_Subset
<1>7. r \in Bijection(1..n, S)
  BY <1>4, <1>6 DEF Bijection, Injection, IsInjective, Surjection
<1>. QED
  BY <1>4, <1>7 DEF Ranks

---------------------------------------------------------------------------
(* Sums *)

\* The element the fold takes next, and the equation of the fold.
Taken(s) == CHOOSE x \in s : TRUE
Folds0(g, f, S) ==
  g = [s \in SUBSET S |-> IF s = {} THEN 0 ELSE f[Taken(s)] + g[s \ {Taken(s)}]]

LEMMA SumIsFold ==
  ASSUME NEW f, NEW S
  PROVE  SumFunctionOnSet(f, S) = (CHOOSE g : Folds0(g, f, S))[S]
  BY DEF SumFunctionOnSet, FoldFunctionOnSet, MapThenFoldSet, Folds0, Taken

LEMMA TakenIsIn == ASSUME NEW s, s # {} PROVE Taken(s) \in s
  BY DEF Taken

\* There is a function that satisfies the equation.
LEMMA FoldExists ==
  ASSUME NEW S, IsFiniteSet(S), NEW f, \A x \in S : f[x] \in Int
  PROVE  \E g : Folds0(g, f, S) /\ g \in [SUBSET S -> Int]
<1> DEFINE Small(n) == {s \in SUBSET S : Cardinality(s) <= n}
           Step(g, s) == IF s = {} THEN 0 ELSE f[Taken(s)] + g[s \ {Taken(s)}]
           N == {n \in Nat : \E g \in [Small(n) -> Int] : \A s \in Small(n) : g[s] = Step(g, s)}
<1>1. \A T \in SUBSET S : IsFiniteSet(T) /\ Cardinality(T) \in Nat
  BY FS_Subset, FS_CardinalityType
<1>2. 0 \in N
  <2>1. \A s \in Small(0) : s = {}
    BY <1>1, FS_EmptySet
  <2> DEFINE g == [s \in Small(0) |-> 0]
  <2>2. g \in [Small(0) -> Int]
    OBVIOUS
  <2>3. \A s \in Small(0) : g[s] = Step(g, s)
    BY <2>1
  <2>. QED
    BY <2>2, <2>3
<1>3. ASSUME NEW n \in N PROVE n + 1 \in N
  <2>1. PICK g \in [Small(n) -> Int] : \A s \in Small(n) : g[s] = Step(g, s)
    OBVIOUS
  <2> DEFINE h == [s \in Small(n + 1) |-> Step(g, s)]
  <2>2. ASSUME NEW s \in Small(n + 1), s # {}
        PROVE  /\ Taken(s) \in S
               /\ s \ {Taken(s)} \in Small(n) /\ s \ {Taken(s)} \in Small(n + 1)
    <3>1. Taken(s) \in s /\ s \subseteq S
      BY <2>2, TakenIsIn
    <3>2. Cardinality(s \ {Taken(s)}) = Cardinality(s) - 1
      BY <1>1, <3>1, FS_RemoveElement
    <3>3. Cardinality(s) \in Nat /\ Cardinality(s) <= n + 1
      BY <1>1
    <3>. QED
      BY <3>1, <3>2, <3>3
  <2>3. \A s \in Small(n + 1) : Step(g, s) \in Int
    BY <2>2
  <2>4. h \in [Small(n + 1) -> Int]
    BY <2>3
  <2>5. ASSUME NEW s \in Small(n) PROVE h[s] = g[s]
    <3>1. s \in Small(n + 1)
      BY <1>1
    <3>. QED
      BY <2>1, <3>1
  <2>6. ASSUME NEW s \in Small(n + 1) PROVE h[s] = Step(h, s)
    <3>1. h[s] = Step(g, s)
      OBVIOUS
    <3>2. s # {} => h[s \ {Taken(s)}] = g[s \ {Taken(s)}]
      <4>. HIDE DEF h, Small
      <4>. QED
        BY <2>2, <2>5
    <3>. QED
      BY <3>1, <3>2
  <2>7. n + 1 \in Nat
    OBVIOUS
  <2>. QED
    BY <2>4, <2>6, <2>7
<1>4. N \in SUBSET Nat
  OBVIOUS
<1>5. N = Nat
  <2>. HIDE DEF N
  <2>. QED
    BY <1>2, <1>3, <1>4, NatGrowth
<1>6. Cardinality(S) \in Nat /\ Cardinality(S) \in N
  <2>. HIDE DEF N
  <2>. QED
    BY <1>1, <1>5
<1>7. PICK g \in [Small(Cardinality(S)) -> Int] : \A s \in Small(Cardinality(S)) : g[s] = Step(g, s)
  BY <1>6
<1>8. Small(Cardinality(S)) = SUBSET S
  BY FS_Subset
<1>9. g \in [SUBSET S -> Int] /\ \A s \in SUBSET S : g[s] = Step(g, s)
  <2>. HIDE DEF Small
  <2>. QED
    BY <1>7, <1>8
<1>10. g = [s \in SUBSET S |-> Step(g, s)]
  <2>. HIDE DEF Step
  <2>. QED
    BY <1>9
<1>. QED
  BY <1>9, <1>10 DEF Folds0

\* The fold of a set is the fold of any larger set, seen on the parts of it.
LEMMA FoldsAgree ==
  ASSUME NEW S, IsFiniteSet(S), NEW f, NEW h, \A x \in S : f[x] = h[x],
         NEW R, S \subseteq R, NEW g, Folds0(g, f, R), NEW k, Folds0(k, h, S)
  PROVE  \A s \in SUBSET S : g[s] = k[s]
<1> DEFINE N == {n \in Nat : \A s \in SUBSET S : Cardinality(s) = n => g[s] = k[s]}
<1>1. \A T \in SUBSET S : IsFiniteSet(T) /\ Cardinality(T) \in Nat
  BY FS_Subset, FS_CardinalityType
<1>2. /\ \A s \in SUBSET S : g[s] = IF s = {} THEN 0 ELSE f[Taken(s)] + g[s \ {Taken(s)}]
      /\ \A s \in SUBSET S : k[s] = IF s = {} THEN 0 ELSE h[Taken(s)] + k[s \ {Taken(s)}]
  BY DEF Folds0
<1>3. 0 \in N
  BY <1>1, <1>2, FS_EmptySet
<1>4. ASSUME NEW n \in N PROVE n + 1 \in N
  <2>. SUFFICES ASSUME NEW s \in SUBSET S, Cardinality(s) = n + 1 PROVE g[s] = k[s]
    OBVIOUS
  <2>0. n \in Nat
    OBVIOUS
  <2>1. s # {}
    <3>. HIDE DEF N
    <3>. QED
      BY <2>0, FS_EmptySet
  <2>2. Taken(s) \in s /\ f[Taken(s)] = h[Taken(s)]
    BY <2>1, TakenIsIn
  <2>3. Cardinality(s \ {Taken(s)}) = n
    BY <1>1, <2>2, FS_RemoveElement
  <2>4. g[s \ {Taken(s)}] = k[s \ {Taken(s)}]
    BY <2>3
  <2>5. /\ g[s] = f[Taken(s)] + g[s \ {Taken(s)}]
        /\ k[s] = h[Taken(s)] + k[s \ {Taken(s)}]
    <3>. HIDE DEF N
    <3>. QED
      BY <1>2, <2>1
  <2>. QED
    BY <2>2, <2>4, <2>5
<1>5. N \in SUBSET Nat
  OBVIOUS
<1>6. N = Nat
  <2>. HIDE DEF N
  <2>. QED
    BY <1>3, <1>4, <1>5, NatGrowth
<1>. QED
  BY <1>1, <1>6

\* A sum depends on the values at its indices only.
LEMMA SumOfSame ==
  ASSUME NEW S, IsFiniteSet(S), NEW f, NEW h, \A x \in S : f[x] \in Int /\ f[x] = h[x]
  PROVE  SumFunctionOnSet(f, S) = SumFunctionOnSet(h, S)
<1> DEFINE g == CHOOSE g : Folds0(g, f, S)
           k == CHOOSE k : Folds0(k, h, S)
<1>1. Folds0(g, f, S) /\ Folds0(k, h, S)
  <2>1. (\E j : Folds0(j, f, S)) /\ (\E j : Folds0(j, h, S))
    BY FoldExists
  <2>. QED
    BY <2>1
<1>2. SumFunctionOnSet(f, S) = g[S] /\ SumFunctionOnSet(h, S) = k[S]
  BY SumIsFold
<1>. HIDE DEF g, k
<1>3. \A s \in SUBSET S : g[s] = k[s]
  BY <1>1, FoldsAgree
<1>. QED
  BY <1>2, <1>3

\* The equation of a sum.
LEMMA SumEquation ==
  ASSUME NEW S, IsFiniteSet(S), NEW f, \A x \in S : f[x] \in Int
  PROVE  /\ SumFunctionOnSet(f, S) \in Int
         /\ SumFunctionOnSet(f, S) = IF S = {} THEN 0 ELSE f[Taken(S)] + SumFunctionOnSet(f, S \ {Taken(S)})
<1> DEFINE g == CHOOSE g : Folds0(g, f, S)
           R == S \ {Taken(S)}
           k == CHOOSE k : Folds0(k, f, R)
<1>1. PICK j : Folds0(j, f, S) /\ j \in [SUBSET S -> Int]
  BY FoldExists
<1>2. Folds0(g, f, S)
  BY <1>1
<1>3. IsFiniteSet(R) /\ R \subseteq S
  BY FS_Subset
<1>4. Folds0(k, f, R)
  <2>1. \E i : Folds0(i, f, R)
    BY <1>3, FoldExists
  <2>. QED
    BY <2>1
<1>5. SumFunctionOnSet(f, S) = g[S] /\ SumFunctionOnSet(f, R) = k[R]
  BY SumIsFold
<1>. HIDE DEF g, R, k
<1>6. g[R] = k[R]
  BY <1>2, <1>3, <1>4, FoldsAgree
<1>7. g[S] = j[S]
  <2>1. \A s \in SUBSET S : g[s] = j[s]
    BY <1>1, <1>2, FoldsAgree
  <2>. QED
    BY <2>1
<1>8. g[S] = IF S = {} THEN 0 ELSE f[Taken(S)] + g[R]
  BY <1>2 DEF Folds0, R
<1>. QED
  BY <1>1, <1>5, <1>6, <1>7, <1>8 DEF R

LEMMA SumOfNone == ASSUME NEW f PROVE SumFunctionOnSet(f, {}) = 0
  BY FS_EmptySet, SumEquation

\* Any element may be taken first.
LEMMA SumTakesAny ==
  ASSUME NEW S, IsFiniteSet(S), NEW f, \A x \in S : f[x] \in Int
  PROVE  \A x \in S : SumFunctionOnSet(f, S) = f[x] + SumFunctionOnSet(f, S \ {x})
<1> DEFINE N == {n \in Nat : \A T \in SUBSET S : Cardinality(T) = n =>
                               \A x \in T : SumFunctionOnSet(f, T) = f[x] + SumFunctionOnSet(f, T \ {x})}
<1>1. \A T \in SUBSET S : /\ IsFiniteSet(T) /\ Cardinality(T) \in Nat
                          /\ \A x \in T : T \ {x} \in SUBSET S
                          /\ SumFunctionOnSet(f, T) \in Int
                          /\ T # {} => SumFunctionOnSet(f, T) = f[Taken(T)] + SumFunctionOnSet(f, T \ {Taken(T)})
  <2>1. \A T \in SUBSET S : IsFiniteSet(T) /\ Cardinality(T) \in Nat
    BY FS_Subset, FS_CardinalityType
  <2>. QED
    BY <2>1, SumEquation
<1>2. 0 \in N
  BY <1>1, FS_EmptySet
<1>3. ASSUME NEW n \in N PROVE n + 1 \in N
  <2>. SUFFICES ASSUME NEW T \in SUBSET S, Cardinality(T) = n + 1, NEW x \in T
                PROVE  SumFunctionOnSet(f, T) = f[x] + SumFunctionOnSet(f, T \ {x})
    OBVIOUS
  <2> DEFINE y == Taken(T)
  <2>1. y \in T /\ SumFunctionOnSet(f, T) = f[y] + SumFunctionOnSet(f, T \ {y})
    <3>1. T # {}
      OBVIOUS
    <3>. QED
      BY <1>1, <3>1, TakenIsIn
  <2>. HIDE DEF y
  <2>2. CASE x = y
    BY <2>1, <2>2
  <2>3. CASE x # y
    <3>0. n \in Nat /\ IsFiniteSet(T)
      BY <1>1
    <3>1. Cardinality(T \ {x}) = n /\ Cardinality(T \ {y}) = n
      <4>1. \A z \in T : Cardinality(T \ {z}) = Cardinality(T) - 1
        BY <3>0, FS_RemoveElement
      <4>2. \A z \in T : Cardinality(T \ {z}) = n
        <5>. HIDE DEF N
        <5>. QED
          BY <3>0, <4>1
      <4>. QED
        BY <2>1, <4>2
    <3>2. x \in T \ {y} /\ y \in T \ {x} /\ T \ {x} \in SUBSET S /\ T \ {y} \in SUBSET S
      BY <2>1, <2>3
    <3>3. /\ SumFunctionOnSet(f, T \ {y}) = f[x] + SumFunctionOnSet(f, (T \ {y}) \ {x})
          /\ SumFunctionOnSet(f, T \ {x}) = f[y] + SumFunctionOnSet(f, (T \ {x}) \ {y})
      BY <3>1, <3>2
    <3>4. (T \ {y}) \ {x} = (T \ {x}) \ {y} /\ (T \ {x}) \ {y} \in SUBSET S
      BY <3>2
    <3>5. SumFunctionOnSet(f, (T \ {x}) \ {y}) \in Int
      BY <1>1, <3>4
    <3>6. f[x] \in Int /\ f[y] \in Int
      BY <2>1
    <3>7. /\ SumFunctionOnSet(f, T) = f[y] + (f[x] + SumFunctionOnSet(f, (T \ {x}) \ {y}))
          /\ SumFunctionOnSet(f, T \ {x}) = f[y] + SumFunctionOnSet(f, (T \ {x}) \ {y})
      BY <2>1, <3>3, <3>4
    <3>. QED
      BY <3>5, <3>6, <3>7
  <2>. QED
    BY <2>2, <2>3
<1>4. N \in SUBSET Nat
  OBVIOUS
<1>5. N = Nat
  <2>. HIDE DEF N
  <2>. QED
    BY <1>2, <1>3, <1>4, NatGrowth
<1>6. S \in SUBSET S /\ Cardinality(S) \in N
  <2>1. S \in SUBSET S
    OBVIOUS
  <2>. HIDE DEF N
  <2>. QED
    BY <1>1, <1>5, <2>1
<1>. QED
  BY <1>6

\* One more index adds its value.
LEMMA SumOfOneMore ==
  ASSUME NEW S, IsFiniteSet(S), NEW f, NEW x, x \notin S, \A y \in S \cup {x} : f[y] \in Int
  PROVE  SumFunctionOnSet(f, S \cup {x}) = f[x] + SumFunctionOnSet(f, S)
<1>1. IsFiniteSet(S \cup {x})
  BY FS_AddElement
<1>2. (S \cup {x}) \ {x} = S
  OBVIOUS
<1>. QED
  BY <1>1, <1>2, SumTakesAny

---------------------------------------------------------------------------
(* The spread of some values: the sum of the squares of their distances *)

Squares(v, S) == [x \in S |-> v[x] * v[x]]
SquaresAround(v, n, t, S) == [x \in S |-> (n * v[x] - t) * (n * v[x] - t)]

LEMMA SpreadOfParts ==
  ASSUME NEW S, IsFiniteSet(S), NEW v, NEW n \in Int, NEW t \in Int, \A x \in S : v[x] \in Int
  PROVE  SumFunctionOnSet(SquaresAround(v, n, t, S), S)
           = n * n * SumFunctionOnSet(Squares(v, S), S) - 2 * n * t * SumFunctionOnSet(v, S)
               + Cardinality(S) * (t * t)
<1> DEFINE w == Squares(v, S)
           u == SquaresAround(v, n, t, S)
           P(U, W, V, c) == U = n * n * W - 2 * n * t * V + c * (t * t)
           G == {T \in SUBSET S : P(SumFunctionOnSet(u, T), SumFunctionOnSet(w, T),
                                    SumFunctionOnSet(v, T), Cardinality(T))}
<1>0. \A x \in S : /\ v[x] \in Int /\ w[x] \in Int /\ u[x] \in Int
                   /\ w[x] = v[x] * v[x] /\ u[x] = (n * v[x] - t) * (n * v[x] - t)
  BY DEF Squares, SquaresAround
<1>. HIDE DEF w, u
<1>1. G \in SUBSET (SUBSET S) /\ {} \in G
  BY FS_EmptySet, SumOfNone
<1>2. ASSUME NEW T \in G, NEW x \in S \ T PROVE T \cup {x} \in G
  <2>0. T \in SUBSET S /\ P(SumFunctionOnSet(u, T), SumFunctionOnSet(w, T),
                             SumFunctionOnSet(v, T), Cardinality(T))
    OBVIOUS
  <2>1. IsFiniteSet(T) /\ Cardinality(T) \in Nat /\ Cardinality(T \cup {x}) = Cardinality(T) + 1
    BY <2>0, FS_Subset, FS_CardinalityType, FS_AddElement
  <2>2. /\ SumFunctionOnSet(u, T) \in Int /\ SumFunctionOnSet(w, T) \in Int
        /\ SumFunctionOnSet(v, T) \in Int
    BY <1>0, <2>0, <2>1, SumEquation
  <2>3. /\ SumFunctionOnSet(u, T \cup {x}) = u[x] + SumFunctionOnSet(u, T)
        /\ SumFunctionOnSet(w, T \cup {x}) = w[x] + SumFunctionOnSet(w, T)
        /\ SumFunctionOnSet(v, T \cup {x}) = v[x] + SumFunctionOnSet(v, T)
    <3>1. \A y \in T \cup {x} : v[y] \in Int /\ w[y] \in Int /\ u[y] \in Int
      BY <1>0, <2>0
    <3>. QED
      BY <2>1, <3>1, SumOfOneMore
  <2>4. \A U, W, V, c, z \in Int : 
          P(U, W, V, c) => P((n * z - t) * (n * z - t) + U, z * z + W, z + V, c + 1)
    OBVIOUS
  <2>5. P(u[x] + SumFunctionOnSet(u, T), w[x] + SumFunctionOnSet(w, T),
          v[x] + SumFunctionOnSet(v, T), Cardinality(T) + 1)
    <3>1. /\ u[x] = (n * v[x] - t) * (n * v[x] - t) /\ w[x] = v[x] * v[x] /\ v[x] \in Int
          /\ Cardinality(T) \in Int
      BY <1>0, <2>1
    <3>. HIDE DEF P, G
    <3>. QED
      BY <2>0, <2>2, <2>4, <3>1
  <2>. QED
    <3>. HIDE DEF P
    <3>. QED
      BY <2>0, <2>1, <2>3, <2>5
<1>3. G = SUBSET S
  <2>. HIDE DEF G
  <2>. QED
    BY <1>1, <1>2, SetGrowth
<1>4. S \in G
  <2>. HIDE DEF G
  <2>. QED
    BY <1>3
<1>. QED
  BY <1>4 DEF u, w

LEMMA Spread ==
  ASSUME NEW S, IsFiniteSet(S), NEW v, \A x \in S : v[x] \in Int
  PROVE  /\ SumFunctionOnSet(Squares(v, S), S) \in Int /\ SumFunctionOnSet(v, S) \in Int
         /\ SumFunctionOnSet(SquaresAround(v, Cardinality(S), SumFunctionOnSet(v, S), S), S)
              = Cardinality(S) * (Cardinality(S) * SumFunctionOnSet(Squares(v, S), S)
                                    - SumFunctionOnSet(v, S) * SumFunctionOnSet(v, S))
<1> DEFINE n == Cardinality(S)
           t == SumFunctionOnSet(v, S)
           W == SumFunctionOnSet(Squares(v, S), S)
           U == SumFunctionOnSet(SquaresAround(v, n, t, S), S)
<1>1. n \in Int
  BY FS_CardinalityType
<1>2. t \in Int
  BY SumEquation
<1>3. W \in Int
  <2>1. \A x \in S : Squares(v, S)[x] \in Int
    BY DEF Squares
  <2>. QED
    BY <2>1, SumEquation
<1>4. U = n * n * W - 2 * n * t * t + n * (t * t)
  <2>. HIDE DEF n
  <2>1. \A i, j \in Int : SumFunctionOnSet(SquaresAround(v, i, j, S), S)
           = i * i * W - 2 * i * j * SumFunctionOnSet(v, S) + Cardinality(S) * (j * j)
    BY SpreadOfParts
  <2>. HIDE DEF t, W
  <2>2. U = n * n * W - 2 * n * t * SumFunctionOnSet(v, S) + Cardinality(S) * (t * t)
    BY <1>1, <1>2, <2>1
  <2>. QED
    BY <2>2 DEF n, t
<1>5. \A a, b, c \in Int : a * a * c - 2 * a * b * b + a * (b * b) = a * (a * c - b * b)
  OBVIOUS
<1>6. U = n * (n * W - t * t)
  <2>. HIDE DEF n, t, W, U
  <2>. QED
    BY <1>1, <1>2, <1>3, <1>4, <1>5
<1>. QED
  BY <1>2, <1>3, <1>6

---------------------------------------------------------------------------
(* Sums of the values of a function *)

LEMMA SumOfFunction ==
  ASSUME NEW S, IsFiniteSet(S), NEW f \in [S -> Int]
  PROVE  SumFunction(f) = SumFunctionOnSet(f, S) /\ SumFunction(f) \in Int
<1>1. SumFunctionOnSet(f, S) \in Int
  BY SumEquation
<1>. QED
  BY <1>1 DEF SumFunction

LEMMA SumWithout ==
  ASSUME NEW S, IsFiniteSet(S), NEW f \in [S -> Int], NEW x \in S
  PROVE  SumFunction([y \in S \ {x} |-> f[y]]) = SumFunction(f) - f[x]
<1> DEFINE g == [y \in S \ {x} |-> f[y]]
<1>1. IsFiniteSet(S \ {x}) /\ g \in [S \ {x} -> Int]
  BY FS_Subset
<1>2. SumFunction(g) = SumFunctionOnSet(g, S \ {x})
  BY <1>1, SumOfFunction
<1>3. SumFunctionOnSet(g, S \ {x}) = SumFunctionOnSet(f, S \ {x})
  <2>1. \A y \in S \ {x} : g[y] \in Int /\ g[y] = f[y]
    OBVIOUS
  <2>. HIDE DEF g
  <2>. QED
    BY <1>1, <2>1, SumOfSame
<1>4. SumFunctionOnSet(f, S) = f[x] + SumFunctionOnSet(f, S \ {x})
  BY SumTakesAny
<1>5. SumFunctionOnSet(f, S \ {x}) \in Int
  BY <1>1, SumEquation
<1>6. SumFunction(f) = SumFunctionOnSet(f, S)
  BY SumOfFunction
<1>7. SumFunctionOnSet(f, S \ {x}) = SumFunctionOnSet(f, S) - f[x]
  BY <1>4, <1>5
<1>. QED
  BY <1>2, <1>3, <1>6, <1>7

LEMMA SumWith ==
  ASSUME NEW S, IsFiniteSet(S), NEW f \in [S -> Int], NEW x, x \notin S, NEW v \in Int
  PROVE  SumFunction([y \in S \cup {x} |-> IF y = x THEN v ELSE f[y]]) = SumFunction(f) + v
<1> DEFINE g == [y \in S \cup {x} |-> IF y = x THEN v ELSE f[y]]
<1>1. IsFiniteSet(S \cup {x}) /\ g \in [S \cup {x} -> Int]
  BY FS_AddElement
<1>2. x \in S \cup {x}
  OBVIOUS
<1>3. SumFunction([y \in (S \cup {x}) \ {x} |-> g[y]]) = SumFunction(g) - g[x]
  <2>. HIDE DEF g
  <2>. QED
    BY <1>1, <1>2, SumWithout
<1>4. [y \in (S \cup {x}) \ {x} |-> g[y]] = f
  OBVIOUS
<1>5. g[x] = v
  OBVIOUS
<1>6. SumFunction(g) \in Int
  <2>. HIDE DEF g
  <2>. QED
    BY <1>1, SumOfFunction
<1>7. SumFunction(f) = SumFunction(g) - v
  BY <1>3, <1>4, <1>5
<1>. HIDE DEF g
<1>8. SumFunction(g) = SumFunction(f) + v
  BY <1>6, <1>7
<1>. QED
  BY <1>8 DEF g

\* A sum of naturals is at least each of them.
LEMMA SumOfNats ==
  ASSUME NEW S, IsFiniteSet(S), NEW f, \A x \in S : f[x] \in Nat
  PROVE  /\ SumFunctionOnSet(f, S) \in Nat
         /\ \A x \in S : f[x] <= SumFunctionOnSet(f, S)
<1> DEFINE G == {T \in SUBSET S : SumFunctionOnSet(f, T) \in Nat}
<1>1. {} \in G
  BY SumOfNone
<1>2. ASSUME NEW T \in G, NEW x \in S \ T
      PROVE  T \cup {x} \in G
  <2>1. IsFiniteSet(T) /\ \A y \in T \cup {x} : f[y] \in Int
    BY FS_Subset
  <2>2. SumFunctionOnSet(f, T \cup {x}) = f[x] + SumFunctionOnSet(f, T)
    BY <2>1, SumOfOneMore
  <2>. QED
    BY <2>2
<1>3. G \in SUBSET (SUBSET S)
  OBVIOUS
<1>4. G = SUBSET S
  <2>. HIDE DEF G
  <2>. QED
    BY <1>1, <1>2, <1>3, SetGrowth
<1>5. SumFunctionOnSet(f, S) \in Nat
  BY <1>4
<1>6. ASSUME NEW x \in S
      PROVE  f[x] <= SumFunctionOnSet(f, S)
  <2>1. SumFunctionOnSet(f, S) = f[x] + SumFunctionOnSet(f, S \ {x})
    BY SumTakesAny
  <2>2. SumFunctionOnSet(f, S \ {x}) \in Nat
    BY <1>4
  <2>. QED
    BY <2>1, <2>2
<1>. QED
  BY <1>5, <1>6

---------------------------------------------------------------------------
(* Sequences of sequences, one after the other *)

\* Names that keep the provers from taking a sequence apart.
After(u, v) == u \o v
More(u, x) == Append(u, x)

LEMMA AppendToBoth ==
  ASSUME NEW S, NEW u \in Seq(S), NEW R, NEW v \in Seq(R), NEW x \in R
  PROVE  More(After(u, v), x) = After(u, More(v, x))
<1> DEFINE T == S \cup R
           m == Len(u)
           n == Len(v)
           a == Append(u \o v, x)
           b == u \o Append(v, x)
<1>0. u \in Seq(T) /\ v \in Seq(T) /\ x \in T
  <2>1. \A A, B : \A w \in Seq(A) : A \subseteq B => w \in Seq(B)
    OBVIOUS
  <2>. QED
    BY <2>1
<1>1. m \in Nat /\ n \in Nat /\ u \o v \in Seq(T) /\ Append(v, x) \in Seq(T)
  BY <1>0
<1>2. Len(u \o v) = m + n /\ Len(Append(v, x)) = n + 1
  BY <1>0
<1>3. a \in Seq(T) /\ b \in Seq(T) /\ Len(a) = m + n + 1 /\ Len(b) = m + n + 1
  BY <1>0, <1>1, <1>2
<1>4. ASSUME NEW i \in 1..(m + n + 1) PROVE a[i] = b[i]
  <2>1. CASE i <= m
    BY <1>0, <1>1, <1>2, <2>1
  <2>2. CASE i > m /\ i <= m + n
    BY <1>0, <1>1, <1>2, <2>2
  <2>3. CASE i = m + n + 1
    BY <1>0, <1>1, <1>2, <2>3
  <2>. QED
    BY <1>1, <2>1, <2>2, <2>3
<1>5. a = b
  BY <1>3, <1>4
<1>. QED
  BY <1>5, Zenon DEF More, After

Flattens(g, s) == g = [i \in 1..Len(s) |-> IF i = 1 THEN s[i] ELSE g[i - 1] \o s[i]]

LEMMA FlattenIsChosen ==
  ASSUME NEW s, Len(s) # 0
  PROVE  FlattenSeq(s) = (CHOOSE g : Flattens(g, s))[Len(s)]
  BY DEF FlattenSeq, Flattens

LEMMA FlattenOfNone == FlattenSeq(<< >>) = << >>
  BY DEF FlattenSeq

\* There is a function that satisfies the equation.
LEMMA FlattenExists ==
  ASSUME NEW T, NEW s \in Seq(Seq(T))
  PROVE  \E g : Flattens(g, s) /\ g \in [1..Len(s) -> Seq(T)]
<1> DEFINE m == Len(s)
           Step(g, i) == IF i = 1 THEN s[i] ELSE g[i - 1] \o s[i]
           N == {n \in 0..m : \E g \in [1..n -> Seq(T)] : \A i \in 1..n : g[i] = Step(g, i)}
<1>1. m \in Nat /\ \A i \in 1..m : s[i] \in Seq(T)
  OBVIOUS
<1>2. 0 \in N
  <2>1. [i \in 1..0 |-> << >>] \in [1..0 -> Seq(T)]
    OBVIOUS
  <2>2. 0 \in 0..m /\ \A i \in 1..0 : FALSE
    BY <1>1
  <2>. QED
    BY <2>1, <2>2
<1>3. ASSUME NEW n \in N, n < m PROVE n + 1 \in N
  <2>0. n \in Nat /\ n + 1 \in 1..m /\ n + 1 \in 0..m
    BY <1>1, <1>3
  <2>1. PICK g \in [1..n -> Seq(T)] : \A i \in 1..n : g[i] = Step(g, i)
    OBVIOUS
  <2> DEFINE h == [i \in 1..(n + 1) |-> IF i = n + 1 THEN Step(g, i) ELSE g[i]]
  <2>2. Step(g, n + 1) \in Seq(T)
    <3>1. s[n + 1] \in Seq(T)
      BY <1>1, <2>0
    <3>2. n + 1 # 1 => g[(n + 1) - 1] \in Seq(T)
      BY <2>0
    <3>. QED
      BY <3>1, <3>2
  <2>3. h \in [1..(n + 1) -> Seq(T)]
    <3>1. \A i \in 1..(n + 1) : i # n + 1 => i \in 1..n
      BY <2>0
    <3>. HIDE DEF Step
    <3>. QED
      BY <2>2, <3>1
  <2>4. ASSUME NEW i \in 1..(n + 1) PROVE h[i] = Step(h, i)
    <3>1. i # 1 => i - 1 \in 1..(n + 1) /\ i - 1 # n + 1 /\ h[i - 1] = g[i - 1]
      BY <2>0
    <3>2. h[i] = Step(g, i)
      <4>1. CASE i = n + 1
        BY <4>1
      <4>2. CASE i # n + 1
        <5>1. i \in 1..n
          BY <2>0, <4>2
        <5>. QED
          BY <2>1, <4>2, <5>1
      <4>. QED
        BY <4>1, <4>2
    <3>. QED
      BY <3>1, <3>2
  <2>. QED
    <3>. HIDE DEF Step, h
    <3>. QED
      BY <2>0, <2>3, <2>4
<1>4. N \in SUBSET (0..m)
  OBVIOUS
<1>5. N = 0..m
  <2>. HIDE DEF N
  <2>. QED
    BY <1>1, <1>2, <1>3, <1>4, IntervalGrowth
<1>6. m \in N
  <2>. HIDE DEF N
  <2>. QED
    BY <1>1, <1>5
<1>7. PICK g \in [1..m -> Seq(T)] : \A i \in 1..m : g[i] = Step(g, i)
  BY <1>6
<1>8. g = [i \in 1..m |-> Step(g, i)]
  <2>. HIDE DEF Step
  <2>. QED
    BY <1>7
<1>. QED
  BY <1>7, <1>8 DEF Flattens

\* One sequence more comes after the others.
LEMMA FlattenOfOneMore ==
  ASSUME NEW T, NEW s \in Seq(Seq(T)), NEW x \in Seq(T)
  PROVE  FlattenSeq(Append(s, x)) = FlattenSeq(s) \o x
<1> DEFINE r == Append(s, x)
           m == Len(s)
<1>1. r \in Seq(Seq(T)) /\ Len(r) = m + 1 /\ m \in Nat /\ r[m + 1] = x
      /\ \A i \in 1..m : r[i] = s[i]
  OBVIOUS
<1>2. PICK h : h = CHOOSE g : Flattens(g, r)
  OBVIOUS
<1>. HIDE DEF r
<1>3. Flattens(h, r)
  BY <1>1, <1>2, FlattenExists
<1>4. \A i \in 1..(m + 1) : h[i] = IF i = 1 THEN r[i] ELSE h[i - 1] \o r[i]
  BY <1>1, <1>3 DEF Flattens
<1>5. FlattenSeq(r) = h[m + 1]
  BY <1>1, <1>2, FlattenIsChosen
<1>6. CASE m = 0
  <2>1. s = << >>
    BY <1>6
  <2>2. FlattenSeq(r) = x
    BY <1>1, <1>4, <1>5, <1>6
  <2>. QED
    BY <2>1, <2>2, FlattenOfNone DEF r
<1>7. CASE m # 0
  <2>1. PICK k : k = CHOOSE g : Flattens(g, s)
    OBVIOUS
  <2>2. Flattens(k, s)
    BY <2>1, FlattenExists
  <2>3. \A i \in 1..m : k[i] = IF i = 1 THEN s[i] ELSE k[i - 1] \o s[i]
    BY <2>2 DEF Flattens
  <2>4. FlattenSeq(s) = k[m]
    BY <1>7, <2>1, FlattenIsChosen
  <2> DEFINE N == {n \in 0..m : \A i \in 1..n : h[i] = k[i]}
  <2>5. 0 \in N
    BY <1>1
  <2>6. ASSUME NEW n \in N, n < m PROVE n + 1 \in N
    <3>1. n + 1 \in 1..m /\ n + 1 \in 0..m /\ n + 1 \in 1..(m + 1) /\ n \in Nat
      BY <1>1, <2>6
    <3>2. n + 1 # 1 => h[(n + 1) - 1] = k[(n + 1) - 1]
      BY <3>1
    <3>3. h[n + 1] = k[n + 1]
      BY <1>1, <1>4, <2>3, <3>1, <3>2
    <3>4. \A i \in 1..(n + 1) : i \in 1..n \/ i = n + 1
      BY <3>1
    <3>. QED
      BY <3>1, <3>3, <3>4
  <2>7. N = 0..m
    <3>1. N \in SUBSET (0..m)
      OBVIOUS
    <3>. HIDE DEF N
    <3>. QED
      BY <1>1, <2>5, <2>6, <3>1, IntervalGrowth
  <2>8. m \in 0..m /\ m \in 1..m
    BY <1>1, <1>7
  <2>9. h[m] = k[m]
    BY <2>7, <2>8
  <2>10. h[m + 1] = h[(m + 1) - 1] \o r[m + 1]
    <3>1. m + 1 \in 1..(m + 1) /\ m + 1 # 1
      BY <1>1, <1>7
    <3>. HIDE DEF m
    <3>. QED
      BY <1>4, <3>1
  <2>11. h[m + 1] = h[m] \o x
    BY <1>1, <2>10
  <2>. QED
    BY <1>5, <2>4, <2>9, <2>11 DEF r
<1>. QED
  BY <1>6, <1>7

LEMMA FlattenType ==
  ASSUME NEW T, NEW s \in Seq(Seq(T))
  PROVE  FlattenSeq(s) \in Seq(T)
<1>1. CASE Len(s) = 0
  BY <1>1 DEF FlattenSeq
<1>2. CASE Len(s) # 0
  <2>1. PICK h : h = CHOOSE g : Flattens(g, s)
    OBVIOUS
  <2>2. PICK g : Flattens(g, s) /\ g \in [1..Len(s) -> Seq(T)]
    BY FlattenExists
  <2>3. Flattens(h, s)
    BY <2>1, <2>2
  <2> DEFINE N == {n \in 0..Len(s) : \A i \in 1..n : h[i] \in Seq(T)}
  <2>4. Len(s) \in Nat /\ \A i \in 1..Len(s) : s[i] \in Seq(T)
    OBVIOUS
  <2>5. \A i \in 1..Len(s) : h[i] = IF i = 1 THEN s[i] ELSE h[i - 1] \o s[i]
    BY <2>3 DEF Flattens
  <2>6. 0 \in N
    OBVIOUS
  <2>7. ASSUME NEW n \in N, n < Len(s) PROVE n + 1 \in N
    <3>1. n + 1 \in 1..Len(s) /\ n + 1 \in 0..Len(s) /\ n \in Nat
      BY <2>4, <2>7
    <3>2. n + 1 # 1 => h[(n + 1) - 1] \in Seq(T)
      BY <3>1
    <3>3. h[n + 1] \in Seq(T)
      <4>1. s[n + 1] \in Seq(T)
        BY <2>4, <3>1
      <4>2. h[n + 1] = IF n + 1 = 1 THEN s[n + 1] ELSE h[(n + 1) - 1] \o s[n + 1]
        BY <2>5, <3>1
      <4>3. CASE n + 1 = 1
        BY <4>1, <4>2, <4>3
      <4>4. CASE n + 1 # 1
        <5>1. h[(n + 1) - 1] \o s[n + 1] \in Seq(T)
          BY <3>2, <4>1, <4>4
        <5>. QED
          BY <4>2, <4>4, <5>1
      <4>. QED
        BY <4>3, <4>4
    <3>4. \A i \in 1..(n + 1) : i \in 1..n \/ i = n + 1
      BY <3>1
    <3>. QED
      BY <3>1, <3>3, <3>4
  <2>8. N = 0..Len(s)
    <3>1. N \in SUBSET (0..Len(s))
      OBVIOUS
    <3>. HIDE DEF N
    <3>. QED
      BY <2>4, <2>6, <2>7, <3>1, IntervalGrowth
  <2>9. h[Len(s)] \in Seq(T)
    <3>1. Len(s) \in 0..Len(s) /\ Len(s) \in 1..Len(s)
      BY <1>2, <2>4
    <3>. QED
      BY <2>8, <3>1
  <2>. QED
    BY <1>2, <2>1, <2>9, FlattenIsChosen
<1>. QED
  BY <1>1, <1>2
=============================================================================
