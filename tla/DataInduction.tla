----------------------------- MODULE DataInduction -----------------------------
(***************************************************************************)
(* Inductions over data.  The library's induction theorems take the        *)
(* predicate as a parameter; here it is the set of the numbers for which   *)
(* the claim holds, and that set has all numbers because what it lacks     *)
(* would have a first.  With it, what folds and selections compute.        *)
(***************************************************************************)
EXTENDS Integers, Sequences, SequencesExt, FiniteSetsExt, FiniteSetTheorems,
        SequenceTheorems, WellFoundedInduction, TLAPS

(* Among numbers that lack a property there is a first. *)
LEMMA FirstFailure ==
  ASSUME NEW Q \in SUBSET Nat, Q # {}
  PROVE  \E n \in Q : \A k \in Q : n <= k
<1>1. PICK n \in Q : \A k \in Q : ~ (<<k, n>> \in OpToRel(<, Nat))
  BY NatLessThanWellFounded, WFMin
<1>2. \A k \in Q : ~ (k < n)
  BY <1>1 DEF OpToRel
<1> QED BY <1>2

(* What holds of 0, and of n + 1 when it holds of n, holds of every number. *)
LEMMA AllNumbers ==
  ASSUME NEW P \in SUBSET Nat, 0 \in P, \A n \in P : n + 1 \in P
  PROVE  P = Nat
<1> SUFFICES ASSUME P # Nat PROVE FALSE
  OBVIOUS
<1> DEFINE Q == Nat \ P
<1>1. PICK n \in Q : \A k \in Q : n <= k
  BY FirstFailure
<1>2. n # 0 /\ n - 1 \in Nat
  BY <1>1
<1>3. n - 1 \in P
  BY <1>1, <1>2
<1>4. (n - 1) + 1 = n
  BY <1>2
<1> QED BY <1>1, <1>3, <1>4

\* The subsets of S with at most n elements.
UpTo(S, n) == {s \in SUBSET S : Cardinality(s) <= n}
Chosen(s) == CHOOSE x \in s : TRUE
Adds(g, f, D) ==
  \A s \in D : g[s] = IF s = {} THEN 0 ELSE f[Chosen(s)] + g[s \ {Chosen(s)}]

(* What is left of a finite set without its chosen element is smaller by one. *)
LEMMA Peel ==
  ASSUME NEW S, IsFiniteSet(S), NEW s \in SUBSET S, s # {}
  PROVE  /\ Chosen(s) \in s /\ s \ {Chosen(s)} \in SUBSET S
         /\ Cardinality(s) \in Nat /\ Cardinality(s \ {Chosen(s)}) \in Nat
         /\ Cardinality(s \ {Chosen(s)}) = Cardinality(s) - 1
<1>1. IsFiniteSet(s)
  BY FS_Subset
<1>2. Chosen(s) \in s
  BY DEF Chosen
<1>3. Cardinality(s \ {Chosen(s)}) = Cardinality(s) - 1
  BY <1>1, <1>2, FS_RemoveElement
<1>4. Cardinality(s) \in Nat /\ Cardinality(s \ {Chosen(s)}) \in Nat
  BY <1>1, FS_CardinalityType, FS_Subset
<1> QED BY <1>2, <1>3, <1>4

(* The sum over the subsets of a finite set is defined: partial sums of the subsets of up to
   n elements extend to n + 1. *)
LEMMA SumsExist ==
  ASSUME NEW S, IsFiniteSet(S), NEW f \in [S -> Nat]
  PROVE  \E g \in [SUBSET S -> Nat] : Adds(g, f, SUBSET S)
<1> DEFINE P == {n \in Nat : \E g \in [UpTo(S, n) -> Nat] : Adds(g, f, UpTo(S, n))}
<1>1. 0 \in P
  <2>1. UpTo(S, 0) = {{}}
    <3>1. \A s \in SUBSET S : s # {} => Cardinality(s) # 0
      BY FS_Subset, FS_EmptySet
    <3>2. Cardinality({}) = 0
      BY FS_EmptySet
    <3> QED BY <3>1, <3>2, FS_Subset, FS_CardinalityType DEF UpTo
  <2>2. [s \in {{}} |-> 0] \in [{{}} -> Nat] /\ Adds([s \in {{}} |-> 0], f, {{}})
    BY DEF Adds
  <2> QED BY <2>1, <2>2
<1>2. ASSUME NEW n \in P PROVE n + 1 \in P
  <2>1. PICK g \in [UpTo(S, n) -> Nat] : Adds(g, f, UpTo(S, n))
    BY <1>2
  <2> DEFINE h == [s \in UpTo(S, n + 1) |->
                     IF s = {} THEN 0 ELSE f[Chosen(s)] + g[s \ {Chosen(s)}]]
  <2>2. ASSUME NEW s \in UpTo(S, n + 1), s # {}
        PROVE  s \ {Chosen(s)} \in UpTo(S, n) /\ Chosen(s) \in S
    <3>1. s \in SUBSET S /\ Cardinality(s) <= n + 1
      BY DEF UpTo
    <3> QED BY <2>2, <3>1, Peel DEF UpTo
  <2>3. h \in [UpTo(S, n + 1) -> Nat]
    BY <2>2
  <2>4. ASSUME NEW s \in UpTo(S, n) PROVE h[s] = g[s]
    <3>1. s \in UpTo(S, n + 1)
      BY FS_Subset, FS_CardinalityType DEF UpTo
    <3> QED BY <2>1, <3>1 DEF Adds
  <2>5. Adds(h, f, UpTo(S, n + 1))
    <3> SUFFICES ASSUME NEW s \in UpTo(S, n + 1)
                 PROVE  h[s] = IF s = {} THEN 0 ELSE f[Chosen(s)] + h[s \ {Chosen(s)}]
      BY DEF Adds
    <3>1. CASE s = {}
      BY <3>1
    <3>2. CASE s # {}
      <4>1. h[s] = f[Chosen(s)] + g[s \ {Chosen(s)}]
        BY <3>2
      <4>2. h[s \ {Chosen(s)}] = g[s \ {Chosen(s)}]
        BY <2>2, <2>4, <3>2
      <4> QED BY <3>2, <4>1, <4>2
    <3> QED BY <3>1, <3>2
  <2> HIDE DEF h
  <2> QED BY <2>3, <2>5
<1>3. P = Nat
  <2> HIDE DEF P
  <2>1. P \in SUBSET Nat
    BY DEF P
  <2> QED BY <1>1, <1>2, <2>1, AllNumbers
<1>4. Cardinality(S) \in Nat
  BY FS_CardinalityType
<1>5. UpTo(S, Cardinality(S)) = SUBSET S
  BY FS_Subset DEF UpTo
<1>6. Cardinality(S) \in P
  BY <1>3, <1>4
<1> QED BY <1>5, <1>6

(* A sum of numbers is a number and no less than each of them. *)
LEMMA SumsAreAbove ==
  ASSUME NEW S, IsFiniteSet(S), NEW f \in [S -> Nat], NEW g, Adds(g, f, SUBSET S)
  PROVE  g[S] \in Nat /\ \A x \in S : f[x] <= g[S]
<1> DEFINE Bounds(s) == g[s] \in Nat /\ \A x \in s : f[x] <= g[s]
           P == {n \in Nat : \A s \in SUBSET S : Cardinality(s) = n => Bounds(s)}
<1>1. 0 \in P
  <2>1. ASSUME NEW s \in SUBSET S, Cardinality(s) = 0 PROVE Bounds(s)
    <3>1. s = {}
      BY <2>1, FS_Subset, FS_EmptySet
    <3>2. g[s] = 0
      BY <3>1 DEF Adds
    <3> QED BY <3>1, <3>2
  <2> QED BY <2>1
<1>2. ASSUME NEW n \in P PROVE n + 1 \in P
  <2>1. ASSUME NEW s \in SUBSET S, Cardinality(s) = n + 1 PROVE Bounds(s)
    <3>1. s # {}
      <4>1. n \in Nat /\ Cardinality({}) = 0
        BY FS_EmptySet
      <4>2. n + 1 # 0
        BY <4>1
      <4> QED BY <2>1, <4>1, <4>2
    <3> DEFINE y == Chosen(s)
    <3>2. y \in s /\ s \ {y} \in SUBSET S /\ Cardinality(s \ {y}) = n
      BY <2>1, <3>1, Peel
    <3>3. g[s] = f[y] + g[s \ {y}]
      BY <3>1 DEF Adds
    <3>4. Bounds(s \ {y})
      BY <1>2, <3>2
    <3>5. f[y] \in Nat /\ \A x \in s : f[x] \in Nat
      BY <3>2
    <3> HIDE DEF y, P
    <3>6. g[s] \in Nat /\ f[y] <= g[s] /\ g[s \ {y}] <= g[s]
      BY <3>2, <3>3, <3>4, <3>5
    <3>7. ASSUME NEW x \in s PROVE f[x] <= g[s]
      <4>1. CASE x = y
        BY <3>6, <4>1
      <4>2. CASE x \in s \ {y}
        <5>1. f[x] <= g[s \ {y}]
          BY <3>4, <4>2
        <5> QED BY <3>4, <3>5, <3>6, <5>1
      <4> QED BY <4>1, <4>2
    <3> QED BY <3>6, <3>7
  <2> QED BY <2>1
<1>3. P = Nat
  <2> HIDE DEF P
  <2>1. P \in SUBSET Nat
    BY DEF P
  <2> QED BY <1>1, <1>2, <2>1, AllNumbers
<1>4. Cardinality(S) \in P
  BY <1>3, FS_CardinalityType
<1> QED BY <1>4

(* The sum that MapThenSumSet takes over a finite set is a number, and no less than each
   of the numbers it adds up. *)
LEMMA SumIsAbove ==
  ASSUME NEW S, IsFiniteSet(S), NEW f \in [S -> Nat]
  PROVE  /\ MapThenSumSet(LAMBDA x : f[x], S) \in Nat
         /\ \A x \in S : f[x] <= MapThenSumSet(LAMBDA y : f[y], S)
<1> DEFINE Sum(g) == g = [s \in SUBSET S |->
                            IF s = {} THEN 0 ELSE f[Chosen(s)] + g[s \ {Chosen(s)}]]
           total == CHOOSE g : Sum(g)
<1>1. \E g : Sum(g)
  <2>1. PICK g \in [SUBSET S -> Nat] : Adds(g, f, SUBSET S)
    BY SumsExist
  <2>2. Sum(g)
    BY <2>1 DEF Adds
  <2> QED BY <2>2
<1>2. Sum(total)
  BY <1>1
<1>3. MapThenSumSet(LAMBDA x : f[x], S) = total[S]
  BY DEF MapThenSumSet, MapThenFoldSet, Chosen
<1>4. Adds(total, f, SUBSET S)
  <2> HIDE DEF total
  <2> QED BY <1>2 DEF Adds
<1> HIDE DEF total
<1> QED BY <1>3, <1>4, SumsAreAbove
================================================================================
