-------------------------------- MODULE Sums --------------------------------
(***************************************************************************)
(* What SumFunctionOnSet of the Functions module computes, for any finite  *)
(* set.  The sum is a fold over subsets in an order nobody knows; here it  *)
(* is shown to exist, to be a number, and not to depend on that order, and *)
(* from that the laws that the proofs about the policy use.                *)
(*                                                                         *)
(* Induction is over sets of sets: a set of subsets that holds T whenever  *)
(* it holds every smaller one holds them all.                              *)
(***************************************************************************)
EXTENDS FiniteSetTheorems, TLAPS

\* A set of subsets of S that has each of them once it has the smaller ones.
LEMMA SubsetInduction ==
    ASSUME NEW S, IsFiniteSet(S), NEW B \in SUBSET (SUBSET S),
           \A T \in SUBSET S : (\A U \in SUBSET T : U # T => U \in B) => T \in B
    PROVE  B = SUBSET S
  <1> SUFFICES ASSUME B # SUBSET S PROVE FALSE
    OBVIOUS
  <1> DEFINE bad == (SUBSET S) \ B
  <1>1. IsWellFoundedOn(StrictSubsetOrdering(S), SUBSET S)
    <2>1. FiniteSubsetsOf(S) = SUBSET S
      BY FS_FiniteSubsetsOfFinite
    <2>2. IsWellFoundedOn(StrictSubsetOrdering(S), FiniteSubsetsOf(S))
      BY FS_StrictSubsetOrderingWellFounded
    <2> QED  BY <2>1, <2>2
  <1>2. bad \subseteq SUBSET S /\ bad # {}
    OBVIOUS
  <1> HIDE DEF bad
  <1>3. PICK M \in bad : \A U \in bad : ~(<<U, M>> \in StrictSubsetOrdering(S))
    BY <1>1, <1>2, WFMin
  <1>4. M \in SUBSET S /\ M \notin B
    BY <1>3 DEF bad
  <1>5. ASSUME NEW U \in SUBSET M, U # M PROVE U \in B
    <2>1. <<U, M>> \in StrictSubsetOrdering(S)
      BY <1>4, <1>5 DEF StrictSubsetOrdering
    <2> QED  BY <1>3, <1>4, <2>1 DEF bad
  <1> QED  BY <1>4, <1>5

\* The same, one element at a time.
LEMMA ElementInduction ==
    ASSUME NEW S, IsFiniteSet(S), NEW B \in SUBSET (SUBSET S), {} \in B,
           \A T \in SUBSET S : \A x \in T : T \ {x} \in B => T \in B
    PROVE  B = SUBSET S
  <1>1. ASSUME NEW T \in SUBSET S, \A U \in SUBSET T : U # T => U \in B PROVE T \in B
    <2>1. CASE T = {}
      BY <2>1
    <2>2. CASE T # {}
      <3>1. PICK x \in T : TRUE
        BY <2>2
      <3>2. T \ {x} \in SUBSET T /\ T \ {x} # T
        BY <3>1
      <3>3. T \ {x} \in B
        BY <1>1, <3>2
      <3> QED  BY <3>1, <3>3
    <2> QED  BY <2>1, <2>2
  <1> QED  BY <1>1, SubsetInduction

-----------------------------------------------------------------------------
\* The fold's table of sums, one for each subset.
Pick(s) == CHOOSE x \in s : TRUE
Tabulates(g, f, S) ==
    g = [s \in SUBSET S |-> IF s = {} THEN 0 ELSE f[Pick(s)] + g[s \ {Pick(s)}]]

LEMMA SumIsTabulated ==
    ASSUME NEW f, NEW S
    PROVE  SumFunctionOnSet(f, S) = (CHOOSE g : Tabulates(g, f, S))[S]
  BY DEF SumFunctionOnSet, FoldFunctionOnSet, MapThenFoldSet, Tabulates, Pick

LEMMA Picked ==
    ASSUME NEW S, IsFiniteSet(S)
    PROVE  /\ Cardinality(S) \in Nat
           /\ Cardinality(S) = 0 <=> S = {}
           /\ S # {} => Pick(S) \in S /\ Cardinality(S \ {Pick(S)}) = Cardinality(S) - 1
  <1>1. Cardinality(S) \in Nat /\ (Cardinality(S) = 0 <=> S = {})
    BY FS_CardinalityType, FS_EmptySet
  <1>2. S # {} => Pick(S) \in S
    BY DEF Pick
  <1> QED  BY <1>1, <1>2, FS_RemoveElement

\* A table exists: it is filled by the size of the subsets.
LEMMA TableExists ==
    ASSUME NEW S, IsFiniteSet(S), NEW f, \A x \in S : f[x] \in Int
    PROVE  \E g \in [SUBSET S -> Int] : Tabulates(g, f, S)
  <1> DEFINE upTo(n) == {s \in SUBSET S : Cardinality(s) <= n}
             step(g, s) == IF s = {} THEN 0 ELSE f[Pick(s)] + g[s \ {Pick(s)}]
             filled(T) == \E g \in [upTo(Cardinality(T)) -> Int] :
                             \A s \in upTo(Cardinality(T)) : g[s] = step(g, s)
             B == {T \in SUBSET S : filled(T)}
  <1>0. \A s \in SUBSET S : IsFiniteSet(s) /\ Cardinality(s) \in Nat
                              /\ Cardinality(s) <= Cardinality(S)
    BY FS_Subset, FS_CardinalityType
  <1>1. {} \in B
    <2>1. Cardinality({}) = 0
      BY FS_EmptySet
    <2>2. upTo(0) = {{}}
      <3>1. ASSUME NEW s \in upTo(0) PROVE s = {}
        <4>1. IsFiniteSet(s) /\ Cardinality(s) \in Nat /\ Cardinality(s) <= 0
          BY <1>0, <3>1
        <4> QED  BY <4>1, FS_EmptySet
      <3>2. {} \in upTo(0)
        BY <2>1
      <3> HIDE DEF upTo
      <3> QED  BY <3>1, <3>2
    <2> DEFINE g == [s \in {{}} |-> 0]
    <2>3. g \in [upTo(Cardinality({})) -> Int] /\ \A s \in upTo(Cardinality({})) : g[s] = step(g, s)
      BY <2>1, <2>2
    <2> QED  BY <2>3
  <1>2. ASSUME NEW T \in SUBSET S, NEW x \in T, T \ {x} \in B PROVE T \in B
    <2> DEFINE n == Cardinality(T \ {x})
    <2>1. n \in Nat /\ Cardinality(T) = n + 1
      <3>1. IsFiniteSet(T) /\ Cardinality(T) \in Nat
        BY <1>0
      <3> QED  BY <1>0, <3>1, FS_RemoveElement
    <2>2. PICK g \in [upTo(n) -> Int] : \A s \in upTo(n) : g[s] = step(g, s)
      BY <1>2
    <2> DEFINE h == [s \in upTo(n + 1) |-> step(g, s)]
    <2> HIDE DEF n
    <2>3. ASSUME NEW s \in upTo(n + 1), s # {} PROVE s \ {Pick(s)} \in upTo(n) /\ Pick(s) \in S
      <3>1. IsFiniteSet(s) /\ Cardinality(s) <= n + 1
        BY <1>0
      <3>2. Pick(s) \in s /\ Cardinality(s) \in Nat /\ Cardinality(s \ {Pick(s)}) = Cardinality(s) - 1
        BY <2>3, <3>1, Picked
      <3>3. Cardinality(s \ {Pick(s)}) <= n
        BY <2>1, <3>1, <3>2
      <3> QED  BY <3>2, <3>3
    <2>4. \A s \in upTo(n) : h[s] = g[s] /\ s \in upTo(n + 1)
      <3>1. ASSUME NEW s \in upTo(n) PROVE s \in upTo(n + 1)
        <4>1. Cardinality(s) \in Nat /\ Cardinality(s) <= n
          BY <1>0
        <4>2. Cardinality(s) <= n + 1
          BY <2>1, <4>1
        <4> QED  BY <4>2
      <3> HIDE DEF upTo, step
      <3> QED  BY <2>2, <3>1
    <2>5. h \in [upTo(n + 1) -> Int]
      BY <2>2, <2>3
    <2>6. \A s \in upTo(n + 1) : h[s] = step(h, s)
      BY <2>3, <2>4
    <2> HIDE DEF h, upTo, step
    <2>7. filled(T)
      BY <2>1, <2>5, <2>6
    <2> QED  BY <2>7
  <1> HIDE DEF B
  <1>3. S \in B
    <2>1. B \in SUBSET (SUBSET S)
      BY DEF B
    <2>2. B = SUBSET S
      BY <1>1, <1>2, <2>1, ElementInduction
    <2> QED  BY <2>2
  <1>4. upTo(Cardinality(S)) = SUBSET S
    BY <1>0
  <1>5. PICK g \in [SUBSET S -> Int] : \A s \in SUBSET S : g[s] = step(g, s)
    BY <1>3, <1>4 DEF B
  <1> QED  BY <1>5 DEF Tabulates

\* The table of a set tells the sum over each of its subsets, and for those of a
\* function that agrees with this one.
LEMMA TableOfSums ==
    ASSUME NEW S, IsFiniteSet(S), NEW f, \A x \in S : f[x] \in Int,
           NEW g \in [SUBSET S -> Int], Tabulates(g, f, S),
           NEW T \in SUBSET S, NEW h, \A x \in T : h[x] = f[x]
    PROVE  SumFunctionOnSet(h, T) = g[T]
  <1> DEFINE k == CHOOSE t : Tabulates(t, h, T)
  <1>0. IsFiniteSet(T)
    BY FS_Subset
  <1>1. Tabulates(k, h, T)
    <2>1. \E t : Tabulates(t, h, T)
      BY <1>0, TableExists
    <2> QED  BY <2>1
  <1> HIDE DEF k
  <1> DEFINE B == {U \in SUBSET T : k[U] = g[U]}
  <1>2. ASSUME NEW U \in SUBSET T, \A V \in SUBSET U : V # U => V \in B PROVE U \in B
    <2>1. CASE U = {}
      BY <1>1, <2>1 DEF Tabulates
    <2>2. CASE U # {}
      <3>1. Pick(U) \in U
        BY <2>2 DEF Pick
      <3>2. U \ {Pick(U)} \in B
        BY <1>2, <3>1
      <3>3. k[U] = h[Pick(U)] + k[U \ {Pick(U)}]
        BY <1>1, <2>2 DEF Tabulates
      <3>4. g[U] = f[Pick(U)] + g[U \ {Pick(U)}]
        BY <2>2 DEF Tabulates
      <3> QED  BY <3>1, <3>2, <3>3, <3>4
    <2> QED  BY <2>1, <2>2
  <1>3. B \in SUBSET (SUBSET T)
    OBVIOUS
  <1>4. k[T] = g[T]
    <2> HIDE DEF B
    <2>1. B = SUBSET T
      BY <1>0, <1>2, <1>3, SubsetInduction
    <2> QED  BY <2>1 DEF B
  <1> QED  BY <1>4, SumIsTabulated DEF k
-----------------------------------------------------------------------------
\* The laws of a sum.  Whichever element is taken out, the rest is the same.
LEMMA SumLaws ==
    ASSUME NEW S, IsFiniteSet(S), NEW f, \A x \in S : f[x] \in Int
    PROVE  /\ SumFunctionOnSet(f, {}) = 0
           /\ SumFunctionOnSet(f, S) \in Int
           /\ \A x \in S : /\ SumFunctionOnSet(f, S \ {x}) \in Int
                           /\ SumFunctionOnSet(f, S) = f[x] + SumFunctionOnSet(f, S \ {x})
  <1>1. PICK g \in [SUBSET S -> Int] : Tabulates(g, f, S)
    BY TableExists
  <1>2. ASSUME NEW T \in SUBSET S PROVE SumFunctionOnSet(f, T) = g[T]
    <2>1. \A x \in T : f[x] = f[x]
      OBVIOUS
    <2> QED  BY <1>1, <2>1, TableOfSums
  <1> DEFINE B == {T \in SUBSET S : \A x \in T : g[T] = f[x] + g[T \ {x}]}
  <1>3. ASSUME NEW T \in SUBSET S, \A U \in SUBSET T : U # T => U \in B, NEW x \in T
        PROVE  g[T] = f[x] + g[T \ {x}]
    <2> DEFINE y == Pick(T)
    <2>1. y \in T
      BY <1>3 DEF Pick
    <2>2. g[T] = f[y] + g[T \ {y}]
      BY <1>1, <1>3 DEF Tabulates
    <2>3. CASE x = y
      BY <2>2, <2>3
    <2>4. CASE x # y
      <3> HIDE DEF y
      <3>1. T \ {y} \in B /\ T \ {x} \in B
        BY <1>3, <2>1
      <3>2. x \in T \ {y} /\ y \in T \ {x} /\ (T \ {y}) \ {x} = (T \ {x}) \ {y}
        BY <2>1, <2>4
      <3>3. g[T \ {y}] = f[x] + g[(T \ {y}) \ {x}] /\ g[T \ {x}] = f[y] + g[(T \ {x}) \ {y}]
        BY <3>1, <3>2
      <3> DEFINE r == g[(T \ {y}) \ {x}]
      <3>4. r \in Int /\ f[x] \in Int /\ f[y] \in Int /\ g[(T \ {x}) \ {y}] = r
        BY <1>1, <2>1, <3>2
      <3> HIDE DEF r
      <3>5. g[T \ {y}] = f[x] + r /\ g[T \ {x}] = f[y] + r
        BY <3>3, <3>4 DEF r
      <3>6. f[y] + (f[x] + r) = f[x] + (f[y] + r)
        BY <3>4
      <3> QED  BY <2>2, <3>5, <3>6
    <2> QED  BY <2>3, <2>4
  <1>4. S \in B
    <2>1. B \in SUBSET (SUBSET S)
      OBVIOUS
    <2>2. \A T \in SUBSET S : (\A U \in SUBSET T : U # T => U \in B) => T \in B
      BY <1>3
    <2> HIDE DEF B
    <2>3. B = SUBSET S
      BY <2>1, <2>2, SubsetInduction
    <2> QED  BY <2>3
  <1>5. g[{}] = 0
    BY <1>1 DEF Tabulates
  <1> QED  BY <1>1, <1>2, <1>4, <1>5

\* The same laws, for every subset.
Integral(f, S) == \A x \in S : f[x] \in Int
Summed(f, S) ==
    /\ SumFunctionOnSet(f, {}) = 0
    /\ \A T \in SUBSET S :
          /\ SumFunctionOnSet(f, T) \in Int
          /\ \A x \in T : SumFunctionOnSet(f, T) = f[x] + SumFunctionOnSet(f, T \ {x})

LEMMA SumOfSubset ==
    ASSUME NEW S, IsFiniteSet(S), NEW f, Integral(f, S)
    PROVE  Summed(f, S)
  <1>1. ASSUME NEW T \in SUBSET S
        PROVE  /\ SumFunctionOnSet(f, T) \in Int
               /\ \A x \in T : SumFunctionOnSet(f, T) = f[x] + SumFunctionOnSet(f, T \ {x})
    <2>1. IsFiniteSet(T) /\ \A x \in T : f[x] \in Int
      BY FS_Subset DEF Integral
    <2> QED  BY <2>1, SumLaws
  <1> QED  BY <1>1, SumLaws DEF Integral, Summed

\* A sum only looks at the members it is taken over.
LEMMA SumAgrees ==
    ASSUME NEW S, IsFiniteSet(S), NEW f, NEW h, \A x \in S : f[x] \in Int /\ h[x] = f[x]
    PROVE  SumFunctionOnSet(h, S) = SumFunctionOnSet(f, S)
  <1> DEFINE B == {T \in SUBSET S : SumFunctionOnSet(h, T) = SumFunctionOnSet(f, T)}
  <1>1. Integral(f, S) /\ Integral(h, S)
    BY DEF Integral
  <1>2. Summed(f, S) /\ Summed(h, S)
    BY <1>1, SumOfSubset
  <1>3. {} \in B
    BY <1>2 DEF Summed
  <1>4. ASSUME NEW T \in SUBSET S, NEW x \in T, T \ {x} \in B PROVE T \in B
    <2>1. T \ {x} \in SUBSET S /\ x \in S
      OBVIOUS
    <2> QED  BY <1>2, <1>4, <2>1 DEF Summed
  <1>5. B \in SUBSET (SUBSET S)
    OBVIOUS
  <1>6. B = SUBSET S
    <2> HIDE DEF B
    <2> QED  BY <1>3, <1>4, <1>5, ElementInduction
  <1> QED  BY <1>6

\* Sums keep the order of their terms.
LEMMA SumOrdered ==
    ASSUME NEW S, IsFiniteSet(S), NEW f, NEW h,
           \A x \in S : f[x] \in Int /\ h[x] \in Int /\ f[x] <= h[x]
    PROVE  SumFunctionOnSet(f, S) <= SumFunctionOnSet(h, S)
  <1> DEFINE B == {T \in SUBSET S : SumFunctionOnSet(f, T) <= SumFunctionOnSet(h, T)}
  <1>1. /\ Integral(f, S)
        /\ Integral(h, S)
    BY DEF Integral
  <1>2. Summed(f, S)
    BY <1>1, SumOfSubset
  <1>3. Summed(h, S)
    BY <1>1, SumOfSubset
  <1>4. {} \in B
    BY <1>2, <1>3 DEF Summed
  <1>5. ASSUME NEW T \in SUBSET S, NEW x \in T, T \ {x} \in B PROVE T \in B
    <2>1. T \ {x} \in SUBSET S /\ x \in S
      OBVIOUS
    <2> QED  BY <1>2, <1>3, <1>5, <2>1 DEF Summed
  <1>6. B \in SUBSET (SUBSET S)
    OBVIOUS
  <1>7. B = SUBSET S
    <2> HIDE DEF B
    <2> QED  BY <1>4, <1>5, <1>6, ElementInduction
  <1> QED  BY <1>7

\* A sum of naturals is one, is no less than the sum over fewer of them, and no
\* less than any of them.
LEMMA SumOfNats ==
    ASSUME NEW S, IsFiniteSet(S), NEW f, \A x \in S : f[x] \in Nat, NEW U \in SUBSET S
    PROVE  /\ SumFunctionOnSet(f, S) \in Nat
           /\ SumFunctionOnSet(f, U) <= SumFunctionOnSet(f, S)
           /\ \A x \in S : f[x] <= SumFunctionOnSet(f, S)
  <1> DEFINE B == {T \in SUBSET S :
                      /\ SumFunctionOnSet(f, T) \in Nat
                      /\ SumFunctionOnSet(f, T \cap U) <= SumFunctionOnSet(f, T)}
  <1>1. Integral(f, S)
    BY DEF Integral
  <1>2. Summed(f, S)
    BY <1>1, SumOfSubset
  <1>3. {} \in B
    <2>1. {} \cap U = {}
      OBVIOUS
    <2> QED  BY <1>2, <2>1 DEF Summed
  <1>4. ASSUME NEW T \in SUBSET S, NEW x \in T, T \ {x} \in B PROVE T \in B
    <2> DEFINE r == SumFunctionOnSet(f, T \ {x})
               u == SumFunctionOnSet(f, (T \ {x}) \cap U)
    <2>1. r \in Nat /\ u <= r /\ f[x] \in Nat /\ SumFunctionOnSet(f, T) = f[x] + r
      BY <1>2, <1>4 DEF Summed
    <2>2. u \in Int
      BY <1>2 DEF Summed
    <2>3. CASE x \in U
      <3>1. T \cap U \in SUBSET S /\ x \in T \cap U /\ (T \cap U) \ {x} = (T \ {x}) \cap U
        BY <2>3
      <3>2. SumFunctionOnSet(f, T \cap U) = f[x] + u
        BY <1>2, <3>1 DEF Summed
      <3> HIDE DEF r, u
      <3> QED  BY <2>1, <2>2, <3>2
    <2>4. CASE x \notin U
      <3>1. T \cap U = (T \ {x}) \cap U
        BY <2>4
      <3>2. SumFunctionOnSet(f, T \cap U) = u
        BY <3>1
      <3> HIDE DEF r, u
      <3> QED  BY <2>1, <2>2, <3>2
    <2> QED  BY <2>3, <2>4
  <1>5. B \in SUBSET (SUBSET S)
    OBVIOUS
  <1>6. B = SUBSET S
    <2> HIDE DEF B
    <2> QED  BY <1>3, <1>4, <1>5, ElementInduction
  <1>7. SumFunctionOnSet(f, S) \in Nat /\ SumFunctionOnSet(f, U) <= SumFunctionOnSet(f, S)
    <2>1. S \cap U = U
      OBVIOUS
    <2> QED  BY <1>6, <2>1
  <1>8. ASSUME NEW x \in S PROVE f[x] <= SumFunctionOnSet(f, S)
    <2>1. SumFunctionOnSet(f, S \ {x}) \in Nat
      BY <1>6
    <2>2. SumFunctionOnSet(f, S) = f[x] + SumFunctionOnSet(f, S \ {x}) /\ f[x] \in Nat
      BY <1>2 DEF Summed
    <2> QED  BY <2>1, <2>2
  <1> QED  BY <1>7, <1>8

\* A sum of combinations is the combination of the sums.
LEMMA SumLinear ==
    ASSUME NEW S, IsFiniteSet(S), NEW a \in Int, NEW b \in Int, NEW f, NEW h, NEW t,
           \A x \in S : f[x] \in Int /\ h[x] \in Int /\ t[x] = a * f[x] + b * h[x]
    PROVE  SumFunctionOnSet(t, S) = a * SumFunctionOnSet(f, S) + b * SumFunctionOnSet(h, S)
  <1> DEFINE F(T) == SumFunctionOnSet(f, T)
             H(T) == SumFunctionOnSet(h, T)
             B == {T \in SUBSET S : SumFunctionOnSet(t, T) = a * F(T) + b * H(T)}
  <1> HIDE DEF F, H
  <1>1. /\ Integral(f, S)
        /\ Integral(h, S)
        /\ Integral(t, S)
    BY DEF Integral
  <1>2. Summed(f, S)
    BY <1>1, SumOfSubset
  <1>3. Summed(h, S)
    BY <1>1, SumOfSubset
  <1>4. Summed(t, S)
    BY <1>1, SumOfSubset
  <1>5. {} \in B
    BY <1>2, <1>3, <1>4 DEF F, H, Summed
  <1>6. ASSUME NEW T \in SUBSET S, NEW x \in T, T \ {x} \in B PROVE T \in B
    <2> DEFINE F0 == F(T \ {x})
               H0 == H(T \ {x})
    <2>1. T \ {x} \in SUBSET S /\ x \in S
      OBVIOUS
    <2>2. F0 \in Int /\ H0 \in Int /\ f[x] \in Int /\ h[x] \in Int
      BY <1>1, <1>2, <1>3, <2>1 DEF F, H, Summed, Integral
    <2>3. F(T) = f[x] + F0 /\ H(T) = h[x] + H0
      BY <1>2, <1>3 DEF F, H, Summed
    <2>4. SumFunctionOnSet(t, T) = (a * f[x] + b * h[x]) + (a * F0 + b * H0)
      BY <1>4, <1>6, <2>1 DEF Summed
    <2> HIDE DEF F0, H0
    <2>5. (a * f[x] + b * h[x]) + (a * F0 + b * H0) = a * (f[x] + F0) + b * (h[x] + H0)
      <3>1. a * (f[x] + F0) = a * f[x] + a * F0
        BY <2>2
      <3>2. b * (h[x] + H0) = b * h[x] + b * H0
        BY <2>2
      <3>3. a * f[x] \in Int /\ a * F0 \in Int /\ b * h[x] \in Int /\ b * H0 \in Int
        BY <2>2
      <3> QED  BY <3>1, <3>2, <3>3
    <2> QED  BY <2>3, <2>4, <2>5
  <1>7. B \in SUBSET (SUBSET S)
    OBVIOUS
  <1>8. B = SUBSET S
    <2> HIDE DEF B
    <2> QED  BY <1>5, <1>6, <1>7, ElementInduction
  <1> QED  BY <1>8 DEF F, H

\* Adding up a one for each member of a set counts it.
LEMMA SumCounts ==
    ASSUME NEW S, IsFiniteSet(S), NEW U \in SUBSET S, NEW f,
           \A x \in S : f[x] = IF x \in U THEN 1 ELSE 0
    PROVE  SumFunctionOnSet(f, S) = Cardinality(U)
  <1> DEFINE B == {T \in SUBSET S : SumFunctionOnSet(f, T) = Cardinality(T \cap U)}
  <1>1. Integral(f, S)
    BY DEF Integral
  <1>2. Summed(f, S)
    BY <1>1, SumOfSubset
  <1>3. {} \in B
    <2>1. {} \cap U = {} /\ Cardinality({}) = 0
      BY FS_EmptySet
    <2> QED  BY <1>2, <2>1 DEF Summed
  <1>4. ASSUME NEW T \in SUBSET S, NEW x \in T, T \ {x} \in B PROVE T \in B
    <2>1. SumFunctionOnSet(f, T) = f[x] + Cardinality((T \ {x}) \cap U)
      BY <1>2, <1>4 DEF Summed
    <2>2. CASE x \in U
      <3>1. IsFiniteSet(T \cap U) /\ x \in T \cap U /\ (T \cap U) \ {x} = (T \ {x}) \cap U
        BY <2>2, FS_Subset
      <3>2. Cardinality(T \cap U) \in Nat
        BY <3>1, FS_CardinalityType
      <3>3. Cardinality((T \ {x}) \cap U) = Cardinality(T \cap U) - 1
        BY <3>1, FS_RemoveElement
      <3> QED  BY <2>1, <2>2, <3>2, <3>3
    <2>3. CASE x \notin U
      <3>1. T \cap U = (T \ {x}) \cap U
        BY <2>3
      <3>2. IsFiniteSet(T \cap U)
        BY FS_Subset
      <3>3. Cardinality(T \cap U) \in Nat
        BY <3>2, FS_CardinalityType
      <3> QED  BY <2>1, <2>3, <3>1, <3>3
    <2> QED  BY <2>2, <2>3
  <1>5. B \in SUBSET (SUBSET S)
    OBVIOUS
  <1>6. B = SUBSET S
    <2> HIDE DEF B
    <2> QED  BY <1>3, <1>4, <1>5, ElementInduction
  <1>7. S \cap U = U
    OBVIOUS
  <1> QED  BY <1>6, <1>7

\* Zeros do not count.
LEMMA SumOfRest ==
    ASSUME NEW S, IsFiniteSet(S), NEW U \in SUBSET S, NEW f, \A x \in S : f[x] \in Int,
           \A x \in S \ U : f[x] = 0
    PROVE  SumFunctionOnSet(f, S) = SumFunctionOnSet(f, U)
  <1> DEFINE B == {T \in SUBSET S : SumFunctionOnSet(f, T) = SumFunctionOnSet(f, T \cap U)}
  <1>1. Integral(f, S)
    BY DEF Integral
  <1>2. Summed(f, S)
    BY <1>1, SumOfSubset
  <1>3. {} \in B
    <2>1. {} \cap U = {}
      OBVIOUS
    <2> QED  BY <2>1
  <1>4. ASSUME NEW T \in SUBSET S, NEW x \in T, T \ {x} \in B PROVE T \in B
    <2>1. SumFunctionOnSet(f, T) = f[x] + SumFunctionOnSet(f, (T \ {x}) \cap U)
      BY <1>2, <1>4 DEF Summed
    <2>2. SumFunctionOnSet(f, (T \ {x}) \cap U) \in Int
      BY <1>2 DEF Summed
    <2>3. CASE x \in U
      <3>1. T \cap U \in SUBSET S /\ x \in T \cap U /\ (T \cap U) \ {x} = (T \ {x}) \cap U
        BY <2>3
      <3>2. SumFunctionOnSet(f, T \cap U) = f[x] + SumFunctionOnSet(f, (T \ {x}) \cap U)
        BY <1>2, <3>1 DEF Summed
      <3> QED  BY <2>1, <3>2
    <2>4. CASE x \notin U
      <3>1. T \cap U = (T \ {x}) \cap U /\ f[x] = 0
        BY <2>4
      <3>2. SumFunctionOnSet(f, T) = 0 + SumFunctionOnSet(f, T \cap U)
        BY <2>1, <3>1
      <3>3. SumFunctionOnSet(f, T \cap U) \in Int
        BY <1>2 DEF Summed
      <3> QED  BY <3>2, <3>3
    <2> QED  BY <2>3, <2>4
  <1>5. B \in SUBSET (SUBSET S)
    OBVIOUS
  <1>6. B = SUBSET S
    <2> HIDE DEF B
    <2> QED  BY <1>3, <1>4, <1>5, ElementInduction
  <1>7. S \cap U = U
    OBVIOUS
  <1> QED  BY <1>6, <1>7
=============================================================================
