----------------------------- MODULE FiniteSums -----------------------------
(* Sums over finite sets, and least and greatest elements: the lemmas the   *)
(* proofs about money share.                                                *)
EXTENDS Integers, FiniteSets, FiniteSetTheorems, WellFoundedInduction, TLAPS

(* Sums over finite sets.  The folds of the community modules take one      *)
(* element out after the other; g gives what each of them adds.             *)
Taken(s) == CHOOSE x \in s : TRUE
Sums(g, S, F) == F = [s \in SUBSET S |-> IF s = {} THEN 0 ELSE g[Taken(s)] + F[s \ {Taken(s)}]]
Sum(g, S) == (CHOOSE F : Sums(g, S, F))[S]

(* A set of subsets that has every set whose smaller sets it has is whole.  *)
LEMMA AllSubsets ==
  ASSUME NEW S, IsFiniteSet(S), NEW T,
         \A s \in SUBSET S : (\A x \in s : s \ {x} \in T) => s \in T
  PROVE  SUBSET S \subseteq T
  <1> SUFFICES ASSUME NEW u \in SUBSET S, u \notin T PROVE FALSE
    OBVIOUS
  <1> DEFINE bad == {s \in SUBSET S : s \notin T}
  <1>1. bad \subseteq FiniteSubsetsOf(S) /\ bad # {}
    BY FS_Subset DEF FiniteSubsetsOf
  <1>2. PICK s \in bad : \A r \in bad : ~(<<r, s>> \in StrictSubsetOrdering(S))
    <2> HIDE DEF bad
    <2> QED BY <1>1, FS_StrictSubsetOrderingWellFounded, WFMin
  <1>3. PICK x \in s : s \ {x} \notin T
    OBVIOUS
  <1>4. s \ {x} \in bad /\ <<s \ {x}, s>> \in StrictSubsetOrdering(S)
    BY <1>1, <1>3, FS_Subset DEF StrictSubsetOrdering, FiniteSubsetsOf
  <1> QED BY <1>2, <1>4

(* The recursion defines a value for every subset, by the size of subsets.  *)
LEMMA SumsExist ==
  ASSUME NEW S, IsFiniteSet(S), NEW g
  PROVE  \E F : Sums(g, S, F)
  <1> DEFINE Below(t) == {s \in SUBSET S : Cardinality(s) <= t}
             Next_(F, s) == IF s = {} THEN 0 ELSE g[Taken(s)] + F[s \ {Taken(s)}]
             Upto(F, t) == F = [s \in Below(t) |-> Next_(F, s)]
             T == {u \in SUBSET S : \E F : Upto(F, Cardinality(u))}
  <1>1. \A s \in SUBSET S : IsFiniteSet(s) /\ Cardinality(s) \in Nat
    BY FS_Subset, FS_CardinalityType
  <1>2. ASSUME NEW s \in SUBSET S, s # {}
        PROVE  /\ Taken(s) \in s /\ s \ {Taken(s)} \in SUBSET S
               /\ Cardinality(s \ {Taken(s)}) = Cardinality(s) - 1
    <2>1. Taken(s) \in s
      BY <1>2 DEF Taken
    <2> QED BY <1>1, <2>1, FS_RemoveElement
  <1>3. ASSUME NEW u \in SUBSET S, \A x \in u : u \ {x} \in T
        PROVE  u \in T
    <2>1. CASE u = {}
      <3> DEFINE F == [s \in Below(0) |-> 0]
      <3>1. Cardinality(u) = 0 /\ \A s \in Below(0) : s = {}
        BY <1>1, <2>1, FS_EmptySet
      <3>2. Upto(F, 0)
        BY <3>1
      <3>3. Upto(F, Cardinality(u))
        BY <3>1, <3>2
      <3> HIDE DEF Upto, F
      <3> QED BY <3>3
    <2>2. CASE u # {}
      <3> DEFINE n == Cardinality(u)
      <3>1. n \in Nat /\ n # 0 /\ Cardinality(u \ {Taken(u)}) = n - 1
        BY <1>1, <1>2, <2>2, FS_EmptySet
      <3>2. PICK F : Upto(F, n - 1)
        <4>1. u \ {Taken(u)} \in T
          BY <1>2, <1>3, <2>2
        <4> HIDE DEF Upto, n
        <4>2. PICK F : Upto(F, Cardinality(u \ {Taken(u)}))
          BY <4>1
        <4> QED BY <3>1, <4>2
      <3> DEFINE G == [s \in Below(n) |-> Next_(F, s)]
      <3>3. ASSUME NEW s \in Below(n)
            PROVE  Next_(F, s) = Next_(G, s)
        <4>1. CASE s = {}
          BY <4>1
        <4>2. CASE s # {}
          <5> DEFINE r == s \ {Taken(s)}
          <5>1. r \in Below(n - 1) /\ r \in Below(n)
            BY <1>1, <1>2, <3>1, <4>2
          <5>2. F[r] = Next_(F, r)
            BY <3>2, <5>1
          <5>3. G[r] = Next_(F, r)
            BY <5>1
          <5> QED BY <4>2, <5>2, <5>3
        <4> QED BY <4>1, <4>2
      <3>4. Upto(G, n)
        BY <3>3
      <3> QED BY <3>4
    <2> QED BY <2>1, <2>2
  <1>4. SUBSET S \subseteq T
    <2> HIDE DEF T
    <2> QED BY <1>3, AllSubsets
  <1>5. PICK F : Upto(F, Cardinality(S))
    BY <1>4
  <1>6. Below(Cardinality(S)) = SUBSET S
    BY FS_Subset
  <1>7. Sums(g, S, F)
    BY <1>5, <1>6 DEF Sums
  <1> QED BY <1>7

LEMMA SumsAreInt ==
  ASSUME NEW S, IsFiniteSet(S), NEW g, \A x \in S : g[x] \in Int, NEW F, Sums(g, S, F)
  PROVE  \A s \in SUBSET S : F[s] \in Int
  <1> DEFINE T == {s \in SUBSET S : F[s] \in Int}
  <1>1. ASSUME NEW s \in SUBSET S, \A x \in s : s \ {x} \in T
        PROVE  s \in T
    <2>1. F[s] = IF s = {} THEN 0 ELSE g[Taken(s)] + F[s \ {Taken(s)}]
      BY DEF Sums
    <2>2. CASE s = {}
      BY <2>1, <2>2
    <2>3. CASE s # {}
      <3>1. Taken(s) \in s
        BY <2>3 DEF Taken
      <3>2. g[Taken(s)] \in Int /\ F[s \ {Taken(s)}] \in Int
        BY <1>1, <3>1
      <3> QED BY <2>1, <2>3, <3>2
    <2> QED BY <2>2, <2>3
  <1>2. SUBSET S \subseteq T
    <2> HIDE DEF T
    <2> QED BY <1>1, AllSubsets
  <1> QED BY <1>2

(* Whatever the order: every element of a set can be the one taken first.   *)
LEMMA SumsTake ==
  ASSUME NEW S, IsFiniteSet(S), NEW g, \A x \in S : g[x] \in Int, NEW F, Sums(g, S, F)
  PROVE  \A s \in SUBSET S : F[s] \in Int /\ \A x \in s : F[s] = g[x] + F[s \ {x}]
  <1> DEFINE T == {s \in SUBSET S : F[s] \in Int /\ \A x \in s : F[s] = g[x] + F[s \ {x}]}
  <1>1. ASSUME NEW s \in SUBSET S, \A x \in s : s \ {x} \in T
        PROVE  s \in T
    <2>1. F[s] = IF s = {} THEN 0 ELSE g[Taken(s)] + F[s \ {Taken(s)}]
      BY DEF Sums
    <2>2. CASE s = {}
      BY <2>1, <2>2
    <2>3. CASE s # {}
      <3> DEFINE p == Taken(s)
      <3>1. p \in s
        BY <2>3 DEF Taken
      <3> HIDE DEF p
      <3>2. F[s] = g[p] + F[s \ {p}] /\ F[s \ {p}] \in Int /\ g[p] \in Int
        BY <1>1, <2>1, <2>3, <3>1 DEF p
      <3>3. ASSUME NEW x \in s, x # p
            PROVE  F[s] = g[x] + F[s \ {x}]
        <4>1. x \in s \ {p} /\ p \in s \ {x} /\ (s \ {p}) \ {x} = (s \ {x}) \ {p}
          BY <3>1, <3>3
        <4>2. F[s \ {p}] = g[x] + F[(s \ {p}) \ {x}]
          BY <1>1, <3>1, <4>1
        <4>3. F[s \ {x}] = g[p] + F[(s \ {x}) \ {p}] /\ F[s \ {x}] \in Int
          BY <1>1, <4>1
        <4>4. ((s \ {p}) \ {x}) \in SUBSET S /\ g[x] \in Int
          OBVIOUS
        <4>5. F[(s \ {p}) \ {x}] \in Int
          BY <4>4, SumsAreInt
        <4> DEFINE rest == F[(s \ {p}) \ {x}]
        <4>6. F[s \ {p}] = g[x] + rest /\ F[s \ {x}] = g[p] + rest /\ rest \in Int
          BY <4>1, <4>2, <4>3, <4>5
        <4> HIDE DEF rest
        <4> QED BY <3>2, <4>4, <4>6
      <3>4. F[s] \in Int
        BY <3>2
      <3> QED BY <3>2, <3>3, <3>4
    <2> QED BY <2>2, <2>3
  <1>2. SUBSET S \subseteq T
    <2> HIDE DEF T
    <2> QED BY <1>1, AllSubsets
  <1> QED BY <1>2

(* The value depends on what the elements add, not on the set around them.  *)
LEMMA SumsAgree ==
  ASSUME NEW S, IsFiniteSet(S), NEW R, S \subseteq R, NEW f, NEW g, \A x \in S : f[x] = g[x],
         NEW F, Sums(f, S, F), NEW G, Sums(g, R, G)
  PROVE  F[S] = G[S]
  <1> DEFINE T == {s \in SUBSET S : F[s] = G[s]}
  <1>1. ASSUME NEW s \in SUBSET S, \A x \in s : s \ {x} \in T
        PROVE  s \in T
    <2>1. /\ F[s] = IF s = {} THEN 0 ELSE f[Taken(s)] + F[s \ {Taken(s)}]
          /\ G[s] = IF s = {} THEN 0 ELSE g[Taken(s)] + G[s \ {Taken(s)}]
      BY DEF Sums
    <2>2. s # {} => Taken(s) \in s
      BY DEF Taken
    <2> QED BY <1>1, <2>1, <2>2
  <1>2. SUBSET S \subseteq T
    <2> HIDE DEF T
    <2> QED BY <1>1, AllSubsets
  <1> QED BY <1>2

LEMMA SumIs ==
  ASSUME NEW S, IsFiniteSet(S), NEW g
  PROVE  \E F : Sums(g, S, F) /\ Sum(g, S) = F[S]
  <1>1. \E F : Sums(g, S, F)
    BY SumsExist
  <1>2. Sums(g, S, CHOOSE F : Sums(g, S, F))
    BY <1>1
  <1> QED BY <1>2 DEF Sum

LEMMA SumOfNone == ASSUME NEW g PROVE Sum(g, {}) = 0
  <1>1. PICK F : Sums(g, {}, F) /\ Sum(g, {}) = F[{}]
    BY SumIs, FS_EmptySet
  <1> QED BY <1>1 DEF Sums

LEMMA SumTakes ==
  ASSUME NEW S, IsFiniteSet(S), NEW g, \A x \in S : g[x] \in Int
  PROVE  Sum(g, S) \in Int /\ \A x \in S : Sum(g, S) = g[x] + Sum(g, S \ {x})
  <1>1. PICK F : Sums(g, S, F) /\ Sum(g, S) = F[S]
    BY SumIs
  <1>2. F[S] \in Int /\ \A x \in S : F[S] = g[x] + F[S \ {x}]
    <2>1. S \in SUBSET S
      OBVIOUS
    <2>2. \A s \in SUBSET S : F[s] \in Int /\ \A x \in s : F[s] = g[x] + F[s \ {x}]
      BY <1>1, SumsTake
    <2> QED BY <2>1, <2>2
  <1>3. ASSUME NEW x \in S
        PROVE  F[S \ {x}] = Sum(g, S \ {x})
    <2>1. IsFiniteSet(S \ {x}) /\ S \ {x} \subseteq S
      BY FS_RemoveElement
    <2>2. PICK G : Sums(g, S \ {x}, G) /\ Sum(g, S \ {x}) = G[S \ {x}]
      BY <2>1, SumIs
    <2> QED BY <1>1, <2>1, <2>2, SumsAgree
  <1> QED BY <1>1, <1>2, <1>3

LEMMA SumSame ==
  ASSUME NEW S, IsFiniteSet(S), NEW f, NEW g, \A x \in S : f[x] = g[x]
  PROVE  Sum(f, S) = Sum(g, S)
  <1>1. PICK F : Sums(f, S, F) /\ Sum(f, S) = F[S]
    BY SumIs
  <1>2. PICK G : Sums(g, S, G) /\ Sum(g, S) = G[S]
    BY SumIs
  <1> QED BY <1>1, <1>2, SumsAgree

LEMMA SumPlus ==
  ASSUME NEW S, IsFiniteSet(S), NEW f, NEW g, NEW h,
         \A x \in S : f[x] \in Int /\ g[x] \in Int /\ h[x] = f[x] + g[x]
  PROVE  Sum(h, S) = Sum(f, S) + Sum(g, S)
  <1> DEFINE T == {s \in SUBSET S : Sum(h, s) = Sum(f, s) + Sum(g, s)}
  <1>1. ASSUME NEW s \in SUBSET S, \A x \in s : s \ {x} \in T
        PROVE  s \in T
    <2>1. CASE s = {}
      BY <2>1, SumOfNone
    <2>2. CASE s # {}
      <3>1. PICK x \in s : TRUE
        BY <2>2
      <3>2. f[x] \in Int /\ g[x] \in Int /\ h[x] = f[x] + g[x]
        OBVIOUS
      <3>3. IsFiniteSet(s) /\ IsFiniteSet(s \ {x})
        BY FS_Subset
      <3>4. \A y \in s : f[y] \in Int /\ g[y] \in Int /\ h[y] \in Int
        OBVIOUS
      <3>5. /\ Sum(f, s) = f[x] + Sum(f, s \ {x}) /\ Sum(g, s) = g[x] + Sum(g, s \ {x})
            /\ Sum(h, s) = h[x] + Sum(h, s \ {x})
        BY <3>1, <3>3, <3>4, SumTakes
      <3>6. Sum(f, s \ {x}) \in Int /\ Sum(g, s \ {x}) \in Int
        BY <3>3, <3>4, SumTakes
      <3>7. Sum(h, s \ {x}) = Sum(f, s \ {x}) + Sum(g, s \ {x})
        BY <1>1, <3>1
      <3>8. Sum(h, s) = Sum(f, s) + Sum(g, s)
        BY <3>2, <3>5, <3>6, <3>7
      <3> QED BY <3>8
    <2> QED BY <2>1, <2>2
  <1>2. SUBSET S \subseteq T
    <2> HIDE DEF T
    <2> QED BY <1>1, AllSubsets
  <1> QED BY <1>2

LEMMA SumSplit ==
  ASSUME NEW R, IsFiniteSet(R), NEW S, IsFiniteSet(S), R \cap S = {},
         NEW g, \A x \in R \cup S : g[x] \in Int
  PROVE  Sum(g, R \cup S) = Sum(g, R) + Sum(g, S)
  <1> DEFINE T == {s \in SUBSET S : Sum(g, R \cup s) = Sum(g, R) + Sum(g, s)}
  <1>1. ASSUME NEW s \in SUBSET S, \A x \in s : s \ {x} \in T
        PROVE  s \in T
    <2>1. CASE s = {}
      <3>1. R \cup s = R /\ Sum(g, s) = 0 /\ Sum(g, R) \in Int
        BY <2>1, SumOfNone, SumTakes
      <3> HIDE DEF T
      <3>2. Sum(g, R \cup s) = Sum(g, R)
        BY <3>1
      <3>3. Sum(g, R) = Sum(g, R) + Sum(g, s)
        BY <3>1
      <3> QED BY <3>2, <3>3 DEF T
    <2>2. CASE s # {}
      <3>1. PICK x \in s : TRUE
        BY <2>2
      <3>2. g[x] \in Int /\ (R \cup s) \ {x} = R \cup (s \ {x}) /\ x \in R \cup s
        BY <3>1
      <3>3. IsFiniteSet(s) /\ IsFiniteSet(s \ {x}) /\ IsFiniteSet(R \cup s)
        BY FS_Subset, FS_Union
      <3>4. \A y \in R \cup s : g[y] \in Int
        OBVIOUS
      <3>5. /\ Sum(g, s) = g[x] + Sum(g, s \ {x})
            /\ Sum(g, R \cup s) = g[x] + Sum(g, R \cup (s \ {x}))
        BY <3>1, <3>2, <3>3, <3>4, SumTakes
      <3>6. Sum(g, s \ {x}) \in Int /\ Sum(g, R) \in Int
        BY <3>3, <3>4, SumTakes
      <3>7. Sum(g, R \cup (s \ {x})) = Sum(g, R) + Sum(g, s \ {x})
        BY <1>1, <3>1
      <3>8. Sum(g, R \cup s) = Sum(g, R) + Sum(g, s)
        BY <3>2, <3>5, <3>6, <3>7
      <3> QED BY <3>8
    <2> QED BY <2>1, <2>2
  <1>2. SUBSET S \subseteq T
    <2> HIDE DEF T
    <2> QED BY <1>1, AllSubsets
  <1> QED BY <1>2

(* A sum that takes a chosen element out of each subset.                    *)
SumsBy(g, S, pick, F) ==
  F = [u \in SUBSET S |-> IF u = {} THEN 0 ELSE F[u \ {pick[u]}] + g[pick[u]]]

LEMMA SumsByChoice ==
  ASSUME NEW S, IsFiniteSet(S), NEW g, \A x \in S : g[x] \in Int,
         NEW pick, \A u \in SUBSET S : u # {} => pick[u] \in u
  PROVE  /\ \E F : SumsBy(g, S, pick, F)
         /\ \A F : SumsBy(g, S, pick, F) => F[S] = Sum(g, S)
  <1>3. PICK G : Sums(g, S, G) /\ Sum(g, S) = G[S]
    BY SumIs
  <1>4. \A u \in SUBSET S : G[u] \in Int /\ \A x \in u : G[u] = g[x] + G[u \ {x}]
    BY <1>3, SumsTake
  <1>5. ASSUME NEW u \in SUBSET S
        PROVE  G[u] = IF u = {} THEN 0 ELSE G[u \ {pick[u]}] + g[pick[u]]
    <2>1. CASE u = {}
      BY <1>3, <2>1 DEF Sums
    <2>2. CASE u # {}
      <3>1. PICK x \in u : x = pick[u]
        BY <2>2
      <3>2. G[u] = g[x] + G[u \ {x}] /\ G[u \ {x}] \in Int /\ g[x] \in Int
        BY <1>4, <3>1
      <3>3. G[u] = G[u \ {x}] + g[x]
        BY <3>2
      <3> QED BY <2>2, <3>1, <3>3
    <2> QED BY <2>1, <2>2
  <1>6. SumsBy(g, S, pick, G)
    <2>1. G = [u \in SUBSET S |-> G[u]]
      BY <1>3 DEF Sums
    <2> QED BY <1>5, <2>1 DEF SumsBy
  <1>7. ASSUME NEW F, SumsBy(g, S, pick, F)
        PROVE  F[S] = Sum(g, S)
    <2> DEFINE T == {u \in SUBSET S : F[u] = G[u]}
    <2>1. ASSUME NEW u \in SUBSET S, \A x \in u : u \ {x} \in T
          PROVE  u \in T
      <3>1. F[u] = IF u = {} THEN 0 ELSE F[u \ {pick[u]}] + g[pick[u]]
        BY <1>7 DEF SumsBy
      <3>2. u # {} => pick[u] \in u
        OBVIOUS
      <3> QED BY <1>5, <2>1, <3>1, <3>2
    <2>2. SUBSET S \subseteq T
      <3> HIDE DEF T
      <3> QED BY <2>1, AllSubsets
    <2>3. F[S] = G[S]
      BY <2>2
    <2> QED BY <1>3, <2>3
  <1> QED BY <1>6, <1>7

LEMMA SumOfZeros ==
  ASSUME NEW S, IsFiniteSet(S), NEW g, \A x \in S : g[x] = 0
  PROVE  Sum(g, S) = 0
  <1> DEFINE T == {s \in SUBSET S : Sum(g, s) = 0}
  <1>1. ASSUME NEW s \in SUBSET S, \A x \in s : s \ {x} \in T
        PROVE  s \in T
    <2>1. CASE s = {}
      BY <2>1, SumOfNone
    <2>2. CASE s # {}
      <3>1. PICK x \in s : TRUE
        BY <2>2
      <3>2. IsFiniteSet(s) /\ \A y \in s : g[y] \in Int
        BY FS_Subset
      <3>3. Sum(g, s) = g[x] + Sum(g, s \ {x})
        BY <3>2, SumTakes
      <3>4. Sum(g, s \ {x}) = 0 /\ g[x] = 0
        BY <1>1, <3>1
      <3> QED BY <3>3, <3>4
    <2> QED BY <2>1, <2>2
  <1>2. SUBSET S \subseteq T
    <2> HIDE DEF T
    <2> QED BY <1>1, AllSubsets
  <1> QED BY <1>2

LEMMA SumIsNat ==
  ASSUME NEW S, IsFiniteSet(S), NEW g, \A x \in S : g[x] \in Nat
  PROVE  Sum(g, S) \in Nat
  <1> DEFINE T == {s \in SUBSET S : Sum(g, s) \in Nat}
  <1>1. ASSUME NEW s \in SUBSET S, \A x \in s : s \ {x} \in T
        PROVE  s \in T
    <2>1. CASE s = {}
      BY <2>1, SumOfNone
    <2>2. CASE s # {}
      <3>1. PICK x \in s : TRUE
        BY <2>2
      <3>2. IsFiniteSet(s) /\ \A y \in s : g[y] \in Int
        BY FS_Subset
      <3>3. Sum(g, s) = g[x] + Sum(g, s \ {x})
        BY <3>2, SumTakes
      <3>4. Sum(g, s \ {x}) \in Nat /\ g[x] \in Nat
        BY <1>1, <3>1
      <3> QED BY <3>3, <3>4
    <2> QED BY <2>1, <2>2
  <1>2. SUBSET S \subseteq T
    <2> HIDE DEF T
    <2> QED BY <1>1, AllSubsets
  <1> QED BY <1>2

(* One element that adds something, all the others nothing.                 *)
LEMMA SumOfOne ==
  ASSUME NEW S, IsFiniteSet(S), NEW g, NEW x \in S, g[x] \in Int, \A y \in S : y # x => g[y] = 0
  PROVE  Sum(g, S) = g[x]
  <1>1. \A y \in S : g[y] \in Int
    OBVIOUS
  <1>2. Sum(g, S) = g[x] + Sum(g, S \ {x})
    BY <1>1, SumTakes
  <1>3. IsFiniteSet(S \ {x}) /\ \A y \in S \ {x} : g[y] = 0
    BY FS_RemoveElement
  <1>4. Sum(g, S \ {x}) = 0
    BY <1>3, SumOfZeros
  <1> QED BY <1>2, <1>4

(* A sum split by class: of is the class of an element.                     *)
Part(g, of, S, r) == [x \in S |-> IF of[x] = r THEN g[x] ELSE 0]

LEMMA SumByClass ==
  ASSUME NEW S, IsFiniteSet(S), NEW R, IsFiniteSet(R), NEW of, \A x \in S : of[x] \in R,
         NEW g, \A x \in S : g[x] \in Int
  PROVE  Sum([r \in R |-> Sum(Part(g, of, S, r), S)], R) = Sum(g, S)
  <1> DEFINE F(u) == [r \in R |-> Sum(Part(g, of, S, r), u)]
             T == {u \in SUBSET S : Sum(F(u), R) = Sum(g, u)}
  <1>1. ASSUME NEW u \in SUBSET S, \A x \in u : u \ {x} \in T
        PROVE  u \in T
    <2>1. CASE u = {}
      <3>1. \A r \in R : F(u)[r] = 0
        BY <2>1, SumOfNone
      <3>2. Sum(F(u), R) = 0
        <4> HIDE DEF F
        <4> QED BY <3>1, SumOfZeros
      <3> QED BY <2>1, <3>2, SumOfNone
    <2>2. CASE u # {}
      <3>1. PICK x \in u : TRUE
        BY <2>2
      <3> DEFINE v == u \ {x}
                 one == [r \in R |-> IF of[x] = r THEN g[x] ELSE 0]
      <3>2. IsFiniteSet(u) /\ IsFiniteSet(v) /\ v \in SUBSET S /\ g[x] \in Int /\ of[x] \in R
        BY FS_Subset
      <3>3. ASSUME NEW r \in R
            PROVE  F(u)[r] = one[r] + F(v)[r] /\ one[r] \in Int /\ F(v)[r] \in Int
        <4> DEFINE h == Part(g, of, S, r)
        <4>1. (\A y \in u : h[y] \in Int) /\ h[x] = one[r]
          BY DEF Part
        <4>2. \A y \in v : h[y] \in Int
          BY <4>1
        <4> HIDE DEF h, v, one
        <4>3. Sum(h, u) = h[x] + Sum(h, v)
          BY <3>2, <4>1, SumTakes DEF v
        <4>4. Sum(h, v) \in Int
          BY <3>2, <4>2, SumTakes
        <4>5. h[x] \in Int
          BY <4>1
        <4> QED BY <4>1, <4>3, <4>4, <4>5 DEF h
      <3>4. Sum(F(u), R) = Sum(one, R) + Sum(F(v), R)
        <4> HIDE DEF F, one, v
        <4> QED BY <3>3, SumPlus
      <3>5. Sum(one, R) = g[x]
        <4>1. one[of[x]] = g[x] /\ \A r \in R : r # of[x] => one[r] = 0
          BY <3>2
        <4> HIDE DEF one
        <4> QED BY <3>2, <4>1, SumOfOne
      <3>6. Sum(F(v), R) = Sum(g, v)
        BY <1>1, <3>1
      <3>7. Sum(g, u) = g[x] + Sum(g, v)
        <4>1. \A y \in u : g[y] \in Int
          OBVIOUS
        <4> QED BY <3>2, <4>1, SumTakes
      <3> HIDE DEF F, one, v
      <3> QED BY <3>4, <3>5, <3>6, <3>7
    <2> QED BY <2>1, <2>2
  <1>2. SUBSET S \subseteq T
    <2> HIDE DEF T
    <2> QED BY <1>1, AllSubsets
  <1>3. Sum(F(S), R) = Sum(g, S)
    BY <1>2
  <1> QED BY <1>3

-----------------------------------------------------------------------------
(* Folds that take a chosen element out of each subset; op gives the next   *)
(* value from the one so far and the element taken.                         *)
Folded(op, base, S, pick, F) ==
  F = [u \in SUBSET S |-> IF u = {} THEN base ELSE op[<<F[u \ {pick[u]}], pick[u]>>]]

LEMMA FoldsExist ==
  ASSUME NEW S, IsFiniteSet(S), NEW op, NEW base,
         NEW pick, \A u \in SUBSET S : u # {} => pick[u] \in u
  PROVE  \E F : Folded(op, base, S, pick, F)
  <1> DEFINE Below(t) == {s \in SUBSET S : Cardinality(s) <= t}
             Next_(F, s) == IF s = {} THEN base ELSE op[<<F[s \ {pick[s]}], pick[s]>>]
             Upto(F, t) == F = [s \in Below(t) |-> Next_(F, s)]
             T == {u \in SUBSET S : \E F : Upto(F, Cardinality(u))}
  <1>1. \A s \in SUBSET S : IsFiniteSet(s) /\ Cardinality(s) \in Nat
    BY FS_Subset, FS_CardinalityType
  <1>2. ASSUME NEW s \in SUBSET S, s # {}
        PROVE  /\ pick[s] \in s /\ s \ {pick[s]} \in SUBSET S
               /\ Cardinality(s \ {pick[s]}) = Cardinality(s) - 1
    <2>1. pick[s] \in s
      BY <1>2
    <2> QED BY <1>1, <2>1, FS_RemoveElement
  <1>3. ASSUME NEW u \in SUBSET S, \A x \in u : u \ {x} \in T
        PROVE  u \in T
    <2>1. CASE u = {}
      <3> DEFINE F == [s \in Below(0) |-> base]
      <3>1. Cardinality(u) = 0 /\ \A s \in Below(0) : s = {}
        BY <1>1, <2>1, FS_EmptySet
      <3>2. Upto(F, 0)
        BY <3>1
      <3>3. Upto(F, Cardinality(u))
        BY <3>1, <3>2
      <3> HIDE DEF Upto, F
      <3> QED BY <3>3
    <2>2. CASE u # {}
      <3> DEFINE n == Cardinality(u)
      <3>1. n \in Nat /\ n # 0 /\ Cardinality(u \ {pick[u]}) = n - 1
        BY <1>1, <1>2, <2>2, FS_EmptySet
      <3>2. PICK F : Upto(F, n - 1)
        <4>1. u \ {pick[u]} \in T
          BY <1>2, <1>3, <2>2
        <4> HIDE DEF Upto, n
        <4>2. PICK F : Upto(F, Cardinality(u \ {pick[u]}))
          BY <4>1
        <4> QED BY <3>1, <4>2
      <3> DEFINE G == [s \in Below(n) |-> Next_(F, s)]
      <3>3. ASSUME NEW s \in Below(n)
            PROVE  Next_(F, s) = Next_(G, s)
        <4>1. CASE s = {}
          BY <4>1
        <4>2. CASE s # {}
          <5> DEFINE r == s \ {pick[s]}
          <5>1. r \in Below(n - 1) /\ r \in Below(n)
            BY <1>1, <1>2, <3>1, <4>2
          <5>2. F[r] = Next_(F, r)
            BY <3>2, <5>1
          <5>3. G[r] = Next_(F, r)
            BY <5>1
          <5> QED BY <4>2, <5>2, <5>3
        <4> QED BY <4>1, <4>2
      <3>4. Upto(G, n)
        BY <3>3
      <3> QED BY <3>4
    <2> QED BY <2>1, <2>2
  <1>4. SUBSET S \subseteq T
    <2> HIDE DEF T
    <2> QED BY <1>3, AllSubsets
  <1>5. PICK F : Upto(F, Cardinality(S))
    BY <1>4
  <1>6. Below(Cardinality(S)) = SUBSET S
    BY FS_Subset
  <1>7. Folded(op, base, S, pick, F)
    BY <1>5, <1>6 DEF Folded
  <1> QED BY <1>7

(* What each step keeps, from the values allowed for the elements so far to *)
(* those allowed with its own, holds of the whole.                          *)
LEMMA FoldsKeep ==
  ASSUME NEW S, IsFiniteSet(S), NEW pick, \A u \in SUBSET S : u # {} => pick[u] \in u,
         NEW B, NEW F, F[{}] \in B[{}],
         \A u \in SUBSET S :
           u # {} /\ F[u \ {pick[u]}] \in B[u \ {pick[u]}] => F[u] \in B[u]
  PROVE  \A u \in SUBSET S : F[u] \in B[u]
  <1> DEFINE T == {u \in SUBSET S : F[u] \in B[u]}
  <1>1. ASSUME NEW u \in SUBSET S, \A x \in u : u \ {x} \in T
        PROVE  u \in T
    <2>1. CASE u = {}
      BY <2>1
    <2>2. CASE u # {}
      BY <1>1, <2>2
    <2> QED BY <2>1, <2>2
  <1>2. SUBSET S \subseteq T
    <2> HIDE DEF T
    <2> QED BY <1>1, AllSubsets
  <1> QED BY <1>2

-----------------------------------------------------------------------------
(* Least and greatest numbers, and images.                                  *)
LEMMA LeastExists ==
  ASSUME NEW S, S \subseteq Nat, S # {}
  PROVE  \E x \in S : \A y \in S : x <= y
  <1>1. PICK x \in S : \A y \in Nat : y \in S => <<y, x>> \notin OpToRel(<, Nat)
    BY WFMin, NatLessThanWellFounded, Zenon
  <1>2. \A y \in Nat : y < x => <<y, x>> \in OpToRel(<, Nat)
    BY Zenon DEF OpToRel
  <1>3. \A y \in S : ~(y < x)
    BY <1>1, <1>2, Zenon
  <1> QED BY <1>3

LEMMA GreatestExists ==
  ASSUME NEW S, S \subseteq Nat, S # {}, NEW n \in Nat, \A x \in S : x <= n
  PROVE  \E x \in S : \A y \in S : y <= x
  <1> DEFINE down == {n - x : x \in S}
  <1>1. down \subseteq Nat /\ down # {}
    <2>1. \A x \in S : n - x \in Nat
      OBVIOUS
    <2>2. \E x \in S : n - x \in down
      OBVIOUS
    <2> QED BY <2>1, <2>2
  <1>2. PICK d \in down : \A e \in down : d <= e
    <2> HIDE DEF down
    <2> QED BY <1>1, LeastExists
  <1>3. PICK x \in S : d = n - x
    OBVIOUS
  <1>4. \A y \in S : n - y \in down
    OBVIOUS
  <1>5. \A y \in S : y <= x
    BY <1>2, <1>3, <1>4
  <1> QED BY <1>5

LEMMA ImageIsFinite ==
  ASSUME NEW S, IsFiniteSet(S), NEW f
  PROVE  IsFiniteSet({f[x] : x \in S})
  <1> DEFINE T == {f[x] : x \in S}
             g == [x \in S |-> f[x]]
  <1>1. g \in Surjection(S, T)
    BY DEF Surjection
  <1> HIDE DEF T, g
  <1>2. IsFiniteSet(T)
    BY <1>1, FS_Surjection
  <1> QED BY <1>2 DEF T

LEMMA Intervals ==
  ASSUME NEW n \in Nat
  PROVE  /\ IsFiniteSet(0..n - 1) /\ Cardinality(0..n - 1) = n
         /\ IsFiniteSet(1..n) /\ Cardinality(1..n) = n
  <1>1. n - 1 \in Int /\ n \in Int /\ 0 \in Int /\ 1 \in Int
    OBVIOUS
  <1>2. (IF 0 > n - 1 THEN 0 ELSE n - 1 - 0 + 1) = n /\ (IF 1 > n THEN 0 ELSE n - 1 + 1) = n
    OBVIOUS
  <1>3. IsFiniteSet(0..n - 1) /\ Cardinality(0..n - 1) = IF 0 > n - 1 THEN 0 ELSE n - 1 - 0 + 1
    BY <1>1, FS_Interval
  <1>4. IsFiniteSet(1..n) /\ Cardinality(1..n) = IF 1 > n THEN 0 ELSE n - 1 + 1
    BY <1>1, FS_Interval
  <1> QED BY <1>2, <1>3, <1>4

LEMMA TimesGrows ==
  ASSUME NEW j \in Nat, NEW k \in Nat, j <= k, NEW step \in Nat
  PROVE  j * step <= k * step /\ j * step \in Nat /\ k * step \in Nat
  <1>1. PICK d \in Nat : k = j + d
    <2>1. k - j \in Nat /\ k = j + (k - j)
      OBVIOUS
    <2> QED BY <2>1
  <1>2. k * step = j * step + d * step
    BY <1>1
  <1>3. j * step \in Nat /\ d * step \in Nat
    OBVIOUS
  <1> QED BY <1>2, <1>3
=============================================================================
