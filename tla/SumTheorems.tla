----------------------------- MODULE SumTheorems -----------------------------
(***************************************************************************)
(* Facts about the sum of a function over a finite set, as MapThenSumSet   *)
(* of the community modules computes it: it adds up the elements in the    *)
(* order CHOOSE gives them.  The library's induction theorems take an      *)
(* operator and cannot be used; the induction here is on the smallest      *)
(* counterexample, which exists because < is well-founded on Nat.          *)
(***************************************************************************)
EXTENDS Integers, FiniteSetsExt, FiniteSetTheorems, WellFoundedInduction, TLAPS

\* The sum of g[x] over the elements x of U.
SumOver(g, U) == MapThenSumSet(LAMBDA x : g[x], U)

\* The recursive function that MapThenSumSet defines, for the subsets of U.
IsSum(F, g, U) ==
  F = [s \in SUBSET U |->
         IF s = {} THEN 0
         ELSE LET x == CHOOSE y \in s : TRUE IN g[x] + F[s \ {x}]]

LEMMA SmallestNat ==
  ASSUME NEW T, T \subseteq Nat, T # {}
  PROVE  \E x \in T : \A y \in T : ~(y < x)
<1> DEFINE R == OpToRel(<, Nat)
<1>1. IsWellFoundedOn(R, Nat)
  BY NatLessThanWellFounded
<1>2. \A x, y \in Nat : x < y => <<x, y>> \in R
  BY DEF OpToRel
<1> HIDE DEF R
<1>3. PICK x \in T : \A y \in T : ~(<<y, x>> \in R)
  BY <1>1, WFMin
<1>4. \A y \in T : ~(y < x)
  <2> TAKE y \in T
  <2>1. x \in Nat /\ y \in Nat
    OBVIOUS
  <2> QED BY <1>2, <1>3, <2>1
<1> QED BY <1>4

LEMMA NatInductionSet ==
  ASSUME NEW T, 0 \in T, \A n \in Nat : n \in T => n + 1 \in T
  PROVE  Nat \subseteq T
<1> SUFFICES ASSUME Nat \ T # {} PROVE FALSE
  OBVIOUS
<1>1. PICK x \in Nat \ T : \A y \in Nat \ T : ~(y < x)
  BY SmallestNat
<1>2. x # 0 /\ x \in Nat
  BY <1>1
<1>3. x - 1 \in Nat /\ x - 1 < x
  BY <1>2
<1>4. x - 1 \in T
  BY <1>1, <1>3
<1>5. (x - 1) + 1 \in T
  BY <1>3, <1>4
<1> QED BY <1>1, <1>2, <1>5

\* A family of subsets of a finite set that holds the empty set, and a set
\* whenever it holds what is left without one element, holds them all.
LEMMA SubsetInduction ==
  ASSUME NEW U, IsFiniteSet(U), NEW T, {} \in T,
         \A s \in SUBSET U : (s # {} /\ \A x \in s : s \ {x} \in T) => s \in T
  PROVE  SUBSET U \subseteq T
<1> DEFINE N == {n \in Nat : \A s \in SUBSET U : Cardinality(s) = n => s \in T}
<1>1. \A s \in SUBSET U : IsFiniteSet(s) /\ Cardinality(s) \in Nat
  BY FS_Subset, FS_CardinalityType
<1>2. 0 \in N
  BY <1>1, FS_EmptySet
<1>3. ASSUME NEW n \in Nat, n \in N
      PROVE  n + 1 \in N
  <2>1. ASSUME NEW s \in SUBSET U, Cardinality(s) = n + 1
        PROVE  s \in T
    <3>1. IsFiniteSet(s) /\ s # {}
      BY <1>1, <2>1, FS_EmptySet
    <3>2. ASSUME NEW x \in s
          PROVE  s \ {x} \in T
      <4>1. Cardinality(s \ {x}) = Cardinality(s) - 1
        BY <3>1, FS_RemoveElement
      <4>2. Cardinality(s \ {x}) = n
        BY <2>1, <4>1
      <4> QED BY <1>3, <4>2
    <3> QED BY <3>1, <3>2
  <2> QED BY <2>1
<1>4. Nat \subseteq N
  <2> HIDE DEF N
  <2> QED BY <1>2, <1>3, NatInductionSet
<1> QED BY <1>1, <1>4

\* The recursion has a solution.
LEMMA SumExists ==
  ASSUME NEW g, NEW U, IsFiniteSet(U)
  PROVE  \E F : IsSum(F, g, U)
<1> DEFINE Upto(n) == {s \in SUBSET U : Cardinality(s) <= n}
           pick(s) == CHOOSE y \in s : TRUE
           Sol(F, n) == F = [s \in Upto(n) |-> IF s = {} THEN 0
                                               ELSE g[pick(s)] + F[s \ {pick(s)}]]
           N == {n \in Nat : \E F : Sol(F, n)}
<1>1. \A s \in SUBSET U : IsFiniteSet(s) /\ Cardinality(s) \in Nat
  BY FS_Subset, FS_CardinalityType
<1>2. ASSUME NEW s \in SUBSET U, s # {}
      PROVE  /\ pick(s) \in s /\ s \ {pick(s)} \in SUBSET U
             /\ Cardinality(s \ {pick(s)}) = Cardinality(s) - 1
  <2>1. pick(s) \in s
    BY <1>2
  <2>2. IsFiniteSet(s)
    BY <1>1
  <2> HIDE DEF pick
  <2> QED BY <2>1, <2>2, FS_RemoveElement
<1> HIDE DEF pick
<1>3. 0 \in N
  <2> DEFINE F == [s \in Upto(0) |-> 0]
  <2>1. \A s \in Upto(0) : s = {}
    BY <1>1, FS_EmptySet
  <2>2. Sol(F, 0)
    BY <2>1
  <2> QED BY <2>2
<1>4. ASSUME NEW n \in Nat, n \in N
      PROVE  n + 1 \in N
  <2>1. PICK F : Sol(F, n)
    BY <1>4
  <2> DEFINE G == [s \in Upto(n + 1) |-> IF s = {} THEN 0 ELSE g[pick(s)] + F[s \ {pick(s)}]]
  <2>2. \A s \in Upto(n) : s \in Upto(n + 1) /\ G[s] = F[s]
    <3> TAKE s \in Upto(n)
    <3>1. s \in Upto(n + 1)
      BY <1>1
    <3>2. F[s] = IF s = {} THEN 0 ELSE g[pick(s)] + F[s \ {pick(s)}]
      BY <2>1
    <3> QED BY <3>1, <3>2
  <2>3. \A s \in Upto(n + 1) : s # {} => s \ {pick(s)} \in Upto(n)
    BY <1>1, <1>2
  <2>4. Sol(G, n + 1)
    <3>1. \A s \in Upto(n + 1) : s # {} => G[s \ {pick(s)}] = F[s \ {pick(s)}]
      BY <2>2, <2>3
    <3> QED BY <3>1
  <2>5. \E H : Sol(H, n + 1)
    <3> HIDE DEF G, Sol
    <3> QED BY <2>4
  <2> HIDE DEF Sol
  <2> QED BY <2>5
<1>5. Cardinality(U) \in N
  <2> HIDE DEF N
  <2>1. Nat \subseteq N
    BY <1>3, <1>4, NatInductionSet
  <2> QED BY <1>1, <2>1
<1>6. PICK F : Sol(F, Cardinality(U))
  BY <1>5
<1>7. Upto(Cardinality(U)) = SUBSET U
  BY FS_Subset
<1>8. IsSum(F, g, U)
  BY <1>6, <1>7 DEF IsSum, pick
<1> QED BY <1>8

LEMMA SumIs ==
  ASSUME NEW g, NEW U, IsFiniteSet(U)
  PROVE  \E F : IsSum(F, g, U) /\ SumOver(g, U) = F[U]
<1> DEFINE F == CHOOSE f : IsSum(f, g, U)
<1>1. SumOver(g, U) = F[U]
  BY DEF SumOver, MapThenSumSet, MapThenFoldSet, IsSum
<1>2. IsSum(F, g, U)
  BY SumExists
<1> QED BY <1>1, <1>2
LEMMA IsSumEmpty == ASSUME NEW F, NEW g, NEW U, IsSum(F, g, U) PROVE F[{}] = 0
BY DEF IsSum

\* The element CHOOSE gives is taken out first.
LEMMA IsSumPick ==
  ASSUME NEW F, NEW g, NEW U, IsSum(F, g, U), NEW s \in SUBSET U, s # {}
  PROVE  \E x \in s : F[s] = g[x] + F[s \ {x}]
<1> DEFINE c == CHOOSE y \in s : TRUE
<1>1. c \in s
  OBVIOUS
<1>2. F[s] = g[c] + F[s \ {c}]
  BY DEF IsSum
<1> QED BY <1>1, <1>2

LEMMA IsSumNat ==
  ASSUME NEW U, IsFiniteSet(U), NEW g \in [U -> Nat], NEW F, IsSum(F, g, U)
  PROVE  \A s \in SUBSET U : F[s] \in Nat
<1> DEFINE T == {s \in SUBSET U : F[s] \in Nat}
<1>1. {} \in T
  BY IsSumEmpty
<1>2. ASSUME NEW s \in SUBSET U, s # {}, \A x \in s : s \ {x} \in T
      PROVE  s \in T
  <2>1. PICK x \in s : F[s] = g[x] + F[s \ {x}]
    BY <1>2, IsSumPick
  <2>2. g[x] \in Nat /\ F[s \ {x}] \in Nat
    BY <1>2
  <2> QED BY <2>1, <2>2
<1>3. SUBSET U \subseteq T
  <2> HIDE DEF T
  <2> QED BY <1>1, <1>2, SubsetInduction
<1> QED BY <1>3

\* Any element may be taken out first.
LEMMA IsSumRemove ==
  ASSUME NEW U, IsFiniteSet(U), NEW g \in [U -> Nat], NEW F, IsSum(F, g, U)
  PROVE  \A s \in SUBSET U : \A x \in s : F[s] = g[x] + F[s \ {x}]
<1> DEFINE T == {s \in SUBSET U : \A x \in s : F[s] = g[x] + F[s \ {x}]}
<1>0. \A s \in SUBSET U : F[s] \in Nat
  BY IsSumNat
<1>1. {} \in T
  OBVIOUS
<1>2. ASSUME NEW s \in SUBSET U, s # {}, \A x \in s : s \ {x} \in T
      PROVE  s \in T
  <2>1. PICK c \in s : F[s] = g[c] + F[s \ {c}]
    BY <1>2, IsSumPick
  <2>2. ASSUME NEW x \in s
        PROVE  F[s] = g[x] + F[s \ {x}]
    <3>1. CASE x = c
      BY <2>1, <3>1
    <3>2. CASE x # c
      <4>1. F[s \ {c}] = g[x] + F[(s \ {c}) \ {x}]
        BY <1>2, <3>2
      <4>2. F[s \ {x}] = g[c] + F[(s \ {x}) \ {c}]
        BY <1>2, <3>2
      <4>3. (s \ {c}) \ {x} = (s \ {x}) \ {c} /\ (s \ {c}) \ {x} \in SUBSET U
        OBVIOUS
      <4> DEFINE r == F[(s \ {c}) \ {x}]
      <4>4. g[x] \in Nat /\ g[c] \in Nat /\ r \in Nat
        BY <1>0, <4>3
      <4>5. F[s \ {c}] = g[x] + r /\ F[s \ {x}] = g[c] + r
        BY <4>1, <4>2, <4>3, Zenon
      <4> HIDE DEF r
      <4>6. F[s] = g[c] + (g[x] + r) /\ g[x] + F[s \ {x}] = g[x] + (g[c] + r)
        BY <2>1, <4>5
      <4>7. g[c] + (g[x] + r) = g[x] + (g[c] + r)
        BY <4>4
      <4> QED BY <4>6, <4>7
    <3> QED BY <3>1, <3>2
  <2> QED BY <2>2
<1>3. SUBSET U \subseteq T
  <2> HIDE DEF T
  <2> QED BY <1>1, <1>2, SubsetInduction
<1> QED BY <1>3

\* Functions that agree on a set have the same sum over it, whatever finite
\* sets the sums are taken in.
LEMMA IsSumSame ==
  ASSUME NEW U, IsFiniteSet(U), NEW V, U \subseteq V, NEW g, NEW h, NEW F, NEW G,
         IsSum(F, g, U), IsSum(G, h, V)
  PROVE  \A s \in SUBSET U : (\A x \in s : g[x] = h[x]) => F[s] = G[s]
<1> DEFINE T == {s \in SUBSET U : (\A x \in s : g[x] = h[x]) => F[s] = G[s]}
<1>1. {} \in T
  BY IsSumEmpty
<1>2. ASSUME NEW s \in SUBSET U, s # {}, \A x \in s : s \ {x} \in T
      PROVE  s \in T
  <2> SUFFICES ASSUME \A x \in s : g[x] = h[x] PROVE F[s] = G[s]
    OBVIOUS
  <2> DEFINE c == CHOOSE y \in s : TRUE
  <2>1. c \in s
    BY <1>2
  <2>2. F[s] = g[c] + F[s \ {c}]
    BY <1>2 DEF IsSum
  <2>3. G[s] = h[c] + G[s \ {c}]
    BY <1>2 DEF IsSum
  <2>4. F[s \ {c}] = G[s \ {c}]
    BY <1>2, <2>1
  <2> QED BY <2>1, <2>2, <2>3, <2>4
<1>3. SUBSET U \subseteq T
  <2> HIDE DEF T
  <2> QED BY <1>1, <1>2, SubsetInduction
<1> QED BY <1>3

----------------------------------------------------------------------------
(* What the other modules use.                                             *)

\* A sum of natural numbers is one.
THEOREM SumNat ==
  ASSUME NEW U, IsFiniteSet(U), NEW g \in [U -> Nat]
  PROVE  SumOver(g, U) \in Nat
BY SumIs, IsSumNat

\* A function that is 0 everywhere has the sum 0.
THEOREM SumZero ==
  ASSUME NEW U, IsFiniteSet(U), NEW g, \A x \in U : g[x] = 0
  PROVE  SumOver(g, U) = 0
<1>1. PICK F : IsSum(F, g, U) /\ SumOver(g, U) = F[U]
  BY SumIs
<1> DEFINE T == {s \in SUBSET U : F[s] = 0}
<1>2. {} \in T
  BY <1>1, IsSumEmpty
<1>3. ASSUME NEW s \in SUBSET U, s # {}, \A x \in s : s \ {x} \in T
      PROVE  s \in T
  <2>1. PICK x \in s : F[s] = g[x] + F[s \ {x}]
    BY <1>1, <1>3, IsSumPick
  <2>2. g[x] = 0 /\ F[s \ {x}] = 0
    BY <1>3
  <2> QED BY <2>1, <2>2
<1>4. SUBSET U \subseteq T
  <2> HIDE DEF T
  <2> QED BY <1>2, <1>3, SubsetInduction
<1> QED BY <1>1, <1>4

\* Functions that agree on a set have the same sum over it.
THEOREM SumSame ==
  ASSUME NEW U, IsFiniteSet(U), NEW g, NEW h, \A x \in U : g[x] = h[x]
  PROVE  SumOver(g, U) = SumOver(h, U)
<1>1. PICK F : IsSum(F, g, U) /\ SumOver(g, U) = F[U]
  BY SumIs
<1>2. PICK G : IsSum(G, h, U) /\ SumOver(h, U) = G[U]
  BY SumIs
<1>3. F[U] = G[U]
  <2>1. U \subseteq U /\ U \in SUBSET U /\ IsSum(F, g, U) /\ IsSum(G, h, U)
    BY <1>1, <1>2
  <2>2. \A s \in SUBSET U : (\A x \in s : g[x] = h[x]) => F[s] = G[s]
    BY <2>1, IsSumSame
  <2> QED BY <2>1, <2>2
<1> QED BY <1>1, <1>2, <1>3

\* Functions that agree but for one element have sums that differ as they do
\* there.
THEOREM SumChange ==
  ASSUME NEW U, IsFiniteSet(U), NEW g \in [U -> Nat], NEW h \in [U -> Nat], NEW c \in U,
         \A x \in U \ {c} : g[x] = h[x]
  PROVE  SumOver(h, U) + g[c] = SumOver(g, U) + h[c]
<1>1. PICK F : IsSum(F, g, U) /\ SumOver(g, U) = F[U]
  BY SumIs
<1>2. PICK G : IsSum(G, h, U) /\ SumOver(h, U) = G[U]
  BY SumIs
<1>3. F[U] = g[c] + F[U \ {c}] /\ G[U] = h[c] + G[U \ {c}]
  BY <1>1, <1>2, IsSumRemove
<1>4. F[U \ {c}] = G[U \ {c}]
  BY <1>1, <1>2, IsSumSame
<1>5. F[U \ {c}] \in Nat /\ g[c] \in Nat /\ h[c] \in Nat
  BY <1>1, IsSumNat
<1> QED BY <1>1, <1>2, <1>3, <1>4, <1>5

LEMMA SumInside ==
  ASSUME NEW U, IsFiniteSet(U), NEW V, U \subseteq V, NEW k, NEW h, NEW G, NEW F,
         IsSum(G, k, U), IsSum(F, h, V), \A y \in U : k[y] = h[y]
  PROVE  F[U] = G[U]
<1>1. U \in SUBSET U
  OBVIOUS
<1> QED BY <1>1, IsSumSame

\* A set that gains an element gains its value.
THEOREM SumAdd ==
  ASSUME NEW U, IsFiniteSet(U), NEW x, x \notin U, NEW g, \A y \in U \cup {x} : g[y] \in Nat
  PROVE  SumOver(g, U) \in Nat /\ SumOver(g, U \cup {x}) = SumOver(g, U) + g[x]
<1> DEFINE V == U \cup {x}
           h == [y \in V |-> g[y]]
           k == [y \in U |-> g[y]]
<1>1. IsFiniteSet(V) /\ U \subseteq V /\ h \in [V -> Nat] /\ k \in [U -> Nat]
  BY FS_AddElement
<1>2. SumOver(g, V) = SumOver(h, V) /\ SumOver(g, U) = SumOver(k, U)
  BY <1>1, SumSame
<1>3. PICK F : IsSum(F, h, V) /\ SumOver(h, V) = F[V]
  BY <1>1, SumIs
<1>4. PICK G : IsSum(G, k, U) /\ SumOver(k, U) = G[U]
  BY SumIs
<1>5. F[V] = h[x] + F[V \ {x}]
  <2> HIDE DEF V, h
  <2>1. V \in SUBSET V /\ x \in V
    BY DEF V
  <2> QED BY <1>1, <1>3, <2>1, IsSumRemove
<1>6. V \ {x} = U
  OBVIOUS
<1>7. F[U] = G[U]
  <2>1. IsFiniteSet(U) /\ U \subseteq V /\ IsSum(G, k, U) /\ IsSum(F, h, V) /\ \A y \in U : k[y] = h[y]
    BY <1>1, <1>3, <1>4
  <2> HIDE DEF V, h, k
  <2> QED BY <2>1, SumInside
<1>8. SumOver(k, U) \in Nat
  BY <1>1, SumNat
<1>9. SumOver(k, U) = F[U] /\ SumOver(h, V) = g[x] + F[U] /\ g[x] \in Nat
  <2>1. h[x] = g[x]
    OBVIOUS
  <2> HIDE DEF V, h, k
  <2> QED BY <1>3, <1>4, <1>5, <1>6, <1>7, <2>1
<1> HIDE DEF V, h, k
<1>10. SumOver(g, V) = SumOver(g, U) + g[x]
  BY <1>2, <1>8, <1>9
<1> QED BY <1>2, <1>8, <1>10 DEF V
=============================================================================
