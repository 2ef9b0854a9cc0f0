-------------------------- MODULE ScanModel_proofs --------------------------
(***************************************************************************)
(* Proofs about the operators of module ScanModel, for arenas of any size: *)
(* what the reverse aggregation pass computes, what apply_deletion detaches*)
(* and what it leaves of the totals.  The module states lemmas; the        *)
(* theorems about behaviours that rest on them are in the modules that     *)
(* extend it.                                                              *)
(*                                                                         *)
(* Recursion (the sums, the ancestors, the stack of apply_deletion, the    *)
(* fold of the pass) is reasoned about in the same way throughout: a       *)
(* solution of the recursive equation exists, by induction over Nat, hence *)
(* the function TLA+ chooses satisfies the equation.                       *)
(***************************************************************************)
EXTENDS ScanModel, FiniteSetTheorems, WellFoundedInduction, TLAPS

-----------------------------------------------------------------------------
(* Induction, for sets in the place of predicates.                         *)
\* Induction over the naturals, for a set instead of a predicate.
LEMMA NatSetInduction ==
    ASSUME NEW S, 0 \in S, \A n \in Nat : n \in S => n + 1 \in S
    PROVE  Nat \subseteq S
<1>1. SUFFICES ASSUME Nat \ S # {} PROVE FALSE
  OBVIOUS
<1>2. PICK x \in Nat \ S : \A y \in Nat \ S : ~ (<<y, x>> \in OpToRel(<, Nat))
  BY <1>1, NatLessThanWellFounded, WFMin
<1>3. x # 0 /\ x - 1 \in Nat
  OBVIOUS
<1>4. <<x - 1, x>> \in OpToRel(<, Nat)
  BY <1>3 DEF OpToRel
<1>5. x - 1 \in S
  BY <1>2, <1>3, <1>4
<1> QED
  BY <1>3, <1>5

\* Induction over the subsets of a finite set.
LEMMA SubsetInduction ==
    ASSUME NEW S, IsFiniteSet(S), NEW P,
           \A T \in SUBSET S : (\A U \in SUBSET T : U # T => U \in P) => T \in P
    PROVE  \A T \in SUBSET S : T \in P
<1> DEFINE Q == {k \in Nat : \A T \in SUBSET S : Cardinality(T) <= k => T \in P}
<1>1. \A T \in SUBSET S : IsFiniteSet(T) /\ Cardinality(T) \in Nat
  BY FS_Subset, FS_CardinalityType
<1>2. 0 \in Q
  <2> SUFFICES ASSUME NEW T \in SUBSET S, Cardinality(T) <= 0 PROVE T \in P
    OBVIOUS
  <2>1. T = {}
    BY <1>1, FS_EmptySet
  <2> QED BY <2>1
<1>3. ASSUME NEW k \in Nat, k \in Q PROVE k + 1 \in Q
  <2> SUFFICES ASSUME NEW T \in SUBSET S, Cardinality(T) <= k + 1 PROVE T \in P
    OBVIOUS
  <2>1. ASSUME NEW U \in SUBSET T, U # T PROVE U \in P
    <3>1. Cardinality(U) <= Cardinality(T) /\ Cardinality(U) # Cardinality(T)
      BY <1>1, <2>1, FS_Subset
    <3>2. Cardinality(U) <= k /\ U \in SUBSET S
      BY <1>1, <3>1
    <3> QED BY <1>3, <3>2
  <2> QED BY <2>1
<1>4. Nat \subseteq Q
  <2> HIDE DEF Q
  <2> QED BY <1>2, <1>3, NatSetInduction
<1> QED
  BY <1>1, <1>4

-----------------------------------------------------------------------------
(* Sums over finite sets.                                                  *)

\* SumFunctionOnSet picks the elements of a set in this order.
Pick(s) == CHOOSE x \in s : TRUE

\* The recursive equation of a sum of f over the subsets of S.
IsSum(g, f, S) ==
    g = [s \in SUBSET S |-> IF s = {} THEN 0 ELSE f[Pick(s)] + g[s \ {Pick(s)}]]

\* Picking from a set that is not empty stays in it.
LEMMA PickIn == \A s : s # {} => Pick(s) \in s
BY DEF Pick

\* The recursive equation of a sum has a solution.
LEMMA SumIterExists ==
    ASSUME NEW f, NEW S, IsFiniteSet(S)
    PROVE  \E g : IsSum(g, f, S)
<1> DEFINE D(k) == {s \in SUBSET S : Cardinality(s) <= k}
           R(g, k) == g = [s \in D(k) |-> IF s = {} THEN 0 ELSE f[Pick(s)] + g[s \ {Pick(s)}]]
           Q == {k \in Nat : \E g : R(g, k)}
<1>1. \A T \in SUBSET S : IsFiniteSet(T) /\ Cardinality(T) \in Nat
  BY FS_Subset, FS_CardinalityType
<1>2. 0 \in Q
  <2>1. \A s \in D(0) : s = {}
    BY <1>1, FS_EmptySet
  <2>2. R([s \in D(0) |-> 0], 0)
    BY <2>1
  <2> QED BY <2>2
<1>3. ASSUME NEW k \in Nat, k \in Q PROVE k + 1 \in Q
  <2>1. PICK g : R(g, k)
    BY <1>3
  <2> DEFINE h == [s \in D(k + 1) |-> IF s = {} THEN 0 ELSE f[Pick(s)] + g[s \ {Pick(s)}]]
  <2>2. \A s \in D(k) : h[s] = g[s]
    <3>1. \A s \in D(k) : s \in D(k + 1)
      BY <1>1
    <3> QED BY <2>1, <3>1, Zenon
  <2>3. ASSUME NEW s \in D(k + 1), s # {} PROVE s \ {Pick(s)} \in D(k)
    BY <1>1, <2>3, PickIn, FS_RemoveElement
  <2>4. \A s \in D(k + 1) : h[s] = IF s = {} THEN 0 ELSE f[Pick(s)] + h[s \ {Pick(s)}]
    BY <2>2, <2>3
  <2>5. R(h, k + 1)
    <3> HIDE DEF D
    <3> SUFFICES h = [s \in D(k + 1) |-> IF s = {} THEN 0 ELSE f[Pick(s)] + h[s \ {Pick(s)}]]
       OBVIOUS
    <3> QED BY <2>4, Zenon
  <2> QED
    <3> HIDE DEF R, h
    <3> QED BY <2>5
<1>4. Nat \subseteq Q
  <2> HIDE DEF Q
  <2> QED BY <1>2, <1>3, NatSetInduction
<1>5. D(Cardinality(S)) = SUBSET S
  BY <1>1, FS_Subset
<1>6. Cardinality(S) \in Q
  <2> HIDE DEF Q
  <2> QED BY <1>1, <1>4
<1>7. PICK g : R(g, Cardinality(S))
  BY <1>6
<1>8. IsSum(g, f, S)
  BY <1>5, <1>7 DEF IsSum
<1> QED
  BY <1>8

\* The solution TLA+ takes.
SumIter(f, S) == CHOOSE g : IsSum(g, f, S)

\* The community sum is that solution.
LEMMA SumIs == ASSUME NEW f, NEW S PROVE SumFunctionOnSet(f, S) = SumIter(f, S)[S]
BY DEF SumFunctionOnSet, FoldFunctionOnSet, MapThenFoldSet, SumIter, IsSum, Pick

\* It satisfies the equation.
LEMMA SumIterIs ==
    ASSUME NEW f, NEW S, IsFiniteSet(S)
    PROVE  \A s \in SUBSET S : SumIter(f, S)[s] =
               IF s = {} THEN 0 ELSE f[Pick(s)] + SumIter(f, S)[s \ {Pick(s)}]
<1> DEFINE g == SumIter(f, S)
<1>1. IsSum(g, f, S)
  BY SumIterExists DEF SumIter
<1> HIDE DEF g
<1>2. \A s \in SUBSET S : g[s] = IF s = {} THEN 0 ELSE f[Pick(s)] + g[s \ {Pick(s)}]
  BY <1>1, Zenon DEF IsSum
<1> QED
  BY <1>2 DEF g

\* Two functions agree on a set.
Agree(f, h, T) == \A x \in T : f[x] = h[x]

\* Two sums of functions that agree on the smaller set agree on it.
LEMMA SumIterSame ==
    ASSUME NEW f, NEW h, NEW S, IsFiniteSet(S), NEW T, T \subseteq S,
           Agree(f, h, T)
    PROVE  SumIter(f, S)[T] = SumIter(h, T)[T]
<1> DEFINE P == {U \in SUBSET T : SumIter(f, S)[U] = SumIter(h, T)[U]}
<1>1. IsFiniteSet(T)
  BY FS_Subset
<1>a. \A s \in SUBSET S : SumIter(f, S)[s] =
         IF s = {} THEN 0 ELSE f[Pick(s)] + SumIter(f, S)[s \ {Pick(s)}]
  BY SumIterIs
<1>b. \A s \in SUBSET T : SumIter(h, T)[s] =
         IF s = {} THEN 0 ELSE h[Pick(s)] + SumIter(h, T)[s \ {Pick(s)}]
  BY <1>1, SumIterIs
<1>2. ASSUME NEW U \in SUBSET T, \A V \in SUBSET U : V # U => V \in P
      PROVE  U \in P
  <2>1. CASE U = {}
    BY <2>1, <1>a, <1>b
  <2>2. CASE U # {}
    <3>1. Pick(U) \in U
      BY <2>2, PickIn
    <3>2. U \ {Pick(U)} \in P
      BY <1>2, <3>1
    <3>3. SumIter(f, S)[U] = f[Pick(U)] + SumIter(f, S)[U \ {Pick(U)}]
      BY <2>2, <1>a
    <3>4. SumIter(h, T)[U] = h[Pick(U)] + SumIter(h, T)[U \ {Pick(U)}]
      BY <2>2, <1>b
    <3>5. f[Pick(U)] = h[Pick(U)]
      BY <3>1 DEF Agree
    <3> QED BY <3>2, <3>3, <3>4, <3>5
  <2> QED BY <2>1, <2>2
<1>3. T \in P
  <2> HIDE DEF P
  <2> QED BY <1>1, <1>2, SubsetInduction
<1> QED
  BY <1>3

\* Nothing adds up to zero.
LEMMA SumEmpty ==
    ASSUME NEW f
    PROVE  SumFunctionOnSet(f, {}) = 0
BY SumIs, SumIterIs, FS_EmptySet

\* A sum depends only on the values summed.
LEMMA SumCong ==
    ASSUME NEW f, NEW h, NEW S, IsFiniteSet(S), \A x \in S : f[x] = h[x]
    PROVE  SumFunctionOnSet(f, S) = SumFunctionOnSet(h, S)
BY SumIs, SumIterSame DEF Agree

\* A sum is the picked element and the sum of the rest.
LEMMA SumPick ==
    ASSUME NEW f, NEW S, IsFiniteSet(S), S # {}
    PROVE  SumFunctionOnSet(f, S) = f[Pick(S)] + SumFunctionOnSet(f, S \ {Pick(S)})
<1>1. SumIter(f, S)[S \ {Pick(S)}] = SumIter(f, S \ {Pick(S)})[S \ {Pick(S)}]
  BY SumIterSame DEF Agree
<1> QED
  BY <1>1, SumIs, SumIterIs

\* A sum of naturals is a natural, one of integers an integer.
LEMMA SumType ==
    ASSUME NEW f, NEW S, IsFiniteSet(S), NEW N, N \in {Nat, Int}, \A x \in S : f[x] \in N
    PROVE  SumFunctionOnSet(f, S) \in N
<1> DEFINE P == {T \in SUBSET S : SumFunctionOnSet(f, T) \in N}
<1>1. ASSUME NEW T \in SUBSET S, \A U \in SUBSET T : U # T => U \in P
      PROVE  T \in P
  <2>1. CASE T = {}
    BY <2>1, SumEmpty
  <2>2. CASE T # {}
    <3>1. Pick(T) \in T
      BY <2>2, PickIn
    <3>2. T \ {Pick(T)} \in P
      BY <1>1, <3>1
    <3>3. SumFunctionOnSet(f, T) = f[Pick(T)] + SumFunctionOnSet(f, T \ {Pick(T)})
      BY <2>2, SumPick, FS_Subset
    <3> QED BY <3>1, <3>2, <3>3
  <2> QED BY <2>1, <2>2
<1>2. S \in P
  <2> HIDE DEF P
  <2> QED BY <1>1, SubsetInduction
<1> QED
  BY <1>2

\* Any element can be taken out of a sum.
LEMMA SumRemove ==
    ASSUME NEW f, NEW S, IsFiniteSet(S), \A x \in S : f[x] \in Int
    PROVE  \A x \in S : SumFunctionOnSet(f, S) = f[x] + SumFunctionOnSet(f, S \ {x})
<1> DEFINE P == {T \in SUBSET S : \A x \in T :
                    SumFunctionOnSet(f, T) = f[x] + SumFunctionOnSet(f, T \ {x})}
<1>1. ASSUME NEW T \in SUBSET S, \A U \in SUBSET T : U # T => U \in P
      PROVE  T \in P
  <2> SUFFICES ASSUME NEW x \in T
               PROVE  SumFunctionOnSet(f, T) = f[x] + SumFunctionOnSet(f, T \ {x})
    OBVIOUS
  <2> DEFINE p == Pick(T)
  <2>1. p \in T
    BY PickIn
  <2>2. \A U \in SUBSET S : IsFiniteSet(U) /\ SumFunctionOnSet(f, U) \in Int
    BY FS_Subset, SumType
  <2>3. SumFunctionOnSet(f, T) = f[p] + SumFunctionOnSet(f, T \ {p})
    BY <2>2, SumPick
  <2> HIDE DEF p
  <2>4. CASE x = p
    BY <2>3, <2>4
  <2>5. CASE x # p
    <3>1. SumFunctionOnSet(f, T \ {p}) = f[x] + SumFunctionOnSet(f, (T \ {p}) \ {x})
      <4>1. T \ {p} \in P
        BY <1>1, <2>1
      <4> QED BY <4>1, <2>5
    <3>2. SumFunctionOnSet(f, T \ {x}) = f[p] + SumFunctionOnSet(f, (T \ {x}) \ {p})
      <4>1. T \ {x} \in P
        BY <1>1
      <4> QED BY <4>1, <2>1, <2>5
    <3> DEFINE r == SumFunctionOnSet(f, (T \ {x}) \ {p})
    <3>3. (T \ {p}) \ {x} = (T \ {x}) \ {p}
      OBVIOUS
    <3>4. SumFunctionOnSet(f, T \ {p}) = f[x] + r
      BY <3>1, <3>3
    <3>6. SumFunctionOnSet(f, T \ {x}) = f[p] + r
      BY <3>2
    <3>5. f[x] \in Int /\ f[p] \in Int /\ r \in Int
      BY <2>1, <2>2
    <3> HIDE DEF r
    <3> QED BY <2>3, <3>4, <3>5, <3>6
  <2> QED BY <2>4, <2>5
<1>2. S \in P
  <2> HIDE DEF P
  <2> QED BY <1>1, SubsetInduction
<1> QED
  BY <1>2

\* The sum over one element.
LEMMA SumSingle ==
    ASSUME NEW f, NEW x, f[x] \in Int
    PROVE  SumFunctionOnSet(f, {x}) = f[x]
<1>1. {x} \ {x} = {}
  OBVIOUS
<1>2. IsFiniteSet({x})
  BY FS_Singleton
<1> QED
  BY <1>1, <1>2, SumRemove, SumEmpty

\* Sums over disjoint sets add up.
LEMMA SumDisjoint ==
    ASSUME NEW f, NEW S, IsFiniteSet(S), NEW T, IsFiniteSet(T), S \intersect T = {},
           \A x \in S \union T : f[x] \in Int
    PROVE  SumFunctionOnSet(f, S \union T) = SumFunctionOnSet(f, S) + SumFunctionOnSet(f, T)
<1> DEFINE P == {U \in SUBSET T : SumFunctionOnSet(f, S \union U) =
                                    SumFunctionOnSet(f, S) + SumFunctionOnSet(f, U)}
<1>1. ASSUME NEW U \in SUBSET T, \A V \in SUBSET U : V # U => V \in P
      PROVE  U \in P
  <2>1. \A V \in SUBSET (S \union T) : IsFiniteSet(V) /\ SumFunctionOnSet(f, V) \in Int
    BY FS_Union, FS_Subset, SumType
  <2>2. CASE U = {}
    <3>1. S \union U = S
      BY <2>2
    <3>2. SumFunctionOnSet(f, S) \in Int
      BY <2>1
    <3> QED BY <2>2, <3>1, <3>2, SumEmpty
  <2>3. CASE U # {}
    <3>1. PICK x \in U : TRUE
      BY <2>3
    <3>2. U \ {x} \in P
      BY <1>1
    <3>3. SumFunctionOnSet(f, U) = f[x] + SumFunctionOnSet(f, U \ {x})
      BY <2>1, SumRemove
    <3>4. SumFunctionOnSet(f, S \union U) = f[x] + SumFunctionOnSet(f, (S \union U) \ {x})
      BY <2>1, SumRemove
    <3>5. (S \union U) \ {x} = S \union (U \ {x})
      BY <3>1
    <3>6. /\ f[x] \in Int
          /\ SumFunctionOnSet(f, S) \in Int
          /\ SumFunctionOnSet(f, U \ {x}) \in Int
      BY <2>1
    <3>7. SumFunctionOnSet(f, S \union U)
              = f[x] + (SumFunctionOnSet(f, S) + SumFunctionOnSet(f, U \ {x}))
      BY <3>2, <3>4, <3>5
    <3>8. SumFunctionOnSet(f, S \union U) = SumFunctionOnSet(f, S) + SumFunctionOnSet(f, U)
      BY <3>3, <3>6, <3>7
    <3> QED BY <3>8
  <2> QED BY <2>2, <2>3
<1>2. T \in P
  <2> HIDE DEF P
  <2> QED BY <1>1, SubsetInduction
<1> QED
  BY <1>2

-----------------------------------------------------------------------------
(* Trees: what the parents of an arena say.                                *)

\* Induction over an interval.
LEMMA IndexInduction ==
    ASSUME NEW n \in Nat, NEW P,
           \A i \in 1..n : (\A j \in 1..(i - 1) : j \in P) => i \in P
    PROVE  \A i \in 1..n : i \in P
<1> DEFINE Q == {k \in Nat : \A i \in 1..n : i <= k => i \in P}
<1>1. 0 \in Q
  OBVIOUS
<1>2. ASSUME NEW k \in Nat, k \in Q PROVE k + 1 \in Q
  BY <1>2
<1>3. Nat \subseteq Q
  <2> HIDE DEF Q
  <2> QED BY <1>1, <1>2, NatSetInduction
<1>4. n \in Q
  BY <1>3
<1> QED
  BY <1>4

\* What all trees have in common: parents come first.
IsTree(t, n) ==
    /\ n \in Nat
    /\ DOMAIN t = 1..n
    /\ \A i \in 1..n : t[i].parent \in 0..(i - 1)

\* The recursive equation of the ancestors.
IsUp(u, t, S) ==
    u = [i \in S |-> IF t[i].parent = 0 THEN {} ELSE {t[i].parent} \union u[t[i].parent]]

\* That equation has a solution, since parents come first.
LEMMA UpExists ==
    ASSUME NEW t, NEW n, IsTree(t, n)
    PROVE  \E u : IsUp(u, t, 1..n)
<1> DEFINE Q == {k \in Nat : k <= n => \E u : IsUp(u, t, 1..k)}
<1>1. 0 \in Q
  <2>1. IsUp([i \in 1..0 |-> {}], t, 1..0)
    BY DEF IsUp
  <2> QED BY <2>1
<1>2. ASSUME NEW k \in Nat, k \in Q PROVE k + 1 \in Q
  <2> SUFFICES ASSUME k + 1 <= n PROVE \E u : IsUp(u, t, 1..(k + 1))
    OBVIOUS
  <2>1. n \in Nat /\ k <= n
    BY DEF IsTree
  <2>2. PICK u : IsUp(u, t, 1..k)
    BY <1>2, <2>1
  <2> DEFINE h == [i \in 1..(k + 1) |->
                     IF t[i].parent = 0 THEN {} ELSE {t[i].parent} \union u[t[i].parent]]
  <2>3. \A i \in 1..k : h[i] = u[i]
    <3>1. \A i \in 1..k : u[i] =
             IF t[i].parent = 0 THEN {} ELSE {t[i].parent} \union u[t[i].parent]
      BY <2>2, Zenon DEF IsUp
    <3>2. ASSUME NEW i \in 1..k
          PROVE  h[i] = IF t[i].parent = 0 THEN {} ELSE {t[i].parent} \union u[t[i].parent]
      OBVIOUS
    <3> HIDE DEF h
    <3> QED BY <3>1, <3>2
  <2>4. ASSUME NEW i \in 1..(k + 1), t[i].parent # 0 PROVE h[t[i].parent] = u[t[i].parent]
    <3>1. t[i].parent \in 1..k
      BY <2>1, <2>4 DEF IsTree
    <3> QED BY <2>3, <3>1
  <2>5. h = [i \in 1..(k + 1) |->
                     IF t[i].parent = 0 THEN {} ELSE {t[i].parent} \union h[t[i].parent]]
    BY <2>4
  <2>6. IsUp(h, t, 1..(k + 1))
    <3> HIDE DEF h
    <3> QED BY <2>5 DEF IsUp
  <2> QED BY <2>6
<1>3. Nat \subseteq Q
  <2> HIDE DEF Q
  <2> QED BY <1>1, <1>2, NatSetInduction
<1>4. n \in Q /\ n \in Nat
  BY <1>3 DEF IsTree
<1> QED
  BY <1>4

\* The ancestors of a node are its parent and the ancestors of its parent.
LEMMA AncestorsAre ==
    ASSUME NEW t, NEW n, IsTree(t, n)
    PROVE  \A i \in 1..n : Ancestors(t, i) =
               IF t[i].parent = 0 THEN {} ELSE {t[i].parent} \union Ancestors(t, t[i].parent)
<1> DEFINE U == CHOOSE u : IsUp(u, t, 1..n)
<1>1. IsUp(U, t, 1..n)
  BY UpExists
<1>2. \A i : Ancestors(t, i) = U[i]
  BY DEF Ancestors, IsUp, IsTree
<1> HIDE DEF U
<1>3. \A i \in 1..n : U[i] = IF t[i].parent = 0 THEN {} ELSE {t[i].parent} \union U[t[i].parent]
  BY <1>1, Zenon DEF IsUp
<1> QED
  BY <1>2, <1>3

\* Ancestors come before their descendants.
LEMMA AncestorsBelow ==
    ASSUME NEW t, NEW n, IsTree(t, n)
    PROVE  \A i \in 1..n : Ancestors(t, i) \subseteq 1..(i - 1)
<1> DEFINE P == {i \in 1..n : Ancestors(t, i) \subseteq 1..(i - 1)}
<1>1. ASSUME NEW i \in 1..n, \A j \in 1..(i - 1) : j \in P PROVE i \in P
  <2>1. t[i].parent \in 0..(i - 1) /\ n \in Nat
    BY DEF IsTree
  <2>2. CASE t[i].parent = 0
    BY <2>2, AncestorsAre
  <2>3. CASE t[i].parent # 0
    <3>1. Ancestors(t, t[i].parent) \subseteq 1..(t[i].parent - 1)
      BY <1>1, <2>1, <2>3
    <3> QED BY <2>1, <2>3, <3>1, AncestorsAre
  <2> QED BY <2>2, <2>3
<1>2. n \in Nat
  BY DEF IsTree
<1>3. \A i \in 1..n : i \in P
  <2> HIDE DEF P
  <2> QED BY <1>1, <1>2, IndexInduction
<1> QED
  BY <1>3

\* The ancestors of an ancestor are ancestors.
LEMMA AncestorsTransitive ==
    ASSUME NEW t, NEW n, IsTree(t, n)
    PROVE  \A i \in 1..n : \A j \in Ancestors(t, i) : Ancestors(t, j) \subseteq Ancestors(t, i)
<1> DEFINE P == {i \in 1..n : \A j \in Ancestors(t, i) : Ancestors(t, j) \subseteq Ancestors(t, i)}
<1>1. ASSUME NEW i \in 1..n, \A j \in 1..(i - 1) : j \in P PROVE i \in P
  <2>1. t[i].parent \in 0..(i - 1) /\ n \in Nat
    BY DEF IsTree
  <2>2. CASE t[i].parent = 0
    BY <2>2, AncestorsAre
  <2>3. CASE t[i].parent # 0
    <3>1. t[i].parent \in P
      BY <1>1, <2>1, <2>3
    <3>2. Ancestors(t, i) = {t[i].parent} \union Ancestors(t, t[i].parent)
      BY <2>3, AncestorsAre
    <3> QED BY <3>1, <3>2
  <2> QED BY <2>2, <2>3
<1>2. n \in Nat
  BY DEF IsTree
<1>3. \A i \in 1..n : i \in P
  <2> HIDE DEF P
  <2> QED BY <1>1, <1>2, IndexInduction
<1> QED
  BY <1>3

\* Two ancestors of a node are on one line.
LEMMA AncestorsLinear ==
    ASSUME NEW t, NEW n, IsTree(t, n)
    PROVE  \A i \in 1..n : \A j, k \in Ancestors(t, i) :
               j = k \/ j \in Ancestors(t, k) \/ k \in Ancestors(t, j)
<1> DEFINE P == {i \in 1..n : \A j, k \in Ancestors(t, i) :
                     j = k \/ j \in Ancestors(t, k) \/ k \in Ancestors(t, j)}
<1>1. ASSUME NEW i \in 1..n, \A j \in 1..(i - 1) : j \in P PROVE i \in P
  <2>1. t[i].parent \in 0..(i - 1) /\ n \in Nat
    BY DEF IsTree
  <2>2. CASE t[i].parent = 0
    BY <2>2, AncestorsAre
  <2>3. CASE t[i].parent # 0
    <3>1. t[i].parent \in P
      BY <1>1, <2>1, <2>3
    <3>2. Ancestors(t, i) = {t[i].parent} \union Ancestors(t, t[i].parent)
      BY <2>3, AncestorsAre
    <3> QED BY <3>1, <3>2
  <2> QED BY <2>2, <2>3
<1>2. n \in Nat
  BY DEF IsTree
<1>3. \A i \in 1..n : i \in P
  <2> HIDE DEF P
  <2> QED BY <1>1, <1>2, IndexInduction
<1> QED
  BY <1>3

\* Only the parents matter.
LEMMA AncestorsSame ==
    ASSUME NEW t, NEW u, NEW n, IsTree(t, n), IsTree(u, n),
           \A i \in 1..n : u[i].parent = t[i].parent
    PROVE  \A i \in 1..n : Ancestors(u, i) = Ancestors(t, i)
<1> DEFINE P == {i \in 1..n : Ancestors(u, i) = Ancestors(t, i)}
<1>1. ASSUME NEW i \in 1..n, \A j \in 1..(i - 1) : j \in P PROVE i \in P
  <2>1. t[i].parent \in 0..(i - 1) /\ n \in Nat
    BY DEF IsTree
  <2>2. CASE t[i].parent = 0
    BY <2>2, AncestorsAre
  <2>3. CASE t[i].parent # 0
    <3>1. t[i].parent \in P
      BY <1>1, <2>1, <2>3
    <3>2. Ancestors(t, i) = {t[i].parent} \union Ancestors(t, t[i].parent)
      BY <2>3, AncestorsAre
    <3>3. Ancestors(u, i) = {t[i].parent} \union Ancestors(u, t[i].parent)
      BY <2>3, AncestorsAre
    <3> QED BY <3>1, <3>2, <3>3
  <2> QED BY <2>2, <2>3
<1>2. n \in Nat
  BY DEF IsTree
<1>3. \A i \in 1..n : i \in P
  <2> HIDE DEF P
  <2> QED BY <1>1, <1>2, IndexInduction
<1> QED
  BY <1>3

-----------------------------------------------------------------------------
(* Keep.                                                                   *)

\* No element twice.
NoRepeat(s) == \A i, k \in DOMAIN s : i # k => s[i] # s[k]

\* The recursive equation of Keep.
IsKept(g, s, S, D) ==
    g = [k \in D |-> IF k = 0 THEN <<>>
                     ELSE IF s[k] \in S THEN Append(g[k - 1], s[k]) ELSE g[k - 1]]

\* That equation has a solution.
LEMMA KeptExists ==
    ASSUME NEW s, NEW S, NEW n, n \in Nat
    PROVE  \E g : IsKept(g, s, S, 0..n)
<1> DEFINE Q == {k \in Nat : \E g : IsKept(g, s, S, 0..k)}
<1>1. 0 \in Q
  <2> DEFINE g == [k \in 0..0 |-> <<>>]
  <2>1. g = [k \in 0..0 |-> IF k = 0 THEN <<>>
                     ELSE IF s[k] \in S THEN Append(g[k - 1], s[k]) ELSE g[k - 1]]
    OBVIOUS
  <2> HIDE DEF g
  <2>2. IsKept(g, s, S, 0..0)
    BY <2>1, Zenon DEF IsKept
  <2> QED BY <2>2
<1>2. ASSUME NEW k \in Nat, k \in Q PROVE k + 1 \in Q
  <2>1. PICK g : IsKept(g, s, S, 0..k)
    BY <1>2
  <2> DEFINE h == [i \in 0..(k + 1) |-> IF i = 0 THEN <<>>
                     ELSE IF s[i] \in S THEN Append(g[i - 1], s[i]) ELSE g[i - 1]]
  <2>2. \A i \in 0..k : h[i] = g[i]
    <3>1. \A i \in 0..k : g[i] = IF i = 0 THEN <<>>
                     ELSE IF s[i] \in S THEN Append(g[i - 1], s[i]) ELSE g[i - 1]
      BY <2>1, Zenon DEF IsKept
    <3>2. ASSUME NEW i \in 0..k
          PROVE  h[i] = IF i = 0 THEN <<>>
                        ELSE IF s[i] \in S THEN Append(g[i - 1], s[i]) ELSE g[i - 1]
      OBVIOUS
    <3> HIDE DEF h
    <3> QED BY <3>1, <3>2
  <2>3. h = [i \in 0..(k + 1) |-> IF i = 0 THEN <<>>
                     ELSE IF s[i] \in S THEN Append(h[i - 1], s[i]) ELSE h[i - 1]]
    <3>1. ASSUME NEW i \in 0..(k + 1), i # 0 PROVE h[i - 1] = g[i - 1]
      <4>1. i - 1 \in 0..k
        BY <3>1
      <4> HIDE DEF h
      <4> QED BY <2>2, <4>1
    <3> QED BY <3>1
  <2>4. IsKept(h, s, S, 0..(k + 1))
    <3> HIDE DEF h
    <3> QED BY <2>3, Zenon DEF IsKept
  <2> QED BY <2>4
<1>3. Nat \subseteq Q
  <2> HIDE DEF Q
  <2> QED BY <1>1, <1>2, NatSetInduction
<1> QED
  BY <1>3

\* g is what is left of the first k elements of s.
KeptOf(g, s, S, T, k) ==
    /\ g \in Seq(T) /\ Len(g) <= k
    /\ \A i \in 1..Len(g) : g[i] \in S /\ \E m \in 1..k : g[i] = s[m]
    /\ \A m \in 1..k : s[m] \in S => \E i \in 1..Len(g) : g[i] = s[m]
    /\ \A i, m \in 1..Len(g) : i # m => g[i] # g[m]

\* Keep returns the elements that are in S, each as often as before.
LEMMA KeepIs ==
    ASSUME NEW T, NEW s, s \in Seq(T), NoRepeat(s), NEW S
    PROVE  /\ Keep(s, S) \in Seq(T)
           /\ Len(Keep(s, S)) <= Len(s)
           /\ ToSet(Keep(s, S)) = ToSet(s) \intersect S
           /\ NoRepeat(Keep(s, S))
<1> DEFINE n == Len(s)
           g == CHOOSE g : IsKept(g, s, S, 0..n)
           Q == {k \in Nat : k <= n => KeptOf(g[k], s, S, T, k)}
<1>1. n \in Nat /\ DOMAIN s = 1..n /\ \A i \in 1..n : s[i] \in T
  OBVIOUS
<1>2. IsKept(g, s, S, 0..n)
  BY <1>1, KeptExists
<1>3. Keep(s, S) = g[n]
  BY Zenon DEF Keep, IsKept
<1> HIDE DEF g
<1>4. \A k \in 0..n : g[k] = IF k = 0 THEN <<>>
                     ELSE IF s[k] \in S THEN Append(g[k - 1], s[k]) ELSE g[k - 1]
  BY <1>2, Zenon DEF IsKept
<1>5. 0 \in Q
  <2>1. g[0] = <<>>
    BY <1>1, <1>4
  <2>2. <<>> \in Seq(T) /\ Len(<<>>) = 0
    OBVIOUS
  <2>3. KeptOf(<<>>, s, S, T, 0)
    BY <2>2 DEF KeptOf
  <2> QED BY <2>1, <2>3
<1>6. ASSUME NEW k \in Nat, k \in Q PROVE k + 1 \in Q
  <2> SUFFICES ASSUME k + 1 <= n PROVE KeptOf(g[k + 1], s, S, T, k + 1)
    OBVIOUS
  <2>1. KeptOf(g[k], s, S, T, k)
    BY <1>1, <1>6
  <2>2. g[k + 1] = IF s[k + 1] \in S THEN Append(g[k], s[k + 1]) ELSE g[k]
    <3>1. k + 1 \in 0..n /\ k + 1 # 0 /\ (k + 1) - 1 = k
      BY <1>1
    <3> QED BY <1>4, <3>1
  <2>3. s[k + 1] \in T /\ \A m \in 1..k : s[m] # s[k + 1]
    BY <1>1 DEF NoRepeat
  <2> DEFINE a == g[k]
             x == s[k + 1]
  <2>4. CASE x \notin S
    <3>1. g[k + 1] = a
      BY <2>2, <2>4
    <3> HIDE DEF n
    <3> QED BY <2>1, <2>4, <3>1 DEF KeptOf
  <2>5. CASE x \in S
    <3>1. g[k + 1] = Append(a, x)
      BY <2>2, <2>5
    <3>2. a \in Seq(T) /\ x \in T /\ Len(a) \in Nat
      BY <2>1, <2>3 DEF KeptOf
    <3> DEFINE b == Append(a, x)
    <3>3. /\ b \in Seq(T) /\ Len(b) = Len(a) + 1
          /\ \A i \in 1..Len(a) : b[i] = a[i]
          /\ b[Len(a) + 1] = x
      BY <3>2
    <3>4. \A i \in 1..Len(a) : a[i] # x
      BY <2>1, <2>3 DEF KeptOf
    <3>5. Len(b) <= k + 1
      BY <2>1, <3>2, <3>3 DEF KeptOf
    <3>6. \A i \in 1..Len(b) : b[i] \in S /\ \E m \in 1..(k + 1) : b[i] = s[m]
      <4> SUFFICES ASSUME NEW i \in 1..Len(b)
                   PROVE  b[i] \in S /\ \E m \in 1..(k + 1) : b[i] = s[m]
        OBVIOUS
      <4>1. CASE i \in 1..Len(a)
        <5>1. b[i] = a[i]
          BY <3>3, <4>1
        <5>2. PICK m \in 1..k : a[i] = s[m]
          BY <2>1, <4>1 DEF KeptOf
        <5> QED BY <2>1, <4>1, <5>1, <5>2 DEF KeptOf
      <4>2. CASE i = Len(a) + 1
        BY <2>5, <3>3, <4>2
      <4> QED BY <3>2, <3>3, <4>1, <4>2
    <3>7. \A m \in 1..(k + 1) : s[m] \in S => \E i \in 1..Len(b) : b[i] = s[m]
      <4> SUFFICES ASSUME NEW m \in 1..(k + 1), s[m] \in S
                   PROVE  \E i \in 1..Len(b) : b[i] = s[m]
        OBVIOUS
      <4>1. CASE m \in 1..k
        <5>1. PICK i \in 1..Len(a) : a[i] = s[m]
          BY <2>1, <4>1 DEF KeptOf
        <5> QED BY <3>2, <3>3, <5>1
      <4>2. CASE m = k + 1
        BY <3>2, <3>3, <4>2
      <4> QED BY <4>1, <4>2
    <3>8. \A i, m \in 1..Len(b) : i # m => b[i] # b[m]
      <4>1. \A i, m \in 1..Len(a) : i # m => a[i] # a[m]
        BY <2>1 DEF KeptOf
      <4> HIDE DEF b, a, x
      <4> QED BY <3>2, <3>3, <3>4, <4>1
    <3> QED
      <4> HIDE DEF b
      <4>1. KeptOf(b, s, S, T, k + 1)
        BY <3>3, <3>5, <3>6, <3>7, <3>8, Zenon DEF KeptOf
      <4> QED BY <3>1, <4>1 DEF b
  <2> QED BY <2>4, <2>5
<1>7. Nat \subseteq Q
  <2> HIDE DEF Q
  <2> QED BY <1>5, <1>6, NatSetInduction
<1>8. KeptOf(g[n], s, S, T, n)
  BY <1>1, <1>7
<1> DEFINE r == g[n]
<1>9. r \in Seq(T) /\ Len(r) <= n /\ DOMAIN r = 1..Len(r)
  BY <1>8 DEF KeptOf
<1>10. ToSet(r) = ToSet(s) \intersect S
  <2>1. \A x : x \in ToSet(r) <=> \E i \in 1..Len(r) : r[i] = x
    BY <1>9, Zenon DEF ToSet
  <2>2. \A x : x \in ToSet(s) <=> \E i \in 1..n : s[i] = x
    BY <1>1, Zenon DEF ToSet
  <2>3. /\ \A i \in 1..Len(r) : r[i] \in S /\ \E m \in 1..n : r[i] = s[m]
        /\ \A m \in 1..n : s[m] \in S => \E i \in 1..Len(r) : r[i] = s[m]
    BY <1>8, Zenon DEF KeptOf
  <2> HIDE DEF n, r
  <2> QED BY <2>1, <2>2, <2>3
<1>11. NoRepeat(r)
  BY <1>8, <1>9 DEF KeptOf, NoRepeat
<1> QED
  BY <1>3, <1>9, <1>10, <1>11

\* The first k elements of s that are kept stay in their order.
InOrder(g, s, k) ==
    \A i, m \in 1..Len(g) : i < m =>
        \E a, b \in 1..k : a < b /\ g[i] = s[a] /\ g[m] = s[b]

\* Keep leaves the elements in their order.
LEMMA KeepOrder ==
    ASSUME NEW T, NEW s, s \in Seq(T), NEW S
    PROVE  InOrder(Keep(s, S), s, Len(s))
<1> DEFINE n == Len(s)
           g == CHOOSE g : IsKept(g, s, S, 0..n)
           Q == {k \in Nat : k <= n => /\ g[k] \in Seq(T) /\ InOrder(g[k], s, k)
                                       /\ \A i \in 1..Len(g[k]) : \E a \in 1..k : g[k][i] = s[a]}
<1>1. n \in Nat /\ DOMAIN s = 1..n /\ \A i \in 1..n : s[i] \in T
  OBVIOUS
<1>2. IsKept(g, s, S, 0..n)
  BY <1>1, KeptExists
<1>3. Keep(s, S) = g[n]
  BY Zenon DEF Keep, IsKept
<1> HIDE DEF g
<1>4. \A k \in 0..n : g[k] = IF k = 0 THEN <<>>
                     ELSE IF s[k] \in S THEN Append(g[k - 1], s[k]) ELSE g[k - 1]
  BY <1>2, Zenon DEF IsKept
<1>5. 0 \in Q
  <2>1. g[0] = <<>>
    BY <1>1, <1>4
  <2>2. <<>> \in Seq(T) /\ Len(<<>>) = 0 /\ 1..0 = {}
    OBVIOUS
  <2>3. InOrder(<<>>, s, 0)
    BY <2>2 DEF InOrder
  <2>4. \A i \in 1..Len(<<>>) : FALSE
    BY <2>2
  <2> HIDE DEF n
  <2> QED BY <2>1, <2>2, <2>3, <2>4
<1>6. ASSUME NEW k \in Nat, k \in Q PROVE k + 1 \in Q
  <2> SUFFICES ASSUME k + 1 <= n
               PROVE  /\ g[k + 1] \in Seq(T) /\ InOrder(g[k + 1], s, k + 1)
                      /\ \A i \in 1..Len(g[k + 1]) : \E a \in 1..(k + 1) : g[k + 1][i] = s[a]
    OBVIOUS
  <2> DEFINE a == g[k]
             x == s[k + 1]
  <2>1. /\ a \in Seq(T) /\ InOrder(a, s, k)
        /\ \A i \in 1..Len(a) : \E c \in 1..k : a[i] = s[c]
    BY <1>1, <1>6
  <2>2. g[k + 1] = IF x \in S THEN Append(a, x) ELSE a
    <3>1. k + 1 \in 0..n /\ k + 1 # 0 /\ (k + 1) - 1 = k
      BY <1>1
    <3> QED BY <1>4, <3>1
  <2>3. x \in T
    BY <1>1
  <2> HIDE DEF a, x
  <2>4. CASE x \notin S
    <3>1. g[k + 1] = a
      BY <2>2, <2>4
    <3> HIDE DEF n
    <3> QED BY <2>1, <3>1 DEF InOrder
  <2>5. CASE x \in S
    <3> DEFINE b == Append(a, x)
    <3>1. g[k + 1] = b
      BY <2>2, <2>5
    <3>2. /\ b \in Seq(T) /\ Len(b) = Len(a) + 1 /\ Len(a) \in Nat
          /\ \A i \in 1..Len(a) : b[i] = a[i]
          /\ b[Len(a) + 1] = x
      BY <2>1, <2>3
    <3> HIDE DEF b, n
    <3>3. \A i \in 1..Len(b) : \E c \in 1..(k + 1) : b[i] = s[c] /\ (i # Len(b) => c <= k)
      <4> SUFFICES ASSUME NEW i \in 1..Len(b)
                   PROVE  \E c \in 1..(k + 1) : b[i] = s[c] /\ (i # Len(b) => c <= k)
        OBVIOUS
      <4>1. CASE i \in 1..Len(a)
        <5>1. PICK c \in 1..k : a[i] = s[c]
          BY <2>1, <4>1
        <5> QED BY <3>2, <4>1, <5>1
      <4>2. CASE i = Len(a) + 1
        BY <3>2, <4>2 DEF x
      <4> QED BY <3>2, <4>1, <4>2
    <3>4. InOrder(b, s, k + 1)
      <4> SUFFICES ASSUME NEW i \in 1..Len(b), NEW m \in 1..Len(b), i < m
                   PROVE  \E c, d \in 1..(k + 1) : c < d /\ b[i] = s[c] /\ b[m] = s[d]
        BY DEF InOrder
      <4>1. CASE m \in 1..Len(a)
        <5>1. i \in 1..Len(a) /\ b[i] = a[i] /\ b[m] = a[m]
          BY <3>2, <4>1
        <5>2. PICK c, d \in 1..k : c < d /\ a[i] = s[c] /\ a[m] = s[d]
          BY <2>1, <4>1, <5>1 DEF InOrder
        <5> QED BY <5>1, <5>2
      <4>2. CASE m = Len(b)
        <5>1. PICK c \in 1..(k + 1) : b[i] = s[c] /\ c <= k
          BY <3>2, <3>3, <4>2
        <5>2. b[m] = s[k + 1]
          BY <3>2, <4>2 DEF x
        <5> QED BY <5>1, <5>2
      <4> QED BY <3>2, <4>1, <4>2
    <3> QED BY <3>1, <3>2, <3>3, <3>4
  <2> QED BY <2>4, <2>5
<1>7. Nat \subseteq Q
  <2> HIDE DEF Q
  <2> QED BY <1>5, <1>6, NatSetInduction
<1>8. InOrder(g[n], s, n)
  BY <1>1, <1>7
<1> QED BY <1>3, <1>8

-----------------------------------------------------------------------------
(* Arenas, and what a deletion detaches.                                   *)

\* The type of a node, for entries of any kind.
NodeType(E) ==
    [entry : E, parent : Nat, kind : {"dir", "file", "symlink", "other"}, own : Nat, agg : Nat,
     files : Nat, dirs : Nat, children : SUBSET Nat,
     flags : SUBSET {"boundary", "unreadable", "shared", "tombstoned"}]

\* An arena: a sequence of nodes, the root first, parents before their children.
IsArena(t, E) ==
    /\ t \in Seq(NodeType(E))
    /\ IsTree(t, Len(t))
    /\ \A i \in DOMAIN t \ {Root} : t[i].parent # 0

\* What an arena is, field by field.
LEMMA ArenaFacts ==
    ASSUME NEW t, NEW E, IsArena(t, E)
    PROVE  /\ Len(t) \in Nat
           /\ IsTree(t, Len(t))
           /\ DOMAIN t = 1..Len(t)
           /\ \A i \in 1..Len(t) :
                /\ t[i] \in NodeType(E)
                /\ t[i].entry \in E
                /\ t[i].parent \in 0..(i - 1)
                /\ i # Root => t[i].parent # 0
                /\ t[i].own \in Nat /\ t[i].agg \in Nat /\ t[i].files \in Nat /\ t[i].dirs \in Nat
           /\ \A i \in Alive(t) : i \in 1..Len(t)
<1>1. /\ Len(t) \in Nat
      /\ IsTree(t, Len(t))
      /\ DOMAIN t = 1..Len(t)
      /\ \A i \in 1..Len(t) : t[i] \in NodeType(E) /\ t[i].parent \in 0..(i - 1)
      /\ \A i \in 1..Len(t) : i # Root => t[i].parent # 0
  BY DEF IsArena, IsTree
<1>2. \A x \in NodeType(E) : x.entry \in E /\ x.own \in Nat /\ x.agg \in Nat /\ x.files \in Nat /\ x.dirs \in Nat
  BY DEF NodeType
<1>3. \A i \in Alive(t) : i \in 1..Len(t)
  BY <1>1 DEF Alive
<1> QED BY <1>1, <1>2, <1>3

\* The recursive equation of the stack of apply_deletion.
IsBelow(b, t, target, S) ==
    b = [k \in S |-> IF k = 0 THEN {target}
                     ELSE b[k - 1] \union UNION {t[ix].children : ix \in b[k - 1]}]

\* That equation has a solution.
LEMMA BelowExists ==
    ASSUME NEW t, NEW target, NEW n, n \in Nat
    PROVE  \E b : IsBelow(b, t, target, 0..n)
<1> DEFINE Q == {k \in Nat : \E b : IsBelow(b, t, target, 0..k)}
<1>1. 0 \in Q
  <2>1. IsBelow([k \in 0..0 |-> {target}], t, target, 0..0)
    BY DEF IsBelow
  <2> QED BY <2>1
<1>2. ASSUME NEW k \in Nat, k \in Q PROVE k + 1 \in Q
  <2>1. PICK b : IsBelow(b, t, target, 0..k)
    BY <1>2
  <2> DEFINE h == [i \in 0..(k + 1) |-> IF i = 0 THEN {target}
                     ELSE b[i - 1] \union UNION {t[ix].children : ix \in b[i - 1]}]
  <2>2. \A i \in 0..k : h[i] = b[i]
    <3>1. \A i \in 0..k : b[i] = IF i = 0 THEN {target}
                     ELSE b[i - 1] \union UNION {t[ix].children : ix \in b[i - 1]}
      BY <2>1, Zenon DEF IsBelow
    <3>2. ASSUME NEW i \in 0..k
          PROVE  h[i] = IF i = 0 THEN {target}
                     ELSE b[i - 1] \union UNION {t[ix].children : ix \in b[i - 1]}
      OBVIOUS
    <3> HIDE DEF h
    <3> QED BY <3>1, <3>2
  <2>3. \A i \in 0..(k + 1) : i # 0 => i - 1 \in 0..k
    OBVIOUS
  <2>4. h = [i \in 0..(k + 1) |-> IF i = 0 THEN {target}
                     ELSE h[i - 1] \union UNION {t[ix].children : ix \in h[i - 1]}]
    BY <2>2, <2>3
  <2>5. IsBelow(h, t, target, 0..(k + 1))
    <3> HIDE DEF h
    <3> QED BY <2>4 DEF IsBelow
  <2> QED BY <2>5
<1>3. Nat \subseteq Q
  <2> HIDE DEF Q
  <2> QED BY <1>1, <1>2, NatSetInduction
<1> QED
  BY <1>3

\* What is unlinked from a live node is its live subtree.
LEMMA DetachedIsSubtree ==
    ASSUME NEW t, NEW E, IsArena(t, E), ListsExact(t), NEW target, target \in Alive(t)
    PROVE  Detached(t, target) = Subtree(t, target) \intersect Alive(t)
<1> DEFINE n == Len(t)
           b == CHOOSE b : IsBelow(b, t, target, 0..n)
           live == Subtree(t, target) \intersect Alive(t)
<1>0. /\ n \in Nat
      /\ IsTree(t, n)
      /\ DOMAIN t = 1..n
      /\ \A i \in 1..n : t[i].parent \in 0..(i - 1)
  BY DEF IsArena, IsTree
<1>1. IsBelow(b, t, target, 0..n)
  BY <1>0, BelowExists
<1>2. Detached(t, target) = b[n]
  BY DEF Detached, IsBelow
<1> HIDE DEF n, b
<1>3. \A k \in 0..n : b[k] = IF k = 0 THEN {target}
                     ELSE b[k - 1] \union UNION {t[ix].children : ix \in b[k - 1]}
  BY <1>1, Zenon DEF IsBelow
<1>4. target \in 1..n /\ target \in live
  BY <1>0 DEF Alive, Subtree
<1>5. /\ \A i \in live : i \in 1..n /\ i \in Alive(t) /\ (i = target \/ target \in Ancestors(t, i))
      /\ \A i \in 1..n : i \in Alive(t) /\ (i = target \/ target \in Ancestors(t, i)) => i \in live
  BY <1>0 DEF Subtree
<1>6. \A i \in 1..n : i \in Alive(t) => /\ t[i].children = {c \in Alive(t) : t[c].parent = i}
                                        /\ t[i].parent # 0 => t[i].parent \in Alive(t)
  BY <1>0 DEF ListsExact
<1>7. \A i \in Alive(t) : i \in 1..n
  BY <1>0 DEF Alive
<1>8. b[0] = {target}
  <2>1. 0 \in 0..n
    BY <1>0
  <2> QED BY <1>3, <2>1
<1>9. ASSUME NEW k \in Nat, k + 1 <= n
      PROVE  b[k + 1] = b[k] \union UNION {t[ix].children : ix \in b[k]}
  <2>1. k + 1 \in 0..n /\ k + 1 # 0 /\ (k + 1) - 1 = k
    BY <1>0, <1>9
  <2> QED BY <1>3, <2>1
<1> HIDE DEF live
<1>10. b[n] \subseteq live
  <2> DEFINE Q == {k \in Nat : k <= n => b[k] \subseteq live}
  <2>1. 0 \in Q
    BY <1>4, <1>8
  <2>2. ASSUME NEW k \in Nat, k \in Q PROVE k + 1 \in Q
    <3> SUFFICES ASSUME k + 1 <= n PROVE b[k + 1] \subseteq live
      OBVIOUS
    <3>1. b[k] \subseteq live
      BY <1>0, <2>2
    <3>2. ASSUME NEW ix \in live, NEW c \in t[ix].children PROVE c \in live
      <4>1. c \in Alive(t) /\ t[c].parent = ix
        BY <1>5, <1>6, <3>2
      <4>2. c \in 1..n /\ ix \in 1..n /\ ix # 0
        BY <1>0, <1>5, <1>7, <4>1
      <4>3. Ancestors(t, c) = {ix} \union Ancestors(t, ix)
        BY <1>0, <4>1, <4>2, AncestorsAre
      <4> QED BY <1>5, <4>1, <4>2, <4>3
    <3>3. \A c \in UNION {t[ix].children : ix \in b[k]} : c \in live
      BY <3>1, <3>2
    <3>4. b[k + 1] = b[k] \union UNION {t[ix].children : ix \in b[k]}
      BY <1>9
    <3> QED BY <3>1, <3>3, <3>4
  <2>3. Nat \subseteq Q
    <3> HIDE DEF Q
    <3> QED BY <2>1, <2>2, NatSetInduction
  <2> QED BY <1>0, <2>3
<1>11. live \subseteq b[n]
  <2> DEFINE Q == {k \in Nat : k <= n => target \in b[k]}
  <2>1. 0 \in Q
    BY <1>8
  <2>2. ASSUME NEW k \in Nat, k \in Q PROVE k + 1 \in Q
    <3> SUFFICES ASSUME k + 1 <= n PROVE target \in b[k + 1]
      OBVIOUS
    <3>1. target \in b[k]
      BY <1>0, <2>2
    <3> QED BY <1>9, <3>1
  <2>3. Nat \subseteq Q
    <3> HIDE DEF Q
    <3> QED BY <2>1, <2>2, NatSetInduction
  <2>4. \A k \in 0..n : target \in b[k]
    BY <1>0, <2>3
  <2> DEFINE Reached(i) == i >= target /\ \A k \in (i - target)..n : i \in b[k]
             P == {i \in 1..n : i \in live => Reached(i)}
  <2>5. ASSUME NEW i \in 1..n, \A j \in 1..(i - 1) : j \in P PROVE i \in P
    <3> SUFFICES ASSUME i \in live PROVE Reached(i)
      OBVIOUS
    <3>1. CASE i = target
      BY <1>0, <1>4, <2>4, <3>1
    <3>2. CASE i # target
      <4> DEFINE j == t[i].parent
      <4>1. target \in Ancestors(t, i) /\ i \in Alive(t)
        BY <1>5, <3>2
      <4>2. j # 0 /\ j \in 0..(i - 1) /\ Ancestors(t, i) = {j} \union Ancestors(t, j)
        BY <1>0, <4>1, AncestorsAre
      <4>3. j \in 1..(i - 1) /\ j \in 1..n
        BY <1>0, <4>2
      <4>4. j \in Alive(t)
        BY <1>6, <4>1, <4>2
      <4>5. t[j].children = {c \in Alive(t) : t[c].parent = j}
        BY <1>6, <4>3, <4>4
      <4>6. j \in live /\ i \in t[j].children
        BY <1>5, <4>1, <4>2, <4>3, <4>4, <4>5
      <4>7. Reached(j)
        BY <2>5, <4>3, <4>6
      <4> HIDE DEF j
      <4>8. i >= target
        BY <1>0, <1>4, <4>3, <4>7
      <4>9. ASSUME NEW k \in (i - target)..n PROVE i \in b[k]
        <5>0. k \in Nat /\ k >= i - target /\ k <= n /\ i \in Nat /\ j \in Nat /\ target \in Nat
              /\ j < i /\ target <= j
          BY <1>0, <1>4, <4>3, <4>7, <4>8
        <5>1. k - 1 \in (j - target)..n /\ k - 1 \in Nat /\ (k - 1) + 1 = k /\ k <= n
          BY <1>0, <5>0
        <5>2. j \in b[k - 1]
          BY <4>7, <5>1
        <5>3. b[k] = b[k - 1] \union UNION {t[ix].children : ix \in b[k - 1]}
          BY <1>9, <5>1
        <5> QED BY <4>6, <5>2, <5>3
      <4> QED BY <4>8, <4>9
    <3> QED BY <3>1, <3>2
  <2>6. \A i \in 1..n : i \in P
    <3> HIDE DEF P
    <3> QED BY <1>0, <2>5, IndexInduction
  <2>7. ASSUME NEW i \in live PROVE i \in b[n]
    <3>1. i \in 1..n /\ Reached(i)
      BY <1>5, <2>6, <2>7
    <3>2. n \in (i - target)..n
      BY <1>0, <1>4, <3>1
    <3> QED BY <3>1, <3>2
  <2> QED BY <2>7
<1> QED
  BY <1>2, <1>10, <1>11 DEF live

-----------------------------------------------------------------------------
(* What a deletion does to the nodes.                                      *)

\* Taking a part out of a set takes its sum off the sum.
LEMMA SumSplit ==
    ASSUME NEW f, NEW S, IsFiniteSet(S), NEW G, G \subseteq S, \A x \in S : f[x] \in Int
    PROVE  SumFunctionOnSet(f, S \ G) = SumFunctionOnSet(f, S) - SumFunctionOnSet(f, G)
<1>1. /\ IsFiniteSet(S \ G)
      /\ IsFiniteSet(G)
  BY FS_Subset
<1>2. /\ SumFunctionOnSet(f, S \ G) \in Int
      /\ SumFunctionOnSet(f, G) \in Int
  BY <1>1, SumType
<1>3. (S \ G) \intersect G = {} /\ (S \ G) \union G = S
  OBVIOUS
<1>4. SumFunctionOnSet(f, (S \ G) \union G)
        = SumFunctionOnSet(f, S \ G) + SumFunctionOnSet(f, G)
  BY <1>1, <1>3, SumDisjoint
<1> DEFINE a == SumFunctionOnSet(f, S \ G)
           b == SumFunctionOnSet(f, G)
           c == SumFunctionOnSet(f, S)
<1>5. a \in Int /\ b \in Int /\ c = a + b
  BY <1>2, <1>3, <1>4
<1> HIDE DEF a, b, c
<1>6. a = c - b
  BY <1>5
<1> QED
  BY <1>6 DEF a, b, c

\* Likewise for counting.
LEMMA CardSplit ==
    ASSUME NEW S, IsFiniteSet(S), NEW G, G \subseteq S
    PROVE  /\ Cardinality(S \ G) = Cardinality(S) - Cardinality(G)
           /\ Cardinality(S) \in Nat /\ Cardinality(G) \in Nat /\ Cardinality(S \ G) \in Nat
<1>1. S \intersect G = G
  OBVIOUS
<1> QED
  BY <1>1, FS_Difference, FS_Subset, FS_CardinalityType

\* Every node but the root is below the root.
LEMMA RootAbove ==
    ASSUME NEW t, NEW E, IsArena(t, E)
    PROVE  \A i \in DOMAIN t \ {Root} : Root \in Ancestors(t, i)
<1> DEFINE n == Len(t)
           P == {i \in 1..n : i # Root => Root \in Ancestors(t, i)}
<1>0. /\ n \in Nat
      /\ IsTree(t, n)
      /\ DOMAIN t = 1..n
      /\ \A i \in 1..n : t[i].parent \in 0..(i - 1)
      /\ \A i \in 1..n \ {Root} : t[i].parent # 0
  BY DEF IsArena, IsTree
<1> HIDE DEF n
<1>1. ASSUME NEW i \in 1..n, \A j \in 1..(i - 1) : j \in P PROVE i \in P
  <2>1. CASE i # Root
    <3>1. t[i].parent \in 1..(i - 1) /\ t[i].parent # 0
      BY <1>0, <2>1
    <3>2. t[i].parent \in P
      BY <1>1, <3>1
    <3>3. Ancestors(t, i) = {t[i].parent} \union Ancestors(t, t[i].parent)
      BY <1>0, <3>1, AncestorsAre
    <3> QED BY <3>2, <3>3
  <2> QED BY <2>1
<1>2. \A i \in 1..n : i \in P
  <2> HIDE DEF P
  <2> QED BY <1>0, <1>1, IndexInduction
<1> QED
  BY <1>0, <1>2

\* The ancestors of a live node are live.
LEMMA AncestorsAlive ==
    ASSUME NEW t, NEW E, IsArena(t, E), ListsExact(t)
    PROVE  \A i \in Alive(t) : Ancestors(t, i) \subseteq Alive(t)
<1> DEFINE n == Len(t)
           P == {i \in 1..n : i \in Alive(t) => Ancestors(t, i) \subseteq Alive(t)}
<1>0. /\ n \in Nat
      /\ IsTree(t, n)
      /\ DOMAIN t = 1..n
      /\ \A i \in 1..n : t[i].parent \in 0..(i - 1)
      /\ \A i \in 1..n : i \in Alive(t) /\ t[i].parent # 0 => t[i].parent \in Alive(t)
      /\ Alive(t) \subseteq 1..n
  BY DEF IsArena, IsTree, ListsExact, Alive
<1> HIDE DEF n
<1>1. ASSUME NEW i \in 1..n, \A j \in 1..(i - 1) : j \in P PROVE i \in P
  <2> SUFFICES ASSUME i \in Alive(t) PROVE Ancestors(t, i) \subseteq Alive(t)
    OBVIOUS
  <2>1. CASE t[i].parent = 0
    BY <1>0, <2>1, AncestorsAre
  <2>2. CASE t[i].parent # 0
    <3>1. t[i].parent \in 1..(i - 1) /\ t[i].parent \in Alive(t)
      BY <1>0, <2>2
    <3>2. t[i].parent \in P
      BY <1>1, <3>1
    <3>3. Ancestors(t, i) = {t[i].parent} \union Ancestors(t, t[i].parent)
      BY <1>0, <2>2, AncestorsAre
    <3> QED BY <3>1, <3>2, <3>3
  <2> QED BY <2>1, <2>2
<1>2. \A i \in 1..n : i \in P
  <2> HIDE DEF P
  <2> QED BY <1>0, <1>1, IndexInduction
<1> QED
  BY <1>0, <1>2

\* A subtraction clamped at zero, as adjust_ancestors makes it.
Less(x, d) == Max({x - d, 0})

\* The clamp does not show when there is enough to take.
LEMMA LessIs == \A x, d \in Nat : d <= x => Less(x, d) = x - d
BY DEF Less, Max

\* The result is never negative.
LEMMA LessType == \A x, d \in Nat : Less(x, d) \in Nat
BY DEF Less, Max

\* A record of node fields.
Made(entry, parent, kind, own, agg, files, dirs, children, flags) ==
    [entry |-> entry, parent |-> parent, kind |-> kind, own |-> own, agg |-> agg,
     files |-> files, dirs |-> dirs, children |-> children, flags |-> flags]

\* A node with other flags and children, written out.
LEMMA SetFlagsChildren ==
    ASSUME NEW E, NEW r, r \in NodeType(E), NEW F, NEW C
    PROVE  [r EXCEPT !.flags = F, !.children = C] =
              Made(r.entry, r.parent, r.kind, r.own, r.agg, r.files, r.dirs, C, F)
<1> DEFINE q == [r EXCEPT !.flags = F]
<1>1. q = Made(r.entry, r.parent, r.kind, r.own, r.agg, r.files, r.dirs, r.children, F)
  BY DEF NodeType, Made
<1> HIDE DEF q
<1>2. [q EXCEPT !.children = C] =
              Made(r.entry, r.parent, r.kind, r.own, r.agg, r.files, r.dirs, C, F)
  BY <1>1 DEF Made
<1> QED BY <1>2 DEF q

\* A node with other children, written out.
LEMMA SetChildren ==
    ASSUME NEW E, NEW r, r \in NodeType(E), NEW C
    PROVE  [r EXCEPT !.children = C] =
              Made(r.entry, r.parent, r.kind, r.own, r.agg, r.files, r.dirs, C, r.flags)
BY DEF NodeType, Made

\* A node, written out.
LEMMA IsMade ==
    ASSUME NEW E, NEW r, r \in NodeType(E)
    PROVE  r = Made(r.entry, r.parent, r.kind, r.own, r.agg, r.files, r.dirs, r.children, r.flags)
BY DEF NodeType, Made

\* What a deletion makes of node i: gone is what it unlinks, above the ancestors
\* of its target.
DeletedNode(t, target, gone, above, i) ==
    Made(t[i].entry, t[i].parent, t[i].kind, t[i].own,
         IF i \in above THEN Less(t[i].agg, t[target].agg) ELSE t[i].agg,
         IF i \in above THEN Less(t[i].files, t[target].files) ELSE t[i].files,
         IF i \in above THEN Less(t[i].dirs, t[target].dirs) ELSE t[i].dirs,
         IF i \in gone THEN {}
         ELSE IF i = t[target].parent THEN t[i].children \ {target}
         ELSE t[i].children,
         IF i \in gone THEN t[i].flags \union {"tombstoned"} ELSE t[i].flags)

\* What a deletion does to every node.
LEMMA DeletionNodes ==
    ASSUME NEW t, NEW E, IsArena(t, E), NEW target, CanDelete(t, target)
    PROVE  /\ DOMAIN ApplyDeletion(t, target) = DOMAIN t
           /\ \A i \in DOMAIN t : ApplyDeletion(t, target)[i] =
                DeletedNode(t, target, Detached(t, target), Ancestors(t, target), i)
<1> DEFINE n == Len(t)
           m == Tombstone(t, target)
           gone == Detached(t, target)
           Kids(i) == IF i \in gone THEN {}
                      ELSE IF i = t[target].parent THEN t[i].children \ {target}
                      ELSE t[i].children
           Flags(i) == IF i \in gone THEN t[i].flags \union {"tombstoned"} ELSE t[i].flags
<1>0. /\ n \in Nat
      /\ IsTree(t, n)
      /\ DOMAIN t = 1..n
      /\ \A i \in 1..n : t[i] \in NodeType(E)
      /\ target \in 1..n
  BY DEF IsArena, IsTree, CanDelete
<1> HIDE DEF n
<1>1. /\ DOMAIN m = 1..n
      /\ \A i \in 1..n : m[i] =
            IF i \in gone
            THEN [t[i] EXCEPT !.flags = t[i].flags \union {"tombstoned"}, !.children = {}]
            ELSE IF i = t[target].parent
            THEN [t[i] EXCEPT !.children = t[i].children \ {target}]
            ELSE t[i]
  BY <1>0, Zenon DEF Tombstone
<1> HIDE DEF m, gone
<1>2. ASSUME NEW i \in 1..n
      PROVE  m[i] = Made(t[i].entry, t[i].parent, t[i].kind, t[i].own, t[i].agg, t[i].files,
                         t[i].dirs, Kids(i), Flags(i))
  <2>0. t[i] \in NodeType(E)
    BY <1>0
  <2>1. CASE i \in gone
    <3>1. m[i] = [t[i] EXCEPT !.flags = t[i].flags \union {"tombstoned"}, !.children = {}]
      BY <1>1, <2>1, Zenon
    <3>2. m[i] = Made(t[i].entry, t[i].parent, t[i].kind, t[i].own, t[i].agg, t[i].files,
                      t[i].dirs, {}, t[i].flags \union {"tombstoned"})
      BY <2>0, <3>1, SetFlagsChildren, Zenon
    <3> QED BY <2>1, <3>2
  <2>2. CASE i \notin gone /\ i = t[target].parent
    <3>1. m[i] = [t[i] EXCEPT !.children = t[i].children \ {target}]
      BY <1>1, <2>2, Zenon
    <3>2. m[i] = Made(t[i].entry, t[i].parent, t[i].kind, t[i].own, t[i].agg, t[i].files,
                      t[i].dirs, t[i].children \ {target}, t[i].flags)
      BY <2>0, <3>1, SetChildren, Zenon
    <3> QED BY <2>2, <3>2
  <2>3. CASE i \notin gone /\ i # t[target].parent
    <3>1. m[i] = t[i]
      BY <1>1, <2>3, Zenon
    <3>2. m[i] = Made(t[i].entry, t[i].parent, t[i].kind, t[i].own, t[i].agg, t[i].files,
                      t[i].dirs, t[i].children, t[i].flags)
      BY <2>0, <3>1, IsMade, Zenon
    <3> QED BY <2>3, <3>2
  <2> QED BY <2>1, <2>2, <2>3
<1> HIDE DEF Kids, Flags
<1>3. IsTree(m, n) /\ \A i \in 1..n : m[i].parent = t[i].parent
  BY <1>0, <1>1, <1>2 DEF Made, IsTree
<1>4. Ancestors(m, target) = Ancestors(t, target)
  BY <1>0, <1>3, AncestorsSame
<1>5. /\ t[target].agg \in Nat /\ t[target].files \in Nat /\ t[target].dirs \in Nat
  BY <1>0 DEF NodeType
<1>6. /\ DOMAIN ApplyDeletion(t, target) = 1..n
      /\ \A i \in 1..n : ApplyDeletion(t, target)[i] =
            IF i \in Ancestors(t, target)
            THEN [m[i] EXCEPT !.agg = Max({m[i].agg + (-t[target].agg), 0}),
                              !.files = Max({m[i].files + (-t[target].files), 0}),
                              !.dirs = Max({m[i].dirs + (-t[target].dirs), 0})]
            ELSE m[i]
  <2>1. ApplyDeletion(t, target) =
          AdjustAncestors(m, target, -t[target].agg, -t[target].files, -t[target].dirs)
    BY DEF ApplyDeletion, m
  <2> QED BY <1>1, <1>4, <2>1, Zenon DEF AdjustAncestors
<1>7. \A x, d \in Nat : Max({x + (-d), 0}) = Less(x, d)
  <2>1. \A x, d \in Nat : x + (-d) = x - d
    OBVIOUS
  <2> QED BY <2>1 DEF Less
<1>8. ASSUME NEW i \in 1..n
      PROVE  ApplyDeletion(t, target)[i] =
                    Made(t[i].entry, t[i].parent, t[i].kind, t[i].own,
                         IF i \in Ancestors(t, target) THEN Less(t[i].agg, t[target].agg) ELSE t[i].agg,
                         IF i \in Ancestors(t, target) THEN Less(t[i].files, t[target].files) ELSE t[i].files,
                         IF i \in Ancestors(t, target) THEN Less(t[i].dirs, t[target].dirs) ELSE t[i].dirs,
                         Kids(i), Flags(i))
  <2>0. t[i].agg \in Nat /\ t[i].files \in Nat /\ t[i].dirs \in Nat
    BY <1>0 DEF NodeType
  <2>1. CASE i \notin Ancestors(t, target)
    BY <1>2, <1>6, <2>1
  <2>2. CASE i \in Ancestors(t, target)
    <3> DEFINE K == Kids(i)
               F == Flags(i)
    <3>0. m[i] = Made(t[i].entry, t[i].parent, t[i].kind, t[i].own, t[i].agg, t[i].files,
                      t[i].dirs, K, F)
      BY <1>2, Zenon
    <3> HIDE DEF K, F
    <3>1. m[i].agg = t[i].agg /\ m[i].files = t[i].files /\ m[i].dirs = t[i].dirs
      BY <3>0 DEF Made
    <3>2. /\ Max({m[i].agg + (-t[target].agg), 0}) = Less(t[i].agg, t[target].agg)
          /\ Max({m[i].files + (-t[target].files), 0}) = Less(t[i].files, t[target].files)
          /\ Max({m[i].dirs + (-t[target].dirs), 0}) = Less(t[i].dirs, t[target].dirs)
      BY <1>5, <1>7, <2>0, <3>1
    <3>3. ApplyDeletion(t, target)[i] =
            [m[i] EXCEPT !.agg = Less(t[i].agg, t[target].agg),
                         !.files = Less(t[i].files, t[target].files),
                         !.dirs = Less(t[i].dirs, t[target].dirs)]
      BY <1>6, <2>2, <3>2, Zenon
    <3>4. ApplyDeletion(t, target)[i] =
            Made(t[i].entry, t[i].parent, t[i].kind, t[i].own,
                 Less(t[i].agg, t[target].agg), Less(t[i].files, t[target].files),
                 Less(t[i].dirs, t[target].dirs), K, F)
      <4> DEFINE a == Less(t[i].agg, t[target].agg)
                 f == Less(t[i].files, t[target].files)
                 d == Less(t[i].dirs, t[target].dirs)
                 r == m[i]
      <4>1. ApplyDeletion(t, target)[i] = [r EXCEPT !.agg = a, !.files = f, !.dirs = d]
        BY <3>3
      <4>2. r = Made(t[i].entry, t[i].parent, t[i].kind, t[i].own, t[i].agg, t[i].files,
                     t[i].dirs, K, F)
        BY <3>0
      <4> HIDE DEF a, f, d, r
      <4>3. [r EXCEPT !.agg = a, !.files = f, !.dirs = d]
              = Made(t[i].entry, t[i].parent, t[i].kind, t[i].own, a, f, d, K, F)
        <5> DEFINE q == [r EXCEPT !.agg = a]
                   p == [q EXCEPT !.files = f]
        <5>1. q = Made(t[i].entry, t[i].parent, t[i].kind, t[i].own, a, t[i].files,
                       t[i].dirs, K, F)
          BY <4>2 DEF Made
        <5> HIDE DEF q
        <5>2. p = Made(t[i].entry, t[i].parent, t[i].kind, t[i].own, a, f, t[i].dirs, K, F)
          BY <5>1 DEF Made
        <5> HIDE DEF p
        <5>3. [p EXCEPT !.dirs = d]
                = Made(t[i].entry, t[i].parent, t[i].kind, t[i].own, a, f, d, K, F)
          BY <5>2 DEF Made
        <5> QED BY <5>3 DEF p, q
      <4> QED BY <4>1, <4>3 DEF a, f, d
    <3> QED BY <2>2, <3>4 DEF K, F
  <2> QED BY <2>1, <2>2
<1> QED
  BY <1>0, <1>6, <1>8 DEF gone, Kids, Flags, DeletedNode

\* A deletion yields a function on the same ids.
LEMMA DeletionIsFunction ==
    ASSUME NEW t, NEW target, CanDelete(t, target)
    PROVE  ApplyDeletion(t, target) = [i \in DOMAIN t |-> ApplyDeletion(t, target)[i]]
<1> DEFINE m == Tombstone(t, target)
           above == Ancestors(m, target)
           body(i) == IF i \in above
            THEN [m[i] EXCEPT !.agg = Max({m[i].agg + (-t[target].agg), 0}),
                              !.files = Max({m[i].files + (-t[target].files), 0}),
                              !.dirs = Max({m[i].dirs + (-t[target].dirs), 0})]
            ELSE m[i]
<1>1. DOMAIN m = DOMAIN t
  BY Zenon DEF Tombstone
<1>2. ApplyDeletion(t, target) = AdjustAncestors(m, target, -t[target].agg, -t[target].files, -t[target].dirs)
  BY DEF ApplyDeletion
<1> HIDE DEF m
<1>3. ApplyDeletion(t, target) = [i \in DOMAIN m |-> body(i)]
  BY <1>2, Zenon DEF AdjustAncestors
<1> HIDE DEF body
<1> QED BY <1>1, <1>3

\* What a deletion of target makes of the arena t.
Deleted(t, r, target, gone, above) ==
    /\ DOMAIN r = DOMAIN t
    /\ Alive(r) = Alive(t) \ gone
    /\ \A i \in DOMAIN t : Ancestors(r, i) = Ancestors(t, i)
    /\ \A i \in DOMAIN t :
        /\ r[i].entry = t[i].entry /\ r[i].parent = t[i].parent
        /\ r[i].kind = t[i].kind /\ r[i].own = t[i].own
        /\ r[i].agg = IF i \in above THEN Less(t[i].agg, t[target].agg) ELSE t[i].agg
        /\ r[i].files = IF i \in above THEN Less(t[i].files, t[target].files) ELSE t[i].files
        /\ r[i].dirs = IF i \in above THEN Less(t[i].dirs, t[target].dirs) ELSE t[i].dirs
        /\ r[i].children = IF i \in gone THEN {}
                           ELSE IF i = t[target].parent THEN t[i].children \ {target}
                           ELSE t[i].children

\* The facts about a deletion the rest is derived from.
LEMMA DeletionFacts ==
    ASSUME NEW t, NEW E, IsArena(t, E), ListsExact(t), NEW target, CanDelete(t, target)
    PROVE  /\ IsArena(ApplyDeletion(t, target), E)
           /\ Deleted(t, ApplyDeletion(t, target), target,
                      Subtree(t, target) \intersect Alive(t), Ancestors(t, target))
<1> DEFINE n == Len(t)
           r == ApplyDeletion(t, target)
           gone == Subtree(t, target) \intersect Alive(t)
           above == Ancestors(t, target)
           agg(i) == IF i \in above THEN Less(t[i].agg, t[target].agg) ELSE t[i].agg
           files(i) == IF i \in above THEN Less(t[i].files, t[target].files) ELSE t[i].files
           dirs(i) == IF i \in above THEN Less(t[i].dirs, t[target].dirs) ELSE t[i].dirs
           kids(i) == IF i \in gone THEN {}
                      ELSE IF i = t[target].parent THEN t[i].children \ {target}
                      ELSE t[i].children
           flags(i) == IF i \in gone THEN t[i].flags \union {"tombstoned"} ELSE t[i].flags
<1>0. /\ n \in Nat
      /\ IsTree(t, n)
      /\ DOMAIN t = 1..n
      /\ \A i \in 1..n : t[i] \in NodeType(E)
      /\ \A i \in 1..n : t[i].parent \in 0..(i - 1)
      /\ \A i \in 1..n \ {Root} : t[i].parent # 0
      /\ target \in Alive(t)
      /\ target \in 1..n
      /\ Alive(t) \subseteq 1..n
  BY DEF IsArena, IsTree, CanDelete, Alive
<1>1. gone = Detached(t, target)
  BY <1>0, DetachedIsSubtree
<1>2. /\ DOMAIN r = 1..n
      /\ \A i \in 1..n : r[i] = Made(t[i].entry, t[i].parent, t[i].kind, t[i].own,
                                     agg(i), files(i), dirs(i), kids(i), flags(i))
  <2>1. /\ DOMAIN r = DOMAIN t
        /\ \A i \in DOMAIN t : r[i] = DeletedNode(t, target, Detached(t, target), above, i)
    BY DeletionNodes
  <2> HIDE DEF n, gone, r, above
  <2> QED BY <1>0, <1>1, <2>1 DEF DeletedNode
<1> HIDE DEF n, r, agg, files, dirs, kids, flags
<1>3. ASSUME NEW i \in 1..n
      PROVE  /\ r[i].entry = t[i].entry /\ r[i].parent = t[i].parent
             /\ r[i].kind = t[i].kind /\ r[i].own = t[i].own
             /\ r[i].agg = agg(i)
             /\ r[i].files = files(i)
             /\ r[i].dirs = dirs(i)
             /\ r[i].children = kids(i)
             /\ r[i].flags = flags(i)
             /\ r[i] \in NodeType(E)
  <2> DEFINE a == agg(i)
             f == files(i)
             d == dirs(i)
             k == kids(i)
             g == flags(i)
  <2>1. r[i] = Made(t[i].entry, t[i].parent, t[i].kind, t[i].own, a, f, d, k, g)
    BY <1>2
  <2>2. t[i] \in NodeType(E) /\ t[target] \in NodeType(E)
    BY <1>0
  <2>3. a \in Nat /\ f \in Nat /\ d \in Nat
    <3> HIDE DEF above
    <3>1. /\ t[i].agg \in Nat /\ t[i].files \in Nat /\ t[i].dirs \in Nat
          /\ t[target].agg \in Nat /\ t[target].files \in Nat /\ t[target].dirs \in Nat
      BY <2>2 DEF NodeType
    <3> QED BY <3>1, LessType DEF agg, files, dirs
  <2>4. k \in SUBSET Nat /\ g \in SUBSET {"boundary", "unreadable", "shared", "tombstoned"}
    <3> HIDE DEF gone
    <3>1. /\ t[i].children \in SUBSET Nat
          /\ t[i].flags \in SUBSET {"boundary", "unreadable", "shared", "tombstoned"}
      BY <2>2 DEF NodeType
    <3> QED BY <3>1 DEF kids, flags
  <2>5. t[i].entry \in E /\ t[i].parent \in Nat /\ t[i].kind \in {"dir", "file", "symlink", "other"}
        /\ t[i].own \in Nat
    BY <2>2 DEF NodeType
  <2> HIDE DEF a, f, d, k, g
  <2>6. /\ r[i].entry = t[i].entry /\ r[i].parent = t[i].parent
        /\ r[i].kind = t[i].kind /\ r[i].own = t[i].own
        /\ r[i].agg = a /\ r[i].files = f /\ r[i].dirs = d /\ r[i].children = k /\ r[i].flags = g
    BY <2>1 DEF Made
  <2>7. r[i] \in NodeType(E)
    BY <2>1, <2>3, <2>4, <2>5 DEF Made, NodeType
  <2> QED BY <2>6, <2>7 DEF a, f, d, k, g
<1>4. IsArena(r, E)
  <2>1. r = [i \in 1..n |-> r[i]]
    <3>1. r = [i \in DOMAIN t |-> r[i]]
      BY DeletionIsFunction DEF r
    <3> QED BY <1>0, <3>1
  <2>2. r \in Seq(NodeType(E)) /\ Len(r) = n
    BY <1>0, <1>3, <2>1
  <2> QED BY <1>0, <1>2, <1>3, <2>2 DEF IsArena, IsTree
<1>5. Alive(r) = Alive(t) \ gone
  <2> HIDE DEF gone
  <2>1. ASSUME NEW i \in 1..n
        PROVE  "tombstoned" \notin r[i].flags <=> "tombstoned" \notin t[i].flags /\ i \notin gone
    BY <1>3 DEF flags
  <2> QED BY <1>0, <1>2, <2>1 DEF Alive
<1>6. \A i \in 1..n : Ancestors(r, i) = Ancestors(t, i)
  <2>1. IsTree(r, n)
    BY <1>0, <1>2, <1>3 DEF IsTree
  <2> QED BY <1>0, <1>3, <2>1, AncestorsSame
<1> QED
  <2>1. \A i \in 1..n :
           /\ r[i].agg = IF i \in above THEN Less(t[i].agg, t[target].agg) ELSE t[i].agg
           /\ r[i].files = IF i \in above THEN Less(t[i].files, t[target].files) ELSE t[i].files
           /\ r[i].dirs = IF i \in above THEN Less(t[i].dirs, t[target].dirs) ELSE t[i].dirs
           /\ r[i].children = IF i \in gone THEN {}
                                       ELSE IF i = t[target].parent THEN t[i].children \ {target}
                                       ELSE t[i].children
    <3> HIDE DEF gone, above
    <3> QED BY <1>3 DEF agg, files, dirs, kids
  <2>2. Deleted(t, r, target, gone, above)
    <3> HIDE DEF gone, above
    <3> QED BY <1>0, <1>2, <1>3, <1>5, <1>6, <2>1 DEF Deleted
  <2> QED BY <1>4, <2>2 DEF r

\* A deletion keeps the child lists exact.
LEMMA DeletionLists ==
    ASSUME NEW t, NEW E, IsArena(t, E), ListsExact(t), NEW target, CanDelete(t, target)
    PROVE  ListsExact(ApplyDeletion(t, target))
<1> DEFINE n == Len(t)
           r == ApplyDeletion(t, target)
           gone == Subtree(t, target) \intersect Alive(t)
<1>0. /\ n \in Nat
      /\ IsTree(t, n)
      /\ DOMAIN t = 1..n
      /\ \A i \in 1..n : t[i].parent \in 0..(i - 1)
      /\ target \in Alive(t)
      /\ target \in 1..n
      /\ \A i \in Alive(t) : i \in 1..n
      /\ t[target].parent # 0
  BY DEF IsArena, IsTree, CanDelete, Alive
<1>1. \A i \in 1..n :
        /\ i \in Alive(t) /\ t[i].parent # 0 => t[i].parent \in Alive(t)
        /\ i \in Alive(t) => t[i].children = {c \in Alive(t) : t[c].parent = i}
        /\ i \notin Alive(t) => t[i].children = {}
  BY <1>0 DEF ListsExact
<1>2. /\ DOMAIN r = 1..n
      /\ Alive(r) = Alive(t) \ gone
      /\ \A i \in 1..n :
            /\ r[i].parent = t[i].parent
            /\ r[i].children = IF i \in gone THEN {}
                               ELSE IF i = t[target].parent THEN t[i].children \ {target}
                               ELSE t[i].children
  <2> HIDE DEF n
  <2>1. /\ DOMAIN r = DOMAIN t
        /\ Alive(r) = Alive(t) \ gone
        /\ \A i \in DOMAIN t :
            /\ r[i].parent = t[i].parent
            /\ r[i].children = IF i \in gone THEN {}
                               ELSE IF i = t[target].parent THEN t[i].children \ {target}
                               ELSE t[i].children
    <3> DEFINE above == Ancestors(t, target)
    <3>1. Deleted(t, r, target, gone, above)
      BY DeletionFacts
    <3> HIDE DEF r, gone, above
    <3> QED BY <3>1 DEF Deleted
  <2> QED BY <1>0, <2>1
<1>3. \A i \in 1..n : i \in gone <=> i \in Alive(t) /\ (i = target \/ target \in Ancestors(t, i))
  BY <1>0 DEF Subtree
<1>3a. gone \subseteq 1..n
  BY <1>0
<1> HIDE DEF n, r, gone
\* A node goes with its parent, or is the target.
<1>4. ASSUME NEW c \in Alive(t), t[c].parent # 0
      PROVE  c \in gone <=> c = target \/ t[c].parent \in gone
  <2>1. c \in 1..n /\ t[c].parent \in 1..n /\ t[c].parent \in Alive(t)
    BY <1>0, <1>1, <1>4
  <2>2. Ancestors(t, c) = {t[c].parent} \union Ancestors(t, t[c].parent)
    BY <1>0, <1>4, <2>1, AncestorsAre
  <2> QED BY <1>3, <2>1, <2>2
<1>5. t[target].parent \notin gone
  <2>1. t[target].parent \in 1..(target - 1) /\ t[target].parent \in 1..n
    BY <1>0
  <2>2. Ancestors(t, t[target].parent) \subseteq 1..(t[target].parent - 1)
    BY <1>0, <2>1, AncestorsBelow
  <2> QED BY <1>0, <1>3, <2>1, <2>2
<1>6. ASSUME NEW i \in 1..n
      PROVE  /\ i \in Alive(r) /\ r[i].parent # 0 => r[i].parent \in Alive(r)
             /\ i \in Alive(r) => r[i].children = {c \in Alive(r) : r[c].parent = i}
             /\ i \notin Alive(r) => r[i].children = {}
  <2>1. ASSUME i \in Alive(r), r[i].parent # 0 PROVE r[i].parent \in Alive(r)
    <3>1. i \in Alive(t) /\ i \notin gone /\ t[i].parent # 0 /\ t[i].parent \in Alive(t)
      BY <1>1, <1>2, <2>1
    <3> QED BY <1>2, <1>4, <3>1
  <2>2. ASSUME i \in Alive(r) PROVE r[i].children = {c \in Alive(r) : r[c].parent = i}
    <3>1. i \in Alive(t) /\ i \notin gone /\ i # 0
      BY <1>0, <1>2, <2>2
    <3>2. t[i].children = {c \in Alive(t) : t[c].parent = i}
      BY <1>1, <3>1
    <3>3. r[i].children = IF i = t[target].parent THEN t[i].children \ {target} ELSE t[i].children
      BY <1>2, <3>1
    <3>4. \A c \in Alive(t) : t[c].parent = i => (c \in gone <=> c = target)
      BY <1>4, <3>1
    <3>5. \A c \in Alive(t) : r[c].parent = t[c].parent
      BY <1>0, <1>2
    <3> QED BY <1>2, <3>2, <3>3, <3>4, <3>5
  <2>3. ASSUME i \notin Alive(r) PROVE r[i].children = {}
    <3>1. CASE i \in gone
      BY <1>2, <3>1
    <3>2. CASE i \notin gone
      BY <1>1, <1>2, <2>3, <3>2
    <3> QED BY <3>1, <3>2
  <2> QED BY <2>1, <2>2, <2>3
<1> QED
  BY <1>2, <1>6 DEF ListsExact, r

-----------------------------------------------------------------------------
(* What a deletion does to the totals.                                     *)

\* The live part of the subtree of i, and the files and directories in a set.
LiveBelow(t, i) == Subtree(t, i) \intersect Alive(t)
FilesIn(t, S) == {i \in S : t[i].kind = "file"}
DirsIn(t, S) == {i \in S \ {Root} : t[i].kind = "dir"}

\* The aggregates of node i are those of the set S of nodes.
Totals(t, i, S) ==
    /\ t[i].agg = SumFunctionOnSet(Own(t), S)
    /\ t[i].files = Cardinality(FilesIn(t, S))
    /\ t[i].dirs = Cardinality(DirsIn(t, S))

\* AggregatesExact in these terms.
LEMMA AggregatesAreTotals ==
    ASSUME NEW t
    PROVE  AggregatesExact(t) <=> \A i \in Alive(t) : Totals(t, i, LiveBelow(t, i))
BY Zenon DEF AggregatesExact, Totals, LiveBelow, FilesIn, DirsIn

\* Nodes of which only the own bytes matter.
IsSized(t, n) == n \in Nat /\ DOMAIN t = 1..n /\ \A i \in 1..n : t[i].own \in Nat

\* What is left of the totals of i without those of j are the totals of R.
Remainders(t, i, j, R) ==
    /\ Less(t[i].agg, t[j].agg) = SumFunctionOnSet(Own(t), R)
    /\ Less(t[i].files, t[j].files) = Cardinality(FilesIn(t, R))
    /\ Less(t[i].dirs, t[j].dirs) = Cardinality(DirsIn(t, R))

\* Taking a part out of a set takes its totals off the totals.
LEMMA TotalsSplit ==
    ASSUME NEW t, NEW n, IsSized(t, n),
           NEW S, S \subseteq 1..n, NEW G, G \subseteq S,
           NEW i, NEW j, Totals(t, i, S), Totals(t, j, G)
    PROVE  Remainders(t, i, j, S \ G)
<1>1. IsFiniteSet(1..n)
  BY FS_Interval DEF IsSized
<1>2. /\ IsFiniteSet(S) /\ IsFiniteSet(G) /\ IsFiniteSet(S \ G)
      /\ IsFiniteSet(FilesIn(t, S)) /\ IsFiniteSet(DirsIn(t, S))
  BY <1>1, FS_Subset DEF FilesIn, DirsIn
<1>3. \A x \in 1..n : Own(t)[x] \in Nat
  BY DEF Own, IsSized
<1>4. Less(t[i].agg, t[j].agg) = SumFunctionOnSet(Own(t), S \ G)
  <2>1. /\ SumFunctionOnSet(Own(t), S) \in Nat
        /\ SumFunctionOnSet(Own(t), G) \in Nat
        /\ SumFunctionOnSet(Own(t), S \ G) \in Nat
    BY <1>2, <1>3, SumType
  <2>2. SumFunctionOnSet(Own(t), S \ G)
          = SumFunctionOnSet(Own(t), S) - SumFunctionOnSet(Own(t), G)
    <3>1. \A x \in S : Own(t)[x] \in Int
      BY <1>3
    <3> QED BY <1>2, <3>1, SumSplit
  <2> DEFINE a == SumFunctionOnSet(Own(t), S)
             b == SumFunctionOnSet(Own(t), G)
             c == SumFunctionOnSet(Own(t), S \ G)
  <2>3. a \in Nat /\ b \in Nat /\ c \in Nat /\ c = a - b /\ t[i].agg = a /\ t[j].agg = b
    BY <2>1, <2>2 DEF Totals
  <2> HIDE DEF a, b, c
  <2>4. b <= a
    BY <2>3
  <2>5. Less(a, b) = c
    BY <2>3, <2>4, LessIs
  <2> QED BY <2>3, <2>5 DEF c
<1>5. Less(t[i].files, t[j].files) = Cardinality(FilesIn(t, S \ G))
  <2>1. FilesIn(t, S \ G) = FilesIn(t, S) \ FilesIn(t, G) /\ FilesIn(t, G) \subseteq FilesIn(t, S)
    BY DEF FilesIn
  <2> DEFINE a == Cardinality(FilesIn(t, S))
             b == Cardinality(FilesIn(t, G))
             c == Cardinality(FilesIn(t, S \ G))
  <2>3. a \in Nat /\ b \in Nat /\ c \in Nat /\ c = a - b /\ t[i].files = a /\ t[j].files = b
    BY <1>2, <2>1, CardSplit DEF Totals
  <2> HIDE DEF a, b, c
  <2>4. b <= a
    BY <2>3
  <2>5. Less(a, b) = c
    BY <2>3, <2>4, LessIs
  <2> QED BY <2>3, <2>5 DEF c
<1>6. Less(t[i].dirs, t[j].dirs) = Cardinality(DirsIn(t, S \ G))
  <2>1. DirsIn(t, S \ G) = DirsIn(t, S) \ DirsIn(t, G) /\ DirsIn(t, G) \subseteq DirsIn(t, S)
    BY DEF DirsIn
  <2> DEFINE a == Cardinality(DirsIn(t, S))
             b == Cardinality(DirsIn(t, G))
             c == Cardinality(DirsIn(t, S \ G))
  <2>3. a \in Nat /\ b \in Nat /\ c \in Nat /\ c = a - b /\ t[i].dirs = a /\ t[j].dirs = b
    BY <1>2, <2>1, CardSplit DEF Totals
  <2> HIDE DEF a, b, c
  <2>4. b <= a
    BY <2>3
  <2>5. Less(a, b) = c
    BY <2>3, <2>4, LessIs
  <2> QED BY <2>3, <2>5 DEF c
<1> QED BY <1>4, <1>5, <1>6 DEF Remainders

\* The live subtree of a live node loses what was deleted, if it is above it, and
\* else nothing.
LEMMA DeletionBelow ==
    ASSUME NEW t, NEW E, IsArena(t, E), ListsExact(t), NEW target, CanDelete(t, target),
           NEW i \in Alive(t), i \notin LiveBelow(t, target)
    PROVE  /\ i \in Ancestors(t, target) => LiveBelow(t, target) \subseteq LiveBelow(t, i)
           /\ i \notin Ancestors(t, target) => LiveBelow(t, target) \intersect LiveBelow(t, i) = {}
<1> DEFINE n == Len(t)
<1>0. /\ n \in Nat
      /\ IsTree(t, n)
      /\ DOMAIN t = 1..n
      /\ target \in Alive(t)
      /\ target \in 1..n
      /\ \A j \in Alive(t) : j \in 1..n
  BY ArenaFacts DEF CanDelete, Alive
<1> HIDE DEF n
<1>1. \A j, k : k \in LiveBelow(t, j) <=> k \in Alive(t) /\ (k = j \/ j \in Ancestors(t, k))
  BY <1>0 DEF LiveBelow, Subtree
<1>2. ASSUME i \in Ancestors(t, target) PROVE LiveBelow(t, target) \subseteq LiveBelow(t, i)
  <2>1. ASSUME NEW k \in LiveBelow(t, target) PROVE k \in LiveBelow(t, i)
    <3>1. k \in Alive(t) /\ k \in 1..n /\ (k = target \/ target \in Ancestors(t, k))
      BY <1>0, <1>1, <2>1
    <3>2. i \in Ancestors(t, k)
      BY <1>0, <1>2, <3>1, AncestorsTransitive
    <3> QED BY <1>1, <3>1, <3>2
  <2> QED BY <2>1
<1>3. ASSUME i \notin Ancestors(t, target), NEW k \in LiveBelow(t, target), k \in LiveBelow(t, i)
      PROVE  FALSE
  <2>1. /\ k \in Alive(t) /\ k \in 1..n
        /\ k = target \/ target \in Ancestors(t, k)
        /\ k = i \/ i \in Ancestors(t, k)
        /\ i # target /\ target \notin Ancestors(t, i)
    BY <1>0, <1>1, <1>3
  <2>2. i \in Ancestors(t, k) /\ target \in Ancestors(t, k)
    BY <1>3, <2>1
  <2> QED BY <1>0, <1>3, <2>1, <2>2, AncestorsLinear
<1> QED BY <1>2, <1>3

\* After a deletion every live node has the exact totals of what is left below it.
THEOREM DeletionAggregates ==
    ASSUME NEW t, NEW E, IsArena(t, E), ListsExact(t), AggregatesExact(t),
           NEW target, CanDelete(t, target)
    PROVE  AggregatesExact(ApplyDeletion(t, target))
<1> DEFINE n == Len(t)
           r == ApplyDeletion(t, target)
           gone == LiveBelow(t, target)
           above == Ancestors(t, target)
<1>0. /\ n \in Nat
      /\ IsTree(t, n)
      /\ DOMAIN t = 1..n
      /\ target \in Alive(t)
      /\ target \in 1..n
      /\ \A i \in Alive(t) : i \in 1..n
      /\ \A i \in 1..n : t[i].own \in Nat
  BY ArenaFacts DEF CanDelete, Alive
<1>1. Deleted(t, r, target, gone, above)
  BY DeletionFacts DEF LiveBelow
<1>2. \A i \in Alive(t) : Totals(t, i, LiveBelow(t, i))
  BY AggregatesAreTotals
<1>3. Totals(t, target, gone)
  BY <1>0, <1>2
<1> HIDE DEF n, r, gone, above
<1>4. \A i \in Alive(r) : i \in Alive(t) /\ i \notin gone /\ i \in 1..n
  BY <1>0, <1>1 DEF Deleted
<1>5. ASSUME NEW i \in Alive(r)
      PROVE  LiveBelow(r, i) = LiveBelow(t, i) \ gone
  BY <1>0, <1>1, <1>4 DEF Deleted, LiveBelow, Subtree
<1>6. ASSUME NEW S, S \subseteq 1..n
      PROVE  /\ SumFunctionOnSet(Own(r), S) = SumFunctionOnSet(Own(t), S)
             /\ FilesIn(r, S) = FilesIn(t, S)
             /\ DirsIn(r, S) = DirsIn(t, S)
  <2>0. IsFiniteSet(1..n)
    BY <1>0, FS_Interval
  <2>1. IsFiniteSet(S)
    BY <1>6, <2>0, FS_Subset
  <2>2. \A x \in S : Own(r)[x] = Own(t)[x]
    BY <1>0, <1>1, <1>6 DEF Deleted, Own
  <2>3. FilesIn(r, S) = FilesIn(t, S) /\ DirsIn(r, S) = DirsIn(t, S)
    <3>1. \A x \in S : r[x].kind = t[x].kind
      BY <1>0, <1>1, <1>6 DEF Deleted
    <3> QED BY <3>1 DEF FilesIn, DirsIn
  <2> QED BY <2>1, <2>2, <2>3, SumCong
<1>7. ASSUME NEW i \in Alive(r)
      PROVE  Totals(r, i, LiveBelow(r, i))
  <2>0. i \in Alive(t) /\ i \notin gone /\ i \in 1..n
    BY <1>4
  <2>1. LiveBelow(t, i) \subseteq 1..n
    BY <1>0 DEF LiveBelow
  <2> DEFINE S == LiveBelow(t, i)
  <2>2. Totals(t, i, S)
    BY <1>2, <2>0
  <2>3. CASE i \in above
    <3>1. gone \subseteq S
      BY <2>0, <2>3, DeletionBelow DEF gone, above
    <3>2. S \ gone \subseteq 1..n /\ S \subseteq 1..n
      BY <2>1
    <3> HIDE DEF S
    <3>3. Remainders(t, i, target, S \ gone)
      <4>1. IsSized(t, n)
        BY <1>0 DEF IsSized
      <4> QED BY <1>3, <2>2, <3>1, <3>2, <4>1, TotalsSplit
    <3>4. /\ r[i].agg = Less(t[i].agg, t[target].agg)
          /\ r[i].files = Less(t[i].files, t[target].files)
          /\ r[i].dirs = Less(t[i].dirs, t[target].dirs)
      BY <1>0, <1>1, <2>0, <2>3 DEF Deleted
    <3>5. Totals(r, i, S \ gone)
      BY <1>6, <3>2, <3>3, <3>4 DEF Totals, Remainders
    <3> QED BY <1>5, <3>5 DEF S
  <2>4. CASE i \notin above
    <3>1. gone \intersect S = {}
      BY <2>0, <2>4, DeletionBelow DEF gone, above
    <3> HIDE DEF S
    <3>2. S \subseteq 1..n
      BY <2>1 DEF S
    <3>3. /\ r[i].agg = t[i].agg
          /\ r[i].files = t[i].files
          /\ r[i].dirs = t[i].dirs
      BY <1>0, <1>1, <2>0, <2>4 DEF Deleted
    <3>4. Totals(r, i, S)
      BY <1>6, <2>2, <3>2, <3>3 DEF Totals
    <3>5. S \ gone = S
      BY <3>1
    <3> QED BY <1>5, <3>4, <3>5 DEF S
  <2> QED BY <2>3, <2>4
<1> QED
  BY <1>7, AggregatesAreTotals DEF r

-----------------------------------------------------------------------------
(* The aggregation pass.                                                   *)

\* The ids the pass visits, in this order reversed.
Ids(t) == [k \in 1..(Len(t) - 1) |-> k + 1]

\* The recursive equation of the pass.
IsPass(g, t, S) ==
    g = [s \in SUBSET S |->
            IF s = {} THEN t ELSE FoldIntoParent(Ids(t)[Min(s)], g[s \ {Min(s)}])]

\* A set of positions that is not empty has a least one.
LEMMA MinIn ==
    ASSUME NEW n, n \in Nat, NEW s, s \subseteq 1..n, s # {}
    PROVE  Min(s) \in s
<1>1. PICK x \in s : \A y \in s : ~ (<<y, x>> \in OpToRel(<, Nat))
  <2>1. s \subseteq Nat
    OBVIOUS
  <2> QED BY <2>1, NatLessThanWellFounded, WFMin
<1>2. ASSUME NEW y \in s PROVE x <= y
  <2>1. x \in Nat /\ y \in Nat
    OBVIOUS
  <2>2. y < x => <<y, x>> \in OpToRel(<, Nat)
    BY <2>1 DEF OpToRel
  <2>3. ~ (y < x)
    BY <1>1, <2>2, Zenon
  <2> QED BY <2>1, <2>3
<1> QED
  BY <1>2 DEF Min

\* The recursive equation of the pass has a solution.
LEMMA PassExists ==
    ASSUME NEW t, NEW n, n \in Nat
    PROVE  \E g : IsPass(g, t, 1..n)
<1> DEFINE S == 1..n
           D(k) == {s \in SUBSET S : Cardinality(s) <= k}
           R(g, k) == g = [s \in D(k) |->
               IF s = {} THEN t ELSE FoldIntoParent(Ids(t)[Min(s)], g[s \ {Min(s)}])]
           Q == {k \in Nat : \E g : R(g, k)}
<1>0. IsFiniteSet(S)
  BY FS_Interval
<1>1. \A T \in SUBSET S : IsFiniteSet(T) /\ Cardinality(T) \in Nat
  BY <1>0, FS_Subset, FS_CardinalityType
<1>1a. \A T \in SUBSET S : T # {} => Min(T) \in T
  BY MinIn
<1> HIDE DEF S
<1>2. 0 \in Q
  <2>1. \A s \in D(0) : s = {}
    BY <1>1, FS_EmptySet
  <2>2. R([s \in D(0) |-> t], 0)
    BY <2>1
  <2> QED BY <2>2
<1>3. ASSUME NEW k \in Nat, k \in Q PROVE k + 1 \in Q
  <2>1. PICK g : R(g, k)
    BY <1>3
  <2> DEFINE h == [s \in D(k + 1) |->
               IF s = {} THEN t ELSE FoldIntoParent(Ids(t)[Min(s)], g[s \ {Min(s)}])]
  <2>2. \A s \in D(k) : h[s] = g[s]
    <3>1. \A s \in D(k) : s \in D(k + 1)
      BY <1>1
    <3> QED BY <2>1, <3>1, Zenon
  <2>3. ASSUME NEW s \in D(k + 1), s # {} PROVE s \ {Min(s)} \in D(k)
    BY <1>1, <1>1a, <2>3, FS_RemoveElement
  <2>4. \A s \in D(k + 1) : h[s] =
               IF s = {} THEN t ELSE FoldIntoParent(Ids(t)[Min(s)], h[s \ {Min(s)}])
    BY <2>2, <2>3
  <2>5. R(h, k + 1)
    <3> HIDE DEF D
    <3> SUFFICES h = [s \in D(k + 1) |->
               IF s = {} THEN t ELSE FoldIntoParent(Ids(t)[Min(s)], h[s \ {Min(s)}])]
       OBVIOUS
    <3> QED BY <2>4, Zenon
  <2> QED
    <3> HIDE DEF R, h
    <3> QED BY <2>5
<1>4. Nat \subseteq Q
  <2> HIDE DEF Q
  <2> QED BY <1>2, <1>3, NatSetInduction
<1>5. D(Cardinality(S)) = SUBSET S
  BY <1>0, <1>1, FS_Subset
<1>6. Cardinality(S) \in Q
  <2> HIDE DEF Q
  <2> QED BY <1>1, <1>4
<1>7. PICK g : R(g, Cardinality(S))
  BY <1>6
<1>8. IsPass(g, t, S)
  BY <1>5, <1>7 DEF IsPass
<1> QED
  BY <1>8 DEF S

\* The pass, and the arena once the nodes after k are folded.
Pass(t) == CHOOSE g : IsPass(g, t, 1..(Len(t) - 1))
Stage(t, k) == Pass(t)[k..(Len(t) - 1)]

\* The pass folds one node after the other.
LEMMA PassIs ==
    ASSUME NEW t, NEW n, n \in Nat \ {0}, Len(t) = n
    PROVE  /\ Aggregate(t) = Stage(t, 1)
           /\ Stage(t, n) = t
           /\ \A k \in 1..(n - 1) : Stage(t, k) = FoldIntoParent(k + 1, Stage(t, k + 1))
<1>1. DOMAIN Ids(t) = 1..(n - 1)
  BY DEF Ids
<1>2. Aggregate(t) = Pass(t)[1..(n - 1)]
  BY <1>1, Zenon DEF Aggregate, FoldRight, MapThenFoldSet, Pass, IsPass, Ids
<1>3. IsPass(Pass(t), t, 1..(n - 1))
  <2>1. n - 1 \in Nat
    OBVIOUS
  <2> QED BY <2>1, PassExists DEF Pass
<1> DEFINE g == Pass(t)
<1> HIDE DEF g
<1>4. \A s \in SUBSET (1..(n - 1)) : g[s] =
        IF s = {} THEN t ELSE FoldIntoParent(Ids(t)[Min(s)], g[s \ {Min(s)}])
  BY <1>3, Zenon DEF IsPass, g
<1>5. Stage(t, n) = t
  <2>1. n..(n - 1) = {} /\ {} \in SUBSET (1..(n - 1))
    OBVIOUS
  <2> QED BY <1>4, <2>1 DEF Stage, g
<1>6. ASSUME NEW k \in 1..(n - 1)
      PROVE  Stage(t, k) = FoldIntoParent(k + 1, Stage(t, k + 1))
  <2> DEFINE s == k..(n - 1)
  <2>1. s \in SUBSET (1..(n - 1)) /\ s # {}
    OBVIOUS
  <2>2. Min(s) = k
    BY DEF Min
  <2>3. s \ {k} = (k + 1)..(n - 1)
    OBVIOUS
  <2>4. Ids(t)[k] = k + 1
    BY DEF Ids
  <2> HIDE DEF s
  <2>5. g[s] = FoldIntoParent(Ids(t)[Min(s)], g[s \ {Min(s)}])
    BY <1>4, <2>1
  <2> QED BY <2>2, <2>3, <2>4, <2>5 DEF Stage, g, s
<1> QED
  BY <1>2, <1>5, <1>6 DEF Stage

\* One iteration of the pass: the parent gains the totals of the child.
LEMMA FoldStep ==
    ASSUME NEW s, NEW E, IsArena(s, E), NEW c, c \in DOMAIN s
    PROVE  /\ IsArena(FoldIntoParent(c, s), E)
           /\ \A i \in DOMAIN s : FoldIntoParent(c, s)[i] =
                IF s[c].parent # 0 /\ i = s[c].parent
                THEN Made(s[i].entry, s[i].parent, s[i].kind, s[i].own, s[i].agg + s[c].agg,
                          s[i].files + s[c].files, s[i].dirs + s[c].dirs,
                          s[i].children, s[i].flags)
                ELSE s[i]
<1> DEFINE n == Len(s)
           p == s[c].parent
           r == FoldIntoParent(c, s)
<1>0. /\ n \in Nat /\ DOMAIN s = 1..n /\ c \in 1..n
      /\ p \in 0..(c - 1)
      /\ \A i \in 1..n : s[i] \in NodeType(E)
      /\ s = [i \in 1..n |-> s[i]]
  BY ArenaFacts DEF IsArena
<1>1. CASE p = 0
  BY <1>1 DEF FoldIntoParent
<1>2. CASE p # 0
  <2>0. p \in 1..n
    BY <1>0, <1>2
  <2> DEFINE a == s[p].agg + s[c].agg
             f == s[p].files + s[c].files
             d == s[p].dirs + s[c].dirs
             s1 == [s EXCEPT ![p].agg = a]
             s2 == [s1 EXCEPT ![p].files = f]
             s3 == [s2 EXCEPT ![p].dirs = d]
  <2>1. /\ s[p].agg \in Nat /\ s[p].files \in Nat /\ s[p].dirs \in Nat
        /\ s[c].agg \in Nat /\ s[c].files \in Nat /\ s[c].dirs \in Nat
    BY <1>0, <2>0 DEF NodeType
  <2>2. a \in Nat /\ f \in Nat /\ d \in Nat
    BY <2>1
  <2>3. s[p] = Made(s[p].entry, s[p].parent, s[p].kind, s[p].own, s[p].agg, s[p].files,
                    s[p].dirs, s[p].children, s[p].flags)
    BY <1>0, <2>0, IsMade
  <2> HIDE DEF n, p, a, f, d
  <2>4. /\ DOMAIN s1 = 1..n
        /\ \A i \in 1..n : i # p => s1[i] = s[i]
        /\ s1[p] = Made(s[p].entry, s[p].parent, s[p].kind, s[p].own, a, s[p].files,
                        s[p].dirs, s[p].children, s[p].flags)
        /\ s1 = [i \in 1..n |-> s1[i]]
    <3>1. s1[p] = [s[p] EXCEPT !.agg = a]
      BY <1>0, <2>0
    <3>2. s1[p] = Made(s[p].entry, s[p].parent, s[p].kind, s[p].own, a, s[p].files,
                        s[p].dirs, s[p].children, s[p].flags)
      BY <2>3, <3>1 DEF Made
    <3>3. DOMAIN s1 = 1..n /\ s1 = [i \in 1..n |-> s1[i]] /\ \A i \in 1..n : i # p => s1[i] = s[i]
      BY <1>0
    <3> QED BY <3>2, <3>3
  <2> HIDE DEF s1
  <2>5. /\ DOMAIN s2 = 1..n
        /\ \A i \in 1..n : i # p => s2[i] = s[i]
        /\ s2[p] = Made(s[p].entry, s[p].parent, s[p].kind, s[p].own, a, f,
                        s[p].dirs, s[p].children, s[p].flags)
        /\ s2 = [i \in 1..n |-> s2[i]]
    <3>1. s2[p] = [s1[p] EXCEPT !.files = f]
      BY <2>0, <2>4
    <3>2. s2[p] = Made(s[p].entry, s[p].parent, s[p].kind, s[p].own, a, f,
                        s[p].dirs, s[p].children, s[p].flags)
      BY <2>4, <3>1 DEF Made
    <3>3. DOMAIN s2 = 1..n /\ s2 = [i \in 1..n |-> s2[i]] /\ \A i \in 1..n : i # p => s2[i] = s[i]
      BY <2>4
    <3> QED BY <3>2, <3>3
  <2> HIDE DEF s2
  <2>6. /\ DOMAIN s3 = 1..n
        /\ \A i \in 1..n : i # p => s3[i] = s[i]
        /\ s3[p] = Made(s[p].entry, s[p].parent, s[p].kind, s[p].own, a, f,
                        d, s[p].children, s[p].flags)
        /\ s3 = [i \in 1..n |-> s3[i]]
    <3>1. s3[p] = [s2[p] EXCEPT !.dirs = d]
      BY <2>0, <2>5
    <3>2. s3[p] = Made(s[p].entry, s[p].parent, s[p].kind, s[p].own, a, f,
                        d, s[p].children, s[p].flags)
      BY <2>5, <3>1 DEF Made
    <3>3. DOMAIN s3 = 1..n /\ s3 = [i \in 1..n |-> s3[i]] /\ \A i \in 1..n : i # p => s3[i] = s[i]
      BY <2>5
    <3> QED BY <3>2, <3>3
  <2>7. r = s3
    <3>1. r = [s EXCEPT ![p].agg = s[p].agg + s[c].agg,
                        ![p].files = [s EXCEPT ![p].agg = s[p].agg + s[c].agg][p].files + s[c].files,
                        ![p].dirs = [s EXCEPT ![p].agg = s[p].agg + s[c].agg,
                        ![p].files = [s EXCEPT ![p].agg = s[p].agg + s[c].agg][p].files + s[c].files][p].dirs + s[c].dirs]
      BY <1>2, Zenon DEF FoldIntoParent, p
    <3>2. s1[p].files + s[c].files = f
      BY <2>4 DEF Made, f
    <3>3. s2[p].dirs + s[c].dirs = d
      BY <2>5 DEF Made, d
    <3>4. r = [s1 EXCEPT ![p].files = s1[p].files + s[c].files,
                        ![p].dirs = [s1 EXCEPT ![p].files = s1[p].files + s[c].files][p].dirs + s[c].dirs]
      BY <3>1, Zenon DEF s1, a
    <3>5. r = [s2 EXCEPT ![p].dirs = s2[p].dirs + s[c].dirs]
      BY <3>2, <3>4, Zenon DEF s2
    <3> QED BY <3>3, <3>5, Zenon DEF s3
  <2> HIDE DEF s3, r
  <2>8. ASSUME NEW i \in 1..n PROVE r[i] \in NodeType(E) /\ r[i].parent = s[i].parent
    <3>1. CASE i = p
      <4>1. s[p] \in NodeType(E)
        BY <1>0, <2>0
      <4> QED BY <2>2, <2>6, <2>7, <3>1, <4>1 DEF Made, NodeType
    <3>2. CASE i # p
      BY <1>0, <2>6, <2>7, <3>2
    <3> QED BY <3>1, <3>2
  <2>9. IsArena(r, E)
    <3>1. r = [i \in 1..n |-> r[i]]
      BY <2>6, <2>7
    <3>0. n \in Nat /\ \A i \in 1..n : r[i] \in NodeType(E)
      BY <1>0, <2>8
    <3>2. r \in Seq(NodeType(E)) /\ Len(r) = n
      BY <3>0, <3>1
    <3>3. \A i \in 1..n : s[i].parent \in 0..(i - 1) /\ (i # Root => s[i].parent # 0)
      BY ArenaFacts DEF n
    <3> QED BY <1>0, <2>8, <3>1, <3>2, <3>3 DEF IsArena, IsTree
  <2> QED BY <1>0, <1>2, <2>6, <2>7, <2>9 DEF r, p, a, f, d
<1> QED BY <1>1, <1>2

\* The part of the subtree of i that is folded into i when the nodes after k have
\* been folded.
Late(t, k, i) == {c \in (k + 1)..Len(t) : t[c].parent = i}
Part(t, k, i) == {i} \union UNION {Subtree(t, c) : c \in Late(t, k, i)}

\* Counting two disjoint sets.
LEMMA CardJoin ==
    ASSUME NEW S, IsFiniteSet(S), NEW G, IsFiniteSet(G), S \intersect G = {}
    PROVE  Cardinality(S \union G) = Cardinality(S) + Cardinality(G)
<1>1. Cardinality(S \intersect G) = 0
  BY FS_EmptySet
<1>2. Cardinality(S \union G) = Cardinality(S) + Cardinality(G) - Cardinality(S \intersect G)
  BY FS_Union
<1>3. Cardinality(S) \in Nat /\ Cardinality(G) \in Nat
  BY FS_CardinalityType
<1> QED BY <1>1, <1>2, <1>3

\* The totals of the union are the totals of the parts, added up.
TotalsAdd(t, S, G) ==
    /\ SumFunctionOnSet(Own(t), S \union G)
            = SumFunctionOnSet(Own(t), S) + SumFunctionOnSet(Own(t), G)
    /\ Cardinality(FilesIn(t, S \union G))
            = Cardinality(FilesIn(t, S)) + Cardinality(FilesIn(t, G))
    /\ Cardinality(DirsIn(t, S \union G))
            = Cardinality(DirsIn(t, S)) + Cardinality(DirsIn(t, G))

\* The totals of two disjoint sets add up.
LEMMA TotalsJoin ==
    ASSUME NEW t, NEW n, IsSized(t, n),
           NEW S, S \subseteq 1..n, NEW G, G \subseteq 1..n, S \intersect G = {}
    PROVE  TotalsAdd(t, S, G)
<1>1. IsFiniteSet(1..n)
  BY FS_Interval DEF IsSized
<1>2. /\ IsFiniteSet(S) /\ IsFiniteSet(G)
      /\ IsFiniteSet(FilesIn(t, S)) /\ IsFiniteSet(DirsIn(t, S))
      /\ IsFiniteSet(FilesIn(t, G)) /\ IsFiniteSet(DirsIn(t, G))
  BY <1>1, FS_Subset DEF FilesIn, DirsIn
<1>3. \A x \in S \union G : Own(t)[x] \in Int
  BY DEF Own, IsSized
<1>4. SumFunctionOnSet(Own(t), S \union G)
                = SumFunctionOnSet(Own(t), S) + SumFunctionOnSet(Own(t), G)
  BY <1>2, <1>3, SumDisjoint
<1>5. /\ FilesIn(t, S \union G) = FilesIn(t, S) \union FilesIn(t, G)
      /\ FilesIn(t, S) \intersect FilesIn(t, G) = {}
      /\ DirsIn(t, S \union G) = DirsIn(t, S) \union DirsIn(t, G)
      /\ DirsIn(t, S) \intersect DirsIn(t, G) = {}
  BY DEF FilesIn, DirsIn
<1> QED BY <1>2, <1>4, <1>5, CardJoin DEF TotalsAdd

\* Below a node is what is below its children.
LEMMA SubtreeParts ==
    ASSUME NEW t, NEW n, IsTree(t, n), n = Len(t)
    PROVE  /\ \A k \in 0..n : \A i \in 1..n : k <= i => Part(t, k, i) = Subtree(t, i)
           /\ \A k \in 0..n : \A i \in 1..n : Part(t, k, i) \subseteq 1..n
<1>0. n \in Nat /\ DOMAIN t = 1..n /\ \A i \in 1..n : t[i].parent \in 0..(i - 1)
  BY DEF IsTree
<1>1. \A i, j : j \in Subtree(t, i) <=> j \in 1..n /\ (j = i \/ i \in Ancestors(t, j))
  BY <1>0 DEF Subtree
<1>2. ASSUME NEW k \in 0..n, NEW i \in 1..n PROVE Part(t, k, i) \subseteq Subtree(t, i)
  <2>1. i \in Subtree(t, i)
    BY <1>1
  <2>2. ASSUME NEW c \in Late(t, k, i), NEW j \in Subtree(t, c) PROVE j \in Subtree(t, i)
    <3>1. c \in 1..n /\ t[c].parent = i /\ i # 0
      BY <1>0 DEF Late
    <3>2. Ancestors(t, c) = {i} \union Ancestors(t, i)
      BY <3>1, AncestorsAre
    <3>3. j \in 1..n /\ (j = c \/ c \in Ancestors(t, j))
      BY <1>1, <2>2
    <3>4. i \in Ancestors(t, j)
      BY <3>1, <3>2, <3>3, AncestorsTransitive
    <3> QED BY <1>1, <3>3, <3>4
  <2> QED BY <2>1, <2>2 DEF Part
<1>3. ASSUME NEW k \in 0..n, NEW i \in 1..n, k <= i
      PROVE  Subtree(t, i) \subseteq Part(t, k, i)
  <2> DEFINE P == {j \in 1..n : j \in Subtree(t, i) => j \in Part(t, k, i)}
  <2>1. ASSUME NEW j \in 1..n, \A x \in 1..(j - 1) : x \in P PROVE j \in P
    <3> SUFFICES ASSUME j \in Subtree(t, i), j # i PROVE j \in Part(t, k, i)
      BY DEF Part
    <3> DEFINE p == t[j].parent
    <3>1. i \in Ancestors(t, j)
      BY <1>1
    <3>2. p \in 0..(j - 1) /\ p # 0 /\ Ancestors(t, j) = {p} \union Ancestors(t, p)
      BY <1>0, <3>1, AncestorsAre
    <3>3. p \in 1..(j - 1) /\ p \in 1..n
      BY <1>0, <3>2
    <3> HIDE DEF p
    <3>4. CASE p = i
      <4>1. j \in Late(t, k, i)
        BY <1>0, <1>3, <3>3, <3>4 DEF Late, p
      <4>2. j \in Subtree(t, j)
        BY <1>1
      <4> QED BY <4>1, <4>2 DEF Part
    <3>5. CASE p # i
      <4>1. p \in Subtree(t, i)
        BY <1>1, <3>1, <3>2, <3>3, <3>5
      <4>2. p \in Part(t, k, i)
        BY <2>1, <3>3, <4>1
      <4>3. PICK c \in Late(t, k, i) : p \in Subtree(t, c)
        BY <3>5, <4>2 DEF Part
      <4>4. j \in Subtree(t, c)
        BY <1>1, <3>2, <4>3
      <4> QED BY <4>3, <4>4 DEF Part
    <3> QED BY <3>4, <3>5
  <2>2. \A j \in 1..n : j \in P
    <3> HIDE DEF P
    <3> QED BY <1>0, <2>1, IndexInduction
  <2> QED BY <1>1, <2>2
<1>4. \A i \in 1..n : Subtree(t, i) \subseteq 1..n
  BY <1>1
<1> QED BY <1>2, <1>3, <1>4

\* What one more iteration adds to the parts.
LEMMA PartStep ==
    ASSUME NEW t, NEW n, IsTree(t, n), n = Len(t), NEW k \in 1..(n - 1)
    PROVE  \A i \in 1..n :
              IF t[k + 1].parent = i
              THEN /\ Part(t, k, i) = Part(t, k + 1, i) \union Subtree(t, k + 1)
                   /\ Part(t, k + 1, i) \intersect Subtree(t, k + 1) = {}
              ELSE Part(t, k, i) = Part(t, k + 1, i)
<1> DEFINE c == k + 1
<1>0. n \in Nat /\ DOMAIN t = 1..n /\ (\A i \in 1..n : t[i].parent \in 0..(i - 1)) /\ c \in 1..n
  BY DEF IsTree
<1>1. \A i, j : j \in Subtree(t, i) <=> j \in 1..n /\ (j = i \/ i \in Ancestors(t, j))
  BY <1>0 DEF Subtree
<1>2. ASSUME NEW i \in 1..n PROVE Late(t, k, i) = Late(t, c, i) \union (IF t[c].parent = i THEN {c} ELSE {})
  BY <1>0 DEF Late
<1> HIDE DEF c
<1>3. ASSUME NEW i \in 1..n, t[c].parent = i, NEW j \in Subtree(t, c), j \in Part(t, c, i)
      PROVE  FALSE
  <2>1. j \in 1..n /\ (j = c \/ c \in Ancestors(t, j)) /\ i \in 1..(c - 1)
    BY <1>0, <1>1, <1>3
  <2>2. Ancestors(t, c) = {i} \union Ancestors(t, i) /\ Ancestors(t, c) \subseteq 1..(c - 1)
    <3>1. t[c].parent = i /\ i # 0
      BY <1>0, <1>3, <2>1
    <3>2. Ancestors(t, c) = {i} \union Ancestors(t, i)
      BY <1>0, <3>1, AncestorsAre
    <3> QED BY <1>0, <3>2, AncestorsBelow
  <2>3. CASE j = i
    <3>1. Ancestors(t, j) \subseteq 1..(j - 1)
      BY <2>1, AncestorsBelow
    <3> QED BY <1>0, <2>1, <2>3, <3>1
  <2>4. CASE j # i
    <3>1. PICK d \in Late(t, c, i) : j \in Subtree(t, d)
      BY <1>3, <2>4 DEF Part
    <3>2. d \in (c + 1)..n /\ t[d].parent = i /\ d \in 1..n /\ d # c
      BY <1>0, <3>1 DEF Late
    <3>3. j = d \/ d \in Ancestors(t, j)
      BY <1>1, <3>1
    <3>4. Ancestors(t, d) = {i} \union Ancestors(t, i)
      BY <2>1, <3>2, AncestorsAre
    <3>5. c \notin Ancestors(t, d)
      BY <1>0, <2>1, <2>2, <3>4
    <3>6. d \notin Ancestors(t, c)
      BY <1>0, <2>2, <3>2
    <3> QED BY <2>1, <3>2, <3>3, <3>5, <3>6, AncestorsLinear
  <2> QED BY <2>3, <2>4
<1>4. ASSUME NEW i \in 1..n PROVE Part(t, k, i) = Part(t, c, i) \union (IF t[c].parent = i THEN Subtree(t, c) ELSE {})
  BY <1>2 DEF Part
<1>5. ASSUME NEW i \in 1..n
      PROVE  IF t[c].parent = i
              THEN /\ Part(t, k, i) = Part(t, c, i) \union Subtree(t, c)
                   /\ Part(t, c, i) \intersect Subtree(t, c) = {}
              ELSE Part(t, k, i) = Part(t, c, i)
  BY <1>3, <1>4
<1> QED BY <1>5 DEF c

\* A node that was not aggregated yet counts itself only.
IsFresh(t, E) ==
    /\ IsArena(t, E)
    /\ t # <<>>
    /\ \A i \in DOMAIN t :
        /\ t[i].agg = t[i].own
        /\ t[i].files = IF t[i].kind = "file" THEN 1 ELSE 0
        /\ t[i].dirs = IF t[i].kind = "dir" /\ i # Root THEN 1 ELSE 0
        /\ "tombstoned" \notin t[i].flags

\* The same nodes, except for their totals.
SameNodes(t, s) ==
    /\ DOMAIN s = DOMAIN t
    /\ \A i \in DOMAIN t :
        /\ s[i].entry = t[i].entry /\ s[i].parent = t[i].parent /\ s[i].kind = t[i].kind
        /\ s[i].own = t[i].own /\ s[i].children = t[i].children /\ s[i].flags = t[i].flags

\* The arena s, made from t, with the nodes after k folded.
IsStage(t, E, k, s) ==
    /\ IsArena(s, E)
    /\ SameNodes(t, s)
    /\ \A i \in DOMAIN t : Totals(s, i, Part(t, k, i))

\* Before the first iteration every node has the totals of itself.
LEMMA FirstStage ==
    ASSUME NEW t, NEW E, IsFresh(t, E)
    PROVE  IsStage(t, E, Len(t), t)
<1> DEFINE n == Len(t)
<1>0. n \in Nat /\ DOMAIN t = 1..n /\ IsArena(t, E)
  BY ArenaFacts DEF IsFresh
<1>1. ASSUME NEW i \in 1..n PROVE Totals(t, i, Part(t, n, i))
  <2>1. Part(t, n, i) = {i}
    BY <1>0 DEF Part, Late
  <2>2. /\ t[i].agg = t[i].own /\ t[i].own \in Nat
        /\ t[i].files = IF t[i].kind = "file" THEN 1 ELSE 0
        /\ t[i].dirs = IF t[i].kind = "dir" /\ i # Root THEN 1 ELSE 0
    BY <1>0, ArenaFacts DEF IsFresh
  <2>3. SumFunctionOnSet(Own(t), {i}) = t[i].own
    <3>1. Own(t)[i] = t[i].own /\ t[i].own \in Int
      BY <1>0, <2>2 DEF Own
    <3> QED BY <3>1, SumSingle
  <2>4. Cardinality(FilesIn(t, {i})) = IF t[i].kind = "file" THEN 1 ELSE 0
    <3>1. FilesIn(t, {i}) = IF t[i].kind = "file" THEN {i} ELSE {}
      BY DEF FilesIn
    <3> QED BY <3>1, FS_Singleton, FS_EmptySet
  <2>5. Cardinality(DirsIn(t, {i})) = IF t[i].kind = "dir" /\ i # Root THEN 1 ELSE 0
    <3>1. DirsIn(t, {i}) = IF t[i].kind = "dir" /\ i # Root THEN {i} ELSE {}
      BY DEF DirsIn
    <3> QED BY <3>1, FS_Singleton, FS_EmptySet
  <2> QED BY <2>1, <2>2, <2>3, <2>4, <2>5 DEF Totals
<1> QED BY <1>0, <1>1 DEF IsStage, SameNodes

\* Every iteration brings the totals up to date.
LEMMA NextStage ==
    ASSUME NEW t, NEW E, IsArena(t, E), NEW k, k \in 1..(Len(t) - 1),
           NEW s, IsStage(t, E, k + 1, s)
    PROVE  IsStage(t, E, k, FoldIntoParent(k + 1, s))
<1> DEFINE n == Len(t)
           c == k + 1
           p == t[c].parent
           r == FoldIntoParent(c, s)
<1>0. /\ n \in Nat /\ DOMAIN t = 1..n /\ IsTree(t, n) /\ c \in 1..n /\ k \in 1..(n - 1)
      /\ p \in 0..(c - 1)
  BY ArenaFacts
<1>1. /\ IsArena(s, E) /\ SameNodes(t, s) /\ DOMAIN s = 1..n
      /\ \A i \in 1..n : Totals(s, i, Part(t, c, i))
  BY <1>0 DEF IsStage, SameNodes
<1>2. s[c].parent = p /\ \A i \in 1..n : s[i].own \in Nat
  <2>1. Len(s) = n
    BY <1>0, <1>1, ArenaFacts
  <2>2. \A i \in 1..n : s[i].own \in Nat
    BY <1>1, <2>1, ArenaFacts
  <2> QED BY <1>0, <1>1, <2>2 DEF SameNodes
<1> HIDE DEF n, c
<1>3. IsArena(r, E)
  BY <1>0, <1>1, FoldStep
<1>4. \A i \in 1..n : r[i] =
        IF p # 0 /\ i = p
        THEN Made(s[i].entry, s[i].parent, s[i].kind, s[i].own, s[i].agg + s[c].agg,
                  s[i].files + s[c].files, s[i].dirs + s[c].dirs, s[i].children, s[i].flags)
        ELSE s[i]
  <2> HIDE DEF p
  <2> QED BY <1>0, <1>1, <1>2, FoldStep
<1>5. DOMAIN r = 1..n
  <2>1. DOMAIN r = DOMAIN s
    BY DEF FoldIntoParent
  <2> QED BY <1>1, <2>1
<1> HIDE DEF p, r
<1>6. ASSUME NEW i \in 1..n
      PROVE  /\ r[i].entry = s[i].entry /\ r[i].parent = s[i].parent /\ r[i].kind = s[i].kind
             /\ r[i].own = s[i].own /\ r[i].children = s[i].children /\ r[i].flags = s[i].flags
             /\ r[i].agg = IF p = i THEN s[i].agg + s[c].agg ELSE s[i].agg
             /\ r[i].files = IF p = i THEN s[i].files + s[c].files ELSE s[i].files
             /\ r[i].dirs = IF p = i THEN s[i].dirs + s[c].dirs ELSE s[i].dirs
  <2>1. CASE p = i
    <3>1. p # 0
      BY <1>0, <2>1
    <3>2. r[i] = Made(s[i].entry, s[i].parent, s[i].kind, s[i].own, s[i].agg + s[c].agg,
                  s[i].files + s[c].files, s[i].dirs + s[c].dirs, s[i].children, s[i].flags)
      BY <1>4, <2>1, <3>1, Zenon
    <3> QED BY <2>1, <3>2 DEF Made
  <2>2. CASE p # i
    BY <1>4, <2>2
  <2> QED BY <2>1, <2>2
<1>7. SameNodes(t, r)
  BY <1>0, <1>1, <1>5, <1>6 DEF SameNodes
<1>8. ASSUME NEW S, S \subseteq 1..n
      PROVE  /\ SumFunctionOnSet(Own(r), S) = SumFunctionOnSet(Own(s), S)
             /\ FilesIn(r, S) = FilesIn(s, S)
             /\ DirsIn(r, S) = DirsIn(s, S)
  <2>0. IsFiniteSet(1..n)
    BY <1>0, FS_Interval
  <2>1. IsFiniteSet(S)
    BY <1>8, <2>0, FS_Subset
  <2>2. \A x \in S : Own(r)[x] = Own(s)[x]
    BY <1>1, <1>5, <1>6, <1>8 DEF Own
  <2>3. FilesIn(r, S) = FilesIn(s, S) /\ DirsIn(r, S) = DirsIn(s, S)
    <3>1. \A x \in S : r[x].kind = s[x].kind
      BY <1>6, <1>8
    <3> QED BY <3>1 DEF FilesIn, DirsIn
  <2> QED BY <2>1, <2>2, <2>3, SumCong
<1>9. IsSized(s, n)
  BY <1>0, <1>1, <1>2 DEF IsSized
<1>10. ASSUME NEW i \in 1..n PROVE Totals(r, i, Part(t, k, i))
  <2>1. /\ Part(t, c, i) \subseteq 1..n /\ Part(t, k, i) \subseteq 1..n
        /\ Part(t, c, c) \subseteq 1..n /\ Part(t, c, c) = Subtree(t, c)
    <3>1. n = Len(t) /\ c \in 0..n /\ k \in 0..n /\ c <= c
      BY <1>0 DEF n
    <3> QED BY <1>0, <3>1, SubtreeParts
  <2> DEFINE S == Part(t, c, i)
             G == Part(t, c, c)
  <2>2. Totals(s, i, S) /\ Totals(s, c, G)
    BY <1>0, <1>1
  <2>3. IF p = i THEN Part(t, k, i) = S \union G /\ S \intersect G = {} ELSE Part(t, k, i) = S
    BY <1>0, <2>1, PartStep DEF p, c, n
  <2> HIDE DEF S, G
  <2>4. CASE p = i
    <3>1. TotalsAdd(s, S, G)
      <4>1. S \subseteq 1..n /\ G \subseteq 1..n
        BY <2>1 DEF S, G
      <4> QED BY <1>9, <2>3, <2>4, <4>1, TotalsJoin
    <3>0. S \union G \subseteq 1..n
      BY <2>1, <2>3, <2>4
    <3>2. Totals(r, i, S \union G)
      BY <1>6, <1>8, <2>1, <2>2, <2>3, <2>4, <3>0, <3>1 DEF Totals, TotalsAdd
    <3> QED BY <2>3, <2>4, <3>2
  <2>5. CASE p # i
    BY <1>6, <1>8, <2>1, <2>2, <2>3, <2>5 DEF Totals
  <2> QED BY <2>4, <2>5
<1> QED BY <1>0, <1>3, <1>7, <1>10 DEF IsStage, c, r

\* The reverse pass over fresh nodes leaves every node with its exact totals and
\* changes nothing else.
THEOREM AggregateExact ==
    ASSUME NEW t, NEW E, IsFresh(t, E)
    PROVE  /\ IsArena(Aggregate(t), E)
           /\ SameNodes(t, Aggregate(t))
           /\ AggregatesExact(Aggregate(t))
<1> DEFINE n == Len(t)
           Q == {d \in Nat : d < n => IsStage(t, E, n - d, Stage(t, n - d))}
<1>0. n \in Nat \ {0} /\ DOMAIN t = 1..n /\ IsArena(t, E) /\ IsTree(t, n)
  <2>1. t \in Seq(NodeType(E)) /\ t # <<>>
    BY DEF IsFresh, IsArena
  <2> QED BY <2>1, ArenaFacts DEF IsFresh
<1>1. /\ Aggregate(t) = Stage(t, 1)
      /\ Stage(t, n) = t
      /\ \A k \in 1..(n - 1) : Stage(t, k) = FoldIntoParent(k + 1, Stage(t, k + 1))
  BY <1>0, PassIs
<1>2. 0 \in Q
  BY <1>0, <1>1, FirstStage
<1>3. ASSUME NEW d \in Nat, d \in Q PROVE d + 1 \in Q
  <2> SUFFICES ASSUME d + 1 < n PROVE IsStage(t, E, n - (d + 1), Stage(t, n - (d + 1)))
    OBVIOUS
  <2> DEFINE k == n - (d + 1)
  <2>1. k \in 1..(n - 1) /\ k + 1 = n - d /\ d < n
    BY <1>0
  <2>2. IsStage(t, E, k + 1, Stage(t, k + 1))
    BY <1>3, <2>1
  <2> HIDE DEF k
  <2>3. IsStage(t, E, k, FoldIntoParent(k + 1, Stage(t, k + 1)))
    BY <1>0, <2>1, <2>2, NextStage
  <2>4. IsStage(t, E, k, Stage(t, k))
    BY <1>1, <2>1, <2>3
  <2> QED BY <2>4 DEF k
<1>4. Nat \subseteq Q
  <2> HIDE DEF Q
  <2> QED BY <1>2, <1>3, NatSetInduction
<1>5. IsStage(t, E, 1, Aggregate(t))
  <2>1. n - 1 \in Q /\ n - (n - 1) = 1 /\ n - 1 < n
    BY <1>0, <1>4
  <2> QED BY <1>1, <2>1
<1> DEFINE r == Aggregate(t)
<1> HIDE DEF r
<1>6. IsArena(r, E) /\ SameNodes(t, r) /\ DOMAIN r = 1..n
  BY <1>0, <1>5 DEF IsStage, SameNodes, r
<1>7. Alive(r) = 1..n
  BY <1>0, <1>6 DEF Alive, SameNodes, IsFresh
<1>8. ASSUME NEW i \in 1..n PROVE Totals(r, i, LiveBelow(r, i))
  <2>1. Part(t, 1, i) = Subtree(t, i)
    <3>1. 1 \in 0..n /\ 1 <= i
      BY <1>0
    <3> QED BY <1>0, <3>1, SubtreeParts
  <2>2. Totals(r, i, Subtree(t, i))
    BY <1>0, <1>5, <2>1 DEF IsStage, r
  <2>3. \A j \in 1..n : Ancestors(r, j) = Ancestors(t, j)
    <3>1. IsTree(r, n)
      BY <1>0, <1>6 DEF SameNodes, IsTree
    <3> QED BY <1>0, <1>6, <3>1, AncestorsSame DEF SameNodes
  <2>4. LiveBelow(r, i) = Subtree(t, i)
    BY <1>0, <1>6, <1>7, <2>3 DEF LiveBelow, Subtree
  <2> QED BY <2>2, <2>4
<1> QED
  BY <1>6, <1>7, <1>8, AggregatesAreTotals DEF r
=============================================================================
