---------------------------- MODULE Shell_proofs ----------------------------
(***************************************************************************)
(* Proofs about the shell, for any disk, any number of scans, deletions    *)
(* and changes by other programs, and any history; and about a tree of any *)
(* size by itself, under any deletions.                                    *)
(***************************************************************************)
EXTENDS Shell, ModelDeletions, ScanModel_proofs

-----------------------------------------------------------------------------
(* The disk is a tree.                                                     *)

\* Induction along the paths, the parents first.
LEMMA PathInduction ==
    ASSUME NEW S, \A q \in Paths : (Up[q] \in S \/ Up[q] = NoPath) => q \in S
    PROVE  Paths \subseteq S
<1> DEFINE n == Len(Order)
           Q == {k \in 1..n : Order[k] \in S}
<1>1. Order \in Seq(Paths) /\ n \in Nat /\ DOMAIN Order = 1..n
  BY ShellAssumption DEF Paths, ToSet
<1>2. \A q : q \in Paths <=> \E k \in 1..n : Order[k] = q
  BY <1>1, Zenon DEF Paths, ToSet
<1>3. ASSUME NEW k \in 1..n, \A j \in 1..(k - 1) : j \in Q PROVE k \in Q
  <2>1. Up[Order[k]] \in {Order[i] : i \in 1..(k - 1)} \union {NoPath}
    BY <1>1, ShellAssumption
  <2> QED BY <1>2, <1>3, <2>1
<1>4. \A k \in 1..n : k \in Q
  <2> HIDE DEF Q, n
  <2> QED BY <1>1, <1>3, IndexInduction
<1> QED BY <1>2, <1>4

\* The sets that hold p and with a directory what lies in it.
Closed(S, p) == p \in S /\ \A q \in Paths : Up[q] \in S => q \in S

\* The recursive equation of Under.
IsIn(g, p) == g = [q \in Paths |-> q = p \/ (Up[q] # NoPath /\ g[Up[q]])]

\* That equation has a solution: the least of these sets.
LEMMA InExists ==
    ASSUME NEW p \in Paths
    PROVE  \E g : IsIn(g, p)
<1> DEFINE L == {q \in Paths : \A S \in SUBSET Paths : Closed(S, p) => q \in S}
           g == [q \in Paths |-> q \in L]
           M == {q \in Paths : q = p \/ (Up[q] # NoPath /\ Up[q] \in L)}
<1>0. NoPath \notin Paths /\ Up \in [Paths -> Paths \union {NoPath}]
  BY ShellAssumption
<1>1. Closed(L, p)
  BY DEF Closed
<1>2. Closed(M, p)
  <2>1. M \subseteq L
    BY <1>1 DEF Closed
  <2> QED BY <1>0, <2>1 DEF Closed
<1>3. L = M
  <2>1. M \subseteq L
    BY <1>1 DEF Closed
  <2>2. M \in SUBSET Paths
    OBVIOUS
  <2>3. L \subseteq M
    <3> HIDE DEF M
    <3> QED BY <1>2, <2>2
  <2> QED BY <2>1, <2>3, Zenon
<1> HIDE DEF L
<1>4. ASSUME NEW q \in Paths
      PROVE  (q \in L) = (q = p \/ (Up[q] # NoPath /\ g[Up[q]]))
  <2>1. Up[q] # NoPath => Up[q] \in Paths
    BY <1>0
  <2>2. Up[q] # NoPath => (g[Up[q]] <=> Up[q] \in L)
    BY <2>1
  <2> QED BY <1>3, <2>2
<1>5. g = [q \in Paths |-> q = p \/ (Up[q] # NoPath /\ g[Up[q]])]
  BY <1>4
<1> HIDE DEF g
<1> QED BY <1>5, Zenon DEF IsIn

\* A path is under p when it is p or its directory is under p.
LEMMA UnderIs ==
    ASSUME NEW p \in Paths
    PROVE  /\ Under(p) \subseteq Paths
           /\ \A q \in Paths :
                q \in Under(p) <=> q = p \/ (Up[q] # NoPath /\ Up[q] \in Under(p))
<1> DEFINE g == CHOOSE g : IsIn(g, p)
<1>0. NoPath \notin Paths /\ Up \in [Paths -> Paths \union {NoPath}]
  BY ShellAssumption
<1>1. IsIn(g, p)
  BY InExists
<1>2. Under(p) = {q \in Paths : g[q]}
  BY Zenon DEF Under, IsIn
<1> HIDE DEF g
<1>3. \A q \in Paths : g[q] = (q = p \/ (Up[q] # NoPath /\ g[Up[q]]))
  BY <1>1, Zenon DEF IsIn
<1>4. \A q \in Paths : Up[q] # NoPath => Up[q] \in Paths
  BY <1>0
<1> QED BY <1>2, <1>3, <1>4

\* What is under something under p is under p.
LEMMA UnderTransitive ==
    ASSUME NEW p \in Paths, NEW q \in Under(p)
    PROVE  Under(q) \subseteq Under(p)
<1> DEFINE S == {x \in Paths : x \in Under(q) => x \in Under(p)}
<1>0. q \in Paths /\ NoPath \notin Paths
  BY UnderIs, ShellAssumption
<1>1. ASSUME NEW x \in Paths, Up[x] \in S \/ Up[x] = NoPath PROVE x \in S
  <2>1. x \in Under(q) => x = q \/ (Up[x] # NoPath /\ Up[x] \in Under(q))
    BY <1>0, UnderIs
  <2>2. Up[x] # NoPath /\ Up[x] \in Under(p) => x \in Under(p)
    BY UnderIs
  <2> QED BY <1>1, <2>1, <2>2
<1>2. Paths \subseteq S
  <2> HIDE DEF S
  <2> QED BY <1>1, PathInduction
<1> QED BY <1>0, <1>2, UnderIs

\* A path is not under something that lies in it.
LEMMA UnderAcyclic ==
    ASSUME NEW p \in Paths, NEW q \in Paths, Up[p] = q
    PROVE  q \notin Under(p)
<1> DEFINE n == Len(Order)
<1>1. Order \in Seq(Paths) /\ n \in Nat /\ DOMAIN Order = 1..n
  BY ShellAssumption DEF Paths, ToSet
<1>2. \A x : x \in Paths <=> \E k \in 1..n : Order[k] = x
  BY <1>1, Zenon DEF Paths, ToSet
<1>3. NoPath \notin Paths
  BY ShellAssumption
<1>4. PICK k \in 1..n : Order[k] = p
  BY <1>2
<1> DEFINE S == {x \in Paths : x \in Under(p) => \E i \in 1..n : i >= k /\ Order[i] = x}
<1>5. ASSUME NEW x \in Paths, Up[x] \in S \/ Up[x] = NoPath PROVE x \in S
  <2> SUFFICES ASSUME x \in Under(p) PROVE \E i \in 1..n : i >= k /\ Order[i] = x
    OBVIOUS
  <2>1. CASE x = p
    BY <1>4, <2>1
  <2>2. CASE x # p
    <3>1. Up[x] # NoPath /\ Up[x] \in Under(p)
      BY <2>2, UnderIs
    <3>2. PICK i \in 1..n : i >= k /\ Order[i] = Up[x]
      BY <1>5, <3>1
    <3>3. PICK m \in 1..n : Order[m] = x
      BY <1>2
    <3>4. PICK j \in 1..(m - 1) : Order[j] = Up[x]
      BY <1>1, <3>1, <3>3, ShellAssumption
    <3>5. j = i
      <4>1. j \in 1..n
        BY <1>1
      <4> QED BY <1>1, <3>2, <3>4, <4>1, ShellAssumption
    <3> QED BY <3>2, <3>3, <3>5
  <2> QED BY <2>1, <2>2
<1>6. Paths \subseteq S
  <2> HIDE DEF S
  <2> QED BY <1>5, PathInduction
<1>7. SUFFICES ASSUME q \in Under(p) PROVE FALSE
  OBVIOUS
<1>8. PICK i \in 1..n : i >= k /\ Order[i] = q
  BY <1>6, <1>7
<1>9. PICK j \in 1..(k - 1) : Order[j] = q
  BY <1>1, <1>3, <1>4, ShellAssumption
<1>10. j = i
  <2>1. j \in 1..n
    BY <1>1
  <2> QED BY <1>1, <1>8, <1>9, <2>1, ShellAssumption
<1> QED BY <1>8, <1>9, <1>10

-----------------------------------------------------------------------------
(* Trees that a scan made and deletions pruned.                            *)

Entry == [path : Paths, id : Nat \ {0}]

\* Each node stands for a path of its own and lies in the node of its directory.
Placed(t) ==
    /\ t # <<>>
    /\ \A i, k \in DOMAIN t : t[i].entry.path = t[k].entry.path => i = k
    /\ \A i \in DOMAIN t \ {Root} : /\ Up[t[i].entry.path] = t[t[i].parent].entry.path
                                    /\ t[t[i].parent].kind = "dir"
    /\ t[Root].kind = "dir"

TreeOK(t) ==
    /\ IsArena(t, Entry) /\ ListsExact(t) /\ AggregatesExact(t)
    /\ Placed(t) /\ Root \in Alive(t)

\* The same nodes; the totals, the child lists and the flags may differ.
SameFrame(t, r) ==
    /\ DOMAIN r = DOMAIN t
    /\ \A i \in DOMAIN t :
         r[i].entry = t[i].entry /\ r[i].parent = t[i].parent /\ r[i].kind = t[i].kind

\* What is used of a tree, in one place.
LEMMA TreeFacts ==
    ASSUME NEW t, TreeOK(t)
    PROVE  /\ Len(t) \in Nat \ {0} /\ DOMAIN t = 1..Len(t) /\ Root \in 1..Len(t)
           /\ IsTree(t, Len(t)) /\ Alive(t) \subseteq 1..Len(t)
           /\ \A i \in 1..Len(t) :
                /\ t[i].parent \in 0..(i - 1) /\ (i # Root => t[i].parent # 0)
                /\ t[i].entry \in Entry
                /\ t[i].entry.path \in Paths /\ t[i].entry.id \in Nat \ {0}
<1>1. IsArena(t, Entry) /\ t # <<>> /\ t \in Seq(NodeType(Entry))
  BY DEF TreeOK, Placed, IsArena
<1>2. Len(t) # 0
  BY <1>1
<1>3. \A e \in Entry : e.path \in Paths /\ e.id \in Nat \ {0}
  BY DEF Entry
<1> QED BY <1>1, <1>2, <1>3, ArenaFacts DEF Root

\* Nothing of the frame depends on what was pruned.
LEMMA SameSubtrees ==
    ASSUME NEW t, TreeOK(t), NEW r, IsArena(r, Entry), SameFrame(t, r)
    PROVE  \A i : Subtree(r, i) = Subtree(t, i)
<1>1. IsTree(t, Len(t)) /\ IsTree(r, Len(r)) /\ DOMAIN t = 1..Len(t) /\ DOMAIN r = 1..Len(r)
  BY TreeFacts, ArenaFacts
<1>2. Len(t) \in Nat /\ Len(r) \in Nat
  BY <1>1 DEF IsTree
<1>3. Len(r) = Len(t)
  BY <1>1, <1>2 DEF SameFrame
<1>4. \A i \in 1..Len(t) : Ancestors(r, i) = Ancestors(t, i)
  BY <1>1, <1>3, AncestorsSame DEF SameFrame
<1> QED BY <1>1, <1>3, <1>4 DEF Subtree

\* What a deletion leaves: the tree without what was below its target.
LEMMA DeletionIs ==
    ASSUME NEW t, TreeOK(t), NEW target
    PROVE  /\ TreeOK(ApplyDeletion(t, target))
           /\ SameFrame(t, ApplyDeletion(t, target))
           /\ Alive(ApplyDeletion(t, target)) =
                IF target \in DOMAIN t \ {Root} THEN Alive(t) \ Subtree(t, target) ELSE Alive(t)
<1> DEFINE r == ApplyDeletion(t, target)
<1>0. /\ IsArena(t, Entry) /\ ListsExact(t) /\ AggregatesExact(t) /\ Placed(t)
      /\ Root \in Alive(t) /\ IsTree(t, Len(t)) /\ DOMAIN t = 1..Len(t) /\ Root \in 1..Len(t)
  BY TreeFacts DEF TreeOK
<1>1. CASE ~ CanDelete(t, target)
  <2>1. r = t
    BY <1>1 DEF ApplyDeletion
  <2>2. ASSUME target \in DOMAIN t \ {Root} PROVE Alive(t) \intersect Subtree(t, target) = {}
    <3>1. target \notin Alive(t)
      BY <1>1, <2>2 DEF CanDelete, Alive
    <3>2. \A i \in Alive(t) : Ancestors(t, i) \subseteq Alive(t)
      BY <1>0, AncestorsAlive
    <3> QED BY <3>1, <3>2 DEF Subtree
  <2>3. SameFrame(t, t)
    BY DEF SameFrame
  <2> HIDE DEF r
  <2>4. TreeOK(r) /\ SameFrame(t, r)
    BY <2>1, <2>3
  <2>5. Alive(r) = IF target \in DOMAIN t \ {Root} THEN Alive(t) \ Subtree(t, target) ELSE Alive(t)
    BY <2>1, <2>2
  <2> QED BY <2>4, <2>5 DEF r
<1>2. CASE CanDelete(t, target)
  <2> DEFINE gone == Subtree(t, target) \intersect Alive(t)
  <2>0. target \in DOMAIN t \ {Root}
    BY <1>2 DEF CanDelete
  <2>1. IsArena(r, Entry) /\ Deleted(t, r, target, gone, Ancestors(t, target))
    BY <1>0, <1>2, DeletionFacts
  <2>2. ListsExact(r) /\ AggregatesExact(r)
    BY <1>0, <1>2, DeletionLists, DeletionAggregates
  <2> HIDE DEF r
  <2>3. SameFrame(t, r) /\ Alive(r) = Alive(t) \ gone
    BY <2>1, Zenon DEF Deleted, SameFrame
  <2>4. Root \notin gone
    <3>1. Ancestors(t, Root) \subseteq 1..(Root - 1)
      BY <1>0, AncestorsBelow
    <3> QED BY <2>0, <1>0, <3>1 DEF Subtree, Root
  <2>5. Placed(r)
    <3>1. r # <<>>
      BY <1>0, <2>3 DEF SameFrame
    <3>2. \A i \in DOMAIN t \ {Root} : t[i].parent \in DOMAIN t
      BY <1>0 DEF IsTree, IsArena
    <3> QED BY <1>0, <2>3, <3>1, <3>2 DEF Placed, SameFrame
  <2>6. TreeOK(r)
    BY <1>0, <2>1, <2>2, <2>3, <2>4, <2>5 DEF TreeOK
  <2> QED BY <2>0, <2>3, <2>6 DEF r
<1> QED BY <1>1, <1>2

\* A node is below k when it is k or its parent is below k.
LEMMA SubtreeIs ==
    ASSUME NEW t, TreeOK(t)
    PROVE  \A k \in DOMAIN t : \A i \in DOMAIN t :
             i \in Subtree(t, k) <=> i = k \/ (t[i].parent # 0 /\ t[i].parent \in Subtree(t, k))
<1>1. /\ DOMAIN t = 1..Len(t) /\ Len(t) \in Nat /\ IsTree(t, Len(t))
      /\ \A i \in 1..Len(t) : t[i].parent \in 0..(i - 1)
  BY TreeFacts
<1> SUFFICES ASSUME NEW k \in DOMAIN t, NEW i \in DOMAIN t
             PROVE  i \in Subtree(t, k) <=> i = k \/ (t[i].parent # 0 /\ t[i].parent \in Subtree(t, k))
  OBVIOUS
<1>2. Ancestors(t, i) = IF t[i].parent = 0 THEN {}
                        ELSE {t[i].parent} \union Ancestors(t, t[i].parent)
  BY <1>1, AncestorsAre
<1>3. t[i].parent # 0 => t[i].parent \in DOMAIN t
  BY <1>1
<1> QED BY <1>2, <1>3 DEF Subtree

\* The nodes below n are those whose paths are under that of n.
LEMMA SubtreeUnder ==
    ASSUME NEW t, TreeOK(t), NEW n \in DOMAIN t
    PROVE  \A i \in DOMAIN t : i \in Subtree(t, n) <=> t[i].entry.path \in Under(t[n].entry.path)
<1> DEFINE P(i) == t[i].entry.path
           F == {i \in DOMAIN t : \A k \in DOMAIN t : i \in Subtree(t, k) => P(i) \in Under(P(k))}
           B == {i \in DOMAIN t : P(i) \in Under(P(n)) => i \in Subtree(t, n)}
<1>1. /\ Len(t) \in Nat /\ DOMAIN t = 1..Len(t) /\ Root \in 1..Len(t) /\ IsTree(t, Len(t))
      /\ \A i \in 1..Len(t) : /\ t[i].parent \in 0..(i - 1) /\ (i # Root => t[i].parent # 0)
                              /\ P(i) \in Paths
  BY TreeFacts
<1>2. /\ \A i, k \in DOMAIN t : P(i) = P(k) => i = k
      /\ \A i \in DOMAIN t \ {Root} : Up[P(i)] = P(t[i].parent)
  BY DEF TreeOK, Placed
<1>3. \A k \in DOMAIN t : \A i \in DOMAIN t :
         i \in Subtree(t, k) <=> i = k \/ (t[i].parent # 0 /\ t[i].parent \in Subtree(t, k))
  BY SubtreeIs
<1>4. NoPath \notin Paths
  BY ShellAssumption
<1> HIDE DEF P
<1>5. ASSUME NEW i \in 1..Len(t), \A j \in 1..(i - 1) : j \in F PROVE i \in F
  <2> SUFFICES ASSUME NEW k \in DOMAIN t, i \in Subtree(t, k), i # k PROVE P(i) \in Under(P(k))
    BY <1>1, UnderIs
  <2>1. t[i].parent # 0 /\ t[i].parent \in Subtree(t, k)
    BY <1>1, <1>3
  <2>2. t[i].parent \in 1..(i - 1) /\ t[i].parent \in DOMAIN t /\ i # Root
    BY <1>1, <2>1 DEF Root
  <2>3. P(t[i].parent) \in Under(P(k))
    BY <1>5, <2>1, <2>2
  <2>4. Up[P(i)] = P(t[i].parent) /\ P(t[i].parent) \in Paths
    BY <1>1, <1>2, <2>2
  <2> QED BY <1>1, <1>4, <2>3, <2>4, UnderIs
<1>6. \A i \in DOMAIN t : i \in F
  <2> HIDE DEF F
  <2> QED BY <1>1, <1>5, IndexInduction
<1>7. n # Root => P(Root) \notin Under(P(n))
  <2> SUFFICES ASSUME n # Root, P(Root) \in Under(P(n)) PROVE FALSE
    OBVIOUS
  <2> DEFINE m == t[n].parent
  <2>0. n \in Subtree(t, Root)
    BY <1>1, RootAbove DEF Subtree, TreeOK
  <2>1. P(n) \in Under(P(Root)) /\ P(n) # P(Root)
    BY <1>1, <1>2, <1>6, <2>0
  <2>2. Up[P(n)] \in Under(P(Root)) /\ Up[P(n)] # NoPath
    BY <1>1, <2>1, UnderIs
  <2>3. Up[P(n)] \in Under(P(n)) /\ Up[P(n)] \in Paths
    BY <1>1, <2>2, UnderTransitive, UnderIs
  <2> QED BY <1>1, <2>3, UnderAcyclic
<1>8. ASSUME NEW i \in 1..Len(t), \A j \in 1..(i - 1) : j \in B PROVE i \in B
  <2> SUFFICES ASSUME P(i) \in Under(P(n)), i # n PROVE i \in Subtree(t, n)
    BY <1>1, <1>3
  <2>1. i # Root
    BY <1>7
  <2>2. P(i) # P(n) /\ Up[P(i)] = P(t[i].parent)
    BY <1>1, <1>2, <2>1
  <2>3. P(t[i].parent) \in Under(P(n))
    BY <1>1, <2>2, UnderIs
  <2>4. t[i].parent \in 1..(i - 1) /\ t[i].parent # 0
    BY <1>1, <2>1
  <2> QED BY <1>1, <1>3, <1>8, <2>3, <2>4
<1>9. \A i \in DOMAIN t : i \in B
  <2> HIDE DEF B
  <2> QED BY <1>1, <1>8, IndexInduction
<1> QED BY <1>6, <1>9 DEF P

-----------------------------------------------------------------------------
(* Clearing a directory: one deletion after the other.                     *)

\* The recursive equation of the fold of Forget.
IsCleared(g, t, S) ==
    g = [s \in SUBSET S |-> IF s = {} THEN t ELSE Forget(Pick(s), g[s \ {Pick(s)}])]

\* That equation has a solution.
LEMMA ClearedExists ==
    ASSUME NEW t, NEW S, IsFiniteSet(S)
    PROVE  \E g : IsCleared(g, t, S)
<1> DEFINE D(k) == {s \in SUBSET S : Cardinality(s) <= k}
           R(g, k) == g = [s \in D(k) |-> IF s = {} THEN t ELSE Forget(Pick(s), g[s \ {Pick(s)}])]
           Q == {k \in Nat : \E g : R(g, k)}
<1>1. \A T \in SUBSET S : IsFiniteSet(T) /\ Cardinality(T) \in Nat
  BY FS_Subset, FS_CardinalityType
<1>2. 0 \in Q
  <2>1. \A s \in D(0) : s = {}
    BY <1>1, FS_EmptySet
  <2>2. R([s \in D(0) |-> t], 0)
    BY <2>1
  <2> QED BY <2>2
<1>3. ASSUME NEW k \in Nat, k \in Q PROVE k + 1 \in Q
  <2>1. PICK g : R(g, k)
    BY <1>3
  <2> DEFINE h == [s \in D(k + 1) |-> IF s = {} THEN t ELSE Forget(Pick(s), g[s \ {Pick(s)}])]
  <2>2. \A s \in D(k) : h[s] = g[s]
    <3>1. \A s \in D(k) : s \in D(k + 1)
      BY <1>1
    <3> QED BY <2>1, <3>1, Zenon
  <2>3. ASSUME NEW s \in D(k + 1), s # {} PROVE s \ {Pick(s)} \in D(k)
    BY <1>1, <2>3, PickIn, FS_RemoveElement
  <2>4. \A s \in D(k + 1) : h[s] = IF s = {} THEN t ELSE Forget(Pick(s), h[s \ {Pick(s)}])
    BY <2>2, <2>3
  <2>5. R(h, k + 1)
    <3> HIDE DEF D
    <3> SUFFICES h = [s \in D(k + 1) |-> IF s = {} THEN t ELSE Forget(Pick(s), h[s \ {Pick(s)}])]
       OBVIOUS
    <3> QED BY <2>4, Zenon
  <2> QED
    <3> HIDE DEF R, h
    <3> QED BY <2>5
<1>4. Nat \subseteq Q
  <2> HIDE DEF Q
  <2> QED BY <1>2, <1>3, NatSetInduction
<1>5. D(Cardinality(S)) = SUBSET S
  BY <1>1, FS_Subset
<1>6. Cardinality(S) \in Q
  <2> HIDE DEF Q
  <2> QED BY <1>1, <1>4
<1>7. PICK g : R(g, Cardinality(S))
  BY <1>6
<1>8. IsCleared(g, t, S)
  BY <1>5, <1>7 DEF IsCleared
<1> QED
  BY <1>8

\* What lies below one of the nodes of S.
BelowAny(t, S) == UNION {Subtree(t, c) : c \in S}

\* The tree r is t without what lies below S.
Pruned(t, r, S) ==
    TreeOK(r) /\ SameFrame(t, r) /\ Alive(r) = Alive(t) \ BelowAny(t, S)

\* Deleting every node of a set, in any order, takes all their subtrees.
LEMMA ClearIs ==
    ASSUME NEW t, TreeOK(t), NEW S, S \subseteq DOMAIN t \ {Root}
    PROVE  Pruned(t, FoldSet(Forget, t, S), S)
<1> DEFINE g == CHOOSE g : IsCleared(g, t, S)
           P == {s \in SUBSET S : Pruned(t, g[s], s)}
<1>1. IsFiniteSet(S)
  <2>1. Len(t) \in Nat /\ DOMAIN t = 1..Len(t)
    BY TreeFacts
  <2>2. IsFiniteSet(1..Len(t))
    BY <2>1, FS_Interval
  <2> QED BY <2>1, <2>2, FS_Subset
<1>2. IsCleared(g, t, S)
  BY <1>1, ClearedExists
<1>3. FoldSet(Forget, t, S) = g[S]
  BY DEF FoldSet, MapThenFoldSet, IsCleared, Pick
<1> HIDE DEF g
<1>4. \A s \in SUBSET S : g[s] = IF s = {} THEN t ELSE Forget(Pick(s), g[s \ {Pick(s)}])
  BY <1>2, Zenon DEF IsCleared
<1>5. ASSUME NEW s \in SUBSET S, \A u \in SUBSET s : u # s => u \in P PROVE s \in P
  <2>1. CASE s = {}
    <3>1. g[s] = t
      BY <1>4, <2>1
    <3>2. Pruned(t, t, {})
      BY DEF Pruned, SameFrame, BelowAny
    <3> QED BY <2>1, <3>1, <3>2
  <2>2. CASE s # {}
    <3> DEFINE c == Pick(s)
               u == s \ {c}
               m == g[u]
               r == ApplyDeletion(m, c)
    <3>1. c \in s
      BY <2>2, PickIn
    <3>2. Pruned(t, m, u)
      BY <1>5, <3>1
    <3>3. g[s] = r
      BY <1>4, <2>2 DEF Forget
    <3> HIDE DEF c, u, m
    <3>4. c \in DOMAIN t \ {Root} /\ DOMAIN m = DOMAIN t
      BY <3>1, <3>2 DEF Pruned, SameFrame
    <3>5. /\ TreeOK(r) /\ SameFrame(m, r) /\ Alive(r) = Alive(m) \ Subtree(m, c)
      BY <3>2, <3>4, DeletionIs DEF Pruned
    <3>6. Subtree(m, c) = Subtree(t, c)
      BY <3>2, SameSubtrees DEF Pruned, TreeOK
    <3>7. BelowAny(t, s) = BelowAny(t, u) \union Subtree(t, c)
      BY <3>1 DEF BelowAny, u
    <3> HIDE DEF r
    <3>8. SameFrame(t, r)
      BY <3>2, <3>5 DEF SameFrame, Pruned
    <3>9. Pruned(t, r, s)
      BY <3>2, <3>5, <3>6, <3>7, <3>8 DEF Pruned
    <3> QED BY <3>3, <3>9
  <2> QED BY <2>1, <2>2
<1>6. \A s \in SUBSET S : s \in P
  <2> HIDE DEF P
  <2> QED BY <1>1, <1>5, SubsetInduction
<1> QED BY <1>3, <1>6

-----------------------------------------------------------------------------
(* What a scan makes.                                                      *)

\* Whatever exists lies in a directory that exists.
DiskClosed(d) == \A p \in Paths : Up[p] # NoPath /\ d[p] # 0 => d[Up[p]] # 0

\* The paths a scan of r lists: r first, each once, parents before children.
LEMMA FoundIs ==
    ASSUME NEW r \in Paths, DiskClosed(disk)
    PROVE  /\ Found(r) \in Seq(Paths) /\ Found(r) # <<>>
           /\ \A i, k \in 1..Len(Found(r)) : i # k => Found(r)[i] # Found(r)[k]
           /\ \A i \in 1..Len(Found(r)) : Found(r)[i] # r => disk[Found(r)[i]] # 0
           /\ \A i \in 1..Len(Found(r)) : i # Root =>
                \E k \in 1..(i - 1) : Found(r)[k] = Up[Found(r)[i]]
           /\ Found(r)[Root] = r
<1> DEFINE S == {p \in Under(r) : p = r \/ disk[p] # 0}
           f == Found(r)
<1>0. Order \in Seq(Paths) /\ NoRepeat(Order) /\ ToSet(Order) = Paths /\ NoPath \notin Paths
  BY ShellAssumption DEF NoRepeat, Paths
<1>1. S \subseteq Paths /\ r \in S
  BY UnderIs
<1>2. f \in Seq(Paths) /\ ToSet(f) = S /\ NoRepeat(f) /\ InOrder(f, Order, Len(Order))
  <2>1. f = Keep(Order, S)
    BY DEF Found
  <2> HIDE DEF f
  <2> QED BY <1>0, <1>1, <2>1, KeepIs, KeepOrder
<1> HIDE DEF f
<1>3. Len(f) \in Nat /\ DOMAIN f = 1..Len(f)
  BY <1>2
<1>4. \A p : p \in S <=> \E i \in 1..Len(f) : f[i] = p
  BY <1>2, <1>3, Zenon DEF ToSet
<1>5. ASSUME NEW i \in 1..Len(f), f[i] # r
      PROVE  \E k \in 1..(i - 1) : f[k] = Up[f[i]]
  <2> DEFINE p == f[i]
  <2>1. p \in Under(r) /\ p \in Paths /\ disk[p] # 0
    BY <1>1, <1>4, <1>5
  <2>2. Up[p] # NoPath /\ Up[p] \in Under(r)
    BY <1>5, <2>1, UnderIs
  <2>3. Up[p] \in S
    BY <2>1, <2>2 DEF DiskClosed
  <2>4. PICK k \in 1..Len(f) : f[k] = Up[p]
    BY <1>4, <2>3
  <2>5. k # i
    <3>1. Up[p] \notin Under(p)
      BY <1>1, <2>1, <2>3, UnderAcyclic
    <3>2. p \in Under(p)
      BY <2>1, UnderIs
    <3> QED BY <2>4, <3>1, <3>2
  <2>6. ~ (i < k)
    <3> SUFFICES ASSUME i < k PROVE FALSE
      OBVIOUS
    <3>1. PICK a, b \in 1..Len(Order) : a < b /\ f[i] = Order[a] /\ f[k] = Order[b]
      BY <1>2, <1>3 DEF InOrder
    <3>2. Len(Order) \in Nat /\ DOMAIN Order = 1..Len(Order)
      BY <1>0
    <3>3. Up[Order[a]] \in {Order[j] : j \in 1..(a - 1)} \union {NoPath}
      BY <3>2, ShellAssumption
    <3>4. PICK j \in 1..(a - 1) : Order[j] = Order[b]
      BY <2>2, <2>4, <3>1, <3>3
    <3>5. j \in 1..Len(Order) /\ j # b
      BY <3>1, <3>2, <3>4
    <3> QED BY <1>0, <3>2, <3>4, <3>5 DEF NoRepeat
  <2> QED BY <1>3, <2>4, <2>5, <2>6
<1>6. Len(f) # 0
  BY <1>1, <1>3, <1>4
<1>7. f[Root] = r
  <2>1. 1 \in 1..Len(f) /\ 1..(1 - 1) = {}
    BY <1>3, <1>6
  <2> QED BY <1>5, <2>1 DEF Root
<1>8. \A i \in 1..Len(f) : i # Root => f[i] # r
  BY <1>2, <1>3, <1>6, <1>7 DEF NoRepeat, Root
<1>9. f # <<>>
  BY <1>6
<1>10. \A i \in 1..Len(f) : f[i] # r => disk[f[i]] # 0
  BY <1>4
<1>11. \A i, k \in 1..Len(f) : i # k => f[i] # f[k]
  BY <1>2, <1>3 DEF NoRepeat
<1> HIDE DEF S
<1> QED BY <1>2, <1>5, <1>7, <1>8, <1>9, <1>10, <1>11 DEF f

\* The position of the directory of the node k, 0 for the root.
ParentOf(r, k) ==
    IF k = Root THEN 0
    ELSE CHOOSE i \in DOMAIN Found(r) : Found(r)[i] = Up[Found(r)[k]]

KidsOf(r, k) == {c \in DOMAIN Found(r) : Found(r)[c] # r /\ Up[Found(r)[c]] = Found(r)[k]}

KindOf(r, k) == IF k = Root \/ Found(r)[k] \in DirPaths THEN "dir" ELSE "file"

\* The node k of a scan, before the aggregation.
ScannedNode(r, id, k) ==
    Made([path |-> Found(r)[k], id |-> IF k = Root THEN id ELSE disk[Found(r)[k]]],
         ParentOf(r, k), KindOf(r, k),
         IF k = Root THEN 0 ELSE 1, IF k = Root THEN 0 ELSE 1,
         IF KindOf(r, k) = "file" THEN 1 ELSE 0,
         IF KindOf(r, k) = "dir" /\ k # Root THEN 1 ELSE 0,
         KidsOf(r, k), {})

Scanned(r, id) == [k \in DOMAIN Found(r) |-> ScannedNode(r, id, k)]

\* ScanOf aggregates these nodes.
LEMMA ScanIs ==
    ASSUME NEW r \in Paths, NEW id, DiskClosed(disk)
    PROVE  ScanOf(r, id) = Aggregate(Scanned(r, id))
<1> DEFINE found == Found(r)
           pos(p) == CHOOSE k \in DOMAIN found : found[k] = p
           kids(p) == {k \in DOMAIN found : found[k] # r /\ Up[found[k]] = p}
           made(p) ==
               IF p = r THEN RootNode([path |-> r, id |-> id])
               ELSE Node([path |-> p, id |-> disk[p]], pos(Up[p]),
                         IF p \in DirPaths THEN "dir" ELSE "file", 1, {})
           s == [k \in DOMAIN found |-> [made(found[k]) EXCEPT !.children = kids(found[k])]]
<1>1. ScanOf(r, id) = Aggregate(s)
  BY Zenon DEF ScanOf
<1>2. /\ found[Root] = r /\ Root \in DOMAIN found
      /\ \A k \in DOMAIN found : k # Root => found[k] # r
  <2>1. found \in Seq(Paths) /\ found # <<>> /\ found[Root] = r
        /\ \A i, k \in 1..Len(found) : i # k => found[i] # found[k]
    BY FoundIs
  <2>2. Len(found) \in Nat /\ Len(found) # 0 /\ DOMAIN found = 1..Len(found)
    BY <2>1
  <2> HIDE DEF found
  <2>3. Root \in 1..Len(found)
    BY <2>2 DEF Root
  <2> QED BY <2>1, <2>2, <2>3
<1>3. ASSUME NEW k \in DOMAIN found
      PROVE  [made(found[k]) EXCEPT !.children = kids(found[k])] = ScannedNode(r, id, k)
  <2> DEFINE K == KidsOf(r, k)
             e == [path |-> found[k], id |-> IF k = Root THEN id ELSE disk[found[k]]]
             m == made(found[k])
  <2>1. kids(found[k]) = K
    BY DEF KidsOf
  <2>2. CASE k = Root
    <3> DEFINE q == Node(e, 0, "dir", 0, {})
    <3>1. m = [q EXCEPT !.dirs = 0]
      BY <1>2, <2>2 DEF RootNode
    <3>2. q = [entry |-> e, parent |-> 0, kind |-> "dir", own |-> 0, agg |-> 0,
               files |-> 0, dirs |-> 1, children |-> {}, flags |-> {}]
      BY DEF Node
    <3> HIDE DEF q, e, m, K
    <3>3. m = [entry |-> e, parent |-> 0, kind |-> "dir", own |-> 0, agg |-> 0,
               files |-> 0, dirs |-> 0, children |-> {}, flags |-> {}]
      BY <3>1, <3>2
    <3>4. [m EXCEPT !.children = K] = Made(e, 0, "dir", 0, 0, 0, 0, K, {})
      BY <3>3 DEF Made
    <3>5. ParentOf(r, k) = 0 /\ KindOf(r, k) = "dir"
      BY <2>2 DEF ParentOf, KindOf
    <3>6. ScannedNode(r, id, k) = Made(e, 0, "dir", 0, 0, 0, 0, K, {})
      BY <2>2, <3>5 DEF ScannedNode, e, K
    <3> QED BY <2>1, <3>4, <3>6 DEF m
  <2>3. CASE k # Root
    <3> DEFINE p == pos(Up[found[k]])
               d == IF found[k] \in DirPaths THEN "dir" ELSE "file"
    <3>1. m = Node(e, p, d, 1, {})
      BY <1>2, <2>3
    <3>2. p = ParentOf(r, k) /\ d = KindOf(r, k)
      BY <2>3 DEF ParentOf, KindOf
    <3> HIDE DEF e, m, K, p, d
    <3>3. m = [entry |-> e, parent |-> p, kind |-> d, own |-> 1, agg |-> 1,
               files |-> IF d = "file" THEN 1 ELSE 0, dirs |-> IF d = "dir" THEN 1 ELSE 0,
               children |-> {}, flags |-> {}]
      BY <3>1 DEF Node
    <3>4. [m EXCEPT !.children = K] = Made(e, p, d, 1, 1, IF d = "file" THEN 1 ELSE 0,
                                           IF d = "dir" THEN 1 ELSE 0, K, {})
      BY <3>3 DEF Made
    <3>5. ScannedNode(r, id, k) = Made(e, p, d, 1, 1, IF d = "file" THEN 1 ELSE 0,
                                       IF d = "dir" THEN 1 ELSE 0, K, {})
      BY <2>3, <3>2 DEF ScannedNode, e, K
    <3> QED BY <2>1, <3>4, <3>5 DEF m
  <2> QED BY <2>2, <2>3
<1>4. s = Scanned(r, id)
  <2> HIDE DEF made, kids
  <2> QED BY <1>3, Zenon DEF Scanned
<1> HIDE DEF s
<1> QED BY <1>1, <1>4

\* The node x stands for what a scan of r found at position k.
IsScanned(x, r, id, k) ==
    /\ x \in NodeType(Entry) /\ x.entry.path = Found(r)[k]
    /\ x.entry.id = IF k = Root THEN id ELSE disk[Found(r)[k]]
    /\ x.parent = ParentOf(r, k) /\ x.kind = KindOf(r, k) /\ x.agg = x.own
    /\ x.files = IF KindOf(r, k) = "file" THEN 1 ELSE 0
    /\ x.dirs = IF KindOf(r, k) = "dir" /\ k # Root THEN 1 ELSE 0
    /\ x.children = KidsOf(r, k) /\ x.flags = {}
    /\ k # Root => ParentOf(r, k) \in 1..(k - 1) /\ Found(r)[ParentOf(r, k)] = Up[Found(r)[k]]

\* What the nodes of a scan are, field by field.
LEMMA ScannedIs ==
    ASSUME NEW r \in Paths, NEW id \in Nat \ {0}, DiskClosed(disk), disk \in [Paths -> Nat],
           NEW k \in DOMAIN Found(r)
    PROVE  IsScanned(Scanned(r, id)[k], r, id, k)
<1> DEFINE f == Found(r)
           e == [path |-> f[k], id |-> IF k = Root THEN id ELSE disk[f[k]]]
           p == ParentOf(r, k)
           d == KindOf(r, k)
           K == KidsOf(r, k)
           x == Scanned(r, id)[k]
           own == IF k = Root THEN 0 ELSE 1
           fl == IF d = "file" THEN 1 ELSE 0
           dr == IF d = "dir" /\ k # Root THEN 1 ELSE 0
<1>1. /\ f \in Seq(Paths) /\ f[Root] = r
      /\ \A i, j \in 1..Len(f) : i # j => f[i] # f[j]
      /\ \A i \in 1..Len(f) : f[i] # r => disk[f[i]] # 0
      /\ \A i \in 1..Len(f) : i # Root => \E j \in 1..(i - 1) : f[j] = Up[f[i]]
  BY FoundIs
<1>2. Len(f) \in Nat /\ DOMAIN f = 1..Len(f) /\ k \in 1..Len(f) /\ f[k] \in Paths
  <2> HIDE DEF f
  <2>1. Len(f) \in Nat /\ DOMAIN f = 1..Len(f)
    BY <1>1
  <2>2. k \in 1..Len(f)
    BY <2>1 DEF f
  <2> QED BY <1>1, <2>1, <2>2
<1>3. k # Root => p \in 1..(k - 1) /\ f[p] = Up[f[k]]
  <2> SUFFICES ASSUME k # Root PROVE p \in 1..(k - 1) /\ f[p] = Up[f[k]]
    OBVIOUS
  <2>1. p = CHOOSE i \in DOMAIN f : f[i] = Up[f[k]]
    BY DEF ParentOf
  <2> HIDE DEF f, p
  <2>2. PICK j \in 1..(k - 1) : f[j] = Up[f[k]]
    BY <1>1, <1>2
  <2>3. j \in DOMAIN f
    BY <1>2
  <2>4. p \in DOMAIN f /\ f[p] = Up[f[k]]
    BY <2>1, <2>2, <2>3
  <2>5. p = j
    BY <1>1, <1>2, <2>2, <2>3, <2>4
  <2> QED BY <2>2, <2>5
<1>4. x = Made(e, p, d, own, own, fl, dr, K, {})
  BY DEF Scanned, ScannedNode
<1>5. e \in Entry /\ e.path = f[k] /\ e.id = IF k = Root THEN id ELSE disk[f[k]]
  <2>1. k # Root => disk[f[k]] \in Nat \ {0}
    <3>1. 1 \in 1..Len(f)
      BY <1>2
    <3> HIDE DEF f
    <3> QED BY <1>1, <1>2, <3>1 DEF Root
  <2> HIDE DEF f
  <2> QED BY <1>2, <2>1 DEF Entry
<1>6. p \in Nat
  BY <1>2, <1>3 DEF ParentOf
<1>7. d \in {"dir", "file"}
  BY DEF KindOf
<1>8. K \in SUBSET Nat
  BY <1>2 DEF KidsOf
<1>9. own \in Nat /\ fl \in Nat /\ dr \in Nat
  OBVIOUS
<1> HIDE DEF e, p, d, K, x, own, f
<1>10. x \in NodeType(Entry)
  BY <1>4, <1>5, <1>6, <1>7, <1>8, <1>9 DEF Made, NodeType
<1>11. /\ x.entry = e /\ x.parent = p /\ x.kind = d /\ x.own = own /\ x.agg = own
       /\ x.files = fl /\ x.dirs = dr /\ x.children = K /\ x.flags = {}
  BY <1>4 DEF Made
<1> QED BY <1>3, <1>5, <1>10, <1>11 DEF IsScanned, x, p, d, K, f

\* The identities that are on the disk.
OnDisk == {disk[p] : p \in Paths}

\* A scan gives a tree, of which everything is alive and was on the disk.
LEMMA ScanTree ==
    ASSUME NEW r \in Paths, NEW id \in Nat \ {0}, DiskClosed(disk), disk \in [Paths -> Nat]
    PROVE  /\ TreeOK(ScanOf(r, id)) /\ Alive(ScanOf(r, id)) = DOMAIN ScanOf(r, id)
           /\ \A k \in DOMAIN ScanOf(r, id) : ScanOf(r, id)[k].entry.id \in {id} \union OnDisk
           /\ \A k \in DOMAIN ScanOf(r, id) :
                LET e == ScanOf(r, id)[k].entry IN e.id = IF e.path = r THEN id ELSE disk[e.path]
<1> DEFINE f == Found(r)
           n == Len(f)
           s == Scanned(r, id)
           t == ScanOf(r, id)
<1>1. /\ n \in Nat \ {0} /\ DOMAIN f = 1..n /\ Root \in 1..n
      /\ \A i \in 1..n : f[i] \in Paths
      /\ f[Root] = r
      /\ \A i, j \in 1..n : i # j => f[i] # f[j]
  <2>1. /\ f \in Seq(Paths) /\ f # <<>> /\ f[Root] = r
        /\ \A i, j \in 1..n : i # j => f[i] # f[j]
    BY FoundIs
  <2> HIDE DEF f
  <2>2. n \in Nat /\ DOMAIN f = 1..n /\ n # 0
    BY <2>1
  <2>3. \A i \in 1..n : f[i] \in Paths
    BY <2>1
  <2> HIDE DEF n
  <2> QED BY <2>1, <2>2, <2>3 DEF Root
<1>2. DOMAIN s = 1..n /\ s = [k \in 1..n |-> s[k]]
  BY <1>1 DEF Scanned
<1>3. \A k \in 1..n :
        /\ s[k] \in NodeType(Entry) /\ s[k].entry.path = f[k]
        /\ s[k].entry.id = IF k = Root THEN id ELSE disk[f[k]]
        /\ s[k].parent = ParentOf(r, k) /\ s[k].kind = KindOf(r, k) /\ s[k].agg = s[k].own
        /\ s[k].files = IF KindOf(r, k) = "file" THEN 1 ELSE 0
        /\ s[k].dirs = IF KindOf(r, k) = "dir" /\ k # Root THEN 1 ELSE 0
        /\ s[k].children = KidsOf(r, k) /\ s[k].flags = {}
        /\ k # Root => ParentOf(r, k) \in 1..(k - 1) /\ f[ParentOf(r, k)] = Up[f[k]]
  <2> TAKE k \in 1..n
  <2>1. k \in DOMAIN f
    BY <1>1
  <2>2. IsScanned(s[k], r, id, k)
    BY <2>1, ScannedIs
  <2> HIDE DEF s
  <2> QED BY <2>2 DEF IsScanned
<1>4. \A k \in 1..n : ParentOf(r, k) = 0 <=> k = Root
  BY <1>1, <1>3 DEF ParentOf
<1>5. /\ \A k \in 1..n : KindOf(r, k) = "dir" <=> k = Root \/ f[k] \in DirPaths
      /\ \A k \in 1..n : KidsOf(r, k) = {c \in 1..n : f[c] # r /\ Up[f[c]] = f[k]}
  BY <1>1 DEF KindOf, KidsOf
<1> HIDE DEF s, f, n
<1>6. s \in Seq(NodeType(Entry)) /\ Len(s) = n /\ DOMAIN s = 1..n
  <2>1. \A k \in 1..n : s[k] \in NodeType(Entry)
    BY <1>3
  <2>2. n \in Nat
    BY <1>1
  <2> QED BY <1>2, <2>1, <2>2
<1>7. IsArena(s, Entry)
  <2>0. \A k \in 1..n : /\ s[k].parent = ParentOf(r, k) /\ k >= 1
                        /\ k # Root => ParentOf(r, k) \in 1..(k - 1)
    <3>1. TAKE k \in 1..n
    <3>2. k >= 1 /\ s[k].parent = ParentOf(r, k)
      BY <1>1, <1>3
    <3>3. k # Root => ParentOf(r, k) \in 1..(k - 1)
      BY <1>3
    <3> QED BY <3>2, <3>3
  <2>1. ASSUME NEW k \in 1..n
        PROVE  s[k].parent \in 0..(k - 1) /\ (k # Root => s[k].parent # 0)
    <3>1. CASE k = Root
      BY <1>4, <2>0, <3>1 DEF Root
    <3>2. CASE k # Root
      <4>1. ParentOf(r, k) \in 1..(k - 1)
        BY <2>0, <3>2
      <4> QED BY <2>0, <4>1
    <3> QED BY <3>1, <3>2
  <2>2. IsTree(s, n)
    BY <1>1, <1>6, <2>1 DEF IsTree
  <2> QED BY <1>6, <2>1, <2>2 DEF IsArena
<1>8. IsFresh(s, Entry)
  <2>1. s # <<>>
    BY <1>1, <1>6
  <2>2. \A i \in 1..n :
          /\ s[i].agg = s[i].own
          /\ s[i].files = IF s[i].kind = "file" THEN 1 ELSE 0
          /\ s[i].dirs = IF s[i].kind = "dir" /\ i # Root THEN 1 ELSE 0
          /\ "tombstoned" \notin s[i].flags
    BY <1>3
  <2> QED BY <1>6, <1>7, <2>1, <2>2 DEF IsFresh
<1>9. Alive(s) = 1..n
  BY <1>3, <1>6 DEF Alive
<1>10. ListsExact(s)
  <2>1. ASSUME NEW k \in 1..n
        PROVE  /\ s[k].parent # 0 => s[k].parent \in 1..n
               /\ s[k].children = {c \in 1..n : s[c].parent = k}
    <3>1. s[k].parent # 0 => s[k].parent \in 1..n
      BY <1>1, <1>3, <1>4
    <3>2. ASSUME NEW c \in 1..n
          PROVE  (f[c] # r /\ Up[f[c]] = f[k]) <=> s[c].parent = k
      <4>1. CASE c = Root
        <5>1. f[c] = r /\ s[c].parent = 0 /\ k # 0
          BY <1>1, <1>3, <1>4, <4>1
        <5> QED BY <5>1
      <4>2. CASE c # Root
        <5>1. f[c] # r
          BY <1>1, <4>2
        <5>2. s[c].parent \in 1..(c - 1) /\ f[s[c].parent] = Up[f[c]]
          BY <1>3, <4>2
        <5>3. s[c].parent \in 1..n
          BY <1>1, <5>2
        <5> QED BY <1>1, <5>1, <5>2, <5>3
      <4> QED BY <4>1, <4>2
    <3>3. s[k].children = {c \in 1..n : f[c] # r /\ Up[f[c]] = f[k]}
      BY <1>3, <1>5
    <3> QED BY <3>1, <3>2, <3>3
  <2> QED BY <1>6, <1>9, <2>1 DEF ListsExact
<1>11. Placed(s)
  <2>1. s # <<>>
    BY <1>1, <1>6
  <2>2. \A i, k \in 1..n : s[i].entry.path = s[k].entry.path => i = k
    BY <1>1, <1>3
  <2>3. ASSUME NEW i \in 1..n, i # Root
        PROVE  /\ Up[s[i].entry.path] = s[s[i].parent].entry.path
               /\ s[s[i].parent].kind = "dir"
    <3> DEFINE p == ParentOf(r, i)
    <3>1. p \in 1..n /\ f[p] = Up[f[i]] /\ s[i].parent = p /\ s[i].entry.path = f[i]
      BY <1>1, <1>3, <2>3
    <3>2. f[p] \in DirPaths
      <4>1. f[p] \in Paths /\ f[i] \in Paths
        BY <1>1, <3>1
      <4> QED BY <3>1, <4>1, ShellAssumption
    <3>3. s[p].kind = "dir" /\ s[p].entry.path = f[p]
      BY <1>3, <1>5, <3>1, <3>2
    <3> QED BY <3>1, <3>3
  <2>4. s[Root].kind = "dir"
    BY <1>1, <1>3, <1>5
  <2> QED BY <1>6, <2>1, <2>2, <2>3, <2>4 DEF Placed
<1>12. t = Aggregate(s)
  BY ScanIs DEF s
<1> HIDE DEF t
<1>13. IsArena(t, Entry) /\ SameNodes(s, t) /\ AggregatesExact(t)
  BY <1>8, <1>12, AggregateExact
<1>14. DOMAIN t = 1..n /\ Alive(t) = 1..n
  BY <1>6, <1>9, <1>13 DEF SameNodes, Alive
<1>15. ListsExact(t)
  <2>1. \A c \in 1..n : t[c].parent = s[c].parent /\ t[c].children = s[c].children
    BY <1>6, <1>13 DEF SameNodes
  <2>2. \A k \in 1..n : {c \in 1..n : t[c].parent = k} = {c \in 1..n : s[c].parent = k}
    BY <2>1
  <2>3. ASSUME NEW k \in 1..n
        PROVE  /\ s[k].parent # 0 => s[k].parent \in 1..n
               /\ s[k].children = {c \in 1..n : s[c].parent = k}
    BY <1>6, <1>9, <1>10 DEF ListsExact
  <2> QED BY <1>14, <2>1, <2>2, <2>3 DEF ListsExact
<1>16. Placed(t)
  <2>1. \A i \in 1..n : t[i].entry = s[i].entry /\ t[i].parent = s[i].parent /\ t[i].kind = s[i].kind
    BY <1>6, <1>13 DEF SameNodes
  <2>2. \A i \in 1..n : i # Root => s[i].parent \in 1..n
    BY <1>1, <1>3
  <2>3. t # <<>>
    BY <1>1, <1>14
  <2>4. ASSUME NEW i \in 1..n, i # Root
        PROVE  /\ Up[t[i].entry.path] = t[t[i].parent].entry.path
               /\ t[t[i].parent].kind = "dir"
    <3>1. s[i].parent \in 1..n
      BY <2>2, <2>4
    <3>2. /\ Up[s[i].entry.path] = s[s[i].parent].entry.path
          /\ s[s[i].parent].kind = "dir"
      BY <1>6, <1>11, <2>4 DEF Placed
    <3> QED BY <2>1, <3>1, <3>2
  <2>5. \A i, k \in 1..n : t[i].entry.path = t[k].entry.path => i = k
    BY <1>6, <1>11, <2>1 DEF Placed
  <2>6. t[Root].kind = "dir"
    BY <1>1, <1>11, <2>1 DEF Placed
  <2> QED BY <1>14, <2>3, <2>4, <2>5, <2>6 DEF Placed
<1>17. \A k \in 1..n : t[k].entry.id \in {id} \union OnDisk
  <2>1. \A k \in 1..n : t[k].entry = s[k].entry
    BY <1>6, <1>13 DEF SameNodes
  <2>2. \A k \in 1..n : s[k].entry.id = id \/ s[k].entry.id = disk[f[k]]
    BY <1>3
  <2>3. \A k \in 1..n : disk[f[k]] \in OnDisk
    BY <1>1 DEF OnDisk
  <2> QED BY <2>1, <2>2, <2>3
<1>18. TreeOK(t)
  BY <1>1, <1>13, <1>14, <1>15, <1>16 DEF TreeOK
<1>19. \A k \in 1..n : t[k].entry.id = IF t[k].entry.path = r THEN id ELSE disk[t[k].entry.path]
  <2>1. \A k \in 1..n : t[k].entry = s[k].entry
    BY <1>6, <1>13 DEF SameNodes
  <2>2. \A k \in 1..n : s[k].entry.path = f[k] /\ (f[k] = r <=> k = Root)
    BY <1>1, <1>3
  <2> QED BY <1>3, <2>1, <2>2
<1> QED BY <1>14, <1>17, <1>18, <1>19 DEF t

-----------------------------------------------------------------------------
(* The inductive invariant.                                                *)

\* What a deletion is to remove.
Region(t) == Under(t.path) \ (IF t.op = "clear" THEN {t.path} ELSE {})

Dialog == [op : Ops, node : Nat, since : Nat]

Task == [op : Ops, node : Nat, path : Paths, expect : Nat, since : Nat, scan : Nat,
         phase : {"queued", "ended", "back"}, ok : BOOLEAN, touched : BOOLEAN]

ShellTypes ==
    /\ disk \in [Paths -> Nat] /\ DiskClosed(disk)
    /\ changes \in Nat /\ scans \in Nat
    /\ back \in Seq(Nat) /\ forward \in Seq(Nat)
    /\ table = [dir |-> table.dir, filter |-> table.filter]
    /\ dialog \in Dialog \union {NoDialog}
    /\ tasks \in Seq(Task)

\* While a scan runs, or waits to be taken, there is no model.
JobOK ==
    /\ job = [phase |-> job.phase, root |-> job.root, id |-> job.id, arena |-> job.arena]
    /\ job.phase \in {"none", "running", "sent", "failed"}
    /\ job.phase \in {"running", "sent"} => job.root \in Paths /\ job.id \in Nat \ {0}
    /\ job.phase = "sent" => TreeOK(job.arena) /\ Alive(job.arena) = DOMAIN job.arena
    /\ job.phase # "none" => ~ Shown

\* Without a model there is no history.
ModelOK == IF Shown THEN TreeOK(model) ELSE back = <<>> /\ forward = <<>>

\* A deletion, for a model m after sc scans, on a disk d: as long as the model is
\* the one it was asked for, node and path go together; what it has removed is
\* gone from the disk, and once it has come back, from the model.
TaskOK(t, m, sc, d) ==
    /\ t.scan <= sc
    /\ t.scan = sc => /\ m # NoModel /\ t.node \in DOMAIN m /\ m[t.node].entry.path = t.path
                      /\ (t.op # "clear" => t.node # Root)
    /\ t.phase = "queued" => ~ t.touched
    /\ t.phase # "queued" /\ t.ok => \A q \in Region(t) : d[q] = 0
    /\ t.phase = "back" /\ t.ok /\ t.scan = sc =>
          \A n \in Alive(m) : m[n].entry.path \notin Region(t)

TasksOK == \A k \in DOMAIN tasks : TaskOK(tasks[k], model, scans, disk)

\* What is shown as deleted is absent, not only another object.
Buried == OneTree => \A n \in DOMAIN model : Gone(n) => disk[PathOf(n)] = 0

\* As long as nobody else changed the disk, what is absent was removed by a
\* deletion, and whatever was scanned is the first object at its path.
RemovedByTasks(d, ts) ==
    \A p \in Paths : d[p] = 0 => \E k \in DOMAIN ts : ts[k].touched /\ p \in Region(ts[k])

FirstObjects(d, j, m) ==
    /\ \A p \in Paths : d[p] \in {0, 1}
    /\ j.phase \in {"running", "sent"} => j.id = 1
    /\ j.phase = "sent" => \A n \in DOMAIN j.arena : j.arena[n].entry.id = 1
    /\ \A n \in DOMAIN m : m[n].entry.id = 1

Untouched == changes = 0 => RemovedByTasks(disk, tasks) /\ FirstObjects(disk, job, model)

ShellInv ==
    ShellTypes /\ JobOK /\ ModelOK /\ PlaceValid /\ TasksOK /\ Buried /\ Untouched

-----------------------------------------------------------------------------
(* The initial state.                                                      *)

\* The invariant holds when the window opens.
LEMMA ShellStarts == Init => ShellInv
<1> SUFFICES ASSUME Init PROVE ShellInv
  OBVIOUS
<1>1. disk = [p \in Paths |-> 1] /\ changes = 0 /\ scans = 0 /\ model = <<>> /\ tasks = <<>>
      /\ back = <<>> /\ forward = <<>> /\ dialog = NoDialog /\ job = IdleJob
      /\ table = [dir |-> 0, filter |-> "plain"]
  BY DEF Init, NoModel
<1>2. ~ Shown /\ DOMAIN model = {} /\ DOMAIN tasks = {}
  BY <1>1 DEF Shown, NoModel
<1>3. ShellTypes
  <2>1. DiskClosed(disk)
    <3>1. \A p \in Paths : Up[p] # NoPath => Up[p] \in Paths
      BY ShellAssumption
    <3> QED BY <1>1, <3>1 DEF DiskClosed
  <2>2. table = [dir |-> table.dir, filter |-> table.filter]
    BY <1>1
  <2>3. disk \in [Paths -> Nat]
    BY <1>1
  <2> QED BY <1>1, <2>1, <2>2, <2>3 DEF ShellTypes
<1>4. JobOK
  BY <1>1 DEF JobOK, IdleJob
<1>5. ModelOK /\ PlaceValid /\ TasksOK /\ Buried
  BY <1>1, <1>2 DEF ModelOK, PlaceValid, TasksOK, Buried
<1>6. Untouched
  BY <1>1, <1>2 DEF Untouched, RemovedByTasks, FirstObjects, IdleJob
<1> QED BY <1>3, <1>4, <1>5, <1>6 DEF ShellInv

-----------------------------------------------------------------------------
(* Steps of the view.                                                      *)

\* A step of the view leaves the disk, the scan, the model and the tasks alone.
LEMMA ViewKeeps ==
    ASSUME ShellInv, UNCHANGED <<disk, changes, job, scans, model, tasks>>
    PROVE  /\ JobOK' /\ TasksOK' /\ Buried' /\ Untouched'
           /\ disk' \in [Paths -> Nat] /\ DiskClosed(disk') /\ changes' \in Nat /\ scans' \in Nat
           /\ tasks' \in Seq(Task) /\ (Shown' <=> Shown)
<1>1. /\ disk' = disk /\ changes' = changes /\ job' = job /\ scans' = scans /\ model' = model
      /\ tasks' = tasks
  OBVIOUS
<1>2. OneTree' <=> OneTree
  BY <1>1 DEF OneTree
<1>3. Shown' <=> Shown
  BY <1>1 DEF Shown
<1>4. JobOK'
  BY <1>1, <1>3 DEF ShellInv, JobOK
<1>5. TasksOK'
  BY <1>1 DEF ShellInv, TasksOK
<1>6. Buried'
  BY <1>1, <1>2 DEF ShellInv, Buried, Gone, PathOf
<1>7. Untouched'
  BY <1>1 DEF ShellInv, Untouched
<1> QED BY <1>1, <1>3, <1>4, <1>5, <1>6, <1>7 DEF ShellInv, ShellTypes

\* The user can stand at n.
IsPlace(n) == InArena(n) /\ model[n].kind = "dir"

\* The elements of a list, by position.
LEMMA ToSetIs ==
    ASSUME NEW T, NEW b \in Seq(T)
    PROVE  \A n : n \in ToSet(b) <=> \E i \in 1..Len(b) : b[i] = n
<1>1. DOMAIN b = 1..Len(b)
  OBVIOUS
<1> QED BY <1>1, Zenon DEF ToSet

\* PlaceValid, one place at a time.
LEMMA PlaceIs ==
    ASSUME ShellInv, Shown
    PROVE  /\ IsPlace(current) /\ IsPlace(table.dir)
           /\ \A i \in 1..Len(back) : IsPlace(back[i])
           /\ \A i \in 1..Len(forward) : IsPlace(forward[i])
<1>1. back \in Seq(Nat) /\ forward \in Seq(Nat) /\ PlaceValid
  BY DEF ShellInv, ShellTypes
<1>2. \A n \in {current, table.dir} \union ToSet(back) \union ToSet(forward) : IsPlace(n)
  BY <1>1 DEF PlaceValid, IsPlace
<1>3. /\ \A i \in 1..Len(back) : back[i] \in ToSet(back)
      /\ \A i \in 1..Len(forward) : forward[i] \in ToSet(forward)
  BY <1>1, ToSetIs
<1> QED BY <1>2, <1>3

\* A step to a place leaves the user at a place.
LEMMA MoveKeeps ==
    ASSUME ShellInv, Shown, NEW n, IsPlace(n), SetCurrentDir(n),
           UNCHANGED <<diskVars, scanVars, model, filter, dialog, tasks, status>>,
           back' \in Seq(Nat), forward' \in Seq(Nat),
           \A i \in 1..Len(back') : IsPlace(back'[i]),
           \A i \in 1..Len(forward') : IsPlace(forward'[i])
    PROVE  ShellInv'
<1>1. /\ JobOK' /\ TasksOK' /\ Buried' /\ Untouched'
      /\ disk' \in [Paths -> Nat] /\ DiskClosed(disk') /\ changes' \in Nat /\ scans' \in Nat
      /\ tasks' \in Seq(Task) /\ Shown'
  BY ViewKeeps DEF diskVars, scanVars
<1>2. current' = n /\ table' = [table EXCEPT !.dir = n] /\ model' = model /\ dialog' = dialog
  BY DEF SetCurrentDir
<1>3. table = [dir |-> table.dir, filter |-> table.filter] /\ TreeOK(model)
      /\ dialog \in Dialog \union {NoDialog}
  BY DEF ShellInv, ShellTypes, ModelOK
<1>4. table' = [dir |-> n, filter |-> table.filter]
  BY <1>2, <1>3
<1>5. table'.dir = n /\ table' = [dir |-> table'.dir, filter |-> table'.filter]
  BY <1>4
<1>6. ShellTypes'
  BY <1>1, <1>2, <1>3, <1>5 DEF ShellTypes
<1>7. ModelOK'
  BY <1>1, <1>2, <1>3 DEF ModelOK
<1>8. \A k : IsPlace(k)' <=> IsPlace(k)
  BY <1>2 DEF IsPlace, InArena
<1>9. PlaceValid'
  <2>1. /\ \A k : k \in ToSet(back') => IsPlace(k)
        /\ \A k : k \in ToSet(forward') => IsPlace(k)
    BY ToSetIs
  <2>2. current' = n /\ table'.dir = n
    BY <1>2, <1>5
  <2>3. \A k \in {current', table'.dir} \union ToSet(back') \union ToSet(forward') : IsPlace(k)
    BY <2>1, <2>2
  <2> QED BY <1>2, <2>3 DEF PlaceValid, IsPlace, InArena
<1> QED BY <1>1, <1>6, <1>7, <1>9 DEF ShellInv

\* navigate_to goes to a directory of the arena, and remembers where it was.
LEMMA VisitKeeps ==
    ASSUME ShellInv, Shown, NEW n \in DOMAIN model, Visit(n)
    PROVE  ShellInv'
<1>1. back \in Seq(Nat) /\ TreeOK(model)
  BY DEF ShellInv, ShellTypes, ModelOK
<1>2. /\ IsPlace(n) /\ back' = Append(back, current) /\ forward' = <<>> /\ SetCurrentDir(n)
      /\ UNCHANGED <<diskVars, scanVars, model, filter, dialog, tasks, status>>
  BY DEF Visit, IsPlace, InArena
<1>3. IsPlace(current) /\ \A i \in 1..Len(back) : IsPlace(back[i])
  BY PlaceIs
<1>4. current \in Nat
  BY <1>1, <1>3, TreeFacts DEF IsPlace, InArena
<1>5. /\ back' \in Seq(Nat) /\ Len(back') = Len(back) + 1 /\ back'[Len(back) + 1] = current
      /\ \A i \in 1..Len(back) : back'[i] = back[i]
  BY <1>1, <1>2, <1>4
<1>6. \A i \in 1..Len(back') : IsPlace(back'[i])
  <2> TAKE i \in 1..Len(back')
  <2>1. Len(back) \in Nat
    BY <1>1
  <2>2. i \in 1..Len(back) \/ i = Len(back) + 1
    BY <1>5, <2>1
  <2> QED BY <1>3, <1>5, <2>2
<1>7. forward' \in Seq(Nat) /\ Len(forward') = 0 /\ 1..0 = {}
  BY <1>2
<1>8. \A i \in 1..Len(forward') : IsPlace(forward'[i])
  BY <1>7
<1> QED BY <1>2, <1>5, <1>6, <1>7, <1>8, MoveKeeps

\* A list without its last element.
LEMMA FrontIs ==
    ASSUME NEW T, NEW s \in Seq(T), s # <<>>
    PROVE  /\ Front(s) \in Seq(T) /\ Len(Front(s)) = Len(s) - 1 /\ Len(s) \in Nat \ {0}
           /\ \A i \in 1..Len(Front(s)) : Front(s)[i] = s[i]
           /\ Last(s) = s[Len(s)] /\ Last(s) \in T
<1>1. Front(s) = SubSeq(s, 1, Len(s) - 1) /\ Last(s) = s[Len(s)]
  BY DEF Front, Last
<1>2. Len(s) \in Nat \ {0} /\ DOMAIN s = 1..Len(s)
  OBVIOUS
<1>3. \A i \in 1..Len(s) : s[i] \in T
  BY <1>2
<1>4. Len(s) - 1 \in Nat /\ \A i \in 1..(Len(s) - 1) : i \in 1..Len(s)
  BY <1>2
<1>5. SubSeq(s, 1, Len(s) - 1) = [i \in 1..(Len(s) - 1) |-> s[i]]
  BY <1>2
<1>6. SubSeq(s, 1, Len(s) - 1) \in Seq(T) /\ Len(SubSeq(s, 1, Len(s) - 1)) = Len(s) - 1
  <2> DEFINE m == Len(s) - 1
             f == [i \in 1..m |-> s[i]]
  <2>1. m \in Nat /\ \A i \in 1..m : s[i] \in T
    BY <1>3, <1>4
  <2> HIDE DEF m
  <2>2. f \in Seq(T) /\ Len(f) = m
    BY <2>1
  <2> QED BY <1>5, <2>2 DEF m
<1> QED BY <1>1, <1>2, <1>3, <1>5, <1>6

\* Between the two halves of the history the user moves from place to place.
LEMMA HistoryKeeps ==
    ASSUME ShellInv, GoBack \/ GoForward
    PROVE  ShellInv'
<1>1. back \in Seq(Nat) /\ forward \in Seq(Nat) /\ TreeOK(model) /\ Shown
  BY DEF ShellInv, ShellTypes, ModelOK, GoBack, GoForward, Free
<1>2. /\ IsPlace(current)
      /\ \A i \in 1..Len(back) : IsPlace(back[i])
      /\ \A i \in 1..Len(forward) : IsPlace(forward[i])
  BY <1>1, PlaceIs
<1>3. current \in Nat
  BY <1>1, <1>2, TreeFacts DEF IsPlace, InArena
<1>4. ASSUME NEW s \in Seq(Nat), \A i \in 1..Len(s) : IsPlace(s[i])
      PROVE  /\ Append(s, current) \in Seq(Nat)
             /\ \A i \in 1..Len(Append(s, current)) : IsPlace(Append(s, current)[i])
  <2> DEFINE b == Append(s, current)
  <2>1. /\ b \in Seq(Nat) /\ Len(b) = Len(s) + 1 /\ b[Len(s) + 1] = current /\ Len(s) \in Nat
        /\ \A i \in 1..Len(s) : b[i] = s[i]
    BY <1>3
  <2> HIDE DEF b
  <2>2. \A i \in 1..Len(b) : IsPlace(b[i])
    <3> TAKE i \in 1..Len(b)
    <3>1. i \in 1..Len(s) \/ i = Len(s) + 1
      BY <2>1
    <3> QED BY <1>2, <1>4, <2>1, <3>1
  <2> QED BY <2>1, <2>2 DEF b
<1>5. ASSUME NEW s \in Seq(Nat), s # <<>>, \A i \in 1..Len(s) : IsPlace(s[i])
      PROVE  /\ Front(s) \in Seq(Nat) /\ IsPlace(Last(s))
             /\ \A i \in 1..Len(Front(s)) : IsPlace(Front(s)[i])
  <2>1. /\ Front(s) \in Seq(Nat) /\ Len(Front(s)) = Len(s) - 1 /\ Len(s) \in Nat \ {0}
        /\ \A i \in 1..Len(Front(s)) : Front(s)[i] = s[i]
        /\ Last(s) = s[Len(s)]
    BY <1>5, FrontIs
  <2>2. \A i \in 1..Len(Front(s)) : i \in 1..Len(s)
    BY <2>1
  <2>3. Len(s) \in 1..Len(s)
    BY <2>1
  <2> QED BY <1>5, <2>1, <2>2, <2>3
<1>6. CASE GoBack
  <2>1. /\ back # <<>> /\ forward' = Append(forward, current) /\ back' = Front(back)
        /\ SetCurrentDir(Last(back))
        /\ UNCHANGED <<diskVars, scanVars, model, filter, dialog, tasks, status>>
    BY <1>6 DEF GoBack
  <2>2. /\ back' \in Seq(Nat) /\ forward' \in Seq(Nat) /\ IsPlace(Last(back))
        /\ \A i \in 1..Len(back') : IsPlace(back'[i])
        /\ \A i \in 1..Len(forward') : IsPlace(forward'[i])
    BY <1>1, <1>2, <1>4, <1>5, <2>1
  <2> QED BY <1>1, <2>1, <2>2, MoveKeeps
<1>7. CASE GoForward
  <2>1. /\ forward # <<>> /\ back' = Append(back, current) /\ forward' = Front(forward)
        /\ SetCurrentDir(Last(forward))
        /\ UNCHANGED <<diskVars, scanVars, model, filter, dialog, tasks, status>>
    BY <1>7 DEF GoForward
  <2>2. /\ back' \in Seq(Nat) /\ forward' \in Seq(Nat) /\ IsPlace(Last(forward))
        /\ \A i \in 1..Len(back') : IsPlace(back'[i])
        /\ \A i \in 1..Len(forward') : IsPlace(forward'[i])
    BY <1>1, <1>2, <1>4, <1>5, <2>1
  <2> QED BY <1>1, <2>1, <2>2, MoveKeeps
<1> QED BY <1>6, <1>7

\* A step that leaves the user where he is.
LEMMA StayKeeps ==
    ASSUME ShellInv, UNCHANGED <<diskVars, scanVars, model, current, back, forward, tasks>>,
           table'.dir = table.dir, table' = [dir |-> table'.dir, filter |-> table'.filter],
           dialog' \in Dialog \union {NoDialog}
    PROVE  ShellInv'
<1>1. /\ JobOK' /\ TasksOK' /\ Buried' /\ Untouched'
      /\ disk' \in [Paths -> Nat] /\ DiskClosed(disk') /\ changes' \in Nat /\ scans' \in Nat
      /\ tasks' \in Seq(Task) /\ (Shown' <=> Shown)
  BY ViewKeeps DEF diskVars, scanVars
<1>2. model' = model /\ current' = current /\ back' = back /\ forward' = forward
  OBVIOUS
<1>3. ShellTypes'
  BY <1>1, <1>2 DEF ShellInv, ShellTypes
<1>4. ModelOK' /\ PlaceValid'
  BY <1>1, <1>2 DEF ShellInv, ModelOK, PlaceValid, InArena
<1> QED BY <1>1, <1>3, <1>4 DEF ShellInv

\* The filter, a frame and the dialogs.
LEMMA FilterKeeps ==
    ASSUME ShellInv,
           (\E f \in Filters : SetFilter(f)) \/ ClearEscape \/ Render
           \/ (\E op \in Ops, n \in DOMAIN model : Confirm(op, n)) \/ CancelDialog
    PROVE  ShellInv'
<1>1. /\ table = [dir |-> table.dir, filter |-> table.filter]
      /\ dialog \in Dialog \union {NoDialog}
  BY DEF ShellInv, ShellTypes
<1>2. ASSUME NEW g, table' = [table EXCEPT !.filter = g]
      PROVE  table'.dir = table.dir /\ table' = [dir |-> table'.dir, filter |-> table'.filter]
  <2>1. table' = [dir |-> table.dir, filter |-> g]
    BY <1>1, <1>2
  <2> QED BY <2>1
<1>3. UNCHANGED <<diskVars, scanVars, model, current, back, forward, tasks>>
  BY DEF SetFilter, ClearEscape, Render, Confirm, CancelDialog, placeVars
<1>4. CASE (\E f \in Filters : SetFilter(f)) \/ ClearEscape
  <2>1. (\E g : table' = [table EXCEPT !.filter = g]) /\ dialog' = dialog
    BY <1>4 DEF SetFilter, ClearEscape
  <2> QED BY <1>1, <1>2, <1>3, <2>1, StayKeeps
<1>5. CASE Render
  BY <1>1, <1>3, <1>5, StayKeeps DEF Render, placeVars
<1>6. CASE \E op \in Ops, n \in DOMAIN model : Confirm(op, n)
  <2>1. PICK op \in Ops, n \in DOMAIN model : Confirm(op, n)
    BY <1>6
  <2>2. n \in Nat
    <3>1. TreeOK(model)
      BY <2>1 DEF ShellInv, ModelOK, Confirm, Free
    <3> QED BY <3>1, TreeFacts
  <2>3. dialog' = [op |-> op, node |-> n, since |-> changes] /\ table' = table
    BY <2>1 DEF Confirm, placeVars
  <2>4. dialog' \in Dialog
    <3>1. changes \in Nat
      BY DEF ShellInv, ShellTypes
    <3> QED BY <2>2, <2>3, <3>1 DEF Dialog
  <2> QED BY <1>1, <1>3, <2>3, <2>4, StayKeeps
<1>7. CASE CancelDialog
  BY <1>1, <1>3, <1>7, StayKeeps DEF CancelDialog, placeVars
<1> QED BY <1>4, <1>5, <1>6, <1>7

-----------------------------------------------------------------------------
(* Steps on the disk.                                                      *)

\* When nothing comes back on the disk, all that is known to be gone stays so.
LEMMA DiskKeeps ==
    ASSUME ShellInv, disk' \in [Paths -> Nat], \A p \in Paths : disk[p] = 0 => disk'[p] = 0,
           UNCHANGED <<scanVars, model, placeVars, cache, dialog>>
    PROVE  /\ JobOK' /\ ModelOK' /\ PlaceValid'
           /\ \A t \in Task : TaskOK(t, model, scans, disk) => TaskOK(t, model', scans', disk')
           /\ (OneTree' => OneTree) => Buried'
<1>1. job' = job /\ scans' = scans /\ model' = model /\ table' = table
      /\ current' = current /\ back' = back /\ forward' = forward
  BY DEF scanVars, placeVars
<1>2. Shown' <=> Shown
  BY <1>1 DEF Shown
<1>3. JobOK'
  BY <1>1, <1>2 DEF ShellInv, JobOK
<1>4. ModelOK' /\ PlaceValid'
  BY <1>1, <1>2 DEF ShellInv, ModelOK, PlaceValid, InArena
<1>5. ASSUME NEW t \in Task, TaskOK(t, model, scans, disk)
      PROVE  TaskOK(t, model', scans', disk')
  <2>1. Region(t) \subseteq Paths
    <3>1. t.path \in Paths
      BY DEF Task
    <3> QED BY <3>1, UnderIs DEF Region
  <2> QED BY <1>1, <1>5, <2>1 DEF TaskOK
<1>6. (OneTree' => OneTree) => Buried'
  <2> SUFFICES ASSUME OneTree, NEW n \in DOMAIN model, Gone(n) PROVE disk'[PathOf(n)] = 0
    BY <1>1 DEF Buried, Gone, PathOf
  <2>1. disk[PathOf(n)] = 0
    BY DEF ShellInv, Buried
  <2>2. PathOf(n) \in Paths
    <3>1. TreeOK(model)
      BY DEF ShellInv, ModelOK, Shown, NoModel
    <3> QED BY <3>1, TreeFacts DEF PathOf
  <2> QED BY <2>1, <2>2
<1> QED BY <1>3, <1>4, <1>5, <1>6

\* Another program takes away a path and what lies under it.
LEMMA OtherProgramKeeps ==
    ASSUME ShellInv, NEW p \in Paths, OtherProgram(p)
    PROVE  ShellInv'
<1>0. Up \in [Paths -> Paths \union {NoPath}]
  BY ShellAssumption
<1>1. /\ disk \in [Paths -> Nat] /\ DiskClosed(disk) /\ changes \in Nat /\ tasks \in Seq(Task)
      /\ Up \in [Paths -> Paths \union {NoPath}]
  BY <1>0 DEF ShellInv, ShellTypes
<1>2. /\ disk[p] # 0 /\ changes' = changes + 1
      /\ UNCHANGED <<scanVars, model, placeVars, cache, dialog, tasks, status>>
  BY DEF OtherProgram
<1>3. /\ disk' \in [Paths -> Nat]
      /\ \A q \in Paths : q # p => disk'[q] = IF q \in Under(p) THEN 0 ELSE disk[q]
  <2> DEFINE d == Without(Under(p))
  <2>1. d = [q \in Paths |-> IF q \in Under(p) THEN 0 ELSE disk[q]]
    BY DEF Without
  <2>2. d \in [Paths -> Nat] /\ \A q \in Paths : d[q] = IF q \in Under(p) THEN 0 ELSE disk[q]
    BY <1>1, <2>1
  <2>3. disk' = d \/ disk' = [d EXCEPT ![p] = disk[p] + 1]
    BY DEF OtherProgram
  <2>4. disk[p] + 1 \in Nat
    BY <1>1
  <2> HIDE DEF d
  <2> QED BY <2>2, <2>3, <2>4
<1>4. \A q \in Paths : disk[q] = 0 => disk'[q] = 0
  BY <1>2, <1>3
<1>5. DiskClosed(disk')
  <2> SUFFICES ASSUME NEW q \in Paths, Up[q] # NoPath, disk'[q] # 0 PROVE disk'[Up[q]] # 0
    BY DEF DiskClosed
  <2>1. Up[q] \in Paths /\ disk[q] # 0 /\ disk[Up[q]] # 0
    BY <1>1, <1>4 DEF DiskClosed
  <2>2. CASE q = p
    <3>1. Up[q] \notin Under(p)
      BY <2>1, <2>2, UnderAcyclic
    <3>2. p \in Under(p)
      BY UnderIs
    <3> QED BY <1>3, <2>1, <3>1, <3>2
  <2>3. CASE q # p
    <3>1. q \notin Under(p)
      BY <1>3, <2>3
    <3>2. Up[q] \notin Under(p)
      BY <3>1, UnderIs
    <3>3. p \in Under(p)
      BY UnderIs
    <3> QED BY <1>3, <2>1, <3>2, <3>3
  <2> QED BY <2>2, <2>3
<1>6. tasks' = tasks /\ scans' = scans
  BY <1>2 DEF scanVars
<1>7. OneTree' => OneTree
  BY <1>6 DEF OneTree
<1>8. /\ JobOK' /\ ModelOK' /\ PlaceValid'
      /\ \A t \in Task : TaskOK(t, model, scans, disk) => TaskOK(t, model', scans', disk')
      /\ Buried'
  BY <1>2, <1>3, <1>4, <1>7, DiskKeeps
<1>9. TasksOK'
  <2>1. \A k \in DOMAIN tasks : tasks[k] \in Task
    BY <1>1
  <2> QED BY <1>6, <1>8, <2>1 DEF ShellInv, TasksOK
<1>10. changes' \in Nat /\ changes' # 0
  BY <1>1, <1>2
<1>11. Untouched'
  BY <1>10 DEF Untouched
<1>12. ShellTypes'
  BY <1>2, <1>3, <1>5, <1>6, <1>10 DEF ShellInv, ShellTypes, placeVars
<1> QED BY <1>8, <1>9, <1>11, <1>12 DEF ShellInv

-----------------------------------------------------------------------------
(* Scans.                                                                  *)

\* A scan that starts takes the model away, and with it every place.
LEMMA StartScanKeeps ==
    ASSUME ShellInv, NEW r \in Paths, StartScan(r)
    PROVE  ShellInv'
<1>1. /\ disk' = disk /\ changes' = changes /\ tasks' = tasks /\ dialog' = dialog /\ table' = table
      /\ scans' = scans + 1 /\ model' = NoModel /\ back' = <<>> /\ forward' = <<>>
      /\ job' = [IdleJob EXCEPT !.phase = IF disk[r] = 0 THEN "failed" ELSE "running",
                                !.root = r, !.id = disk[r]]
  BY DEF StartScan, ResetPlace, diskVars
<1>2. /\ disk \in [Paths -> Nat] /\ scans \in Nat /\ tasks \in Seq(Task)
      /\ DiskClosed(disk) /\ changes \in Nat
  BY DEF ShellInv, ShellTypes
<1>3. job' = [phase |-> IF disk[r] = 0 THEN "failed" ELSE "running", root |-> r, id |-> disk[r],
              arena |-> NoModel]
  BY <1>1 DEF IdleJob
<1>4. ~ Shown' /\ DOMAIN model' = {}
  BY <1>1 DEF Shown, NoModel
<1>5. ShellTypes'
  BY <1>1, <1>2 DEF ShellInv, ShellTypes
<1>6. JobOK'
  <2>1. job'.phase = "running" => job'.root = r /\ job'.id \in Nat \ {0}
    BY <1>2, <1>3
  <2> QED BY <1>3, <1>4, <2>1 DEF JobOK
<1>7. ModelOK' /\ PlaceValid' /\ Buried'
  BY <1>1, <1>4 DEF ModelOK, PlaceValid, Buried
<1>8. TasksOK'
  <2> SUFFICES ASSUME NEW k \in DOMAIN tasks PROVE TaskOK(tasks[k], model', scans', disk')
    BY <1>1 DEF TasksOK
  <2>1. TaskOK(tasks[k], model, scans, disk) /\ tasks[k].scan \in Nat
    <3>1. tasks[k] \in Task
      BY <1>2
    <3> QED BY <3>1 DEF ShellInv, TasksOK, Task
  <2>2. tasks[k].scan <= scans' /\ tasks[k].scan # scans'
    BY <1>1, <1>2, <2>1 DEF TaskOK
  <2> QED BY <1>1, <2>1, <2>2 DEF TaskOK
<1>9. Untouched'
  <2> SUFFICES ASSUME changes = 0
               PROVE  RemovedByTasks(disk, tasks) /\ FirstObjects(disk, job', model')
    BY <1>1 DEF Untouched
  <2>1. RemovedByTasks(disk, tasks) /\ FirstObjects(disk, job, model)
    BY DEF ShellInv, Untouched
  <2>2. \A p \in Paths : disk[p] \in {0, 1}
    BY <2>1 DEF FirstObjects
  <2>3. job'.phase = "running" => job'.id = 1
    BY <1>3, <2>2
  <2> QED BY <1>3, <1>4, <2>1, <2>2, <2>3 DEF FirstObjects
<1> QED BY <1>5, <1>6, <1>7, <1>8, <1>9 DEF ShellInv

\* A folder that was picked, and the directory that is open, are paths.
LEMMA ScanStartKeeps ==
    ASSUME ShellInv, (\E r \in Roots : OpenFolder(r)) \/ Rescan
    PROVE  ShellInv'
<1>1. CASE \E r \in Roots : OpenFolder(r)
  <2>1. PICK r \in Roots : StartScan(r)
    BY <1>1 DEF OpenFolder
  <2>2. r \in Paths
    BY ShellAssumption
  <2> QED BY <2>1, <2>2, StartScanKeeps
<1>2. CASE Rescan
  <2>1. StartScan(PathOf(current)) /\ TreeOK(model) /\ IsPlace(current)
    BY <1>2, PlaceIs DEF Rescan, Free, ShellInv, ModelOK
  <2>2. PathOf(current) \in Paths
    BY <2>1, TreeFacts DEF PathOf, IsPlace, InArena
  <2> QED BY <2>1, <2>2, StartScanKeeps
<1> QED BY <1>1, <1>2

\* The scanner hands over a tree of what is on the disk.
LEMMA ScanEndsKeeps ==
    ASSUME ShellInv, ScanEnds
    PROVE  ShellInv'
<1>1. /\ job.phase = "running" /\ job' = [job EXCEPT !.phase = "sent", !.arena = ScanOf(job.root, job.id)]
      /\ UNCHANGED <<diskVars, scans, model, placeVars, cache, dialog, tasks, status>>
  BY DEF ScanEnds
<1>2. /\ disk' = disk /\ changes' = changes /\ scans' = scans /\ model' = model /\ dialog' = dialog
      /\ tasks' = tasks /\ table' = table /\ current' = current /\ back' = back
      /\ forward' = forward
  BY <1>1 DEF diskVars, placeVars
<1>3. /\ job = [phase |-> job.phase, root |-> job.root, id |-> job.id, arena |-> job.arena]
      /\ job.root \in Paths /\ job.id \in Nat \ {0} /\ ~ Shown
      /\ disk \in [Paths -> Nat] /\ DiskClosed(disk)
  BY <1>1 DEF ShellInv, JobOK, ShellTypes
<1> DEFINE t == ScanOf(job.root, job.id)
<1>4. /\ TreeOK(t) /\ Alive(t) = DOMAIN t
      /\ \A k \in DOMAIN t : t[k].entry.id \in {job.id} \union OnDisk
  BY <1>3, ScanTree
<1>5. job' = [phase |-> "sent", root |-> job.root, id |-> job.id, arena |-> t]
  <2> HIDE DEF t
  <2>1. job' = [job EXCEPT !.phase = "sent", !.arena = t]
    BY <1>1 DEF t
  <2> QED BY <1>3, <2>1
<1> HIDE DEF t
<1>6. ~ Shown'
  BY <1>2, <1>3 DEF Shown
<1>7. JobOK'
  BY <1>3, <1>4, <1>5, <1>6 DEF JobOK
<1>8. ShellTypes' /\ ModelOK' /\ PlaceValid' /\ TasksOK'
  BY <1>2, <1>6 DEF ShellInv, ShellTypes, ModelOK, PlaceValid, TasksOK, Shown
<1>9. Buried'
  BY <1>2, <1>3 DEF Buried, Shown, NoModel
<1>10. Untouched'
  <2> SUFFICES ASSUME changes = 0
               PROVE  RemovedByTasks(disk, tasks) /\ FirstObjects(disk, job', model)
    BY <1>2 DEF Untouched
  <2>1. RemovedByTasks(disk, tasks) /\ FirstObjects(disk, job, model)
    BY DEF ShellInv, Untouched
  <2>2. job.id = 1 /\ \A p \in Paths : disk[p] \in {0, 1}
    BY <1>1, <2>1 DEF FirstObjects
  <2>3. \A k \in DOMAIN t : t[k].entry.id \in {0, 1}
    BY <1>4, <2>2 DEF OnDisk
  <2>4. \A k \in DOMAIN t : t[k].entry.id # 0
    BY <1>4, TreeFacts
  <2>5. \A k \in DOMAIN t : t[k].entry.id = 1
    BY <2>3, <2>4
  <2> QED BY <1>5, <2>1, <2>2, <2>5 DEF FirstObjects
<1> QED BY <1>7, <1>8, <1>9, <1>10 DEF ShellInv

\* The poller takes the tree over: the user stands at its root, no deletion was
\* asked for in it.
LEMMA FinishScanKeeps ==
    ASSUME ShellInv, FinishScan
    PROVE  ShellInv'
<1>1. /\ disk' = disk /\ changes' = changes /\ scans' = scans /\ dialog' = dialog
      /\ tasks' = tasks /\ back' = back /\ forward' = forward /\ job' = IdleJob
  BY DEF FinishScan, diskVars
<1>2. JobOK'
  BY <1>1 DEF JobOK, IdleJob
<1>3. ~ Shown /\ back = <<>> /\ forward = <<>>
  BY DEF ShellInv, JobOK, FinishScan, ModelOK
<1>4. disk \in [Paths -> Nat] /\ table = [dir |-> table.dir, filter |-> table.filter]
  BY DEF ShellInv, ShellTypes
<1>5. CASE job.phase = "sent"
  <2>1. model' = job.arena /\ current' = Root /\ table' = [table EXCEPT !.dir = Root]
    BY <1>5 DEF FinishScan
  <2>2. TreeOK(model') /\ Alive(model') = DOMAIN model'
    BY <1>5, <2>1 DEF ShellInv, JobOK
  <2>3. table' = [dir |-> Root, filter |-> table.filter]
    BY <1>4, <2>1
  <2>4. table'.dir = Root /\ table' = [dir |-> table'.dir, filter |-> table'.filter]
    BY <2>3
  <2>5. Root \in DOMAIN model' /\ model'[Root].kind = "dir" /\ model' # <<>>
    BY <2>2, TreeFacts DEF TreeOK, Placed
  <2>6. Shown'
    BY <2>5 DEF Shown, NoModel
  <2>7. ShellTypes'
    BY <1>1, <2>4 DEF ShellInv, ShellTypes
  <2>8. ModelOK'
    BY <2>2, <2>6 DEF ModelOK
  <2>9. PlaceValid'
    <3>1. ToSet(<<>>) = {}
      BY DEF ToSet
    <3> HIDE DEF ToSet
    <3>2. {current', table'.dir} \union ToSet(back') \union ToSet(forward') = {Root}
      BY <1>1, <1>3, <2>1, <2>4, <3>1
    <3> QED BY <2>5, <3>2 DEF PlaceValid, InArena
  <2>10. TasksOK'
    <3> SUFFICES ASSUME NEW k \in DOMAIN tasks PROVE TaskOK(tasks[k], model', scans, disk)
      BY <1>1 DEF TasksOK
    <3>1. TaskOK(tasks[k], model, scans, disk)
      BY DEF ShellInv, TasksOK
    <3>2. tasks[k].scan # scans
      BY <1>3, <3>1 DEF TaskOK, Shown
    <3> QED BY <3>1, <3>2 DEF TaskOK
  <2>11. Buried'
    BY <2>2 DEF Buried, Gone, Alive
  <2>12. Untouched'
    <3> SUFFICES ASSUME changes = 0
                 PROVE  RemovedByTasks(disk, tasks) /\ FirstObjects(disk, job', model')
      BY <1>1 DEF Untouched
    <3> QED BY <1>1, <1>5, <2>1 DEF ShellInv, Untouched, FirstObjects, IdleJob
  <2> QED BY <1>2, <2>7, <2>8, <2>9, <2>10, <2>11, <2>12 DEF ShellInv
<1>6. CASE job.phase # "sent"
  <2>1. model' = model /\ current' = current /\ table' = table
    BY <1>6 DEF FinishScan
  <2>2. ShellTypes' /\ ModelOK' /\ PlaceValid' /\ TasksOK' /\ Buried'
    BY <1>1, <1>3, <2>1 DEF ShellInv, ShellTypes, ModelOK, PlaceValid, TasksOK, Shown, Buried,
                            Gone, PathOf, OneTree
  <2>3. Untouched'
    BY <1>1, <2>1 DEF ShellInv, Untouched, FirstObjects, IdleJob
  <2> QED BY <1>2, <2>2, <2>3 DEF ShellInv
<1> QED BY <1>5, <1>6

-----------------------------------------------------------------------------
(* A deletion starts and does its work.                                    *)

\* The OK button starts a deletion of a node of the tree that is shown.
LEMMA AcceptKeeps ==
    ASSUME ShellInv, Accept
    PROVE  ShellInv'
<1> DEFINE n == dialog.node
           t == NewTask(dialog.op, n)
<1>1. /\ table = [dir |-> table.dir, filter |-> table.filter] /\ tasks \in Seq(Task)
      /\ dialog \in Dialog /\ scans \in Nat /\ changes \in Nat
      /\ disk \in [Paths -> Nat] /\ DiskClosed(disk)
  BY DEF ShellInv, ShellTypes, Accept
<1>2. UNCHANGED <<diskVars, scanVars, model, placeVars, cache>> /\ dialog' = NoDialog
  BY DEF Accept
<1>3. CASE tasks' = tasks
  BY <1>1, <1>2, <1>3, StayKeeps DEF placeVars
<1>4. CASE tasks' # tasks
  <2>1. Shown /\ InArena(n) /\ Allowed(dialog.op, n) /\ tasks' = Append(tasks, t)
    BY <1>4 DEF Accept
  <2>2. TreeOK(model)
    BY <2>1 DEF ShellInv, ModelOK
  <2>3. /\ n \in DOMAIN model /\ PathOf(n) \in Paths /\ model[n].entry.id \in Nat
        /\ (dialog.op # "clear" => n # Root)
    BY <2>1, <2>2, TreeFacts DEF InArena, PathOf, Allowed
  <2>4. t \in Task
    <3>1. dialog.op \in Ops /\ n \in Nat /\ dialog.since \in Nat
      BY <1>1 DEF Dialog
    <3> QED BY <1>1, <2>3, <3>1 DEF NewTask, Task
  <2>5. TaskOK(t, model, scans, disk)
    <3>1. /\ t.scan = scans /\ t.node = n /\ t.path = model[n].entry.path /\ t.op = dialog.op
          /\ t.phase = "queued" /\ t.touched = FALSE
      BY DEF NewTask, PathOf
    <3> HIDE DEF t, n
    <3> QED BY <1>1, <2>1, <2>3, <3>1 DEF TaskOK, Shown
  <2> HIDE DEF t
  <2>6. /\ tasks' \in Seq(Task) /\ Len(tasks) \in Nat /\ DOMAIN tasks = 1..Len(tasks)
        /\ DOMAIN tasks' = 1..(Len(tasks) + 1) /\ tasks'[Len(tasks) + 1] = t
        /\ \A k \in 1..Len(tasks) : tasks'[k] = tasks[k]
    BY <1>1, <2>1, <2>4
  <2>7. \A k \in DOMAIN tasks' : k \in DOMAIN tasks \/ k = Len(tasks) + 1
    BY <2>6
  <2>8. scans' = scans /\ disk' = disk /\ changes' = changes /\ model' = model /\ job' = job
    BY <1>2 DEF scanVars, diskVars
  <2>9. OneTree' => OneTree
    BY <2>6, <2>8 DEF OneTree
  <2>10. /\ JobOK' /\ ModelOK' /\ PlaceValid' /\ Buried'
    <3>1. ModelOK' /\ PlaceValid'
      BY <1>2 DEF ShellInv, ModelOK, PlaceValid, placeVars, Shown, InArena
    <3>2. JobOK'
      BY <2>8 DEF ShellInv, JobOK, Shown
    <3>3. Buried'
      BY <2>8, <2>9 DEF ShellInv, Buried, Gone, PathOf
    <3> QED BY <3>1, <3>2, <3>3
  <2>11. TasksOK'
    <3>1. \A k \in DOMAIN tasks' : TaskOK(tasks'[k], model, scans, disk)
      BY <2>5, <2>6, <2>7 DEF ShellInv, TasksOK
    <3> QED BY <2>8, <3>1 DEF TasksOK
  <2>12. ShellTypes'
    BY <1>2, <2>6, <2>8 DEF ShellInv, ShellTypes, placeVars
  <2>13. Untouched'
    <3>1. DOMAIN tasks \subseteq DOMAIN tasks'
      BY <2>6
    <3>2. RemovedByTasks(disk, tasks) => RemovedByTasks(disk, tasks')
      BY <2>6, <3>1 DEF RemovedByTasks
    <3> QED BY <2>8, <3>2 DEF ShellInv, Untouched
  <2> QED BY <2>10, <2>11, <2>12, <2>13 DEF ShellInv
<1> QED BY <1>3, <1>4

\* The task t after it has run.
Ended(t, ok, touched) == [t EXCEPT !.phase = "ended", !.ok = ok, !.touched = touched]

\* The end of a task changes how it went, not what it is about.
LEMMA EndedIs ==
    ASSUME NEW t \in Task, NEW ok \in BOOLEAN, NEW touched \in BOOLEAN
    PROVE  /\ Ended(t, ok, touched) \in Task
           /\ Ended(t, ok, touched).scan = t.scan /\ Ended(t, ok, touched).node = t.node
           /\ Ended(t, ok, touched).path = t.path /\ Ended(t, ok, touched).op = t.op
           /\ Ended(t, ok, touched).expect = t.expect /\ Ended(t, ok, touched).since = t.since
           /\ Ended(t, ok, touched).phase = "ended" /\ Ended(t, ok, touched).ok = ok
           /\ Ended(t, ok, touched).touched = touched
BY DEF Ended, Task

\* A task that runs takes children before parents, and all of them or fails.
LEMMA PerformKeeps ==
    ASSUME ShellInv, NEW k \in DOMAIN tasks, Perform(k)
    PROVE  ShellInv'
<1> DEFINE t == tasks[k]
<1>1. PICK lost \in SUBSET Doomed(t), ok \in BOOLEAN :
        /\ \A q \in lost : Under(q) \intersect Doomed(t) \subseteq lost
        /\ ok => lost = Doomed(t)
        /\ disk' = Without(lost)
        /\ tasks' = [tasks EXCEPT ![k] = Ended(t, ok, lost # {})]
  BY DEF Perform, Ended
<1>2. /\ t.phase = "queued"
      /\ UNCHANGED <<changes, scanVars, model, placeVars, cache, dialog, status>>
  BY DEF Perform
<1>3. /\ disk \in [Paths -> Nat] /\ DiskClosed(disk) /\ tasks \in Seq(Task) /\ changes \in Nat
      /\ t \in Task /\ TaskOK(t, model, scans, disk)
  BY DEF ShellInv, ShellTypes, TasksOK
<1>4. t.path \in Paths /\ Under(t.path) \subseteq Paths /\ lost \subseteq Doomed(t)
  <2>1. t.path \in Paths
    BY <1>3 DEF Task
  <2> QED BY <2>1, UnderIs
<1>5. \A q \in Doomed(t) : q \in Paths /\ disk[q] # 0 /\ q \in Region(t)
  BY <1>4 DEF Doomed, Region
<1>6. /\ disk' \in [Paths -> Nat]
      /\ \A q \in Paths : disk'[q] = IF q \in lost THEN 0 ELSE disk[q]
  BY <1>1, <1>3 DEF Without
<1>7. \A q \in Paths : disk[q] = 0 => disk'[q] = 0
  BY <1>6
<1>8. DiskClosed(disk')
  <2> SUFFICES ASSUME NEW q \in Paths, Up[q] # NoPath, disk'[q] # 0, disk'[Up[q]] = 0
               PROVE  FALSE
    BY DEF DiskClosed
  <2>1. Up[q] \in Paths
    BY ShellAssumption
  <2>2. disk[q] # 0 /\ q \notin lost /\ disk[Up[q]] # 0
    BY <1>3, <1>6 DEF DiskClosed
  <2>3. Up[q] \in lost
    BY <1>6, <2>1, <2>2
  <2>4. Up[q] \in Under(t.path) /\ Up[q] \in Under(Up[q])
    BY <1>4, <2>1, <2>3, UnderIs DEF Doomed
  <2>5. q \in Under(t.path) /\ q \in Under(Up[q])
    BY <1>4, <2>1, <2>4, UnderIs
  <2>6. q # t.path
    BY <1>4, <2>1, <2>4, UnderAcyclic
  <2>7. q \in Doomed(t)
    BY <2>2, <2>5, <2>6 DEF Doomed
  <2> QED BY <1>1, <2>2, <2>3, <2>5, <2>7
<1> DEFINE e == Ended(t, ok, lost # {})
<1>9. /\ e \in Task /\ e.scan = t.scan /\ e.node = t.node /\ e.path = t.path /\ e.op = t.op
      /\ e.phase = "ended" /\ e.ok = ok /\ e.touched = (lost # {})
  <2>1. (lost # {}) \in BOOLEAN
    OBVIOUS
  <2> HIDE DEF t
  <2> QED BY <1>3, <2>1, EndedIs
<1>10. /\ tasks' \in Seq(Task) /\ DOMAIN tasks' = DOMAIN tasks /\ tasks'[k] = e
       /\ \A j \in DOMAIN tasks : j # k => tasks'[j] = tasks[j]
  <2> HIDE DEF e
  <2>1. tasks' = [tasks EXCEPT ![k] = e]
    BY <1>1 DEF e
  <2> QED BY <1>3, <1>9, <2>1
<1> HIDE DEF t, e
<1>11. \A j \in DOMAIN tasks : tasks'[j].scan = tasks[j].scan
  BY <1>9, <1>10 DEF t
<1>12. scans' = scans /\ model' = model /\ changes' = changes /\ job' = job
  BY <1>2 DEF scanVars
<1>13. OneTree' => OneTree
  BY <1>10, <1>11, <1>12 DEF OneTree
<1>14. /\ JobOK' /\ ModelOK' /\ PlaceValid' /\ Buried'
       /\ \A x \in Task : TaskOK(x, model, scans, disk) => TaskOK(x, model', scans', disk')
  BY <1>2, <1>6, <1>7, <1>13, DiskKeeps
<1>15. Region(e) = Region(t)
  BY <1>9 DEF Region
<1>16. TasksOK'
  <2>1. TaskOK(e, model', scans', disk')
    <3>1. ok => \A q \in Region(t) : disk'[q] = 0
      <4> SUFFICES ASSUME ok, NEW q \in Region(t) PROVE disk'[q] = 0
        OBVIOUS
      <4>1. q \in Paths /\ (disk[q] # 0 => q \in Doomed(t))
        BY <1>4 DEF Region, Doomed
      <4> QED BY <1>1, <1>6, <4>1
    <3>2. TaskOK(t, model', scans', disk')
      BY <1>3, <1>14
    <3> QED BY <1>9, <1>15, <3>1, <3>2 DEF TaskOK
  <2>2. ASSUME NEW j \in DOMAIN tasks, j # k PROVE TaskOK(tasks[j], model', scans', disk')
    <3>1. tasks[j] \in Task /\ TaskOK(tasks[j], model, scans, disk)
      BY <1>3 DEF ShellInv, TasksOK
    <3> QED BY <1>14, <3>1
  <2> QED BY <1>10, <2>1, <2>2 DEF TasksOK
<1>17. Untouched'
  <2> SUFFICES ASSUME changes = 0
               PROVE  RemovedByTasks(disk', tasks') /\ FirstObjects(disk', job, model)
    BY <1>12 DEF Untouched
  <2>1. RemovedByTasks(disk, tasks) /\ FirstObjects(disk, job, model)
    BY DEF ShellInv, Untouched
  <2>2. FirstObjects(disk', job, model)
    BY <1>6, <2>1 DEF FirstObjects
  <2>3. ASSUME NEW p \in Paths, disk'[p] = 0
        PROVE  \E j \in DOMAIN tasks' : tasks'[j].touched /\ p \in Region(tasks'[j])
    <3>1. CASE p \in lost
      BY <1>4, <1>5, <1>9, <1>10, <1>15, <3>1
    <3>2. CASE p \notin lost
      <4>1. PICK j \in DOMAIN tasks : tasks[j].touched /\ p \in Region(tasks[j])
        BY <1>6, <2>1, <2>3, <3>2 DEF RemovedByTasks
      <4>2. j # k
        BY <1>2, <1>3, <4>1 DEF TaskOK, t
      <4> QED BY <1>10, <4>1, <4>2
    <3> QED BY <3>1, <3>2
  <2> QED BY <2>2, <2>3 DEF RemovedByTasks
<1>18. ShellTypes'
  BY <1>2, <1>6, <1>8, <1>10, <1>12 DEF ShellInv, ShellTypes, placeVars
<1> QED BY <1>14, <1>16, <1>17, <1>18 DEF ShellInv

-----------------------------------------------------------------------------
(* A deletion comes back.                                                  *)

\* The task t when its callback has run.
Back(t) == [t EXCEPT !.phase = "back"]

\* The callback changes only the phase of its task.
LEMMA BackIs ==
    ASSUME NEW t \in Task
    PROVE  /\ Back(t) \in Task /\ Back(t).scan = t.scan /\ Back(t).node = t.node
           /\ Back(t).path = t.path /\ Back(t).op = t.op /\ Back(t).phase = "back"
           /\ Back(t).ok = t.ok /\ Back(t).touched = t.touched
BY DEF Back, Task

\* The tree r is m without what the task t removed, if m is the tree the task
\* was asked for; in another tree it may be anything below some node.
Cut(m, r, t, sc) ==
    /\ TreeOK(r) /\ SameFrame(m, r) /\ Alive(r) \subseteq Alive(m)
    /\ ~ t.ok => r = m
    /\ t.ok /\ t.scan = sc =>
         \A i \in Alive(m) : i \in Alive(r) <=> m[i].entry.path \notin Region(t)

\* A callback that cuts the tree and leaves the user at a place.
LEMMA CutKeeps ==
    ASSUME ShellInv, NEW k \in DOMAIN tasks, tasks[k].phase = "ended", Returned(k),
           UNCHANGED <<diskVars, scanVars, back, forward, filter, table, dialog>>,
           IF Shown THEN Cut(model, model', tasks[k], scans) /\ IsPlace(current')
           ELSE model' = model
    PROVE  ShellInv'
<1> DEFINE t == tasks[k]
           b == Back(t)
<1>1. /\ disk' = disk /\ changes' = changes /\ scans' = scans /\ job' = job /\ back' = back
      /\ forward' = forward /\ table' = table /\ dialog' = dialog
  BY DEF diskVars, scanVars
<1>2. tasks \in Seq(Task) /\ t \in Task /\ TaskOK(t, model, scans, disk)
  BY DEF ShellInv, ShellTypes, TasksOK
<1>3. /\ b \in Task /\ b.scan = t.scan /\ b.node = t.node /\ b.path = t.path /\ b.op = t.op
      /\ b.phase = "back" /\ b.ok = t.ok /\ b.touched = t.touched
  BY <1>2, BackIs
<1>4. /\ tasks' \in Seq(Task) /\ DOMAIN tasks' = DOMAIN tasks /\ tasks'[k] = b
      /\ \A j \in DOMAIN tasks : j # k => tasks'[j] = tasks[j]
  <2>1. tasks' = [tasks EXCEPT ![k] = b]
    BY DEF Returned, Back
  <2> HIDE DEF b
  <2> QED BY <1>2, <1>3, <2>1
<1> HIDE DEF b
<1>5. \A j \in DOMAIN tasks :
         /\ tasks'[j].scan = tasks[j].scan /\ tasks'[j].touched = tasks[j].touched
         /\ Region(tasks'[j]) = Region(tasks[j])
  <2>1. Region(b) = Region(t)
    BY <1>3 DEF Region
  <2> QED BY <1>3, <1>4, <2>1
<1>6. OneTree' <=> OneTree
  BY <1>1, <1>4, <1>5 DEF OneTree
<1>7. Shown' <=> Shown
  BY DEF Shown, Cut, TreeOK, Placed, NoModel
<1>8. ShellTypes' /\ JobOK'
  BY <1>1, <1>4, <1>7 DEF ShellInv, ShellTypes, JobOK
<1>9. t.ok => \A q \in Region(t) : disk[q] = 0
  BY <1>2 DEF TaskOK
<1>10. CASE ~ Shown
  <2>1. model' = model
    BY <1>10
  <2>2. t.scan # scans
    BY <1>2, <1>10 DEF TaskOK, Shown
  <2>3. ModelOK' /\ PlaceValid'
    BY <1>1, <1>7, <1>10 DEF ShellInv, ModelOK, PlaceValid
  <2>4. Buried'
    BY <1>10, <2>1 DEF Buried, Shown, NoModel
  <2>5. TasksOK'
    <3>1. TaskOK(b, model, scans, disk)
      BY <1>2, <1>3, <1>9, <2>2 DEF TaskOK, Region
    <3>2. \A j \in DOMAIN tasks : TaskOK(tasks[j], model, scans, disk)
      BY DEF ShellInv, TasksOK
    <3>3. \A j \in DOMAIN tasks' : TaskOK(tasks'[j], model, scans, disk)
      BY <1>4, <3>1, <3>2
    <3> QED BY <1>1, <2>1, <3>3 DEF TasksOK
  <2>6. Untouched'
    <3>1. RemovedByTasks(disk, tasks) => RemovedByTasks(disk, tasks')
      BY <1>4, <1>5 DEF RemovedByTasks
    <3> QED BY <1>1, <2>1, <3>1 DEF ShellInv, Untouched
  <2> QED BY <1>8, <2>3, <2>4, <2>5, <2>6 DEF ShellInv
<1>11. CASE Shown
  <2>1. Cut(model, model', t, scans) /\ IsPlace(current') /\ TreeOK(model)
    BY <1>11 DEF ShellInv, ModelOK
  <2>2. /\ DOMAIN model' = DOMAIN model /\ Alive(model') \subseteq Alive(model)
        /\ \A i \in DOMAIN model : model'[i].entry = model[i].entry /\ model'[i].kind = model[i].kind
    BY <2>1 DEF Cut, SameFrame
  <2>3. ModelOK'
    BY <1>7, <1>11, <2>1 DEF ModelOK, Cut
  <2>4. PlaceValid'
    <3>1. \A n \in {table.dir} \union ToSet(back) \union ToSet(forward) : IsPlace(n)
      BY <1>11 DEF ShellInv, PlaceValid, IsPlace
    <3>2. \A n : IsPlace(n) => n \in DOMAIN model' /\ model'[n].kind = "dir"
      BY <2>2 DEF IsPlace, InArena
    <3> QED BY <1>1, <2>1, <3>1, <3>2 DEF PlaceValid, InArena
  <2>5. TasksOK'
    <3>1. ASSUME NEW x \in Task, TaskOK(x, model, scans, disk) PROVE TaskOK(x, model', scans, disk)
      <4>1. model' # NoModel
        BY <1>7, <1>11 DEF Shown
      <4>2. Alive(model') \subseteq DOMAIN model
        BY <2>2 DEF Alive
      <4> QED BY <2>2, <3>1, <4>1, <4>2 DEF TaskOK
    <3>2. TaskOK(t, model', scans, disk)
      BY <1>2, <3>1
    <3>3. Region(b) = Region(t)
      BY <1>3 DEF Region
    <3>4. t.ok /\ t.scan = scans => \A n \in Alive(model') : model'[n].entry.path \notin Region(t)
      <4> SUFFICES ASSUME t.ok, t.scan = scans, NEW n \in Alive(model')
                   PROVE  model'[n].entry.path \notin Region(t)
        OBVIOUS
      <4>1. n \in Alive(model) /\ n \in DOMAIN model
        BY <2>2 DEF Alive
      <4> QED BY <2>1, <2>2, <4>1 DEF Cut
    <3> HIDE DEF t
    <3>5. TaskOK(b, model', scans, disk)
      BY <1>3, <1>9, <3>2, <3>3, <3>4 DEF TaskOK
    <3>6. \A j \in DOMAIN tasks : tasks[j] \in Task /\ TaskOK(tasks[j], model, scans, disk)
      BY <1>2 DEF ShellInv, TasksOK
    <3>7. \A j \in DOMAIN tasks' : TaskOK(tasks'[j], model', scans, disk)
      BY <1>4, <3>1, <3>5, <3>6
    <3> QED BY <1>1, <3>7 DEF TasksOK
  <2>6. Buried'
    <3> SUFFICES ASSUME OneTree, NEW n \in DOMAIN model, "tombstoned" \in model'[n].flags
                 PROVE  disk[model[n].entry.path] = 0
      BY <1>1, <1>6, <2>2 DEF Buried, Gone, PathOf
    <3>1. CASE Gone(n)
      BY <3>1 DEF ShellInv, Buried, PathOf
    <3>2. CASE ~ Gone(n)
      <4>1. n \in Alive(model) /\ n \notin Alive(model')
        BY <3>2 DEF Alive, Gone
      <4>2. t.scan = scans
        BY DEF OneTree
      <4>3. t.ok
        BY <2>1, <4>1 DEF Cut
      <4> QED BY <1>9, <2>1, <4>1, <4>2, <4>3 DEF Cut
    <3> QED BY <3>1, <3>2
  <2>7. Untouched'
    <3>1. RemovedByTasks(disk, tasks) => RemovedByTasks(disk, tasks')
      BY <1>4, <1>5 DEF RemovedByTasks
    <3>2. FirstObjects(disk, job, model) => FirstObjects(disk, job, model')
      BY <2>2 DEF FirstObjects
    <3> QED BY <1>1, <3>1, <3>2 DEF ShellInv, Untouched
  <2> QED BY <1>8, <2>3, <2>4, <2>5, <2>6, <2>7 DEF ShellInv
<1> QED BY <1>10, <1>11

\* What is left of a directory that was cleared: of what is below it, nothing.
LEMMA ChildAbove ==
    ASSUME NEW t, TreeOK(t), NEW n \in DOMAIN t
    PROVE  /\ t[n].children \subseteq {c \in DOMAIN t \ {Root} : t[c].parent = n}
           /\ \A i \in Alive(t) : i \in Subtree(t, n) /\ i # n => i \in BelowAny(t, t[n].children)
<1> DEFINE C == t[n].children
           F == {i \in DOMAIN t : i \in Alive(t) /\ i \in Subtree(t, n) /\ i # n => i \in BelowAny(t, C)}
<1>1. /\ Len(t) \in Nat /\ DOMAIN t = 1..Len(t) /\ Root \in 1..Len(t) /\ Alive(t) \subseteq 1..Len(t)
      /\ \A i \in 1..Len(t) : t[i].parent \in 0..(i - 1)
  BY TreeFacts
<1>2. ListsExact(t)
  BY DEF TreeOK
<1>3. C = IF n \in Alive(t) THEN {c \in Alive(t) : t[c].parent = n} ELSE {}
  BY <1>2 DEF ListsExact
<1>4. C \subseteq {c \in DOMAIN t \ {Root} : t[c].parent = n}
  <2>1. t[Root].parent = 0 /\ n # 0
    BY <1>1 DEF Root
  <2> QED BY <1>1, <1>3, <2>1
<1>5. ASSUME NEW i \in 1..Len(t), \A j \in 1..(i - 1) : j \in F PROVE i \in F
  <2> SUFFICES ASSUME i \in Alive(t), i \in Subtree(t, n), i # n PROVE i \in BelowAny(t, C)
    BY <1>1
  <2> DEFINE p == t[i].parent
  <2>1. p # 0 /\ p \in Subtree(t, n)
    BY <1>1, SubtreeIs
  <2>2. p \in 1..(i - 1) /\ p \in Alive(t)
    BY <1>1, <1>2, <2>1 DEF ListsExact
  <2>3. CASE p = n
    <3>1. i \in C
      BY <1>3, <2>2, <2>3
    <3>2. i \in Subtree(t, i)
      BY <1>1, SubtreeIs
    <3> QED BY <3>1, <3>2 DEF BelowAny
  <2>4. CASE p # n
    <3>1. p \in BelowAny(t, C)
      BY <1>5, <2>1, <2>2, <2>4
    <3>2. PICK c \in C : p \in Subtree(t, c)
      BY <3>1 DEF BelowAny
    <3>3. i \in Subtree(t, c)
      BY <1>1, <1>4, <2>1, <3>2, SubtreeIs
    <3> QED BY <3>2, <3>3 DEF BelowAny
  <2> QED BY <2>3, <2>4
<1>6. \A i \in DOMAIN t : i \in F
  <2> HIDE DEF F
  <2> QED BY <1>1, <1>5, IndexInduction
<1> QED BY <1>1, <1>4, <1>6

\* A deleted node is cut out, with all that its path leads to.
LEMMA ApplyCuts ==
    ASSUME NEW m, TreeOK(m), NEW t \in Task, t.node \in DOMAIN m, t.op # "clear", NEW sc,
           t.ok, TaskOK(t, m, sc, disk)
    PROVE  Cut(m, ApplyDeletion(m, t.node), t, sc)
<1> DEFINE n == t.node
           r == ApplyDeletion(m, n)
<1>1. /\ TreeOK(r) /\ SameFrame(m, r)
      /\ Alive(r) = IF n \in DOMAIN m \ {Root} THEN Alive(m) \ Subtree(m, n) ELSE Alive(m)
  BY DeletionIs
<1> HIDE DEF r
<1>2. ASSUME t.scan = sc, NEW i \in Alive(m)
      PROVE  i \in Alive(r) <=> m[i].entry.path \notin Region(t)
  <2>1. n # Root /\ m[n].entry.path = t.path
    BY <1>2 DEF TaskOK
  <2>2. Region(t) = Under(m[n].entry.path)
    BY <2>1 DEF Region
  <2>3. i \in DOMAIN m
    BY DEF Alive
  <2> QED BY <1>1, <2>1, <2>2, <2>3, SubtreeUnder
<1> QED BY <1>1, <1>2 DEF Cut, r

\* A cleared directory loses all that lies in it.
LEMMA ClearCuts ==
    ASSUME NEW m, TreeOK(m), NEW t \in Task, t.node \in DOMAIN m, t.op = "clear", NEW sc,
           t.ok, TaskOK(t, m, sc, disk)
    PROVE  Cut(m, FoldSet(Forget, m, m[t.node].children), t, sc)
<1> DEFINE n == t.node
           S == m[n].children
           r == FoldSet(Forget, m, S)
           P(i) == m[i].entry.path
<1>1. /\ S \subseteq {c \in DOMAIN m \ {Root} : m[c].parent = n}
      /\ \A i \in Alive(m) : i \in Subtree(m, n) /\ i # n => i \in BelowAny(m, S)
  BY ChildAbove
<1>2. TreeOK(r) /\ SameFrame(m, r) /\ Alive(r) = Alive(m) \ BelowAny(m, S)
  <2> HIDE DEF S
  <2>1. S \subseteq DOMAIN m \ {Root}
    BY <1>1
  <2> QED BY <2>1, ClearIs DEF Pruned
<1> HIDE DEF r, S
<1>3. /\ \A i \in DOMAIN m : P(i) \in Paths
      /\ \A i, k \in DOMAIN m : P(i) = P(k) => i = k
      /\ \A i \in DOMAIN m \ {Root} : Up[P(i)] = P(m[i].parent)
  BY TreeFacts DEF TreeOK, Placed
<1>4. NoPath \notin Paths
  BY ShellAssumption
<1> HIDE DEF P
<1>5. ASSUME t.scan = sc, NEW i \in Alive(m)
      PROVE  i \in Alive(r) <=> P(i) \notin Region(t)
  <2>1. P(n) = t.path /\ i \in DOMAIN m
    BY <1>5 DEF TaskOK, Alive, P
  <2>2. Region(t) = Under(P(n)) \ {P(n)}
    BY <2>1 DEF Region
  <2>3. ASSUME i \in BelowAny(m, S) PROVE P(i) \in Region(t)
    <3>1. PICK c \in S : i \in Subtree(m, c)
      BY <2>3 DEF BelowAny
    <3>2. c \in DOMAIN m /\ P(i) \in Under(P(c)) /\ Up[P(c)] = P(n)
      BY <1>1, <1>3, <2>1, <3>1, SubtreeUnder DEF P
    <3>3. P(c) \in Under(P(n))
      BY <1>3, <1>4, <3>2, UnderIs
    <3>4. P(i) \in Under(P(n))
      BY <1>3, <3>2, <3>3, UnderTransitive
    <3>5. P(n) \notin Under(P(c))
      BY <1>3, <3>2, UnderAcyclic
    <3> QED BY <2>2, <3>2, <3>4, <3>5
  <2>4. ASSUME P(i) \in Region(t) PROVE i \in BelowAny(m, S)
    <3>1. P(i) \in Under(P(n)) /\ i # n
      BY <2>2, <2>4
    <3>2. i \in Subtree(m, n)
      BY <2>1, <3>1, SubtreeUnder DEF P
    <3> QED BY <1>1, <3>1, <3>2
  <2> QED BY <1>2, <2>3, <2>4
<1> QED BY <1>2, <1>5 DEF Cut, r, S, P

\* A callback finds its own tree, another one, or none.
LEMMA CallbackKeeps ==
    ASSUME ShellInv, NEW k \in DOMAIN tasks, Callback(k)
    PROVE  ShellInv'
<1> DEFINE t == tasks[k]
           n == t.node
<1>1. /\ t.phase = "ended" /\ Returned(k)
      /\ UNCHANGED <<diskVars, scanVars, back, forward, filter, table, dialog>>
  BY DEF Callback
<1>2. t \in Task /\ TaskOK(t, model, scans, disk) /\ t.ok \in BOOLEAN
  <2>1. t \in Task /\ TaskOK(t, model, scans, disk)
    BY DEF ShellInv, ShellTypes, TasksOK
  <2> HIDE DEF t
  <2> QED BY <2>1 DEF Task
<1>3. Shown => TreeOK(model) /\ IsPlace(current)
  BY PlaceIs DEF ShellInv, ModelOK
<1>4. InArena(n) => Shown
  BY DEF InArena, Shown, NoModel
<1>5. CASE ~ t.ok \/ ~ Shown
  <2>1. model' = model /\ current' = current
    BY <1>4, <1>5 DEF Callback, Succeeded
  <2>2. Shown => Cut(model, model', t, scans)
    BY <1>3, <1>5, <2>1 DEF Cut, SameFrame
  <2> QED BY <1>1, <1>3, <2>1, <2>2, CutKeeps
<1>6. CASE t.ok /\ Shown /\ ~ InArena(n)
  <2>1. model' = model /\ current' = current
    BY <1>6 DEF Callback, Succeeded
  <2>2. t.scan # scans
    BY <1>2, <1>6 DEF TaskOK, InArena
  <2>3. Cut(model, model', t, scans)
    BY <1>3, <1>6, <2>1, <2>2 DEF Cut, SameFrame
  <2> QED BY <1>1, <1>3, <1>6, <2>1, <2>3, CutKeeps
<1>7. CASE t.ok /\ Shown /\ InArena(n) /\ t.op # "clear"
  <2> DEFINE m == ApplyDeletion(model, n)
  <2>1. model' = m /\ current' = Landing(m, model[n].parent)
    BY <1>7 DEF Callback, Succeeded, ApplyAndRefresh
  <2>2. Cut(model, m, t, scans)
    <3> HIDE DEF t
    <3> QED BY <1>2, <1>3, <1>7, ApplyCuts DEF InArena
  <2> HIDE DEF m
  <2>3. model[n].parent # 0 => IsPlace(model[n].parent)
    <3> SUFFICES ASSUME model[n].parent # 0 PROVE IsPlace(model[n].parent)
      OBVIOUS
    <3>1. /\ DOMAIN model = 1..Len(model) /\ n \in 1..Len(model) /\ Len(model) \in Nat
          /\ model[n].parent \in 0..(n - 1)
      BY <1>3, <1>7, TreeFacts DEF InArena
    <3>2. n # Root /\ model[n].parent \in DOMAIN model
      BY <3>1 DEF Root
    <3>3. model[model[n].parent].kind = "dir"
      BY <1>3, <1>7, <3>2 DEF TreeOK, Placed, InArena
    <3> QED BY <3>2, <3>3 DEF IsPlace, InArena
  <2>4. IsPlace(current')
    BY <1>3, <1>7, <2>1, <2>3 DEF Landing
  <2> QED BY <1>1, <1>7, <2>1, <2>2, <2>4, CutKeeps
<1>8. CASE t.ok /\ Shown /\ InArena(n) /\ t.op = "clear"
  <2>1. model' = ChildrenGone(n) /\ current' = current
    BY <1>8 DEF Callback, Succeeded
  <2>2. Cut(model, model', t, scans)
    <3>1. model' = FoldSet(Forget, model, model[n].children)
      BY <2>1 DEF ChildrenGone
    <3> HIDE DEF t
    <3> QED BY <1>2, <1>3, <1>8, <3>1, ClearCuts DEF InArena
  <2> QED BY <1>1, <1>3, <1>8, <2>1, <2>2, CutKeeps
<1> QED BY <1>2, <1>5, <1>6, <1>7, <1>8

-----------------------------------------------------------------------------
(* Every step keeps the invariant.                                         *)

\* A step that changes nothing.
LEMMA ShellStutters ==
    ASSUME ShellInv, UNCHANGED vars
    PROVE  ShellInv'
<1>1. /\ UNCHANGED <<diskVars, scanVars, model, current, back, forward, tasks>>
      /\ table' = table /\ dialog' = dialog
  BY DEF vars, placeVars
<1>2. /\ table = [dir |-> table.dir, filter |-> table.filter]
      /\ dialog \in Dialog \union {NoDialog}
  BY DEF ShellInv, ShellTypes
<1> QED BY <1>1, <1>2, StayKeeps

\* navigate_to and go_parent, from what is offered and from the current node.
LEMMA NavigationKeeps ==
    ASSUME ShellInv, (\E n \in DOMAIN model : NavigateTo(n)) \/ GoParent
    PROVE  ShellInv'
<1>1. CASE \E n \in DOMAIN model : NavigateTo(n)
  BY <1>1, VisitKeeps DEF NavigateTo, Free
<1>2. CASE GoParent
  <2>1. Shown /\ Visit(model[current].parent) /\ model[current].parent # 0 /\ TreeOK(model)
    BY <1>2 DEF GoParent, Free, ShellInv, ModelOK
  <2>2. IsPlace(current)
    BY <2>1, PlaceIs
  <2>3. /\ DOMAIN model = 1..Len(model) /\ current \in 1..Len(model) /\ Len(model) \in Nat
        /\ model[current].parent \in 0..(current - 1)
    BY <2>1, <2>2, TreeFacts DEF IsPlace, InArena
  <2>4. model[current].parent \in DOMAIN model
    BY <2>1, <2>3
  <2> QED BY <2>1, <2>4, VisitKeeps
<1> QED BY <1>1, <1>2

\* One line per action.
LEMMA ShellSteps ==
    ASSUME ShellInv, [Next]_vars
    PROVE  ShellInv'
<1>1. CASE UNCHANGED vars
  BY <1>1, ShellStutters
<1>2. CASE \E p \in Paths : OtherProgram(p)
  BY <1>2, OtherProgramKeeps
<1>3. CASE (\E r \in Roots : OpenFolder(r)) \/ Rescan
  BY <1>3, ScanStartKeeps
<1>4. CASE ScanEnds
  BY <1>4, ScanEndsKeeps
<1>5. CASE FinishScan
  BY <1>5, FinishScanKeeps
<1>6. CASE (\E n \in DOMAIN model : NavigateTo(n)) \/ GoParent
  BY <1>6, NavigationKeeps
<1>7. CASE GoBack \/ GoForward
  BY <1>7, HistoryKeeps
<1>8. CASE \/ (\E f \in Filters : SetFilter(f)) \/ ClearEscape \/ Render
           \/ (\E op \in Ops, n \in DOMAIN model : Confirm(op, n)) \/ CancelDialog
  BY <1>8, FilterKeeps
<1>9. CASE Accept
  BY <1>9, AcceptKeeps
<1>10. CASE \E k \in DOMAIN tasks : Perform(k)
  BY <1>10, PerformKeeps
<1>11. CASE \E k \in DOMAIN tasks : Callback(k)
  BY <1>11, CallbackKeeps
<1> QED
  BY <1>1, <1>2, <1>3, <1>4, <1>5, <1>6, <1>7, <1>8, <1>9, <1>10, <1>11 DEF Next

\* The inductive invariant of the shell.
THEOREM ShellInvariant == Spec => []ShellInv
<1>1. ShellInv /\ [Next]_vars => ShellInv'
  BY ShellSteps
<1> QED BY ShellStarts, <1>1, PTL DEF Spec

\* Navigation can never index outside the arena or stand in a file, whatever
\* scans replace one another and whatever deletion comes back late.
THEOREM PlaceStaysValid == Spec => []PlaceValid
<1>1. ShellInv => PlaceValid
  BY DEF ShellInv
<1> QED BY ShellInvariant, <1>1, PTL

\* The sizes shown are the sums over what is left of the tree.
THEOREM TreeStaysAggregated == Spec => []TreeAggregated
<1>1. ShellInv => TreeAggregated
  BY DEF ShellInv, ModelOK, TreeOK, TreeAggregated
<1> QED BY ShellInvariant, <1>1, PTL

\* What a deletion took off the tree is off the disk, as long as the tree is the
\* one it was asked for.
THEOREM RemovedStaysGone == Spec => []RemovedIsGone
<1>1. ShellInv => RemovedIsGone
  <2> SUFFICES ASSUME ShellInv, OneTree, NEW n \in DOMAIN model, Gone(n) PROVE ~ Unchanged(n)
    BY DEF RemovedIsGone, TombstonesTrue
  <2>1. disk[PathOf(n)] = 0
    BY DEF ShellInv, Buried
  <2>2. TreeOK(model)
    BY DEF ShellInv, ModelOK, Shown, NoModel
  <2>3. model[n].entry.id # 0
    BY <2>2, TreeFacts
  <2> QED BY <2>1, <2>3 DEF Unchanged
<1> QED BY ShellInvariant, <1>1, PTL

\* When only deletions changed the disk and all of them came back, what is shown
\* is there.
THEOREM AliveStaysThere == Spec => []AliveIsThere
<1>1. ShellInv => AliveIsThere
  <2> SUFFICES ASSUME ShellInv, changes = 0, OneTree,
                      \A k \in DOMAIN tasks :
                         tasks[k].phase = "back" /\ (tasks[k].touched => tasks[k].ok),
                      NEW n \in Alive(model)
               PROVE  Unchanged(n)
    BY DEF AliveIsThere
  <2>1. n \in DOMAIN model
    BY DEF Alive
  <2>2. TreeOK(model)
    BY <2>1 DEF ShellInv, ModelOK, Shown, NoModel
  <2>3. PathOf(n) \in Paths
    BY <2>1, <2>2, TreeFacts DEF PathOf
  <2>4. model[n].entry.id = 1 /\ disk[PathOf(n)] \in {0, 1} /\ RemovedByTasks(disk, tasks)
    BY <2>1, <2>3 DEF ShellInv, Untouched, FirstObjects
  <2>5. disk[PathOf(n)] # 0
    <3> SUFFICES ASSUME disk[PathOf(n)] = 0 PROVE FALSE
      OBVIOUS
    <3>1. PICK k \in DOMAIN tasks : tasks[k].touched /\ PathOf(n) \in Region(tasks[k])
      BY <2>3, <2>4 DEF RemovedByTasks
    <3>2. TaskOK(tasks[k], model, scans, disk)
      BY DEF ShellInv, TasksOK
    <3> QED BY <3>1, <3>2 DEF TaskOK, OneTree, PathOf
  <2> QED BY <2>4, <2>5 DEF Unchanged
<1> QED BY ShellInvariant, <1>1, PTL

-----------------------------------------------------------------------------
(* What a deletion takes is what was scanned.  The argument follows the    *)
(* verified object from the dialog to the task.  A model that a scan puts  *)
(* under an open dialog is younger than the dialog: what it says is true   *)
(* of the disk unless another program has been at work since.              *)

\* Each entry of the tree is on the disk as it was scanned, or not at all.
Fresh(t, d) == \A n \in DOMAIN t : d[t[n].entry.path] \in {0, t[n].entry.id}

DialogFresh ==
    /\ dialog.since <= changes
    /\ dialog.since = changes =>
         /\ job.phase = "running" => disk[job.root] \in {0, job.id}
         /\ job.phase = "sent" => Fresh(job.arena, disk)
         /\ Shown /\ InArena(dialog.node) =>
               disk[PathOf(dialog.node)] \in {0, model[dialog.node].entry.id}

TaskFresh(t, d, c) ==
    t.since <= c /\ (t.since = c => d[t.path] \in {0, t.expect})

TasksFresh == \A k \in DOMAIN tasks : tasks[k].phase = "queued" => TaskFresh(tasks[k], disk, changes)

VerifiedInv == (dialog # NoDialog => DialogFresh) /\ TasksFresh

\* The open dialog has the type of one.
LEMMA DialogIs ==
    ASSUME ShellInv, dialog # NoDialog
    PROVE  dialog.op \in Ops /\ dialog.node \in Nat /\ dialog.since \in Nat /\ changes \in Nat
BY DEF ShellInv, ShellTypes, Dialog

\* A step that touches neither the disk, nor a scan, the model, the dialog or the
\* tasks.
LEMMA PlainVerified ==
    ASSUME VerifiedInv, UNCHANGED <<disk, changes, job, model, dialog, tasks>>
    PROVE  VerifiedInv'
<1>1. /\ disk' = disk /\ changes' = changes /\ job' = job /\ model' = model
      /\ dialog' = dialog /\ tasks' = tasks
  OBVIOUS
<1>2. DialogFresh => DialogFresh'
  BY <1>1 DEF DialogFresh, Fresh, Shown, InArena, PathOf
<1>3. TasksFresh'
  BY <1>1 DEF VerifiedInv, TasksFresh
<1> QED BY <1>1, <1>2, <1>3 DEF VerifiedInv

\* After a change by another program no verification is the last.
LEMMA OtherVerified ==
    ASSUME ShellInv, VerifiedInv, NEW p \in Paths, OtherProgram(p)
    PROVE  VerifiedInv'
<1>1. changes' = changes + 1 /\ dialog' = dialog /\ tasks' = tasks /\ changes \in Nat
      /\ tasks \in Seq(Task)
  BY DEF OtherProgram, ShellInv, ShellTypes
<1>2. dialog # NoDialog => dialog.since <= changes /\ dialog.since \in Nat
  BY DialogIs DEF VerifiedInv, DialogFresh
<1>3. dialog' # NoDialog => DialogFresh'
  <2>1. dialog' # NoDialog => dialog'.since <= changes' /\ dialog'.since # changes'
    BY <1>1, <1>2
  <2> QED BY <2>1 DEF DialogFresh
<1>4. TasksFresh'
  <2> SUFFICES ASSUME NEW k \in DOMAIN tasks, tasks[k].phase = "queued"
               PROVE  TaskFresh(tasks[k], disk', changes')
    BY <1>1 DEF TasksFresh
  <2>1. tasks[k].since <= changes
    BY DEF VerifiedInv, TasksFresh, TaskFresh
  <2>2. tasks[k].since \in Nat
    <3>1. tasks[k] \in Task
      BY <1>1
    <3> QED BY <3>1 DEF Task
  <2>3. tasks[k].since <= changes' /\ tasks[k].since # changes'
    BY <1>1, <2>1, <2>2
  <2> QED BY <2>3 DEF TaskFresh
<1> QED BY <1>3, <1>4 DEF VerifiedInv

\* A scan begins with the object that is at its root.
LEMMA StartVerified ==
    ASSUME ShellInv, VerifiedInv, NEW r \in Paths, StartScan(r)
    PROVE  VerifiedInv'
<1>1. /\ disk' = disk /\ changes' = changes /\ tasks' = tasks /\ dialog' = dialog
      /\ model' = NoModel
      /\ job' = [IdleJob EXCEPT !.phase = IF disk[r] = 0 THEN "failed" ELSE "running",
                                !.root = r, !.id = disk[r]]
  BY DEF StartScan, diskVars
<1>2. job' = [phase |-> IF disk[r] = 0 THEN "failed" ELSE "running", root |-> r, id |-> disk[r],
              arena |-> NoModel]
  BY <1>1 DEF IdleJob
<1>3. ~ Shown' /\ job'.phase # "sent" /\ job'.root = r /\ job'.id = disk[r]
  BY <1>1, <1>2 DEF Shown
<1>4. DialogFresh => DialogFresh'
  BY <1>1, <1>3 DEF DialogFresh
<1>5. TasksFresh'
  BY <1>1 DEF VerifiedInv, TasksFresh
<1> QED BY <1>1, <1>4, <1>5 DEF VerifiedInv

\* What a scan lists is what is there.
LEMMA ScanVerified ==
    ASSUME ShellInv, VerifiedInv, ScanEnds
    PROVE  VerifiedInv'
<1> DEFINE t == ScanOf(job.root, job.id)
<1>1. /\ job.phase = "running"
      /\ job' = [job EXCEPT !.phase = "sent", !.arena = ScanOf(job.root, job.id)]
      /\ disk' = disk /\ changes' = changes /\ model' = model /\ dialog' = dialog /\ tasks' = tasks
  BY DEF ScanEnds, diskVars
<1>2. /\ job = [phase |-> job.phase, root |-> job.root, id |-> job.id, arena |-> job.arena]
      /\ job.root \in Paths /\ job.id \in Nat \ {0} /\ ~ Shown
      /\ disk \in [Paths -> Nat] /\ DiskClosed(disk)
  BY <1>1 DEF ShellInv, JobOK, ShellTypes
<1>3. \A k \in DOMAIN t :
         t[k].entry.id = IF t[k].entry.path = job.root THEN job.id ELSE disk[t[k].entry.path]
  BY <1>2, ScanTree
<1>4. job'.phase = "sent" /\ job'.arena = t
  <2> HIDE DEF t
  <2>1. job' = [job EXCEPT !.phase = "sent", !.arena = t]
    BY <1>1 DEF t
  <2> QED BY <1>2, <2>1
<1> HIDE DEF t
<1>5. disk[job.root] \in {0, job.id} => Fresh(t, disk)
  BY <1>3 DEF Fresh
<1>6. ~ Shown'
  BY <1>1, <1>2 DEF Shown
<1>7. DialogFresh => DialogFresh'
  BY <1>1, <1>4, <1>5, <1>6 DEF DialogFresh
<1>8. TasksFresh'
  BY <1>1 DEF VerifiedInv, TasksFresh
<1> QED BY <1>1, <1>7, <1>8 DEF VerifiedInv

\* The model that appears under the dialog is the one that was scanned since.
LEMMA FinishVerified ==
    ASSUME ShellInv, VerifiedInv, FinishScan
    PROVE  VerifiedInv'
<1>1. /\ disk' = disk /\ changes' = changes /\ dialog' = dialog /\ tasks' = tasks
      /\ job' = IdleJob
  BY DEF FinishScan, diskVars
<1>2. job'.phase = "none" /\ ~ Shown
  BY <1>1 DEF IdleJob, FinishScan, ShellInv, JobOK
<1>3. CASE job.phase = "sent"
  <2>1. model' = job.arena
    BY <1>3 DEF FinishScan
  <2>2. Fresh(job.arena, disk) /\ InArena(dialog.node)' =>
          disk[PathOf(dialog.node)'] \in {0, model'[dialog'.node].entry.id}
    BY <1>1, <2>1 DEF Fresh, InArena, PathOf
  <2>3. DialogFresh => DialogFresh'
    BY <1>1, <1>2, <1>3, <2>2 DEF DialogFresh
  <2>4. TasksFresh'
    BY <1>1 DEF VerifiedInv, TasksFresh
  <2> QED BY <1>1, <2>3, <2>4 DEF VerifiedInv
<1>4. CASE job.phase # "sent"
  <2>1. ~ Shown'
    BY <1>2, <1>4 DEF FinishScan, Shown
  <2>2. DialogFresh => DialogFresh'
    BY <1>1, <1>2, <2>1 DEF DialogFresh
  <2>3. TasksFresh'
    BY <1>1 DEF VerifiedInv, TasksFresh
  <2> QED BY <1>1, <2>2, <2>3 DEF VerifiedInv
<1> QED BY <1>3, <1>4

\* A dialog opens on what was just verified.
LEMMA ConfirmVerified ==
    ASSUME ShellInv, VerifiedInv, NEW op \in Ops, NEW n \in DOMAIN model, Confirm(op, n)
    PROVE  VerifiedInv'
<1>1. /\ dialog' = [op |-> op, node |-> n, since |-> changes] /\ Unchanged(n) /\ Shown
      /\ disk' = disk /\ changes' = changes /\ model' = model /\ tasks' = tasks /\ job' = job
  BY DEF Confirm, Free, diskVars, scanVars
<1>2. job.phase = "none" /\ changes \in Nat
  BY <1>1 DEF ShellInv, JobOK, ShellTypes
<1>3. dialog'.since = changes /\ dialog'.node = n
  BY <1>1
<1>4. disk[PathOf(n)] = model[n].entry.id
  BY <1>1 DEF Unchanged
<1>5. PathOf(n)' = PathOf(n)
  BY <1>1 DEF PathOf
<1>6. PathOf(dialog.node)' = PathOf(n)
  BY <1>1, <1>3 DEF PathOf
<1>7. DialogFresh'
  BY <1>1, <1>2, <1>3, <1>4, <1>6 DEF DialogFresh
<1>8. TasksFresh'
  BY <1>1 DEF VerifiedInv, TasksFresh
<1> QED BY <1>7, <1>8 DEF VerifiedInv

\* The task starts with what was verified last.
LEMMA AcceptVerified ==
    ASSUME ShellInv, VerifiedInv, Accept
    PROVE  VerifiedInv'
<1> DEFINE n == dialog.node
           t == NewTask(dialog.op, n)
<1>1. /\ disk' = disk /\ changes' = changes /\ dialog' = NoDialog /\ dialog # NoDialog
      /\ tasks \in Seq(Task) /\ changes \in Nat
  BY DEF Accept, diskVars, ShellInv, ShellTypes
<1>2. CASE tasks' = tasks
  BY <1>1, <1>2 DEF VerifiedInv, TasksFresh
<1>3. CASE tasks' # tasks
  <2>1. Shown /\ InArena(n) /\ Allowed(dialog.op, n) /\ tasks' = Append(tasks, t)
    BY <1>3 DEF Accept
  <2>2. /\ t.path = PathOf(n) /\ t.expect = model[n].entry.id
        /\ t.since = IF dialog.op = "trash" THEN changes ELSE dialog.since
    BY DEF NewTask
  <2>3. DialogFresh
    BY <1>1 DEF VerifiedInv
  <2> HIDE DEF t
  <2>4. TaskFresh(t, disk, changes)
    <3>1. CASE dialog.op = "trash"
      BY <1>1, <2>1, <2>2, <3>1 DEF Allowed, Unchanged, TaskFresh
    <3>2. CASE dialog.op # "trash"
      BY <2>1, <2>2, <2>3, <3>2 DEF DialogFresh, TaskFresh
    <3> QED BY <3>1, <3>2
  <2>5. ASSUME NEW k \in DOMAIN tasks' PROVE tasks'[k] = t \/ (k \in DOMAIN tasks /\ tasks'[k] = tasks[k])
    BY <1>1, <2>1
  <2>6. TasksFresh'
    BY <1>1, <2>4, <2>5 DEF VerifiedInv, TasksFresh
  <2> QED BY <1>1, <2>6 DEF VerifiedInv
<1> QED BY <1>2, <1>3

\* A task at work makes objects disappear, and turns none into another.
LEMMA PerformVerified ==
    ASSUME ShellInv, VerifiedInv, NEW k \in DOMAIN tasks, Perform(k)
    PROVE  VerifiedInv'
<1>1. PICK lost \in SUBSET Doomed(tasks[k]), ok \in BOOLEAN :
        /\ disk' = Without(lost)
        /\ tasks' = [tasks EXCEPT ![k] = Ended(tasks[k], ok, lost # {})]
  BY DEF Perform, Ended
<1>2. /\ changes' = changes /\ job' = job /\ model' = model /\ dialog' = dialog
      /\ disk \in [Paths -> Nat] /\ tasks \in Seq(Task) /\ changes \in Nat
  BY DEF Perform, scanVars, ShellInv, ShellTypes
<1>3. \A p \in Paths : disk'[p] = disk[p] \/ disk'[p] = 0
  BY <1>1 DEF Without
<1>4. /\ DOMAIN tasks' = DOMAIN tasks /\ tasks'[k].phase # "queued"
      /\ \A j \in DOMAIN tasks : j # k => tasks'[j] = tasks[j]
  <2>1. tasks[k] \in Task /\ (lost # {}) \in BOOLEAN
    BY <1>2
  <2> DEFINE e == Ended(tasks[k], ok, lost # {})
  <2>2. e.phase = "ended"
    BY <2>1, EndedIs
  <2>3. tasks' = [tasks EXCEPT ![k] = e]
    BY <1>1
  <2> HIDE DEF e
  <2> QED BY <2>2, <2>3
<1>5. \A p \in Paths : \A x : disk[p] \in {0, x} => disk'[p] \in {0, x}
  BY <1>3
<1>6. dialog # NoDialog => DialogFresh'
  <2> SUFFICES ASSUME dialog # NoDialog PROVE DialogFresh'
    OBVIOUS
  <2>1. DialogFresh
    BY DEF VerifiedInv
  <2>2. job.phase = "running" => job.root \in Paths
    BY DEF ShellInv, JobOK
  <2>3. job.phase = "sent" /\ Fresh(job.arena, disk) => Fresh(job.arena, disk')
    <3> SUFFICES ASSUME job.phase = "sent", Fresh(job.arena, disk), NEW n \in DOMAIN job.arena
                 PROVE  disk'[job.arena[n].entry.path] \in {0, job.arena[n].entry.id}
      BY DEF Fresh
    <3>1. TreeOK(job.arena)
      BY DEF ShellInv, JobOK
    <3>2. job.arena[n].entry.path \in Paths
      BY <3>1, TreeFacts
    <3>3. disk[job.arena[n].entry.path] \in {0, job.arena[n].entry.id}
      BY DEF Fresh
    <3> QED BY <1>5, <3>2, <3>3
  <2>4. Shown /\ InArena(dialog.node) => PathOf(dialog.node) \in Paths
    <3>1. Shown => TreeOK(model)
      BY DEF ShellInv, ModelOK
    <3> QED BY <3>1, TreeFacts DEF InArena, PathOf
  <2>5. /\ Shown' <=> Shown
        /\ InArena(dialog.node)' <=> InArena(dialog.node)
        /\ PathOf(dialog.node)' = PathOf(dialog.node)
    BY <1>2 DEF Shown, InArena, PathOf
  <2>6. Shown' /\ InArena(dialog.node)' /\ dialog.since = changes =>
          disk'[PathOf(dialog.node)] \in {0, model[dialog.node].entry.id}
    BY <1>5, <2>1, <2>4, <2>5 DEF DialogFresh
  <2>7. job.phase = "running" /\ dialog.since = changes => disk'[job.root] \in {0, job.id}
    BY <1>5, <2>1, <2>2 DEF DialogFresh
  <2> QED BY <1>2, <2>1, <2>3, <2>5, <2>6, <2>7 DEF DialogFresh
<1>7. TasksFresh'
  <2> SUFFICES ASSUME NEW j \in DOMAIN tasks, j # k, tasks[j].phase = "queued"
               PROVE  TaskFresh(tasks[j], disk', changes)
    BY <1>2, <1>4 DEF TasksFresh
  <2>1. TaskFresh(tasks[j], disk, changes)
    BY DEF VerifiedInv, TasksFresh
  <2>2. tasks[j].path \in Paths
    <3>1. tasks[j] \in Task
      BY <1>2
    <3> QED BY <3>1 DEF Task
  <2> QED BY <1>5, <2>1, <2>2 DEF TaskFresh
<1> QED BY <1>2, <1>6, <1>7 DEF VerifiedInv

\* A deletion that comes back prunes the tree, and moves no entry in it.
LEMMA CallbackFrame ==
    ASSUME ShellInv, NEW k \in DOMAIN tasks, Callback(k)
    PROVE  /\ Shown' => Shown
           /\ Shown => SameFrame(model, model')
<1> DEFINE t == tasks[k]
           n == t.node
<1>1. Shown => TreeOK(model)
  BY DEF ShellInv, ModelOK
<1>2. InArena(n) => Shown
  BY DEF InArena, Shown, NoModel
<1>3. CASE model' = model
  BY <1>3 DEF Shown, SameFrame
<1>4. CASE Shown /\ InArena(n) /\ model' = ApplyDeletion(model, n)
  BY <1>1, <1>4, DeletionIs
<1>5. CASE Shown /\ InArena(n) /\ model' = ChildrenGone(n)
  <2>1. model[n].children \subseteq DOMAIN model \ {Root}
    <3>1. ListsExact(model) /\ Root \in Alive(model) /\ IsTree(model, Len(model))
      BY <1>1, <1>5, TreeFacts DEF TreeOK
    <3>2. /\ DOMAIN model = 1..Len(model) /\ Root \in 1..Len(model) /\ n # 0
          /\ model[Root].parent \in 0..(Root - 1)
      BY <1>1, <1>5, TreeFacts DEF InArena
    <3>3. model[Root].parent = 0
      BY <3>2 DEF Root
    <3>4. \A c \in model[n].children : c \in Alive(model) /\ model[c].parent = n
      <4>1. n \in DOMAIN model
        BY <1>5 DEF InArena
      <4> HIDE DEF n
      <4> QED BY <3>1, <4>1 DEF ListsExact
    <3> QED BY <3>2, <3>3, <3>4 DEF Alive
  <2>2. model' = FoldSet(Forget, model, model[n].children)
    BY <1>5 DEF ChildrenGone
  <2> HIDE DEF n
  <2>3. Pruned(model, model', model[n].children)
    BY <1>1, <1>5, <2>1, <2>2, ClearIs
  <2> QED BY <1>5, <2>3 DEF Pruned
<1>6. model' = model \/ (Shown /\ InArena(n) /\ (model' = ApplyDeletion(model, n) \/ model' = ChildrenGone(n)))
  BY <1>2 DEF Callback, Succeeded, ApplyAndRefresh
<1> QED BY <1>3, <1>4, <1>5, <1>6

\* The dialog's node keeps its entry when a deletion comes back.
LEMMA CallbackVerified ==
    ASSUME ShellInv, VerifiedInv, NEW k \in DOMAIN tasks, Callback(k)
    PROVE  VerifiedInv'
<1>1. /\ disk' = disk /\ changes' = changes /\ job' = job /\ dialog' = dialog
      /\ tasks' = [tasks EXCEPT ![k] = Back(tasks[k])] /\ tasks[k].phase = "ended"
      /\ tasks \in Seq(Task)
  BY DEF Callback, Returned, Back, diskVars, scanVars, ShellInv, ShellTypes
<1>2. /\ DOMAIN tasks' = DOMAIN tasks /\ tasks'[k].phase # "queued"
      /\ \A j \in DOMAIN tasks : j # k => tasks'[j] = tasks[j]
  <2>1. tasks[k] \in Task
    BY <1>1
  <2>2. Back(tasks[k]).phase = "back"
    BY <2>1, BackIs
  <2> QED BY <1>1, <2>2
<1>3. TasksFresh'
  BY <1>1, <1>2 DEF VerifiedInv, TasksFresh
<1>4. /\ Shown' => Shown
      /\ Shown => SameFrame(model, model')
  BY CallbackFrame
<1>5. DialogFresh => DialogFresh'
  <2>1. Shown' /\ InArena(dialog.node)' =>
          /\ Shown /\ InArena(dialog.node)
          /\ PathOf(dialog.node)' = PathOf(dialog.node)
          /\ model'[dialog.node].entry.id = model[dialog.node].entry.id
    BY <1>1, <1>4 DEF SameFrame, InArena, PathOf
  <2> QED BY <1>1, <2>1 DEF DialogFresh
<1> QED BY <1>1, <1>3, <1>5 DEF VerifiedInv

\* One line per action.
LEMMA VerifiedSteps ==
    ASSUME ShellInv, VerifiedInv, [Next]_vars
    PROVE  VerifiedInv'
<1>1. CASE UNCHANGED vars
  BY <1>1, PlainVerified DEF vars, diskVars, scanVars
<1>2. CASE \E p \in Paths : OtherProgram(p)
  BY <1>2, OtherVerified
<1>3. CASE \E r \in Roots : OpenFolder(r)
  <2>1. Roots \subseteq Paths
    BY ShellAssumption
  <2> QED BY <1>3, <2>1, StartVerified DEF OpenFolder
<1>4. CASE Rescan
  <2>1. TreeOK(model) /\ IsPlace(current)
    BY <1>4, PlaceIs DEF Rescan, Free, ShellInv, ModelOK
  <2>2. PathOf(current) \in Paths
    BY <2>1, TreeFacts DEF PathOf, IsPlace, InArena
  <2> QED BY <1>4, <2>2, StartVerified DEF Rescan
<1>5. CASE ScanEnds
  BY <1>5, ScanVerified
<1>6. CASE FinishScan
  BY <1>6, FinishVerified
<1>7. CASE \/ (\E n \in DOMAIN model : NavigateTo(n)) \/ GoParent \/ GoBack \/ GoForward
           \/ (\E f \in Filters : SetFilter(f)) \/ ClearEscape \/ Render
  BY <1>7, PlainVerified DEF NavigateTo, Visit, GoParent, GoBack, GoForward, SetFilter, ClearEscape,
                             Render, diskVars, scanVars
<1>8. CASE \E op \in Ops, n \in DOMAIN model : Confirm(op, n)
  BY <1>8, ConfirmVerified
<1>9. CASE CancelDialog
  <2>1. dialog' = NoDialog /\ disk' = disk /\ changes' = changes /\ tasks' = tasks
    BY <1>9 DEF CancelDialog, diskVars
  <2> QED BY <2>1 DEF VerifiedInv, TasksFresh
<1>10. CASE Accept
  BY <1>10, AcceptVerified
<1>11. CASE \E k \in DOMAIN tasks : Perform(k)
  BY <1>11, PerformVerified
<1>12. CASE \E k \in DOMAIN tasks : Callback(k)
  BY <1>12, CallbackVerified
<1> QED
  BY <1>1, <1>2, <1>3, <1>4, <1>5, <1>6, <1>7, <1>8, <1>9, <1>10, <1>11, <1>12 DEF Next

\* While anything is left under a path, the path is there.
LEMMA TopIsThere ==
    ASSUME NEW d, DiskClosed(d), NEW p \in Paths, NEW q \in Under(p), d[q] # 0
    PROVE  d[p] # 0
<1> DEFINE S == {x \in Paths : x \in Under(p) /\ d[x] # 0 => d[p] # 0}
<1>1. ASSUME NEW x \in Paths, Up[x] \in S \/ Up[x] = NoPath PROVE x \in S
  <2> SUFFICES ASSUME x \in Under(p), d[x] # 0, x # p PROVE d[p] # 0
    BY <1>1
  <2>1. Up[x] # NoPath /\ Up[x] \in Under(p)
    BY UnderIs
  <2>2. d[Up[x]] # 0
    BY <2>1 DEF DiskClosed
  <2> QED BY <1>1, <2>1, <2>2
<1>2. Paths \subseteq S
  <2> HIDE DEF S
  <2> QED BY <1>1, PathInduction
<1>3. q \in Paths
  BY UnderIs
<1> QED BY <1>2, <1>3

\* A deletion that takes something off the disk finds the object that was scanned
\* at its path, unless another program has been at work since that object was
\* last verified; other deletions and new scans are no excuse.
THEOREM DeletionsTakeScanned == Spec => RemovesScanned
<1>1. Init => VerifiedInv
  BY DEF Init, VerifiedInv, TasksFresh
<1>2. ShellInv /\ VerifiedInv /\ [Next]_vars => VerifiedInv'
  BY VerifiedSteps
<1>3. ShellInv /\ VerifiedInv /\ [Next]_vars =>
        [\A k \in DOMAIN tasks :
          tasks[k].phase = "queued" /\ tasks'[k].touched =>
             disk[tasks[k].path] = tasks[k].expect \/ changes > tasks[k].since]_vars
  <2> SUFFICES ASSUME ShellInv, VerifiedInv, Next, NEW k \in DOMAIN tasks,
                      tasks[k].phase = "queued", tasks'[k].touched
               PROVE  disk[tasks[k].path] = tasks[k].expect \/ changes > tasks[k].since
    OBVIOUS
  <2>1. tasks \in Seq(Task) /\ tasks[k] \in Task /\ changes \in Nat /\ DiskClosed(disk)
    BY DEF ShellInv, ShellTypes
  <2>2. ~ tasks[k].touched
    BY DEF ShellInv, TasksOK, TaskOK
  <2>3. tasks[k].since \in Nat /\ tasks[k].path \in Paths
    BY <2>1 DEF Task
  <2>4. TaskFresh(tasks[k], disk, changes)
    BY DEF VerifiedInv, TasksFresh
  <2>5. tasks'[k] # tasks[k]
    BY <2>2
  <2>6. ASSUME Accept PROVE FALSE
    <3>1. tasks' # tasks
      BY <2>5
    <3>2. \E x : tasks' = Append(tasks, x)
      BY <2>6, <3>1 DEF Accept
    <3> QED BY <2>1, <2>5, <3>2
  <2>7. ASSUME NEW j \in DOMAIN tasks, Callback(j) PROVE FALSE
    <3>1. tasks[j].phase = "ended" /\ tasks' = [tasks EXCEPT ![j] = Back(tasks[j])]
      BY <2>7 DEF Callback, Returned, Back
    <3>2. j # k
      BY <3>1
    <3> QED BY <2>1, <2>5, <3>1, <3>2
  <2>8. ASSUME NEW j \in DOMAIN tasks, Perform(j)
        PROVE  disk[tasks[k].path] # 0
    <3>1. PICK lost \in SUBSET Doomed(tasks[j]), ok \in BOOLEAN :
            tasks' = [tasks EXCEPT ![j] = Ended(tasks[j], ok, lost # {})]
      BY <2>8 DEF Perform, Ended
    <3>2. j = k
      BY <2>1, <2>5, <3>1
    <3>3. lost # {}
      <4>1. Ended(tasks[k], ok, lost # {}).touched = (lost # {})
        <5>1. (lost # {}) \in BOOLEAN
          OBVIOUS
        <5> QED BY <2>1, <5>1, EndedIs
      <4>2. tasks'[k] = Ended(tasks[k], ok, lost # {})
        BY <2>1, <3>1, <3>2
      <4> QED BY <4>1, <4>2
    <3>4. PICK q \in lost : q \in Under(tasks[k].path) /\ disk[q] # 0
      BY <3>2, <3>3 DEF Doomed
    <3> QED BY <2>1, <2>3, <3>4, TopIsThere
  <2>9. \/ (\E j \in DOMAIN tasks : Perform(j)) \/ (\E j \in DOMAIN tasks : Callback(j)) \/ Accept
        \/ tasks' = tasks
    BY DEF Next, OtherProgram, OpenFolder, StartScan, Rescan, ScanEnds, FinishScan, NavigateTo,
           Visit, GoParent, GoBack, GoForward, SetFilter, ClearEscape, Render, Confirm, CancelDialog
  <2>10. disk[tasks[k].path] # 0
    BY <2>5, <2>6, <2>7, <2>8, <2>9
  <2> QED BY <2>1, <2>3, <2>4, <2>10 DEF TaskFresh
<1> QED BY ShellInvariant, <1>1, <1>2, <1>3, PTL DEF Spec, RemovesScanned

-----------------------------------------------------------------------------
(* What holds while the user has no way back into a deleted directory.     *)

\* Neither the history nor the clearing of a directory is used.
NoWayBack == "clear" \notin Ops /\ Keys \intersect {"back", "forward"} = {}

\* The walk out of what was deleted ends at once, in a live directory.
LEMMA LandingIs ==
    ASSUME NEW t, TreeOK(t), NEW n \in DOMAIN t, NEW c \in Alive(t),
           c \notin Alive(ApplyDeletion(t, n))
    PROVE  t[n].parent # 0 /\ t[n].parent \in Alive(ApplyDeletion(t, n))
<1>1. /\ Len(t) \in Nat /\ DOMAIN t = 1..Len(t) /\ IsTree(t, Len(t))
      /\ \A i \in 1..Len(t) : t[i].parent \in 0..(i - 1) /\ (i # Root => t[i].parent # 0)
  BY TreeFacts
<1>2. n # Root /\ Alive(ApplyDeletion(t, n)) = Alive(t) \ Subtree(t, n)
  BY DeletionIs
<1>3. n \in Alive(t)
  <2>1. \A i \in Alive(t) : Ancestors(t, i) \subseteq Alive(t)
    BY <1>1, AncestorsAlive DEF TreeOK
  <2>2. c \in Subtree(t, n)
    BY <1>2
  <2> QED BY <2>1, <2>2 DEF Subtree
<1>4. t[n].parent # 0 /\ t[n].parent \in Alive(t)
  BY <1>1, <1>2, <1>3 DEF TreeOK, ListsExact
<1>5. t[n].parent \notin Subtree(t, n)
  <2>1. t[n].parent \in 1..(n - 1) /\ t[n].parent \in 1..Len(t)
    BY <1>1, <1>4
  <2>2. Ancestors(t, t[n].parent) \subseteq 1..(t[n].parent - 1)
    BY <1>1, <2>1, AncestorsBelow
  <2> QED BY <1>1, <2>1, <2>2 DEF Subtree
<1> QED BY <1>2, <1>4, <1>5

\* Nobody comes to stand in a deleted directory, and no walk goes on for ever.
LEMMA CurrentSteps ==
    ASSUME NoWayBack, ShellInv, CurrentAlive, SurvivorReached, [Next]_vars
    PROVE  CurrentAlive' /\ SurvivorReached'
<1>1. CASE /\ model' = model /\ current' = current
           /\ status' \in {status, "crashed"}
  BY <1>1 DEF CurrentAlive, SurvivorReached, Shown, Gone
<1>2. CASE \E n : Visit(n)
  BY <1>2 DEF Visit, SetCurrentDir, CurrentAlive, SurvivorReached, Shown, Gone
<1>3. CASE \E r : StartScan(r)
  BY <1>3 DEF StartScan, CurrentAlive, SurvivorReached, Shown
<1>4. CASE FinishScan /\ job.phase = "sent"
  <2>1. model' = job.arena /\ current' = Root /\ status' = status
    BY <1>4 DEF FinishScan
  <2>2. TreeOK(model') /\ Alive(model') = DOMAIN model'
    BY <1>4, <2>1 DEF ShellInv, JobOK
  <2>3. Root \in Alive(model')
    BY <2>2 DEF TreeOK
  <2> QED BY <2>1, <2>3 DEF CurrentAlive, SurvivorReached, Gone, Alive
<1>5. CASE \E k \in DOMAIN tasks : Callback(k) /\ InArena(tasks[k].node) /\ tasks[k].ok
  <2>1. PICK k \in DOMAIN tasks : Callback(k) /\ InArena(tasks[k].node) /\ tasks[k].ok
    BY <1>5
  <2> DEFINE n == tasks[k].node
             m == ApplyDeletion(model, n)
             parent == model[n].parent
  <2>2. tasks[k].op # "clear"
    <3>1. tasks[k] \in Task
      BY DEF ShellInv, ShellTypes
    <3> QED BY <3>1 DEF Task, NoWayBack
  <2>3. Shown /\ TreeOK(model)
    BY <2>1 DEF InArena, Shown, NoModel, ShellInv, ModelOK
  <2>4. /\ model' = m /\ current' = Landing(m, parent)
        /\ status' = IF LoopsForever(m, parent) THEN "hung" ELSE status
    BY <2>1, <2>2, <2>3 DEF Callback, Succeeded, ApplyAndRefresh
  <2>5. current \in Alive(model) /\ n \in DOMAIN model
    BY <2>1, <2>3, PlaceIs DEF CurrentAlive, Gone, Alive, IsPlace, InArena
  <2>6. current \notin Alive(m) => parent # 0 /\ parent \in Alive(m)
    BY <2>3, <2>5, LandingIs
  <2> HIDE DEF m, parent
  <2>7. current' \in Alive(m) /\ ~ LoopsForever(m, parent)
    BY <2>4, <2>6 DEF Landing, LoopsForever
  <2> QED BY <2>4, <2>7 DEF CurrentAlive, SurvivorReached, Gone, Alive
<1>6. CASE \E k \in DOMAIN tasks : Callback(k) /\ ~ (InArena(tasks[k].node) /\ tasks[k].ok)
  <2>1. model' = model /\ current' = current /\ status' \in {status, "crashed"}
    BY <1>6 DEF Callback, Succeeded
  <2> QED BY <1>1, <2>1
<1>7. CASE UNCHANGED vars
  BY <1>1, <1>7 DEF vars, placeVars
<1>8. CASE \/ (\E f \in Filters : SetFilter(f)) \/ ClearEscape \/ Render
           \/ (\E op \in Ops, n \in DOMAIN model : Confirm(op, n)) \/ CancelDialog
  BY <1>1, <1>8 DEF SetFilter, ClearEscape, Render, Confirm, CancelDialog, placeVars
<1>9. CASE \/ (\E p \in Paths : OtherProgram(p)) \/ ScanEnds \/ Accept
           \/ (\E k \in DOMAIN tasks : Perform(k))
  BY <1>1, <1>9 DEF OtherProgram, ScanEnds, Accept, Perform, placeVars
<1>10. CASE FinishScan /\ job.phase # "sent"
  BY <1>1, <1>10 DEF FinishScan
<1>11. ~ GoBack /\ ~ GoForward
  BY DEF GoBack, GoForward, NoWayBack
<1>12. CASE (\E r \in Roots : OpenFolder(r)) \/ Rescan
  BY <1>3, <1>12 DEF OpenFolder, Rescan
<1>13. CASE (\E n \in DOMAIN model : NavigateTo(n)) \/ GoParent
  BY <1>2, <1>13 DEF NavigateTo, GoParent
<1> QED
  BY <1>4, <1>5, <1>6, <1>7, <1>8, <1>9, <1>10, <1>11, <1>12, <1>13 DEF Next

\* The directory the user stands in is never a deleted one, unless he goes back
\* in the history or a directory is cleared.
THEOREM CurrentStaysAlive ==
    ASSUME NoWayBack
    PROVE  Spec => []CurrentAlive
<1>1. Init => CurrentAlive /\ SurvivorReached
  BY DEF Init, CurrentAlive, SurvivorReached, Shown
<1>2. ShellInv /\ (CurrentAlive /\ SurvivorReached) /\ [Next]_vars
        => (CurrentAlive /\ SurvivorReached)'
  BY CurrentSteps
<1> QED BY ShellInvariant, <1>1, <1>2, PTL DEF Spec

\* Under the same condition the walk to the nearest surviving ancestor ends.
THEOREM WalkEnds ==
    ASSUME NoWayBack
    PROVE  Spec => []SurvivorReached
<1>1. Init => CurrentAlive /\ SurvivorReached
  BY DEF Init, CurrentAlive, SurvivorReached, Shown
<1>2. ShellInv /\ (CurrentAlive /\ SurvivorReached) /\ [Next]_vars
        => (CurrentAlive /\ SurvivorReached)'
  BY CurrentSteps
<1> QED BY ShellInvariant, <1>1, <1>2, PTL DEF Spec

-----------------------------------------------------------------------------
(* The treemap of the first scan.                                          *)

\* Every change of what the treemap shows raises its version.
AllBump == "clear" \notin Ops /\ "escape" \notin Keys

\* Until there is a model, nothing was ever computed.
CacheOK ==
    /\ cache = [items |-> cache.items, valid |-> cache.valid]
    /\ cache.valid => Shown
    /\ Shown \/ job.phase # "none" => scans # 0

\* While the first scan is shown.
FirstCurrent == scans <= 1 => CacheOK /\ TreemapCurrent

\* Each step that changes the directory, the filter or the tree drops the cache.
LEMMA CacheSteps ==
    ASSUME AllBump, ShellInv, FirstCurrent, [Next]_vars
    PROVE  FirstCurrent'
<1>0. scans \in Nat
  BY DEF ShellInv, ShellTypes
<1>1. CASE /\ model' = model /\ current' = current /\ filter' = filter /\ scans' = scans
           /\ cache' = cache /\ (job'.phase # "none" => job.phase # "none")
  BY <1>1 DEF FirstCurrent, CacheOK, TreemapCurrent, Shown, FreshItems, Passing, PathOf
<1>2. CASE /\ cache' = Bumped /\ scans' = scans /\ job' = job /\ Shown' = Shown
  <2> SUFFICES ASSUME scans <= 1 PROVE CacheOK' /\ TreemapCurrent'
    BY <1>2 DEF FirstCurrent
  <2>1. CacheOK
    BY DEF FirstCurrent
  <2>2. cache' = [items |-> cache.items, valid |-> FALSE]
    BY <1>2, <2>1 DEF CacheOK, Bumped
  <2>3. cache' = [items |-> cache'.items, valid |-> cache'.valid] /\ ~ cache'.valid
    BY <2>2
  <2> QED BY <1>2, <2>1, <2>3 DEF CacheOK, TreemapCurrent
<1>3. CASE \E r : StartScan(r)
  <2> SUFFICES ASSUME scans' <= 1 PROVE CacheOK' /\ TreemapCurrent'
    BY DEF FirstCurrent
  <2>1. scans' = scans + 1 /\ cache' = cache /\ model' = NoModel
    BY <1>3 DEF StartScan
  <2>2. scans = 0 /\ CacheOK
    BY <1>0, <2>1 DEF FirstCurrent
  <2>3. ~ cache.valid /\ scans' # 0 /\ ~ Shown'
    BY <2>1, <2>2 DEF CacheOK, Shown
  <2> QED BY <2>1, <2>2, <2>3 DEF CacheOK, TreemapCurrent
<1>4. CASE FinishScan
  <2> SUFFICES ASSUME scans <= 1 PROVE CacheOK' /\ TreemapCurrent'
    BY <1>4 DEF FirstCurrent, FinishScan
  <2>1. cache' = cache /\ scans' = scans /\ CacheOK
    BY <1>4 DEF FinishScan, FirstCurrent
  <2>2. job.phase # "none" /\ ~ Shown
    BY <1>4 DEF FinishScan, ShellInv, JobOK
  <2> QED BY <2>1, <2>2 DEF CacheOK, TreemapCurrent
<1>5. CASE Render
  <2>1. /\ model' = model /\ current' = current /\ filter' = filter /\ scans' = scans /\ job' = job
        /\ Shown /\ (cache' = cache \/ cache' = [items |-> FreshItems, valid |-> TRUE])
    BY <1>5 DEF Render, placeVars, scanVars
  <2>2. CASE cache' = cache
    BY <1>1, <2>1, <2>2
  <2>3. CASE cache' = [items |-> FreshItems, valid |-> TRUE]
    <3>1. FreshItems' = FreshItems /\ Shown'
      BY <2>1 DEF FreshItems, Passing, PathOf, Shown
    <3>2. cache'.items = FreshItems /\ cache' = [items |-> cache'.items, valid |-> cache'.valid]
      BY <2>3
    <3> QED BY <2>1, <3>1, <3>2 DEF FirstCurrent, CacheOK, TreemapCurrent
  <2> QED BY <2>1, <2>2, <2>3
<1>6. CASE \E k \in DOMAIN tasks : Callback(k)
  <2>1. PICK k \in DOMAIN tasks : Callback(k)
    BY <1>6
  <2>2. tasks[k].op # "clear"
    <3>1. tasks[k] \in Task
      BY DEF ShellInv, ShellTypes
    <3> QED BY <3>1 DEF Task, AllBump
  <2>3. scans' = scans /\ job' = job /\ filter' = filter
    BY <2>1 DEF Callback, scanVars
  <2>4. CASE ApplyAndRefresh(tasks[k].node) /\ InArena(tasks[k].node)
    <3>1. cache' = Bumped /\ model' = ApplyDeletion(model, tasks[k].node)
      BY <2>4 DEF ApplyAndRefresh
    <3>2. Shown /\ TreeOK(model)
      BY <2>4 DEF InArena, Shown, NoModel, ShellInv, ModelOK
    <3>3. TreeOK(model')
      BY <3>1, <3>2, DeletionIs
    <3>4. Shown' = Shown
      BY <3>2, <3>3 DEF Shown, NoModel, TreeOK, Placed
    <3> QED BY <1>2, <2>3, <3>1, <3>4
  <2>5. CASE model' = model /\ current' = current /\ cache' = cache
    BY <1>1, <2>3, <2>5
  <2> QED BY <2>1, <2>2, <2>4, <2>5 DEF Callback, Succeeded
<1>7. CASE \E n : SetCurrentDir(n) /\ UNCHANGED <<scanVars, model>>
  BY <1>2, <1>7 DEF SetCurrentDir, scanVars, Shown
<1>8. CASE \E f \in Filters : SetFilter(f)
  BY <1>2, <1>8 DEF SetFilter, scanVars, Shown
<1>9. CASE UNCHANGED vars
  BY <1>1, <1>9 DEF vars, placeVars, scanVars
<1>10. CASE \/ (\E p \in Paths : OtherProgram(p)) \/ ScanEnds \/ Accept \/ CancelDialog
            \/ (\E k \in DOMAIN tasks : Perform(k))
            \/ (\E op \in Ops, n \in DOMAIN model : Confirm(op, n))
  BY <1>1, <1>10 DEF OtherProgram, ScanEnds, Accept, CancelDialog, Perform, Confirm, placeVars, scanVars
<1>11. ~ ClearEscape
  BY DEF ClearEscape, AllBump
<1>12. CASE (\E r \in Roots : OpenFolder(r)) \/ Rescan
  BY <1>3, <1>12 DEF OpenFolder, Rescan
<1>13. CASE (\E n \in DOMAIN model : NavigateTo(n)) \/ GoParent \/ GoBack \/ GoForward
  BY <1>7, <1>13 DEF NavigateTo, GoParent, GoBack, GoForward, Visit
<1> QED
  BY <1>4, <1>5, <1>6, <1>8, <1>9, <1>10, <1>11, <1>12, <1>13 DEF Next

\* As long as the first scan is shown, no directory is cleared and the filter is
\* not dropped by the escape key, the tiles are what a fresh computation gives.
THEOREM TreemapStaysCurrent ==
    ASSUME AllBump
    PROVE  Spec => [](scans <= 1 => TreemapCurrent)
<1>1. Init => FirstCurrent
  <2> SUFFICES ASSUME Init PROVE CacheOK /\ TreemapCurrent
    BY DEF FirstCurrent
  <2>1. cache = [items |-> <<>>, valid |-> FALSE] /\ ~ Shown /\ job = IdleJob
    BY DEF Init, Shown
  <2>2. cache = [items |-> cache.items, valid |-> cache.valid] /\ ~ cache.valid
    BY <2>1
  <2>3. job.phase = "none"
    BY <2>1 DEF IdleJob
  <2> QED BY <2>1, <2>2, <2>3 DEF CacheOK, TreemapCurrent
<1>2. ShellInv /\ FirstCurrent /\ [Next]_vars => FirstCurrent'
  BY CacheSteps
<1>3. FirstCurrent => (scans <= 1 => TreemapCurrent)
  BY DEF FirstCurrent
<1> QED BY ShellInvariant, <1>1, <1>2, <1>3, PTL DEF Spec
-----------------------------------------------------------------------------
(* A tree by itself, under any deletions (module ModelDeletions).          *)
(*                                                                         *)
(* The inductive invariant is Sound: the totals of a tree cannot be kept   *)
(* exact by themselves, a deletion relies on the child lists to find what  *)
(* it detaches.                                                            *)

\* What every tree has between two deletions.
Sound(t) == t # <<>> /\ IsArena(t, Nat) /\ ListsExact(t) /\ AggregatesExact(t)

-----------------------------------------------------------------------------
(* The initial trees.                                                      *)

\* A node of a built tree, written out.
BuiltNode(i, p, kind, size) ==
    Made(IF i = Root THEN Root ELSE i, IF i = Root THEN 0 ELSE p[i],
         IF i = Root THEN "dir" ELSE kind[i], IF i = Root THEN 0 ELSE size[i],
         IF i = Root THEN 0 ELSE size[i],
         IF i # Root /\ kind[i] = "file" THEN 1 ELSE 0,
         IF i # Root /\ kind[i] = "dir" THEN 1 ELSE 0,
         {c \in DOMAIN p : p[c] = i}, {})

\* Build makes these nodes.
LEMMA BuildNodes ==
    ASSUME NEW n, n \in Nat \ {0}, NEW p, p \in Shapes(n), NEW kind, NEW size
    PROVE  /\ DOMAIN Build(p, kind, size) = 1..n
           /\ Build(p, kind, size) = [i \in 1..n |-> Build(p, kind, size)[i]]
           /\ \A i \in 1..n : Build(p, kind, size)[i] = BuiltNode(i, p, kind, size)
<1>1. DOMAIN p = 1..n
  BY DEF Shapes
<1> DEFINE base(i) == IF i = Root THEN RootNode(Root) ELSE Node(i, p[i], kind[i], size[i], {})
           b == Build(p, kind, size)
           kids(i) == {c \in DOMAIN p : p[c] = i}
<1>2. b = [i \in 1..n |-> [base(i) EXCEPT !.children = kids(i)]]
  BY <1>1 DEF Build
<1>3. ASSUME NEW i \in 1..n PROVE b[i] = BuiltNode(i, p, kind, size)
  <2> DEFINE K == kids(i)
             q == Node(Root, 0, "dir", 0, {})
  <2>1. b[i] = [base(i) EXCEPT !.children = K]
    BY <1>2
  <2> HIDE DEF K, b
  <2>2. CASE i = Root
    <3>1. q = [entry |-> Root, parent |-> 0, kind |-> "dir", own |-> 0, agg |-> 0,
               files |-> 0, dirs |-> 1, children |-> {}, flags |-> {}]
      BY DEF Node
    <3>2. base(i) = [q EXCEPT !.dirs = 0]
      BY <2>2 DEF RootNode
    <3> HIDE DEF q, base
    <3>3. base(i) = [entry |-> Root, parent |-> 0, kind |-> "dir", own |-> 0, agg |-> 0,
                     files |-> 0, dirs |-> 0, children |-> {}, flags |-> {}]
      BY <3>1, <3>2
    <3>4. b[i] = Made(Root, 0, "dir", 0, 0, 0, 0, K, {})
      BY <2>1, <3>3 DEF Made
    <3> QED BY <2>2, <3>4 DEF BuiltNode, K
  <2>3. CASE i # Root
    <3>1. base(i) = [entry |-> i, parent |-> p[i], kind |-> kind[i], own |-> size[i],
                     agg |-> size[i], files |-> IF kind[i] = "file" THEN 1 ELSE 0,
                     dirs |-> IF kind[i] = "dir" THEN 1 ELSE 0, children |-> {}, flags |-> {}]
      BY <2>3 DEF Node
    <3> HIDE DEF base
    <3>2. b[i] = Made(i, p[i], kind[i], size[i], size[i],
                      IF kind[i] = "file" THEN 1 ELSE 0, IF kind[i] = "dir" THEN 1 ELSE 0, K, {})
      BY <2>1, <3>1 DEF Made
    <3> QED BY <2>3, <3>2 DEF BuiltNode, K
  <2> QED BY <2>2, <2>3
<1> HIDE DEF base, kids
<1>4. DOMAIN b = 1..n /\ b = [i \in 1..n |-> b[i]]
  BY <1>2
<1> QED BY <1>3, <1>4 DEF b

\* A built tree is fresh, and its child lists are exact.
LEMMA BuildFresh ==
    ASSUME NEW n, n \in Nat \ {0}, NEW p, p \in Shapes(n),
           NEW kind, kind \in [1..n -> {"dir", "file"}], NEW size, size \in [1..n -> Nat]
    PROVE  IsFresh(Build(p, kind, size), Nat) /\ ListsExact(Build(p, kind, size))
<1> DEFINE b == Build(p, kind, size)
<1>1. /\ DOMAIN b = 1..n
      /\ b = [i \in 1..n |-> b[i]]
      /\ \A i \in 1..n : b[i] = BuiltNode(i, p, kind, size)
  BY BuildNodes
<1> HIDE DEF b
<1>2. /\ p \in [1..n -> 0..(n - 1)] /\ DOMAIN p = 1..n /\ p[Root] = 0
      /\ \A i \in 2..n : p[i] \in 1..(i - 1)
  BY DEF Shapes
<1>3. ASSUME NEW i \in 1..n
      PROVE  /\ b[i].parent = p[i] /\ b[i].parent \in 0..(i - 1)
             /\ i # Root => b[i].parent # 0
             /\ b[i].children = {c \in 1..n : p[c] = i} /\ b[i].flags = {}
             /\ b[i].agg = b[i].own
             /\ b[i].files = IF b[i].kind = "file" THEN 1 ELSE 0
             /\ b[i].dirs = IF b[i].kind = "dir" /\ i # Root THEN 1 ELSE 0
             /\ b[i] \in NodeType(Nat)
  <2> DEFINE K == {c \in 1..n : p[c] = i}
  <2>0. b[i] = BuiltNode(i, p, kind, size)
    BY <1>1
  <2>1. K \in SUBSET Nat /\ {} \in SUBSET {"boundary", "unreadable", "shared", "tombstoned"}
    OBVIOUS
  <2>2. CASE i = Root
    <3>1. b[i] = Made(Root, 0, "dir", 0, 0, 0, 0, K, {})
      BY <1>2, <2>0, <2>2 DEF BuiltNode
    <3> HIDE DEF K
    <3>2. b[i] \in NodeType(Nat)
      BY <2>1, <3>1 DEF Made, NodeType, Root
    <3>3. /\ b[i].parent = 0 /\ b[i].children = K /\ b[i].flags = {} /\ b[i].agg = 0
          /\ b[i].own = 0 /\ b[i].files = 0 /\ b[i].dirs = 0 /\ b[i].kind = "dir"
      BY <3>1 DEF Made
    <3> QED BY <1>2, <2>2, <3>2, <3>3 DEF K
  <2>3. CASE i # Root
    <3>1. b[i] = Made(i, p[i], kind[i], size[i], size[i],
                      IF kind[i] = "file" THEN 1 ELSE 0, IF kind[i] = "dir" THEN 1 ELSE 0, K, {})
      BY <1>2, <2>0, <2>3 DEF BuiltNode
    <3>2. p[i] \in 1..(i - 1) /\ p[i] \in Nat /\ kind[i] \in {"dir", "file"} /\ size[i] \in Nat
      BY <1>2, <2>3 DEF Root
    <3> HIDE DEF K
    <3>3. /\ b[i].parent = p[i] /\ b[i].children = K /\ b[i].flags = {} /\ b[i].agg = size[i]
          /\ b[i].own = size[i] /\ b[i].files = (IF kind[i] = "file" THEN 1 ELSE 0)
          /\ b[i].dirs = (IF kind[i] = "dir" THEN 1 ELSE 0) /\ b[i].kind = kind[i]
      BY <3>1 DEF Made
    <3>4. b[i] \in NodeType(Nat)
      BY <2>1, <3>1, <3>2 DEF Made, NodeType
    <3> QED BY <2>3, <3>2, <3>3, <3>4 DEF K
  <2> QED BY <2>2, <2>3
<1>4. b \in Seq(NodeType(Nat)) /\ Len(b) = n
  <2>1. \A i \in 1..n : b[i] \in NodeType(Nat)
    BY <1>3
  <2>2. b = [i \in 1..n |-> b[i]] /\ n \in Nat
    BY <1>1
  <2> QED BY <2>1, <2>2
<1>5. IsArena(b, Nat)
  BY <1>1, <1>3, <1>4 DEF IsArena, IsTree
<1>6. Alive(b) = 1..n
  BY <1>1, <1>3 DEF Alive
<1>7. IsFresh(b, Nat)
  <2>1. b # <<>>
    BY <1>4
  <2> QED BY <1>1, <1>3, <1>5, <2>1 DEF IsFresh
<1>8. ListsExact(b)
  <2>1. ASSUME NEW i \in 1..n
        PROVE  /\ b[i].parent # 0 => b[i].parent \in 1..n
               /\ b[i].children = {c \in 1..n : b[c].parent = i}
    <3>1. \A c \in 1..n : b[c].parent = p[c]
      BY <1>3
    <3>2. b[i].parent \in 0..(i - 1) /\ b[i].children = {c \in 1..n : p[c] = i}
      BY <1>3
    <3> QED BY <3>1, <3>2
  <2> QED BY <1>1, <1>6, <2>1 DEF ListsExact
<1> QED BY <1>7, <1>8 DEF b

\* The same nodes have the same child lists.
LEMMA ListsSame ==
    ASSUME NEW t, NEW s, SameNodes(t, s), ListsExact(t)
    PROVE  ListsExact(s)
<1>1. Alive(s) = Alive(t)
  BY DEF SameNodes, Alive
<1>2. \A c \in Alive(t) : s[c].parent = t[c].parent
  BY DEF SameNodes, Alive
<1> QED BY <1>1, <1>2 DEF ListsExact, SameNodes

\* The scanner hands over sound trees.
LEMMA InitSound == DeletionInit => Sound(tree)
<1> SUFFICES ASSUME DeletionInit PROVE Sound(tree)
  OBVIOUS
<1>1. PICK n \in 1..MaxNodes : \E p \in Shapes(n), k \in [1..n -> {"dir", "file"}],
                                   s \in [1..n -> Sizes] : tree = Aggregate(Build(p, k, s))
  BY DEF DeletionInit, Trees
<1>2. PICK p \in Shapes(n), k \in [1..n -> {"dir", "file"}], s \in [1..n -> Sizes] :
         tree = Aggregate(Build(p, k, s))
  BY <1>1
<1>3. n \in Nat \ {0} /\ s \in [1..n -> Nat]
  <2>1. MaxNodes \in Nat /\ Sizes \subseteq Nat
    BY DeletionsAssumption DEF DeletionsAssumption
  <2>2. n \in Nat \ {0}
    BY <2>1
  <2> QED BY <2>1, <2>2
<1> DEFINE b == Build(p, k, s)
<1>4. IsFresh(b, Nat) /\ ListsExact(b)
  BY <1>3, BuildFresh
<1> HIDE DEF b
<1>5. IsArena(Aggregate(b), Nat) /\ SameNodes(b, Aggregate(b)) /\ AggregatesExact(Aggregate(b))
  BY <1>4, AggregateExact
<1>6. Aggregate(b) # <<>>
  <2>1. DOMAIN b = 1..Len(b) /\ Len(b) \in Nat /\ b # <<>>
    BY <1>4, ArenaFacts DEF IsFresh
  <2>2. Len(b) # 0
    BY <1>4, <2>1 DEF IsFresh, IsArena
  <2>3. 1 \in DOMAIN Aggregate(b)
    BY <1>5, <2>1, <2>2 DEF SameNodes
  <2> QED BY <2>3
<1> QED BY <1>2, <1>4, <1>5, <1>6, ListsSame DEF Sound, b

-----------------------------------------------------------------------------
(* The steps.                                                              *)

\* A deletion leaves a sound tree.
LEMMA DeleteSound ==
    ASSUME Sound(tree), NEW target, Delete(target)
    PROVE  Sound(tree)'
<1>1. CASE ~CanDelete(tree, target)
  <2>1. tree' = tree
    BY <1>1 DEF Delete, ApplyDeletion
  <2> QED BY <2>1
<1>2. CASE CanDelete(tree, target)
  <2> DEFINE r == ApplyDeletion(tree, target)
  <2>1. IsArena(r, Nat) /\ ListsExact(r) /\ AggregatesExact(r) /\ DOMAIN r = DOMAIN tree
    <3>1. IsArena(tree, Nat) /\ ListsExact(tree) /\ AggregatesExact(tree)
      BY DEF Sound
    <3>2. DOMAIN r = DOMAIN tree
      BY <1>2, <3>1, DeletionNodes
    <3> QED BY <1>2, <3>1, <3>2, DeletionFacts, DeletionLists, DeletionAggregates
  <2>2. r # <<>>
    <3>1. target \in DOMAIN r
      BY <1>2, <2>1 DEF CanDelete
    <3> QED BY <3>1
  <2> HIDE DEF r
  <2>3. Sound(r)
    BY <2>1, <2>2 DEF Sound
  <2>4. tree' = r
    BY DEF Delete, r
  <2> QED BY <2>3, <2>4
<1> QED BY <1>1, <1>2

\* Sound holds of every reachable tree.
THEOREM TreeStaysSound == DeletionSpec => []Sound(tree)
<1>1. DeletionInit => Sound(tree)
  BY InitSound
<1>2. Sound(tree) /\ [DeletionNext]_tree => Sound(tree)'
  <2>1. CASE UNCHANGED tree
    BY <2>1
  <2>2. CASE DeletionNext
    BY <2>2, DeleteSound DEF DeletionNext
  <2> QED BY <2>1, <2>2
<1> QED BY <1>1, <1>2, PTL DEF DeletionSpec

\* After any number of apply_deletion calls, on any ids, the totals of every live
\* node are those of what is left below it.
THEOREM DeletionsAggregated == DeletionSpec => []AlwaysAggregated
<1>1. Sound(tree) => AlwaysAggregated
  BY DEF Sound, AlwaysAggregated
<1> QED BY <1>1, TreeStaysSound, PTL

\* Nothing below a tombstone is alive, and the child lists show exactly what is.
THEOREM DeletionsClosed == DeletionSpec => []TombstonesClosed
<1>1. Sound(tree) => TombstonesClosed
  BY DEF Sound, TombstonesClosed
<1> QED BY <1>1, TreeStaysSound, PTL

\* The numbers of node j are no larger than those of node i.
Fits(t, i, j) ==
    /\ t[i].agg \in Nat /\ t[j].agg \in Nat /\ t[j].agg <= t[i].agg
    /\ t[i].files \in Nat /\ t[j].files \in Nat /\ t[j].files <= t[i].files
    /\ t[i].dirs \in Nat /\ t[j].dirs \in Nat /\ t[j].dirs <= t[i].dirs

\* The totals of a part are no larger than those of the whole.
LEMMA PartFits ==
    ASSUME NEW t, NEW n, IsSized(t, n),
           NEW S, S \subseteq 1..n, NEW G, G \subseteq S,
           NEW i, NEW j, Totals(t, i, S), Totals(t, j, G)
    PROVE  Fits(t, i, j)
<1>1. IsFiniteSet(1..n)
  BY FS_Interval DEF IsSized
<1>2. /\ IsFiniteSet(S) /\ IsFiniteSet(G) /\ IsFiniteSet(S \ G)
      /\ IsFiniteSet(FilesIn(t, S)) /\ IsFiniteSet(DirsIn(t, S))
  BY <1>1, FS_Subset DEF FilesIn, DirsIn
<1>3. \A x \in 1..n : Own(t)[x] \in Nat
  BY DEF Own, IsSized
<1>4. t[i].agg \in Nat /\ t[j].agg \in Nat /\ t[j].agg <= t[i].agg
  <2>1. /\ SumFunctionOnSet(Own(t), S) \in Nat
        /\ SumFunctionOnSet(Own(t), G) \in Nat
        /\ SumFunctionOnSet(Own(t), S \ G) \in Nat
    BY <1>2, <1>3, SumType
  <2>2. SumFunctionOnSet(Own(t), S \ G)
          = SumFunctionOnSet(Own(t), S) - SumFunctionOnSet(Own(t), G)
    <3>1. \A x \in S : Own(t)[x] \in Int
      BY <1>3
    <3> QED BY <1>2, <3>1, SumSplit
  <2> DEFINE a == SumFunctionOnSet(Own(t), S)
             b == SumFunctionOnSet(Own(t), G)
             c == SumFunctionOnSet(Own(t), S \ G)
  <2>3. a \in Nat /\ b \in Nat /\ c \in Nat /\ c = a - b /\ t[i].agg = a /\ t[j].agg = b
    BY <2>1, <2>2 DEF Totals
  <2> HIDE DEF a, b, c
  <2> QED BY <2>3
<1>5. t[i].files \in Nat /\ t[j].files \in Nat /\ t[j].files <= t[i].files
  <2>1. FilesIn(t, G) \subseteq FilesIn(t, S)
    BY DEF FilesIn
  <2> QED BY <1>2, <2>1, FS_Subset, FS_CardinalityType DEF Totals
<1>6. t[i].dirs \in Nat /\ t[j].dirs \in Nat /\ t[j].dirs <= t[i].dirs
  <2>1. DirsIn(t, G) \subseteq DirsIn(t, S)
    BY DEF DirsIn
  <2> QED BY <1>2, <2>1, FS_Subset, FS_CardinalityType DEF Totals
<1> QED BY <1>4, <1>5, <1>6 DEF Fits

\* A node with other totals and children, written out.
LEMMA SetTotals ==
    ASSUME NEW E, NEW r, r \in NodeType(E), NEW x, NEW y, NEW z, NEW C
    PROVE  [r EXCEPT !.agg = x, !.files = y, !.dirs = z, !.children = C] =
              Made(r.entry, r.parent, r.kind, r.own, x, y, z, C, r.flags)
<1> DEFINE o == [r EXCEPT !.agg = x]
           q == [o EXCEPT !.files = y]
           v == [q EXCEPT !.dirs = z]
<1>1. o = Made(r.entry, r.parent, r.kind, r.own, x, r.files, r.dirs, r.children, r.flags)
  BY DEF NodeType, Made
<1> HIDE DEF o
<1>2. q = Made(r.entry, r.parent, r.kind, r.own, x, y, r.dirs, r.children, r.flags)
  BY <1>1 DEF Made
<1> HIDE DEF q
<1>3. v = Made(r.entry, r.parent, r.kind, r.own, x, y, z, r.children, r.flags)
  BY <1>2 DEF Made
<1> HIDE DEF v
<1>4. [v EXCEPT !.children = C] = Made(r.entry, r.parent, r.kind, r.own, x, y, z, C, r.flags)
  BY <1>3 DEF Made
<1> QED BY <1>4 DEF o, q, v

\* The nodes that are left: the ancestors of the target have lost what it had, in
\* full, since the clamp never bites; the others are as they were.
LEMMA OthersLose ==
    ASSUME NEW t, Sound(t), NEW target, CanDelete(t, target),
           NEW i \in Alive(t), i \notin Subtree(t, target)
    PROVE  ApplyDeletion(t, target)[i] = Shrunk(t, target, i)
<1> DEFINE n == Len(t)
           gone == LiveBelow(t, target)
           above == Ancestors(t, target)
           r == ApplyDeletion(t, target)
<1>0. /\ n \in Nat /\ IsTree(t, n) /\ DOMAIN t = 1..n /\ target \in 1..n /\ i \in 1..n
      /\ IsArena(t, Nat) /\ ListsExact(t) /\ AggregatesExact(t)
      /\ target \in Alive(t) /\ i \notin gone
      /\ \A k \in 1..n : t[k].own \in Nat
      /\ t[i] \in NodeType(Nat)
  BY ArenaFacts DEF Sound, CanDelete, Alive, LiveBelow, IsArena
<1>1. r[i] = DeletedNode(t, target, gone, above, i)
  BY <1>0, DeletionNodes, DetachedIsSubtree DEF LiveBelow
<1>2. t[target].parent # 0 => t[target].parent \in above
  BY <1>0, AncestorsAre
<1>3. t[i].children = {c \in Alive(t) : t[c].parent = i}
  BY <1>0 DEF ListsExact
<1>4. (i = t[target].parent) <=> target \in t[i].children
  BY <1>0, <1>3
<1> HIDE DEF r, above
<1>5. CASE i \in above
  <2>1. gone \subseteq LiveBelow(t, i)
    BY <1>0, <1>5, DeletionBelow DEF above
  <2>2. Totals(t, i, LiveBelow(t, i)) /\ Totals(t, target, gone)
    BY <1>0, AggregatesAreTotals
  <2>3. LiveBelow(t, i) \subseteq 1..n /\ IsSized(t, n)
    BY <1>0 DEF LiveBelow, Subtree, IsSized
  <2> HIDE DEF gone
  <2>4. Fits(t, i, target)
    BY <2>1, <2>2, <2>3, PartFits
  <2>5. /\ Less(t[i].agg, t[target].agg) = t[i].agg - t[target].agg
        /\ Less(t[i].files, t[target].files) = t[i].files - t[target].files
        /\ Less(t[i].dirs, t[target].dirs) = t[i].dirs - t[target].dirs
    BY <2>4, LessIs DEF Fits
  <2> DEFINE C == t[i].children \ {target}
             x == t[i].agg - t[target].agg
             y == t[i].files - t[target].files
             z == t[i].dirs - t[target].dirs
  <2>6. (IF i = t[target].parent THEN C ELSE t[i].children) = C
    BY <1>4
  <2>7. r[i] = Made(t[i].entry, t[i].parent, t[i].kind, t[i].own, x, y, z, C, t[i].flags)
    BY <1>0, <1>1, <1>5, <2>5, <2>6, Zenon DEF DeletedNode
  <2>8. Shrunk(t, target, i) = [t[i] EXCEPT !.agg = x, !.files = y, !.dirs = z, !.children = C]
    BY <1>5 DEF Shrunk, above
  <2> HIDE DEF x, y, z, C
  <2>9. r[i] = Shrunk(t, target, i)
    <3>1. t[i] \in NodeType(Nat)
      BY <1>0
    <3>2. [t[i] EXCEPT !.agg = x, !.files = y, !.dirs = z, !.children = C] =
              Made(t[i].entry, t[i].parent, t[i].kind, t[i].own, x, y, z, C, t[i].flags)
      BY <3>1, SetTotals
    <3> QED BY <2>7, <2>8, <3>2, Zenon
  <2> QED BY <2>9 DEF r
<1>6. CASE i \notin above
  <2>1. i # t[target].parent
    <3>1. i # 0
      BY <1>0
    <3> QED BY <1>2, <1>6, <3>1
  <2>2. r[i] = Made(t[i].entry, t[i].parent, t[i].kind, t[i].own, t[i].agg, t[i].files, t[i].dirs,
                    t[i].children, t[i].flags)
    <3> HIDE DEF gone
    <3> QED BY <1>0, <1>1, <1>6, <2>1, Zenon DEF DeletedNode
  <2>3. r[i] = t[i]
    BY <1>0, <2>2, IsMade
  <2>4. Shrunk(t, target, i) = t[i]
    BY <1>6 DEF Shrunk, above
  <2> QED BY <2>3, <2>4 DEF r
<1> QED BY <1>5, <1>6

\* A deletion takes the live subtree of its target and nothing else off the tree,
\* what that held off every ancestor, and leaves every other node as it was.
THEOREM DeletionsExact == DeletionSpec => DeletionExact
<1>1. ASSUME Sound(tree), NEW target, Delete(target), CanDelete(tree, target)
      PROVE  /\ Alive(tree') = Alive(tree) \ Subtree(tree, target)
             /\ \A i \in Alive(tree') : tree'[i] = Shrunk(tree, target, i)
  <2>1. IsArena(tree, Nat) /\ ListsExact(tree) /\ tree' = ApplyDeletion(tree, target)
    BY <1>1 DEF Sound, Delete
  <2>2. Alive(tree') = Alive(tree) \ (Subtree(tree, target) \intersect Alive(tree))
    BY <1>1, <2>1, DeletionFacts DEF Deleted
  <2>3. ASSUME NEW i \in Alive(tree), i \notin Subtree(tree, target)
        PROVE  tree'[i] = Shrunk(tree, target, i)
    BY <1>1, <2>1, <2>3, OthersLose
  <2> QED BY <2>2, <2>3
<1>2. Sound(tree) /\ [DeletionNext]_tree =>
        [\A target \in 1..(MaxNodes + 1) :
          Delete(target) /\ CanDelete(tree, target) =>
             /\ Alive(tree') = Alive(tree) \ Subtree(tree, target)
             /\ \A i \in Alive(tree') : tree'[i] = Shrunk(tree, target, i)]_tree
  BY <1>1
<1> QED BY <1>2, TreeStaysSound, PTL DEF DeletionSpec, DeletionExact
=============================================================================
