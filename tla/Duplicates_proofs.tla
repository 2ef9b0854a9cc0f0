------------------------- MODULE Duplicates_proofs -------------------------
(***************************************************************************)
(* Proofs about the duplicate finder and the removal of what is ticked, for*)
(* any directory, any contents and hashes, and any number of scans,        *)
(* detections, removals and changes by other programs.                     *)
(***************************************************************************)
EXTENDS Duplicates, FiniteSetTheorems, SequenceTheorems, WellFoundedInduction, TLAPS

-----------------------------------------------------------------------------
(* The inductive invariant.                                                *)

SizeOf(o) == Size[Content[o]]

NodeRecord == [node : Nat, path : Paths, object : Objects,
               identity : Objects \union {NoObject}, size : Nat, gone : BOOLEAN]

\* A tree as a scan made it and removals left it.
IsModel(m) ==
    /\ m \in Seq(NodeRecord)
    /\ \A k \in 1..Len(m) : /\ m[k].node = k
                            /\ m[k].identity \in {m[k].object, NoObject}
                            /\ m[k].size \in {0, SizeOf(m[k].object)}
    /\ \A i, k \in 1..Len(m) : m[i].path = m[k].path => i = k

\* The files a detection starts from.
IsBasis(B) ==
    /\ IsFiniteSet(B) /\ B \subseteq NodeRecord
    /\ \A c \in B : c.size = SizeOf(c.object) /\ c.identity \in {c.object, NoObject}
    /\ \A c, d \in B : c.node = d.node => c = d

\* A node and a path that go together in a tree.
Fits(x, m) == x.node \in 1..Len(m) /\ x.path = m[x.node].path

DupTypes ==
    /\ disk \in [Paths -> Objects \union {NoObject}]
    /\ changes \in Nat /\ scans \in Nat /\ scannedAt \in Nat /\ scannedAt <= changes
    /\ IsModel(model)
    /\ astray \in BOOLEAN
    /\ \A f \in Files : f.path \in Paths
    /\ \A r \in ticked : r = Row(r)

-----------------------------------------------------------------------------
(* What a report is made of.                                               *)

\* Nobody touched the files since the detection began.
Clean(k, d, ch) == ch = k.changes /\ \A c \in k.basis : d[c.path] = c.object

\* The files the first pass hashes, and those whose ends look alike.
Shared(B) == SizeShared(OnePerIdentity(B))

Suspects(B) ==
    {c \in Shared(B) : \E d, e \in Shared(B) :
        /\ d # e /\ d.size = c.size /\ e.size = c.size
        /\ Ends[Content[d.object]] = Ends[Content[e.object]]}

Covers(hash, todo, S) == todo \subseteq S /\ DOMAIN hash = {c.node : c \in S \ todo}
Hashed(k, cands) == Covers(k.hash, k.todo, cands)

FirstPassOK(k, clean) ==
    /\ k.cands = OnePerIdentity(k.basis) /\ Hashed(k, Shared(k.basis))
    /\ clean => \A c \in Shared(k.basis) \ k.todo : k.hash[c.node] = Ends[Content[c.object]]

SecondPassOK(k, clean) ==
    /\ k.cands \subseteq k.basis /\ Hashed(k, k.cands)
    /\ clean => /\ k.cands = Suspects(k.basis)
                /\ \A c \in k.cands \ k.todo : k.hash[c.node] = Content[c.object]

IsTask(k) ==
    /\ k = [phase |-> k.phase, of |-> k.of, basis |-> k.basis, cands |-> k.cands,
            todo |-> k.todo, hash |-> k.hash, changes |-> k.changes]
    /\ IsBasis(k.basis) /\ k.of \in Nat /\ k.changes \in Nat
    /\ k.phase \in {"partial", "full", "over"}

\* A detection, over a tree m, after sc scans, on a disk d that changed ch times.
TaskOK(k, m, sc, d, ch) ==
    /\ IsTask(k) /\ k.of <= sc /\ k.changes <= ch
    /\ k.phase = "partial" => FirstPassOK(k, Clean(k, d, ch))
    /\ k.phase = "full" => SecondPassOK(k, Clean(k, d, ch))
    /\ k.of = sc => \A c \in k.basis : Fits(c, m)

TasksOK ==
    /\ tasks \in Seq(ToSet(tasks))
    /\ \A t \in 1..Len(tasks) : TaskOK(tasks[t], model, scans, disk, changes)

-----------------------------------------------------------------------------
(* What is ticked, confirmed and removed.                                  *)

\* As long as no answer for an earlier model has landed, nodes and paths of the
\* report and of the selection go together.
TicksFit == ~ astray => /\ \A f \in Files : Fits(f, model)
                        /\ \A r \in ticked : Fits(r, model)

TargetOK(t, m, sc, lost) ==
    /\ t.path \in Paths /\ t.of \in Nat /\ t.of <= sc
    /\ ~ lost => t.ticked /\ (t.of = sc => Fits(t, m))

IsBatch(b) ==
    /\ b = [todo |-> b.todo, removed |-> b.removed, failed |-> b.failed,
            skipped |-> b.skipped, over |-> b.over]
    /\ b.over \in BOOLEAN /\ (b.over => b.todo = {})

BatchOK(b, m, sc, lost, d) ==
    /\ IsBatch(b)
    /\ \A t \in b.todo \union b.removed : TargetOK(t, m, sc, lost)
    /\ \A t \in b.removed : d[t.path] = NoObject

TargetsOK ==
    /\ \A t \in dialog : TargetOK(t, model, scans, astray)
    /\ batches \in Seq(ToSet(batches))
    /\ \A b \in 1..Len(batches) : BatchOK(batches[b], model, scans, astray, disk)

\* A removal under way that has taken this path.
Taken(path, bs) ==
    \E b \in 1..Len(bs) : ~ bs[b].over /\ \E t \in bs[b].removed : t.path = path

\* A file is gone when its node is a tombstone or is about to become one.
Buried(m, d, bs) ==
    \A k \in 1..Len(m) : d[m[k].path] = NoObject <=> (m[k].gone \/ Taken(m[k].path, bs))

TombstonesOK == (~ astray /\ scannedAt = changes) => Buried(model, disk, batches)

DupInv == DupTypes /\ TasksOK /\ GroupsExact /\ TicksFit /\ TargetsOK /\ TombstonesOK

-----------------------------------------------------------------------------
(* Induction, and the sequences a scan is made of.                         *)

\* Induction over the naturals, for a set instead of a predicate.
LEMMA NatSetInduction ==
    ASSUME NEW S, 0 \in S, \A n \in Nat : n \in S => n + 1 \in S
    PROVE  Nat \subseteq S
<1>1. SUFFICES ASSUME Nat \ S # {} PROVE FALSE
  OBVIOUS
<1>2. PICK x \in Nat \ S : \A y \in Nat \ S : ~ (<<y, x>> \in OpToRel(<, Nat))
  BY <1>1, NatLessThanWellFounded, WFMin
<1>3. x # 0 /\ x - 1 \in Nat
  OBVIOUS
<1>4. <<x - 1, x>> \in OpToRel(<, Nat)
  BY <1>3 DEF OpToRel
<1>5. x - 1 \in S
  BY <1>2, <1>3, <1>4
<1> QED
  BY <1>3, <1>5

\* A set of positions that is not empty has a least one.
LEMMA MinIs ==
    ASSUME NEW s, s \subseteq Nat, s # {}
    PROVE  Min(s) \in s /\ \A y \in s : Min(s) <= y
<1>1. PICK x \in s : \A y \in s : ~ (<<y, x>> \in OpToRel(<, Nat))
  BY NatLessThanWellFounded, WFMin
<1>2. ASSUME NEW y \in s PROVE x <= y
  <2>1. x \in Nat /\ y \in Nat
    OBVIOUS
  <2>2. y < x => <<y, x>> \in OpToRel(<, Nat)
    BY <2>1 DEF OpToRel
  <2>3. ~ (y < x)
    BY <1>1, <2>2, Zenon
  <2> QED BY <2>1, <2>3
<1> QED
  BY <1>2 DEF Min

\* No element twice.
NoRepeat(s) == \A i, k \in DOMAIN s : s[i] = s[k] => i = k

\* The recursive equation of Keep.
IsKept(g, s, S, D) ==
    g = [k \in D |-> IF k = 0 THEN <<>>
                     ELSE IF s[k] \in S THEN Append(g[k - 1], s[k]) ELSE g[k - 1]]

\* That equation has a solution.
LEMMA KeptExists ==
    ASSUME NEW s, NEW S, NEW n, n \in Nat
    PROVE  \E g : IsKept(g, s, S, 0..n)
<1> DEFINE Q == {k \in Nat : \E g : IsKept(g, s, S, 0..k)}
<1>1. 0 \in Q
  <2> DEFINE g == [k \in 0..0 |-> <<>>]
  <2>1. g = [k \in 0..0 |-> IF k = 0 THEN <<>>
                     ELSE IF s[k] \in S THEN Append(g[k - 1], s[k]) ELSE g[k - 1]]
    OBVIOUS
  <2> HIDE DEF g
  <2>2. IsKept(g, s, S, 0..0)
    BY <2>1, Zenon DEF IsKept
  <2> QED BY <2>2
<1>2. ASSUME NEW k \in Nat, k \in Q PROVE k + 1 \in Q
  <2>1. PICK g : IsKept(g, s, S, 0..k)
    BY <1>2
  <2> DEFINE h == [i \in 0..(k + 1) |-> IF i = 0 THEN <<>>
                     ELSE IF s[i] \in S THEN Append(g[i - 1], s[i]) ELSE g[i - 1]]
  <2>2. \A i \in 0..k : h[i] = g[i]
    <3>1. \A i \in 0..k : g[i] = IF i = 0 THEN <<>>
                     ELSE IF s[i] \in S THEN Append(g[i - 1], s[i]) ELSE g[i - 1]
      BY <2>1, Zenon DEF IsKept
    <3>2. ASSUME NEW i \in 0..k
          PROVE  h[i] = IF i = 0 THEN <<>>
                        ELSE IF s[i] \in S THEN Append(g[i - 1], s[i]) ELSE g[i - 1]
      OBVIOUS
    <3> HIDE DEF h
    <3> QED BY <3>1, <3>2
  <2>3. h = [i \in 0..(k + 1) |-> IF i = 0 THEN <<>>
                     ELSE IF s[i] \in S THEN Append(h[i - 1], s[i]) ELSE h[i - 1]]
    <3>1. ASSUME NEW i \in 0..(k + 1), i # 0 PROVE h[i - 1] = g[i - 1]
      <4>1. i - 1 \in 0..k
        BY <3>1
      <4> HIDE DEF h
      <4> QED BY <2>2, <4>1
    <3> QED BY <3>1
  <2>4. IsKept(h, s, S, 0..(k + 1))
    <3> HIDE DEF h
    <3> QED BY <2>3, Zenon DEF IsKept
  <2> QED BY <2>4
<1>3. Nat \subseteq Q
  <2> HIDE DEF Q
  <2> QED BY <1>1, <1>2, NatSetInduction
<1> QED
  BY <1>3

\* g is what is left of the first k elements of s.
KeptOf(g, s, S, T, k) ==
    /\ g \in Seq(T) /\ Len(g) <= k
    /\ \A i \in 1..Len(g) : g[i] \in S /\ \E m \in 1..k : g[i] = s[m]
    /\ \A m \in 1..k : s[m] \in S => \E i \in 1..Len(g) : g[i] = s[m]
    /\ \A i, m \in 1..Len(g) : i # m => g[i] # g[m]

\* Keep returns the elements that are in S, each as often as before.
LEMMA KeepIs ==
    ASSUME NEW T, NEW s, s \in Seq(T), NoRepeat(s), NEW S
    PROVE  /\ Keep(s, S) \in Seq(T)
           /\ Len(Keep(s, S)) <= Len(s)
           /\ ToSet(Keep(s, S)) = ToSet(s) \intersect S
           /\ NoRepeat(Keep(s, S))
<1> DEFINE n == Len(s)
           g == CHOOSE g : IsKept(g, s, S, 0..n)
           Q == {k \in Nat : k <= n => KeptOf(g[k], s, S, T, k)}
<1>1. n \in Nat /\ DOMAIN s = 1..n /\ \A i \in 1..n : s[i] \in T
  OBVIOUS
<1>2. IsKept(g, s, S, 0..n)
  BY <1>1, KeptExists
<1>3. Keep(s, S) = g[n]
  BY Zenon DEF Keep, IsKept
<1> HIDE DEF g
<1>4. \A k \in 0..n : g[k] = IF k = 0 THEN <<>>
                     ELSE IF s[k] \in S THEN Append(g[k - 1], s[k]) ELSE g[k - 1]
  BY <1>2, Zenon DEF IsKept
<1>5. 0 \in Q
  <2>1. g[0] = <<>>
    BY <1>1, <1>4
  <2>2. <<>> \in Seq(T) /\ Len(<<>>) = 0
    OBVIOUS
  <2>3. KeptOf(<<>>, s, S, T, 0)
    BY <2>2 DEF KeptOf
  <2> QED BY <2>1, <2>3
<1>6. ASSUME NEW k \in Nat, k \in Q PROVE k + 1 \in Q
  <2> SUFFICES ASSUME k + 1 <= n PROVE KeptOf(g[k + 1], s, S, T, k + 1)
    OBVIOUS
  <2>1. KeptOf(g[k], s, S, T, k)
    BY <1>1, <1>6
  <2>2. g[k + 1] = IF s[k + 1] \in S THEN Append(g[k], s[k + 1]) ELSE g[k]
    <3>1. k + 1 \in 0..n /\ k + 1 # 0 /\ (k + 1) - 1 = k
      BY <1>1
    <3> QED BY <1>4, <3>1
  <2>3. s[k + 1] \in T /\ \A m \in 1..k : s[m] # s[k + 1]
    BY <1>1 DEF NoRepeat
  <2> DEFINE a == g[k]
             x == s[k + 1]
  <2>4. CASE x \notin S
    <3>1. g[k + 1] = a
      BY <2>2, <2>4
    <3> HIDE DEF n
    <3> QED BY <2>1, <2>4, <3>1 DEF KeptOf
  <2>5. CASE x \in S
    <3>1. g[k + 1] = Append(a, x)
      BY <2>2, <2>5
    <3>2. a \in Seq(T) /\ x \in T /\ Len(a) \in Nat
      BY <2>1, <2>3 DEF KeptOf
    <3> DEFINE b == Append(a, x)
    <3>3. /\ b \in Seq(T) /\ Len(b) = Len(a) + 1
          /\ \A i \in 1..Len(a) : b[i] = a[i]
          /\ b[Len(a) + 1] = x
      BY <3>2
    <3>4. \A i \in 1..Len(a) : a[i] # x
      BY <2>1, <2>3 DEF KeptOf
    <3>5. Len(b) <= k + 1
      BY <2>1, <3>2, <3>3 DEF KeptOf
    <3>6. \A i \in 1..Len(b) : b[i] \in S /\ \E m \in 1..(k + 1) : b[i] = s[m]
      <4> SUFFICES ASSUME NEW i \in 1..Len(b)
                   PROVE  b[i] \in S /\ \E m \in 1..(k + 1) : b[i] = s[m]
        OBVIOUS
      <4>1. CASE i \in 1..Len(a)
        <5>1. b[i] = a[i]
          BY <3>3, <4>1
        <5>2. PICK m \in 1..k : a[i] = s[m]
          BY <2>1, <4>1 DEF KeptOf
        <5> QED BY <2>1, <4>1, <5>1, <5>2 DEF KeptOf
      <4>2. CASE i = Len(a) + 1
        BY <2>5, <3>3, <4>2
      <4> QED BY <3>2, <3>3, <4>1, <4>2
    <3>7. \A m \in 1..(k + 1) : s[m] \in S => \E i \in 1..Len(b) : b[i] = s[m]
      <4> SUFFICES ASSUME NEW m \in 1..(k + 1), s[m] \in S
                   PROVE  \E i \in 1..Len(b) : b[i] = s[m]
        OBVIOUS
      <4>1. CASE m \in 1..k
        <5>1. PICK i \in 1..Len(a) : a[i] = s[m]
          BY <2>1, <4>1 DEF KeptOf
        <5> QED BY <3>2, <3>3, <5>1
      <4>2. CASE m = k + 1
        BY <3>2, <3>3, <4>2
      <4> QED BY <4>1, <4>2
    <3>8. \A i, m \in 1..Len(b) : i # m => b[i] # b[m]
      <4>1. \A i, m \in 1..Len(a) : i # m => a[i] # a[m]
        BY <2>1 DEF KeptOf
      <4> HIDE DEF b, a, x
      <4> QED BY <3>2, <3>3, <3>4, <4>1
    <3> QED
      <4> HIDE DEF b
      <4>1. KeptOf(b, s, S, T, k + 1)
        BY <3>3, <3>5, <3>6, <3>7, <3>8, Zenon DEF KeptOf
      <4> QED BY <3>1, <4>1 DEF b
  <2> QED BY <2>4, <2>5
<1>7. Nat \subseteq Q
  <2> HIDE DEF Q
  <2> QED BY <1>5, <1>6, NatSetInduction
<1>8. KeptOf(g[n], s, S, T, n)
  BY <1>1, <1>7
<1> DEFINE r == g[n]
<1>9. r \in Seq(T) /\ Len(r) <= n /\ DOMAIN r = 1..Len(r)
  BY <1>8 DEF KeptOf
<1>10. ToSet(r) = ToSet(s) \intersect S
  <2>1. \A x : x \in ToSet(r) <=> \E i \in 1..Len(r) : r[i] = x
    BY <1>9, Zenon DEF ToSet
  <2>2. \A x : x \in ToSet(s) <=> \E i \in 1..n : s[i] = x
    BY <1>1, Zenon DEF ToSet
  <2>3. /\ \A i \in 1..Len(r) : r[i] \in S /\ \E m \in 1..n : r[i] = s[m]
        /\ \A m \in 1..n : s[m] \in S => \E i \in 1..Len(r) : r[i] = s[m]
    BY <1>8, Zenon DEF KeptOf
  <2> HIDE DEF n, r
  <2> QED BY <2>1, <2>2, <2>3
<1>11. NoRepeat(r)
  BY <1>8, <1>9 DEF KeptOf, NoRepeat
<1> QED
  BY <1>3, <1>9, <1>10, <1>11

-----------------------------------------------------------------------------
(* Scans, candidates, and what a removal does to a tree.                   *)

\* A scan makes one node per path that holds an object.
LEMMA ScanIs ==
    ASSUME disk \in [Paths -> Objects \union {NoObject}]
    PROVE  /\ IsModel(ScanOf)
           /\ \A k \in 1..Len(ScanOf) : /\ ~ ScanOf[k].gone
                                        /\ disk[ScanOf[k].path] # NoObject
<1> DEFINE there == {x \in Paths : disk[x] # NoObject}
           found == Keep(Order, there)
           repeats(k) == platform = "unix" /\ \E i \in 1..(k - 1) : disk[found[i]] = disk[found[k]]
           size(k) == IF repeats(k) THEN 0 ELSE Size[Content[disk[found[k]]]]
           e(k) == [node |-> k, path |-> found[k], object |-> disk[found[k]],
                    identity |-> Identity(found[k], disk[found[k]]),
                    size |-> size(k), gone |-> FALSE]
<1>1. /\ found \in Seq(Paths) /\ NoRepeat(found) /\ ToSet(found) = ToSet(Order) \intersect there
  <2>1. Order \in Seq(Paths) /\ NoRepeat(Order)
    BY DuplicatesAssumption DEF IsInjective, NoRepeat
  <2> HIDE DEF there
  <2> QED BY <2>1, KeepIs
<1>2. DOMAIN found = 1..Len(found) /\ Len(found) \in Nat
  BY <1>1
<1>3. \A k \in 1..Len(found) : found[k] \in Paths /\ disk[found[k]] \in Objects
  <2> TAKE k \in 1..Len(found)
  <2>1. found[k] \in ToSet(found)
    BY <1>2 DEF ToSet
  <2> HIDE DEF found
  <2> QED BY <1>1, <2>1
<1>4. ScanOf = [k \in 1..Len(found) |-> e(k)]
  BY <1>2 DEF ScanOf
<1> HIDE DEF found
<1>5. \A k \in 1..Len(found) : size(k) \in {0, SizeOf(disk[found[k]])} /\ size(k) \in Nat
  BY <1>3, DuplicatesAssumption DEF SizeOf
<1> HIDE DEF size
<1>6. \A k \in 1..Len(found) : e(k) \in NodeRecord
  <2> TAKE k \in 1..Len(found)
  <2>1. k \in Nat
    BY <1>2
  <2>2. Identity(found[k], disk[found[k]]) \in Objects \union {NoObject}
    BY <1>3 DEF Identity
  <2> HIDE DEF there
  <2> QED BY <1>3, <1>5, <2>1, <2>2 DEF NodeRecord
<1>7. /\ ScanOf \in Seq(NodeRecord) /\ Len(ScanOf) = Len(found)
      /\ \A k \in 1..Len(found) : ScanOf[k] = e(k)
  <2>1. [k \in 1..Len(found) |-> e(k)] \in Seq(NodeRecord)
    <3> HIDE DEF e
    <3> QED BY <1>2, <1>6, IsASeq
  <2> HIDE DEF e
  <2> QED BY <1>2, <1>4, <2>1
<1>12. \A k \in 1..Len(found) :
         Identity(found[k], disk[found[k]]) \in {disk[found[k]], NoObject}
  BY DEF Identity
<1>8. \A k \in 1..Len(found) :
        /\ ScanOf[k].node = k /\ ScanOf[k].path = found[k] /\ ScanOf[k].object = disk[found[k]]
        /\ ScanOf[k].identity \in {disk[found[k]], NoObject}
        /\ ScanOf[k].size \in {0, SizeOf(disk[found[k]])} /\ ScanOf[k].gone = FALSE
  <2> TAKE k \in 1..Len(found)
  <2>1. ScanOf[k] = e(k)
    BY <1>7
  <2>2. /\ e(k).node = k /\ e(k).path = found[k] /\ e(k).object = disk[found[k]]
        /\ e(k).identity = Identity(found[k], disk[found[k]])
        /\ e(k).size = size(k) /\ e(k).gone = FALSE
    OBVIOUS
  <2> HIDE DEF e
  <2> QED BY <1>5, <1>12, <2>1, <2>2
<1>9. \A i, k \in 1..Len(found) : found[i] = found[k] => i = k
  BY <1>1, <1>2 DEF NoRepeat
<1> HIDE DEF e
<1>10. IsModel(ScanOf)
  BY <1>7, <1>8, <1>9 DEF IsModel
<1>11. \A k \in 1..Len(found) : disk[found[k]] # NoObject
  BY <1>3, DuplicatesAssumption
<1> QED BY <1>7, <1>8, <1>10, <1>11

\* Collecting the candidates of a tree gives a basis.
LEMMA CandidatesAreBasis ==
    ASSUME NEW m, IsModel(m)
    PROVE  /\ IsBasis(CollectCandidates(m))
           /\ \A c \in CollectCandidates(m) : c.node \in 1..Len(m) /\ c.path = m[c.node].path
<1> DEFINE B == CollectCandidates(m)
           I == {i \in DOMAIN m : ~ m[i].gone /\ m[i].size >= MinSize}
<1>1. m \in Seq(NodeRecord) /\ DOMAIN m = 1..Len(m) /\ Len(m) \in Nat
  BY DEF IsModel
<1>2. \A c \in B : \E k \in 1..Len(m) : c = m[k] /\ c.size >= MinSize
  BY <1>1 DEF CollectCandidates
<1>3. \A c \in B : c.node \in 1..Len(m) /\ c = m[c.node] /\ c \in NodeRecord /\ c.size >= MinSize
                   /\ c.identity \in {c.object, NoObject} /\ c.size \in {0, SizeOf(c.object)}
  BY <1>1, <1>2 DEF IsModel
<1>4. \A c \in B : c.size = SizeOf(c.object)
  <2>1. MinSize > 0 /\ MinSize \in Nat
    BY DuplicatesAssumption
  <2> HIDE DEF B
  <2> QED BY <1>3, <2>1
<1>5. IsFiniteSet(B)
  <2> DEFINE f == [i \in I |-> m[i]]
  <2>1. IsFiniteSet(I)
    <3>1. IsFiniteSet(1..Len(m))
      BY <1>1, FS_Interval
    <3>2. I \in SUBSET (1..Len(m))
      BY <1>1
    <3> HIDE DEF I
    <3> QED BY <3>1, <3>2, FS_Subset
  <2>2. B = {m[i] : i \in I}
    BY DEF CollectCandidates
  <2>3. f \in Surjection(I, B)
    <3>1. f \in [I -> B] /\ \A c \in B : \E i \in I : f[i] = c
      BY <2>2
    <3> HIDE DEF f, I, B
    <3> QED BY <3>1 DEF Surjection
  <2> HIDE DEF f, I, B
  <2> QED BY <2>1, <2>3, FS_Surjection
<1>6. \A c, d \in B : c.node = d.node => c = d
  <2> HIDE DEF B
  <2> QED BY <1>3
<1> HIDE DEF B
<1>7. IsBasis(B)
  BY <1>3, <1>4, <1>5, <1>6 DEF IsBasis
<1> QED BY <1>3, <1>7 DEF B

\* Removals turn nodes into tombstones and change nothing else.
LEMMA ApplyIs ==
    ASSUME NEW m, IsModel(m), NEW gone
    PROVE  LET r == ApplyDeletions(m, gone) IN
           /\ IsModel(r) /\ Len(r) = Len(m)
           /\ \A k \in 1..Len(m) : /\ r[k].path = m[k].path
                                   /\ r[k].gone = (m[k].gone \/ k \in gone)
<1> DEFINE r == ApplyDeletions(m, gone)
           e(k) == [m[k] EXCEPT !.gone = m[k].gone \/ k \in gone]
<1>1. m \in Seq(NodeRecord) /\ DOMAIN m = 1..Len(m) /\ Len(m) \in Nat
  BY DEF IsModel
<1>2. r = [k \in 1..Len(m) |-> e(k)]
  BY <1>1 DEF ApplyDeletions
<1>3. \A k \in 1..Len(m) :
        /\ e(k) \in NodeRecord
        /\ e(k).node = m[k].node /\ e(k).path = m[k].path /\ e(k).object = m[k].object
        /\ e(k).identity = m[k].identity /\ e(k).size = m[k].size
        /\ e(k).gone = (m[k].gone \/ k \in gone)
  <2> TAKE k \in 1..Len(m)
  <2> DEFINE g == m[k].gone \/ k \in gone
             x == m[k]
  <2>0. e(k) = [x EXCEPT !.gone = g]
    OBVIOUS
  <2>1. x \in NodeRecord
    BY <1>1
  <2>3. g \in BOOLEAN
    OBVIOUS
  <2> HIDE DEF g, x, e
  <2>2. /\ e(k) \in NodeRecord
        /\ e(k).node = x.node /\ e(k).path = x.path /\ e(k).object = x.object
        /\ e(k).identity = x.identity /\ e(k).size = x.size /\ e(k).gone = g
    BY <2>0, <2>1, <2>3 DEF NodeRecord
  <2> QED BY <2>2 DEF g, x
<1>4. r \in Seq(NodeRecord) /\ Len(r) = Len(m) /\ \A k \in 1..Len(m) : r[k] = e(k)
  <2> HIDE DEF e
  <2>1. [k \in 1..Len(m) |-> e(k)] \in Seq(NodeRecord)
    BY <1>1, <1>3, IsASeq
  <2> QED BY <1>1, <1>2, <2>1
<1>5. \A k \in 1..Len(m) :
        /\ r[k].node = m[k].node /\ r[k].path = m[k].path /\ r[k].object = m[k].object
        /\ r[k].identity = m[k].identity /\ r[k].size = m[k].size
        /\ r[k].gone = (m[k].gone \/ k \in gone)
  <2> HIDE DEF r, e
  <2> TAKE k \in 1..Len(m)
  <2>1. r[k] = e(k)
    BY <1>4
  <2> QED BY <1>3, <2>1
<1> HIDE DEF r, e
<1>6. IsModel(r)
  BY <1>4, <1>5 DEF IsModel
<1> QED BY <1>4, <1>5, <1>6 DEF r

\* A finite set of naturals has a greatest element.
LEMMA GreatestIn ==
    ASSUME NEW S, S \subseteq Nat, IsFiniteSet(S), S # {}
    PROVE  \E n \in S : \A x \in S : x <= n
<1> DEFINE Q == {k \in Nat : \A T : /\ T \subseteq Nat /\ IsFiniteSet(T) /\ Cardinality(T) = k /\ T # {}
                                    => \E n \in T : \A x \in T : x <= n}
<1>1. 0 \in Q
  BY FS_EmptySet
<1>2. ASSUME NEW k \in Nat, k \in Q PROVE k + 1 \in Q
  <2> SUFFICES ASSUME NEW T, T \subseteq Nat, IsFiniteSet(T), Cardinality(T) = k + 1, T # {}
               PROVE  \E n \in T : \A x \in T : x <= n
    OBVIOUS
  <2>1. PICK a : a \in T
    OBVIOUS
  <2>2. /\ T \ {a} \subseteq Nat /\ IsFiniteSet(T \ {a}) /\ Cardinality(T \ {a}) = k
    <3>1. IsFiniteSet(T \ {a}) /\ Cardinality(T \ {a}) = Cardinality(T) - 1
      BY <2>1, FS_RemoveElement
    <3>2. Cardinality(T \ {a}) = k
      <4> HIDE DEF Q
      <4> QED BY <3>1
    <3> QED BY <3>1, <3>2
  <2>3. CASE T \ {a} = {}
    BY <2>1, <2>3
  <2>4. CASE T \ {a} # {}
    <3>1. PICK m \in T \ {a} : \A x \in T \ {a} : x <= m
      BY <1>2, <2>2, <2>4
    <3>2. m \in Nat /\ a \in Nat
      BY <2>1
    <3>3. CASE m <= a
      <4>1. \A x \in T : x <= a
        BY <3>1, <3>2, <3>3
      <4> QED BY <2>1, <4>1
    <3>4. CASE a < m
      <4>1. \A x \in T : x <= m
        BY <3>1, <3>2, <3>4
      <4> QED BY <3>1, <4>1
    <3> QED BY <3>2, <3>3, <3>4
  <2> QED BY <2>3, <2>4
<1>3. Nat \subseteq Q
  <2> HIDE DEF Q
  <2> QED BY <1>1, <1>2, NatSetInduction
<1>4. Cardinality(S) \in Nat
  BY FS_CardinalityType
<1> QED BY <1>3, <1>4

-----------------------------------------------------------------------------
(* What comparing files by their ends and then as a whole finds.           *)

\* Two elements make a pair.
LEMMA PairIs ==
    ASSUME NEW S, IsFiniteSet(S)
    PROVE  Cardinality(S) >= 2 <=> \E x, y \in S : x # y
<1>1. Cardinality(S) \in Nat
  BY FS_CardinalityType
<1>2. ASSUME NEW x \in S, NEW y \in S, x # y PROVE Cardinality(S) >= 2
  <2>1. IsFiniteSet(S \ {x}) /\ Cardinality(S \ {x}) = Cardinality(S) - 1
    BY FS_RemoveElement
  <2>2. S \ {x} # {}
    BY <1>2
  <2>3. Cardinality(S \ {x}) # 0 /\ Cardinality(S \ {x}) \in Nat
    BY <2>1, <2>2, FS_EmptySet, FS_CardinalityType
  <2> QED BY <1>1, <2>1, <2>3
<1>3. ASSUME \A x, y \in S : x = y PROVE ~ Cardinality(S) >= 2
  <2>1. CASE S = {}
    BY <2>1, FS_EmptySet
  <2>2. CASE S # {}
    <3>1. PICK x : x \in S
      BY <2>2
    <3>2. S = {x}
      BY <1>3, <3>1
    <3>3. Cardinality({x}) = 1
      BY FS_Singleton
    <3>4. Cardinality(S) = 1
      BY <3>2, <3>3
    <3> QED BY <3>4
  <2> QED BY <2>1, <2>2
<1> QED BY <1>2, <1>3

\* An image under a function that tells elements apart has as many elements.
LEMMA ImageSize ==
    ASSUME NEW S, IsFiniteSet(S), NEW f, \A x, y \in S : f[x] = f[y] => x = y, S \subseteq DOMAIN f
    PROVE  LET T == {f[x] : x \in S} IN IsFiniteSet(T) /\ Cardinality(T) = Cardinality(S)
<1> DEFINE T == {f[x] : x \in S}
           g == [x \in S |-> f[x]]
<1>1. g \in [S -> T] /\ (\A x, y \in S : g[x] = g[y] => x = y) /\ \A t \in T : \E x \in S : g[x] = t
  OBVIOUS
<1> HIDE DEF g, T
<1>2. g \in Bijection(S, T)
  BY <1>1 DEF Bijection, Injection, Surjection, IsInjective
<1>3. ExistsBijection(S, T)
  BY <1>2 DEF ExistsBijection
<1>4. IsFiniteSet(T) /\ Cardinality(T) = Cardinality(S)
  BY <1>3, FS_Bijection
<1> QED BY <1>4 DEF T

\* One path is kept per object, whatever links there are.
LEMMA OneIsKept ==
    ASSUME NEW B, IsBasis(B), KnownApart(B)
    PROVE  LET K == OnePerIdentity(B) IN
           /\ K \subseteq B /\ IsFiniteSet(K)
           /\ \A c, d \in K : c.object = d.object => c = d
           /\ \A c, d \in K : c.identity = d.identity => c = d
           /\ \A c \in B : \E k \in K : k.object = c.object
<1> DEFINE K == OnePerIdentity(B)
<1>1. /\ IsFiniteSet(B)
      /\ \A c \in B : /\ c.node \in Nat /\ c.object \in Objects /\ c.object # NoObject
                      /\ c.identity \in {c.object, NoObject}
      /\ \A c, d \in B : c.node = d.node => c = d
      /\ \A c, d \in B : c # d /\ c.identity = NoObject =>
             d.identity # NoObject /\ d.object # c.object
  BY DuplicatesAssumption DEF IsBasis, NodeRecord, KnownApart
<1>2. \A c \in B : c \in K <=> (c.identity = NoObject
                                \/ \A d \in B : d.identity = c.identity => d.node <= c.node)
  BY DEF OnePerIdentity
<1>3. K \subseteq B /\ IsFiniteSet(K)
  <2>1. K \subseteq B
    BY DEF OnePerIdentity
  <2> QED BY <1>1, <2>1, FS_Subset
<1>4. ASSUME NEW c \in K, NEW d \in K, c.identity = d.identity PROVE c = d
  <2>1. c \in B /\ d \in B
    BY <1>3
  <2>2. CASE c.identity = NoObject
    BY <1>1, <1>4, <2>1, <2>2
  <2>3. CASE c.identity # NoObject
    <3>1. d.node <= c.node /\ c.node <= d.node
      BY <1>2, <1>4, <2>1, <2>3
    <3> QED BY <1>1, <2>1, <3>1
  <2> QED BY <2>2, <2>3
<1>5. ASSUME NEW c \in K, NEW d \in K, c.object = d.object PROVE c = d
  <2>1. c \in B /\ d \in B
    BY <1>3
  <2>2. CASE c.identity = NoObject \/ d.identity = NoObject
    BY <1>1, <1>5, <2>1, <2>2
  <2>3. CASE c.identity # NoObject /\ d.identity # NoObject
    BY <1>1, <1>4, <1>5, <2>1, <2>3
  <2> QED BY <2>2, <2>3
<1>6. ASSUME NEW c \in B PROVE \E k \in K : k.object = c.object
  <2>1. CASE c.identity = NoObject
    BY <1>2, <2>1
  <2>2. CASE c.identity # NoObject
    <3> DEFINE L == {d \in B : d.identity = c.identity}
               N == {d.node : d \in L}
    <3>1. IsFiniteSet(N) /\ N \subseteq Nat /\ N # {}
      <4>1. IsFiniteSet(L)
        <5>1. L \subseteq B
          OBVIOUS
        <5> HIDE DEF L
        <5> QED BY <1>1, <5>1, FS_Subset
      <4> DEFINE f == [d \in L |-> d.node]
      <4>2. f \in Surjection(L, N)
        <5>1. f \in [L -> N] /\ \A n \in N : \E d \in L : f[d] = n
          OBVIOUS
        <5> HIDE DEF f, L, N
        <5> QED BY <5>1 DEF Surjection
      <4>3. IsFiniteSet(N)
        <5> HIDE DEF f, L, N
        <5> QED BY <4>1, <4>2, FS_Surjection
      <4>4. N \subseteq Nat /\ c.node \in N
        BY <1>1
      <4> QED BY <4>3, <4>4
    <3>2. PICK n \in N : \A x \in N : x <= n
      <4> HIDE DEF N
      <4> QED BY <3>1, GreatestIn
    <3>3. PICK k \in L : k.node = n
      OBVIOUS
    <3>4. k \in B /\ k.identity = c.identity /\ \A d \in B : d.identity = k.identity => d.node <= k.node
      BY <3>2, <3>3
    <3>5. k \in K /\ k.object = c.object
      <4> HIDE DEF L, N
      <4> QED BY <1>1, <1>2, <2>2, <3>4
    <3> QED BY <3>5
  <2> QED BY <2>1, <2>2
<1> HIDE DEF K
<1>7. QED BY <1>3, <1>4, <1>5, <1>6 DEF K

\* The parts of a report, as Groups builds them.
Read(cands, hash) == {c \in cands : hash[c.node] # "failed"}

Alike(cands, hash, c) ==
    {d \in Read(cands, hash) : d.size = c.size /\ hash[d.node] = hash[c.node]}

Linked(cands, hash, c) ==
    \E d \in Alike(cands, hash, c) : d.identity = c.identity /\ d.node > c.node

FileOf(cands, hash, d) ==
    [node |-> d.node, path |-> d.path, object |-> d.object, hardLinked |-> Linked(cands, hash, d)]

GroupOf(cands, hash, c) ==
    [size |-> c.size,
     files |-> {FileOf(cands, hash, d) : d \in Alike(cands, hash, c)},
     reclaimable |-> Waste(c.size, {d.identity : d \in Alike(cands, hash, c)})]

\* The report has one group for each candidate that another one resembles.
LEMMA GroupsAre ==
    ASSUME NEW cands, NEW hash
    PROVE  Groups(cands, hash) =
              {GroupOf(cands, hash, c) :
                  c \in {d \in Read(cands, hash) : Cardinality(Alike(cands, hash, d)) >= 2}}
BY DEF Groups, GroupOf, FileOf, Linked, Alike, Read

\* Every file of a report is one of the candidates.
LEMMA ReportedAreCandidates ==
    ASSUME NEW cands, NEW hash, NEW g \in Groups(cands, hash), NEW f \in g.files
    PROVE  \E c \in cands : f.node = c.node /\ f.path = c.path
<1>1. PICK c : g = GroupOf(cands, hash, c)
  BY GroupsAre
<1>2. PICK d \in Alike(cands, hash, c) : f = FileOf(cands, hash, d)
  BY <1>1 DEF GroupOf
<1>3. d \in cands
  BY DEF Alike, Read
<1> QED BY <1>2, <1>3 DEF FileOf

\* What a report says of files, as GroupsExact puts it.
Exact(groups, basis) ==
    /\ {{f.object : f \in g.files} : g \in groups} = SameContent(basis)
    /\ \A g \in groups :
        /\ Cardinality({f.object : f \in g.files}) = Cardinality(g.files)
        /\ g.reclaimable = g.size * (Cardinality(g.files) - 1)
        /\ \A f \in g.files : ~ f.hardLinked

\* If the hashes are those of the objects the scan saw, two passes find what
\* comparing the contents of all files would.
THEOREM ReportExact ==
    ASSUME NEW B, IsBasis(B), KnownApart(B), NEW hash,
           \A c \in Suspects(B) : hash[c.node] = Content[c.object]
    PROVE  Exact(Groups(Suspects(B), hash), B)
<1> DEFINE K == OnePerIdentity(B)
           C == Suspects(B)
           A(c) == Alike(C, hash, c)
           G(c) == GroupOf(C, hash, c)
           objects == {c.object : c \in B}
           class(o) == {x \in objects : Content[x] = Content[o]}
<1>1. /\ K \subseteq B /\ IsFiniteSet(K)
      /\ \A c, d \in K : c.object = d.object => c = d
      /\ \A c, d \in K : c.identity = d.identity => c = d
      /\ \A c \in B : \E k \in K : k.object = c.object
  BY OneIsKept
<1>2. \A c \in B : c.object \in Objects /\ c.size = SizeOf(c.object)
  BY DEF IsBasis, NodeRecord
<1>3. C \subseteq K /\ IsFiniteSet(C)
  <2>1. C \subseteq K
    BY DEF Suspects, Shared, SizeShared
  <2> HIDE DEF C, K
  <2> QED BY <1>1, <2>1, FS_Subset
<1>4. ASSUME NEW c \in K, NEW d \in K, c # d, Content[c.object] = Content[d.object]
      PROVE  c \in C
  <2>1. c.size = d.size
    BY <1>1, <1>2, <1>4 DEF SizeOf
  <2>2. c \in Shared(B) /\ d \in Shared(B)
    BY <1>4, <2>1 DEF Shared, SizeShared
  <2> QED BY <1>4, <2>1, <2>2 DEF Suspects
<1>5. \A c \in C : hash[c.node] = Content[c.object] /\ Content[c.object] # "failed"
  BY <1>1, <1>2, <1>3, DuplicatesAssumption
<1>6. Read(C, hash) = C
  <2> HIDE DEF C
  <2> QED BY <1>5 DEF Read
<1>7. ASSUME NEW c \in C
      PROVE  A(c) = {d \in C : Content[d.object] = Content[c.object]}
  <2>1. \A d \in C : Content[d.object] = Content[c.object] => d.size = c.size
    BY <1>1, <1>2, <1>3 DEF SizeOf
  <2> HIDE DEF C
  <2> QED BY <1>5, <1>6, <2>1 DEF Alike
<1> HIDE DEF C, K
<1>8. ASSUME NEW c \in C
      PROVE  /\ IsFiniteSet(A(c)) /\ c \in A(c) /\ A(c) \subseteq K
             /\ class(c.object) = {d.object : d \in A(c)}
  <2>1. A(c) \subseteq C /\ c \in A(c)
    BY <1>7
  <2>2. IsFiniteSet(A(c))
    <3> HIDE DEF A
    <3> QED BY <1>3, <2>1, FS_Subset
  <2>3. ASSUME NEW x \in class(c.object) PROVE x \in {d.object : d \in A(c)}
    <3>1. PICK k \in K : k.object = x
      BY <1>1
    <3>2. Content[k.object] = Content[c.object]
      BY <3>1
    <3>3. k \in C
      BY <1>3, <1>4, <3>2
    <3>4. k \in A(c)
      <4> HIDE DEF A
      <4> QED BY <1>7, <3>2, <3>3
    <3> QED BY <3>1, <3>4
  <2>4. ASSUME NEW d \in A(c) PROVE d.object \in class(c.object)
    <3>1. d \in C /\ Content[d.object] = Content[c.object]
      <4> HIDE DEF A
      <4> QED BY <1>7, <2>4
    <3> QED BY <1>1, <1>3, <3>1
  <2> HIDE DEF A, class
  <2> QED BY <1>3, <2>1, <2>2, <2>3, <2>4
<1>9. ASSUME NEW c \in C
      PROVE  /\ {f.object : f \in G(c).files} = class(c.object)
             /\ Cardinality(class(c.object)) = Cardinality(A(c))
             /\ Cardinality(G(c).files) = Cardinality(A(c))
             /\ Cardinality({d.identity : d \in A(c)}) = Cardinality(A(c))
             /\ IsFiniteSet(class(c.object))
             /\ G(c).size = c.size /\ G(c).reclaimable = Waste(c.size, {d.identity : d \in A(c)})
             /\ \A f \in G(c).files : ~ f.hardLinked
  <2> DEFINE S == A(c)
             F == [d \in S |-> FileOf(C, hash, d)]
             O == [d \in S |-> d.object]
             I == [d \in S |-> d.identity]
  <2>1. IsFiniteSet(S) /\ S \subseteq K /\ class(c.object) = {d.object : d \in S}
    BY <1>8
  <2>2. G(c).files = {F[d] : d \in S} /\ G(c).size = c.size
        /\ G(c).reclaimable = Waste(c.size, {d.identity : d \in S})
    BY DEF GroupOf
  <2>3. \A d \in S : F[d].node = d.node /\ F[d].object = d.object /\ ~ F[d].hardLinked
    <3>1. ASSUME NEW d \in S PROVE ~ Linked(C, hash, d)
      <4>1. d \in C
        BY <1>7
      <4>2. \A e \in A(d) : e \in K /\ d \in K
        BY <1>8, <4>1
      <4>3. \A e \in A(d) : e.identity = d.identity => e = d
        BY <1>1, <4>2
      <4>4. d.node \in Nat
        BY <1>1, <1>3, <4>1 DEF IsBasis, NodeRecord
      <4> HIDE DEF S
      <4> QED BY <4>3, <4>4 DEF Linked
    <3>2. \A d \in S : FileOf(C, hash, d).node = d.node /\ FileOf(C, hash, d).object = d.object
                       /\ FileOf(C, hash, d).hardLinked = Linked(C, hash, d)
      BY DEF FileOf
    <3> HIDE DEF S
    <3> QED BY <3>1, <3>2
  <2> HIDE DEF S, F
  <2>4. /\ \A x, y \in S : O[x] = O[y] => x = y
        /\ \A x, y \in S : I[x] = I[y] => x = y
        /\ \A x, y \in S : F[x] = F[y] => x = y
    BY <1>1, <2>1, <2>3
  <2>5. Cardinality({O[d] : d \in S}) = Cardinality(S) /\ IsFiniteSet({O[d] : d \in S})
    <3>1. S \subseteq DOMAIN O
      OBVIOUS
    <3> HIDE DEF O
    <3> QED BY <2>1, <2>4, <3>1, ImageSize
  <2>6. Cardinality({I[d] : d \in S}) = Cardinality(S)
    <3>1. S \subseteq DOMAIN I
      OBVIOUS
    <3> HIDE DEF I
    <3> QED BY <2>1, <2>4, <3>1, ImageSize
  <2>7. Cardinality({F[d] : d \in S}) = Cardinality(S)
    <3>1. S \subseteq DOMAIN F
      BY DEF F
    <3> QED BY <2>1, <2>4, <3>1, ImageSize
  <2>8. {O[d] : d \in S} = {d.object : d \in S} /\ {I[d] : d \in S} = {d.identity : d \in S}
    OBVIOUS
  <2> HIDE DEF O, I
  <2>9. {f.object : f \in G(c).files} = {d.object : d \in S}
    <3> HIDE DEF G
    <3> QED BY <2>2, <2>3
  <2>10. \A f \in G(c).files : ~ f.hardLinked
    <3> HIDE DEF G
    <3> QED BY <2>2, <2>3
  <2> HIDE DEF G, class
  <2> QED BY <2>1, <2>2, <2>5, <2>6, <2>7, <2>8, <2>9, <2>10 DEF S
<1> DEFINE D == {d \in C : Cardinality(A(d)) >= 2}
<1>10. Groups(C, hash) = {G(c) : c \in D}
  BY <1>6, GroupsAre
<1> HIDE DEF G, A
<1>11. {{f.object : f \in g.files} : g \in Groups(C, hash)} = SameContent(B)
  <2>1. SameContent(B) = {class(o) : o \in {x \in objects : Cardinality(class(x)) >= 2}}
    BY DEF SameContent
  <2>2. ASSUME NEW c \in D
        PROVE  {f.object : f \in G(c).files} \in SameContent(B)
    <3>1. c.object \in objects
      BY <1>1, <1>3
    <3>2. Cardinality(class(c.object)) >= 2
      BY <1>9
    <3> HIDE DEF class, objects
    <3> QED BY <1>9, <2>1, <3>1, <3>2
  <2>3. ASSUME NEW o \in objects, Cardinality(class(o)) >= 2
        PROVE  \E c \in D : {f.object : f \in G(c).files} = class(o)
    <3>1. PICK c \in K : c.object = o
      BY <1>1
    <3>2. IsFiniteSet(class(o))
      <4>1. class(o) \subseteq {k.object : k \in K}
        BY <1>1
      <4> DEFINE O == [k \in K |-> k.object]
                 T == {O[k] : k \in K}
      <4>2. \A x, y \in K : O[x] = O[y] => x = y
        BY <1>1
      <4>3. T = {k.object : k \in K} /\ K \subseteq DOMAIN O
        OBVIOUS
      <4> HIDE DEF O, class
      <4>4. IsFiniteSet(T)
        BY <1>1, <4>2, <4>3, ImageSize
      <4> HIDE DEF T
      <4> QED BY <4>1, <4>3, <4>4, FS_Subset
    <3>3. PICK x, y \in class(o) : x # y
      <4> HIDE DEF class
      <4> QED BY <2>3, <3>2, PairIs
    <3>4. PICK z \in class(o) : z # o
      BY <3>3
    <3>5. PICK k \in K : k.object = z
      BY <1>1
    <3>6. c \in C
      BY <1>4, <3>1, <3>4, <3>5
    <3> HIDE DEF class
    <3>7. c \in D
      BY <1>9, <2>3, <3>1, <3>6
    <3> QED BY <1>9, <3>1, <3>7
  <2> HIDE DEF class, objects, D
  <2> QED BY <1>10, <2>1, <2>2, <2>3
<1>12. ASSUME NEW g \in Groups(C, hash)
       PROVE  /\ Cardinality({f.object : f \in g.files}) = Cardinality(g.files)
              /\ g.reclaimable = g.size * (Cardinality(g.files) - 1)
              /\ \A f \in g.files : ~ f.hardLinked
  <2>1. PICK c \in C : g = G(c)
    BY <1>10
  <2> HIDE DEF class
  <2> QED BY <1>9, <2>1 DEF Waste
<1> QED
  BY <1>11, <1>12 DEF Exact, C

-----------------------------------------------------------------------------
(* What the steps of others leave alone.                                   *)

\* The nodes of a tree stay, with their paths.
Grown(m, r) == Len(m) <= Len(r) /\ \A k \in 1..Len(m) : r[k].path = m[k].path

\* How scans, disk and answers change: a new scan, or a tree whose nodes stay; a
\* change by other programs, or files removed; what is gone stays gone.
Onward ==
    /\ scans' \in Nat /\ changes' \in Nat
    /\ scans' > scans \/ (scans' = scans /\ Grown(model, model'))
    /\ \/ changes' > changes
       \/ changes' = changes /\ \A p \in Paths : disk'[p] \in {disk[p], NoObject}
    /\ \A p \in Paths : disk[p] = NoObject => disk'[p] = NoObject
    /\ astray => astray'

\* A node that is in a tree is in the tree that has grown from it.
LEMMA FitsOn ==
    ASSUME NEW m, NEW r, IsModel(m), IsModel(r), Grown(m, r)
    PROVE  \A x : Fits(x, m) => Fits(x, r)
<1>1. Len(m) \in Nat /\ Len(r) \in Nat
  BY DEF IsModel
<1> QED BY <1>1 DEF Fits, Grown

\* What is known of a detection stays so while the rest of the system goes on.
LEMMA TaskStays ==
    ASSUME DupTypes, IsModel(model'), Onward
    PROVE  \A k : TaskOK(k, model, scans, disk, changes)
                    => TaskOK(k, model', scans', disk', changes')
<1> TAKE k
<1> HAVE TaskOK(k, model, scans, disk, changes)
<1>1. IsTask(k) /\ k.of \in Nat /\ k.changes \in Nat /\ k.of <= scans /\ k.changes <= changes
  BY DEF TaskOK, IsTask
<1>2. scans \in Nat /\ changes \in Nat /\ IsModel(model)
  BY DEF DupTypes
<1>3. k.of <= scans' /\ k.changes <= changes'
  BY <1>1, <1>2 DEF Onward
<1>4. Clean(k, disk', changes') => Clean(k, disk, changes)
  <2>1. \A c \in k.basis : c.path \in Paths /\ c.object # NoObject
    BY <1>1, DuplicatesAssumption DEF IsTask, IsBasis, NodeRecord
  <2> SUFFICES ASSUME Clean(k, disk', changes') PROVE Clean(k, disk, changes)
    OBVIOUS
  <2>2. changes' = k.changes
    BY DEF Clean
  <2>3. changes' = changes /\ \A p \in Paths : disk'[p] \in {disk[p], NoObject}
    BY <1>1, <1>2, <2>2 DEF Onward
  <2> QED BY <2>1, <2>3 DEF Clean
<1>5. k.of = scans' => \A c \in k.basis : Fits(c, model')
  <2> SUFFICES ASSUME k.of = scans' PROVE \A c \in k.basis : Fits(c, model')
    OBVIOUS
  <2>1. scans' = scans /\ Grown(model, model')
    BY <1>1, <1>2 DEF Onward
  <2>2. \A x : Fits(x, model) => Fits(x, model')
    BY <1>2, <2>1, FitsOn
  <2> QED BY <2>1, <2>2 DEF TaskOK
<1>6. k.phase = "partial" => FirstPassOK(k, Clean(k, disk', changes'))
  BY <1>4 DEF TaskOK, FirstPassOK
<1>7. k.phase = "full" => SecondPassOK(k, Clean(k, disk', changes'))
  BY <1>4 DEF TaskOK, SecondPassOK
<1> QED
  BY <1>1, <1>3, <1>5, <1>6, <1>7 DEF TaskOK

\* The same for all detections, when none of them moves.
LEMMA TasksStay ==
    ASSUME DupTypes, IsModel(model'), Onward, TasksOK, tasks' = tasks
    PROVE  TasksOK'
BY TaskStays DEF TasksOK

\* What is known of a file to be removed stays so.
LEMMA TargetStays ==
    ASSUME DupTypes, IsModel(model'), Onward
    PROVE  \A t : TargetOK(t, model, scans, astray) => TargetOK(t, model', scans', astray')
<1>1. scans \in Nat /\ IsModel(model)
  BY DEF DupTypes
<1> TAKE t
<1> HAVE TargetOK(t, model, scans, astray)
<1>2. t.of = scans' => scans' = scans /\ Grown(model, model')
  BY <1>1 DEF TargetOK, Onward
<1>3. t.of = scans' /\ Fits(t, model) => Fits(t, model')
  BY <1>1, <1>2, FitsOn
<1>4. t.path \in Paths /\ t.of \in Nat /\ t.of <= scans'
  BY <1>1 DEF TargetOK, Onward
<1>5. ~ astray' => t.ticked /\ (t.of = scans' => Fits(t, model'))
  BY <1>2, <1>3 DEF TargetOK, Onward
<1> QED
  BY <1>4, <1>5 DEF TargetOK

\* What is known of a batch of removals stays so.
LEMMA BatchStays ==
    ASSUME DupTypes, IsModel(model'), Onward
    PROVE  \A b : BatchOK(b, model, scans, astray, disk)
                    => BatchOK(b, model', scans', astray', disk')
<1> TAKE b
<1> HAVE BatchOK(b, model, scans, astray, disk)
<1>1. \A t \in b.todo \union b.removed : TargetOK(t, model', scans', astray')
  BY TargetStays DEF BatchOK
<1>2. \A t \in b.removed : disk'[t.path] = NoObject
  BY DEF BatchOK, TargetOK, Onward
<1> QED
  BY <1>1, <1>2 DEF BatchOK

\* The same for the dialog and all batches, when none of them moves.
LEMMA TargetsStay ==
    ASSUME DupTypes, IsModel(model'), Onward, TargetsOK, dialog' = dialog, batches' = batches
    PROVE  TargetsOK'
BY TargetStays, BatchStays DEF TargetsOK

\* A step that is about something else keeps the tombstones right.
LEMMA TombstonesStay ==
    ASSUME TombstonesOK, model' = model, disk' = disk, batches' = batches,
           scannedAt' = scannedAt, changes' = changes, astray => astray'
    PROVE  TombstonesOK'
BY DEF TombstonesOK

\* The ticks that are left still fit the tree when it has grown.
LEMMA TicksStay ==
    ASSUME DupTypes, TicksFit, IsModel(model'), Grown(model, model'), report' = report,
           ticked' \subseteq ticked, astray => astray'
    PROVE  TicksFit'
<1>1. \A x : Fits(x, model) => Fits(x, model')
  BY FitsOn DEF DupTypes
<1>2. Files' = Files
  BY DEF Files
<1> QED BY <1>1, <1>2 DEF TicksFit

-----------------------------------------------------------------------------
(* The detection.                                                          *)

\* A sequence is one over its own elements.
LEMMA OwnSeq ==
    ASSUME NEW S, NEW s \in Seq(S)
    PROVE  s \in Seq(ToSet(s))
<1> DEFINE e(i) == s[i]
<1>1. Len(s) \in Nat /\ DOMAIN s = 1..Len(s) /\ s = [i \in 1..Len(s) |-> e(i)]
  OBVIOUS
<1>2. \A i \in 1..Len(s) : e(i) \in ToSet(s)
  BY <1>1 DEF ToSet
<1>3. [i \in 1..Len(s) |-> e(i)] \in Seq(ToSet(s))
  <2> HIDE DEF e
  <2> QED BY <1>1, <1>2, IsASeq
<1> QED BY <1>1, <1>3

\* One element added at the end.
Grow(s, e) == Append(s, e)

\* It keeps the other elements.
LEMMA GrowIs ==
    ASSUME NEW s, s \in Seq(ToSet(s)), NEW e, NEW r, r = Grow(s, e)
    PROVE  /\ r \in Seq(ToSet(r)) /\ Len(r) = Len(s) + 1 /\ Len(s) \in Nat
           /\ \A i \in 1..Len(s) : r[i] = s[i]
           /\ r[Len(s) + 1] = e
<1> DEFINE S == ToSet(s) \union {e}
<1>1. s \in Seq(S) /\ e \in S
  OBVIOUS
<1> HIDE DEF S
<1>2. /\ r \in Seq(S) /\ Len(r) = Len(s) + 1
      /\ \A i \in 1..Len(s) : r[i] = s[i]
      /\ r[Len(s) + 1] = e
  BY <1>1, AppendProperties DEF Grow
<1>3. Len(s) \in Nat
  BY <1>1
<1>4. r \in Seq(ToSet(r))
  BY <1>2, OwnSeq
<1> QED BY <1>2, <1>3, <1>4

\* One element of a sequence replaced.
Put(s, k, e) == [s EXCEPT ![k] = e]

\* It keeps the length and the other elements.
LEMMA PutIs ==
    ASSUME NEW s, s \in Seq(ToSet(s)), NEW k \in 1..Len(s), NEW e,
           NEW r, r = Put(s, k, e)
    PROVE  /\ r \in Seq(ToSet(r)) /\ Len(r) = Len(s)
           /\ r[k] = e /\ \A i \in 1..Len(s) : i # k => r[i] = s[i]
<1> DEFINE S == ToSet(s) \union {e}
<1>1. s \in Seq(S) /\ e \in S
  OBVIOUS
<1> HIDE DEF S
<1>2. /\ r \in Seq(S) /\ Len(r) = Len(s)
      /\ \A i \in 1..Len(s) : r[i] = IF i = k THEN e ELSE s[i]
  BY <1>1, ExceptSeq DEF Put
<1> QED BY <1>2, OwnSeq

\* A detection that starts.
LEMMA NewTask ==
    ASSUME DupTypes, IsModel(model'), Onward, TasksOK, changes' = changes,
           tasks' = Append(tasks, [phase |-> "partial", of |-> scans',
                                   basis |-> CollectCandidates(model'),
                                   cands |-> OnePerIdentity(CollectCandidates(model')),
                                   todo |-> SizeShared(OnePerIdentity(CollectCandidates(model'))),
                                   hash |-> [n \in {} |-> "failed"], changes |-> changes])
    PROVE  TasksOK'
<1> DEFINE B == CollectCandidates(model')
           h == [n \in {} |-> "failed"]
<1>1. PICK k : k = [phase |-> "partial", of |-> scans', basis |-> B, cands |-> OnePerIdentity(B),
                    todo |-> SizeShared(OnePerIdentity(B)), hash |-> h, changes |-> changes]
  OBVIOUS
<1>2. IsBasis(B) /\ \A c \in B : Fits(c, model')
  BY CandidatesAreBasis DEF Fits
<1>3. DOMAIN h = {}
  OBVIOUS
<1>4. tasks' = Grow(tasks, k)
  BY <1>1 DEF Grow
<1> HIDE DEF B, h
<1>5. /\ k.phase = "partial" /\ k.of = scans' /\ k.basis = B /\ k.cands = OnePerIdentity(B)
      /\ k.todo = Shared(B) /\ k.hash = h /\ k.changes = changes
      /\ k = [phase |-> k.phase, of |-> k.of, basis |-> k.basis, cands |-> k.cands,
              todo |-> k.todo, hash |-> k.hash, changes |-> k.changes]
  BY <1>1 DEF Shared
<1>6. scans' \in Nat /\ changes \in Nat
  BY DEF DupTypes, Onward
<1>7. IsTask(k)
  BY <1>2, <1>5, <1>6 DEF IsTask
<1>8. FirstPassOK(k, Clean(k, disk', changes'))
  <2>1. k.todo \subseteq Shared(B) /\ Shared(B) \ k.todo = {} /\ DOMAIN k.hash = {}
    BY <1>3, <1>5
  <2> QED BY <1>5, <2>1 DEF FirstPassOK, Hashed, Covers
<1>9. TaskOK(k, model', scans', disk', changes')
  BY <1>2, <1>5, <1>6, <1>7, <1>8 DEF TaskOK
<1>10. /\ tasks' \in Seq(ToSet(tasks')) /\ Len(tasks') = Len(tasks) + 1 /\ Len(tasks) \in Nat
       /\ \A i \in 1..Len(tasks) : tasks'[i] = tasks[i]
       /\ tasks'[Len(tasks) + 1] = k
  BY <1>4, GrowIs DEF TasksOK
<1>11. ASSUME NEW t \in 1..Len(tasks')
       PROVE  TaskOK(tasks'[t], model', scans', disk', changes')
  <2>1. CASE t = Len(tasks) + 1
    BY <1>9, <1>10, <2>1
  <2>2. CASE t # Len(tasks) + 1
    <3>1. t \in 1..Len(tasks)
      BY <1>10, <2>2
    <3>2. TaskOK(tasks[t], model, scans, disk, changes)
      BY <3>1 DEF TasksOK
    <3> QED BY <1>10, <3>1, <3>2, TaskStays
  <2> QED BY <2>1, <2>2
<1> QED BY <1>10, <1>11 DEF TasksOK

\* One detection goes on.
LEMMA OneTask ==
    ASSUME DupTypes, IsModel(model'), Onward, TasksOK, NEW t \in 1..Len(tasks), NEW k,
           tasks' = Put(tasks, t, k), TaskOK(k, model', scans', disk', changes')
    PROVE  TasksOK'
<1>1. /\ tasks' \in Seq(ToSet(tasks')) /\ Len(tasks') = Len(tasks)
      /\ tasks'[t] = k /\ \A i \in 1..Len(tasks) : i # t => tasks'[i] = tasks[i]
  <2>1. tasks \in Seq(ToSet(tasks))
    BY DEF TasksOK
  <2>2. PICK s : s = tasks
    OBVIOUS
  <2>3. PICK r : r = tasks'
    OBVIOUS
  <2>4. s \in Seq(ToSet(s)) /\ t \in 1..Len(s) /\ r = Put(s, t, k)
    BY <2>1, <2>2, <2>3
  <2>5. /\ r \in Seq(ToSet(r)) /\ Len(r) = Len(s)
        /\ r[t] = k /\ \A i \in 1..Len(s) : i # t => r[i] = s[i]
    BY <2>4, PutIs
  <2> QED BY <2>2, <2>3, <2>5
<1>2. ASSUME NEW i \in 1..Len(tasks')
      PROVE  TaskOK(tasks'[i], model', scans', disk', changes')
  <2>1. CASE i = t
    BY <1>1, <2>1
  <2>2. CASE i # t
    <3>1. TaskOK(tasks[i], model, scans, disk, changes)
      BY <1>1 DEF TasksOK
    <3> QED BY <1>1, <2>2, <3>1, TaskStays
  <2> QED BY <2>1, <2>2
<1> QED BY <1>1, <1>2 DEF TasksOK

\* Nothing but the detections changes.
Elsewhere ==
    UNCHANGED <<env, scanVars, tab, computing, report, ticked, dialog, batches, astray, status>>

\* A step of a detection keeps all that is said of the rest.
LEMMA ElsewhereKeeps ==
    ASSUME DupInv, Elsewhere
    PROVE  /\ DupTypes' /\ GroupsExact' /\ TicksFit' /\ TargetsOK' /\ TombstonesOK'
           /\ IsModel(model') /\ Onward
<1>1. /\ disk' = disk /\ changes' = changes /\ scans' = scans /\ model' = model
      /\ scannedAt' = scannedAt /\ report' = report /\ ticked' = ticked /\ dialog' = dialog
      /\ batches' = batches /\ astray' = astray
  BY DEF Elsewhere, env, scanVars
<1>2. Files' = Files
  BY <1>1 DEF Files
<1>3. DupTypes'
  BY <1>1, <1>2 DEF DupInv, DupTypes
<1>4. IsModel(model') /\ Onward
  BY <1>1 DEF DupInv, DupTypes, Onward, Grown, IsModel
<1>5. GroupsExact'
  BY <1>1 DEF DupInv, GroupsExact
<1>6. TicksFit' /\ TargetsOK' /\ TombstonesOK'
  BY <1>1, <1>2 DEF DupInv, TicksFit, TargetsOK, TombstonesOK
<1> QED BY <1>3, <1>4, <1>5, <1>6

\* What ensure_duplicates starts, if anything.
LEMMA EnsureKeeps ==
    ASSUME DupTypes, IsModel(model'), Onward, TasksOK, changes' = changes,
           NEW m, m = model', NEW sc, sc = scans', Ensure(m, sc)
    PROVE  TasksOK'
<1>1. CASE tasks' = tasks
  BY <1>1, TasksStay
<1>2. CASE tasks' = Append(tasks, [phase |-> "partial", of |-> sc,
                                   basis |-> CollectCandidates(m),
                                   cands |-> OnePerIdentity(CollectCandidates(m)),
                                   todo |-> SizeShared(OnePerIdentity(CollectCandidates(m))),
                                   hash |-> [n \in {} |-> "failed"], changes |-> changes])
  BY <1>2, NewTask
<1>3. tasks' = tasks \/ tasks' = Append(tasks, [phase |-> "partial", of |-> sc,
                                   basis |-> CollectCandidates(m),
                                   cands |-> OnePerIdentity(CollectCandidates(m)),
                                   todo |-> SizeShared(OnePerIdentity(CollectCandidates(m))),
                                   hash |-> [n \in {} |-> "failed"], changes |-> changes])
  BY DEF Ensure
<1> QED BY <1>1, <1>2, <1>3

\* A node stands for one file.
OnePerNode(S) == \A c, d \in S : c.node = d.node => c = d

\* One more file hashed.
LEMMA OneMoreHash ==
    ASSUME NEW S, NEW todo, NEW hash, NEW c, NEW h,
           Covers(hash, todo, S), c \in todo
    PROVE  Covers(Recorded(hash, c.node, h), todo \ {c}, S)
<1> DEFINE r == Recorded(hash, c.node, h)
<1>0. todo \subseteq S /\ DOMAIN hash = {d.node : d \in S \ todo}
  BY DEF Covers
<1>1. r = [n \in DOMAIN hash \union {c.node} |-> IF n = c.node THEN h ELSE hash[n]]
  BY DEF Recorded
<1> HIDE DEF r
<1>3. S \ (todo \ {c}) = (S \ todo) \union {c} /\ todo \ {c} \subseteq S
  BY <1>0
<1>4. DOMAIN r = {d.node : d \in S \ (todo \ {c})}
  BY <1>0, <1>1, <1>3
<1> QED BY <1>3, <1>4 DEF Covers, r

\* What a file hashes to while nobody touches it.
LEMMA HashesAre ==
    ASSUME NEW B, IsBasis(B), NEW c \in B, disk[c.path] = c.object
    PROVE  PartialHash(c) = Ends[Content[c.object]] /\ FullHash(c) = Content[c.object]
<1>1. c.object \in Objects /\ c.size = SizeOf(c.object) /\ c.size \in Nat
  BY DEF IsBasis, NodeRecord
<1>2. c.object # NoObject
  BY <1>1, DuplicatesAssumption
<1> QED BY <1>1, <1>2 DEF PartialHash, FullHash, SizeOf

\* The next file is read, or cannot be read, in either pass.
LEMMA HashKeeps ==
    ASSUME DupInv, NEW t \in 1..Len(tasks), HashNext(t)
    PROVE  DupInv'
<1> DEFINE x == tasks[t]
<1>1. TaskOK(x, model, scans, disk, changes) /\ IsTask(x) /\ IsBasis(x.basis)
  BY DEF DupInv, TasksOK, TaskOK, IsTask
<1>2. x.phase \in {"partial", "full"} /\ Elsewhere
  BY DEF HashNext, Elsewhere
<1>3. PICK c \in x.todo :
        tasks' = [tasks EXCEPT ![t] =
                    [x EXCEPT !.todo = x.todo \ {c},
                              !.hash = Recorded(x.hash, c.node, HashOf(x.phase, c))]]
  BY DEF HashNext
<1> DEFINE left == x.todo \ {c}
           hash == Recorded(x.hash, c.node, HashOf(x.phase, c))
<1>4. PICK k : k = [x EXCEPT !.todo = left, !.hash = hash]
  OBVIOUS
<1>5. tasks' = Put(tasks, t, k)
  <2>1. tasks' = [tasks EXCEPT ![t] = k]
    <3> HIDE DEF x
    <3> QED BY <1>3, <1>4, Zenon
  <2> QED BY <2>1 DEF Put
<1>6. hash = Recorded(x.hash, c.node, HashOf(x.phase, c))
  OBVIOUS
<1>7. /\ k.phase = x.phase /\ k.of = x.of /\ k.basis = x.basis /\ k.cands = x.cands
      /\ k.todo = left /\ k.hash = hash /\ k.changes = x.changes
      /\ k = [phase |-> k.phase, of |-> k.of, basis |-> k.basis, cands |-> k.cands,
              todo |-> k.todo, hash |-> k.hash, changes |-> k.changes]
  <2> HIDE DEF left, hash, x
  <2>1. PICK xp, xo, xb, xc, xt, xh, xn :
          x = [phase |-> xp, of |-> xo, basis |-> xb, cands |-> xc,
               todo |-> xt, hash |-> xh, changes |-> xn]
    BY <1>1 DEF IsTask
  <2> QED BY <1>4, <2>1
<1>8. IsTask(k) /\ k.of <= scans /\ k.changes <= changes
      /\ (Clean(k, disk, changes) = Clean(x, disk, changes))
  BY <1>1, <1>7 DEF IsTask, TaskOK, Clean
<1>9. ASSUME NEW S, S \subseteq x.basis, Hashed(x, S)
      PROVE  /\ Hashed(k, S) /\ c \in S
             /\ k.hash[c.node] = HashOf(x.phase, c)
             /\ \A d \in S \ x.todo : k.hash[d.node] = x.hash[d.node]
  <2>1. Covers(x.hash, x.todo, S) /\ x.todo \subseteq S
    BY <1>9 DEF Hashed, Covers
  <2>2. OnePerNode(S)
    BY <1>1, <1>9 DEF IsBasis, OnePerNode
  <2>3. c \in S
    BY <2>1
  <2> HIDE DEF hash, x
  <2>4. /\ Covers(hash, x.todo \ {c}, S)
        /\ hash[c.node] = HashOf(x.phase, c)
        /\ \A d \in S \ x.todo : hash[d.node] = x.hash[d.node]
    <3>1. c \in x.todo
      OBVIOUS
    <3>2. Covers(Recorded(x.hash, c.node, HashOf(x.phase, c)), x.todo \ {c}, S)
      BY <2>1, <2>2, <3>1, OneMoreHash
    <3>3. DOMAIN x.hash = {d.node : d \in S \ x.todo}
      BY <2>1 DEF Covers
    <3>4. hash = [n \in DOMAIN x.hash \union {c.node} |->
                     IF n = c.node THEN HashOf(x.phase, c) ELSE x.hash[n]]
      BY <1>6 DEF Recorded
    <3>5. hash[c.node] = HashOf(x.phase, c)
      BY <3>4
    <3>6. \A d \in S \ x.todo : d.node # c.node /\ d.node \in DOMAIN x.hash
      BY <2>2, <2>3, <3>1, <3>3 DEF OnePerNode
    <3>7. \A d \in S \ x.todo : hash[d.node] = x.hash[d.node]
      BY <3>4, <3>6
    <3> QED BY <1>6, <3>2, <3>5, <3>7
  <2>5. k.todo = x.todo \ {c} /\ k.hash = hash
    BY <1>7
  <2>6. Hashed(k, S)
    BY <2>1, <2>4, <2>5 DEF Hashed
  <2> QED BY <2>3, <2>4, <2>5, <2>6
<1>10. ASSUME x.phase = "partial" PROVE TaskOK(k, model, scans, disk, changes)
  <2>1. FirstPassOK(x, Clean(x, disk, changes)) /\ Hashed(x, Shared(x.basis))
    BY <1>1, <1>10 DEF TaskOK, FirstPassOK
  <2>2. Shared(x.basis) \subseteq x.basis
    BY DEF Shared, SizeShared, OnePerIdentity
  <2>3. /\ Hashed(k, Shared(x.basis)) /\ c \in Shared(x.basis)
        /\ k.hash[c.node] = HashOf(x.phase, c)
        /\ \A d \in Shared(x.basis) \ x.todo : k.hash[d.node] = x.hash[d.node]
    BY <1>9, <2>1, <2>2
  <2>4. ASSUME Clean(x, disk, changes), NEW d \in Shared(x.basis) \ k.todo
        PROVE  k.hash[d.node] = Ends[Content[d.object]]
    <3>1. CASE d = c
      <4>1. disk[c.path] = c.object /\ c \in x.basis
        BY <2>2, <2>3, <2>4 DEF Clean
      <4> HIDE DEF x
      <4>2. PartialHash(c) = Ends[Content[c.object]]
        BY <1>1, <4>1, HashesAre
      <4> QED BY <1>10, <2>3, <3>1, <4>2 DEF HashOf
    <3>2. CASE d # c
      <4>1. d \in Shared(x.basis) \ x.todo
        BY <1>7, <2>4, <3>2
      <4> QED BY <2>1, <2>3, <2>4, <4>1 DEF FirstPassOK
    <3> QED BY <3>1, <3>2
  <2>5. FirstPassOK(k, Clean(k, disk, changes))
    BY <1>7, <1>8, <2>1, <2>3, <2>4 DEF FirstPassOK
  <2> QED BY <1>1, <1>7, <1>8, <1>10, <2>5 DEF TaskOK
<1>11. ASSUME x.phase = "full" PROVE TaskOK(k, model, scans, disk, changes)
  <2>1. SecondPassOK(x, Clean(x, disk, changes)) /\ Hashed(x, x.cands) /\ x.cands \subseteq x.basis
    BY <1>1, <1>11 DEF TaskOK, SecondPassOK
  <2>3. /\ Hashed(k, x.cands) /\ c \in x.cands
        /\ k.hash[c.node] = HashOf(x.phase, c)
        /\ \A d \in x.cands \ x.todo : k.hash[d.node] = x.hash[d.node]
    BY <1>9, <2>1
  <2>4. ASSUME Clean(x, disk, changes), NEW d \in x.cands \ k.todo
        PROVE  k.hash[d.node] = Content[d.object]
    <3>1. CASE d = c
      <4>1. disk[c.path] = c.object /\ c \in x.basis
        BY <2>1, <2>3, <2>4 DEF Clean
      <4> HIDE DEF x
      <4>2. FullHash(c) = Content[c.object]
        BY <1>1, <4>1, HashesAre
      <4> QED BY <1>11, <2>3, <3>1, <4>2 DEF HashOf
    <3>2. CASE d # c
      <4>1. d \in x.cands \ x.todo
        BY <1>7, <2>4, <3>2
      <4> QED BY <2>1, <2>3, <2>4, <4>1 DEF SecondPassOK
    <3> QED BY <3>1, <3>2
  <2>5. SecondPassOK(k, Clean(k, disk, changes))
    BY <1>7, <1>8, <2>1, <2>3, <2>4 DEF SecondPassOK
  <2> QED BY <1>1, <1>7, <1>8, <1>11, <2>5 DEF TaskOK
<1>12. TaskOK(k, model, scans, disk, changes)
  BY <1>2, <1>10, <1>11
<1>13. TaskOK(k, model', scans', disk', changes')
  BY <1>2, <1>12 DEF Elsewhere, env, scanVars
<1>14. /\ DupTypes' /\ GroupsExact' /\ TicksFit' /\ TargetsOK' /\ TombstonesOK'
       /\ IsModel(model') /\ Onward
  BY <1>2, ElsewhereKeeps
<1>15. TasksOK'
  BY <1>5, <1>13, <1>14, OneTask DEF DupInv
<1> QED BY <1>14, <1>15 DEF DupInv

\* What the second pass hashes is what the ends of the contents cannot tell apart.
LEMMA CollidingAreSuspects ==
    ASSUME NEW B, IsBasis(B), NEW hash,
           \A c \in Shared(B) : hash[c.node] = Ends[Content[c.object]]
    PROVE  Colliding(Shared(B), hash) = Suspects(B)
<1>1. \A c \in Shared(B) : c \in B /\ c.object \in Objects
  BY DEF Shared, SizeShared, OnePerIdentity, IsBasis, NodeRecord
<1>2. \A c \in Shared(B) : hash[c.node] # "failed"
  BY <1>1, DuplicatesAssumption
<1>3. {c \in Shared(B) : hash[c.node] # "failed"} = Shared(B)
  BY <1>2
<1>4. Colliding(Shared(B), hash) =
        {c \in Shared(B) : \E d, e \in Shared(B) :
            d # e /\ d.size = c.size /\ e.size = c.size /\ hash[d.node] = hash[e.node]}
  BY <1>3 DEF Colliding
<1>5. \A d, e \in Shared(B) : hash[d.node] = hash[e.node]
                              <=> Ends[Content[d.object]] = Ends[Content[e.object]]
  OBVIOUS
<1> DEFINE S == Shared(B)
<1> HIDE DEF S
<1>6. {c \in S : \E d, e \in S :
            d # e /\ d.size = c.size /\ e.size = c.size /\ hash[d.node] = hash[e.node]}
      = {c \in S : \E d, e \in S :
            d # e /\ d.size = c.size /\ e.size = c.size
            /\ Ends[Content[d.object]] = Ends[Content[e.object]]}
  BY <1>5 DEF S
<1> QED BY <1>4, <1>6 DEF S, Suspects

\* The second pass begins.
LEMMA SecondPassKeeps ==
    ASSUME DupInv, NEW t \in 1..Len(tasks), SecondPass(t)
    PROVE  DupInv'
<1> DEFINE x == tasks[t]
           B == x.basis
           C == Colliding(SizeShared(x.cands), x.hash)
           h == [n \in {} |-> "failed"]
<1>1. TaskOK(x, model, scans, disk, changes) /\ IsTask(x) /\ IsBasis(B)
  BY DEF DupInv, TasksOK, TaskOK, IsTask
<1>2. x.phase = "partial" /\ x.todo = {} /\ Elsewhere
  BY DEF SecondPass, Elsewhere
<1>3. tasks' = [tasks EXCEPT ![t] =
                  [x EXCEPT !.phase = "full", !.cands = C, !.todo = C, !.hash = h]]
  BY DEF SecondPass
<1>4. PICK k : k = [x EXCEPT !.phase = "full", !.cands = C, !.todo = C, !.hash = h]
  OBVIOUS
<1>5. tasks' = Put(tasks, t, k)
  BY <1>3, <1>4 DEF Put
<1>6. DOMAIN h = {}
  OBVIOUS
<1>7. /\ k.phase = "full" /\ k.of = x.of /\ k.basis = B /\ k.cands = C
      /\ k.todo = C /\ k.hash = h /\ k.changes = x.changes
      /\ k = [phase |-> k.phase, of |-> k.of, basis |-> k.basis, cands |-> k.cands,
              todo |-> k.todo, hash |-> k.hash, changes |-> k.changes]
  <2> HIDE DEF C, h, x
  <2>1. PICK xp, xo, xb, xc, xt, xh, xn :
          x = [phase |-> xp, of |-> xo, basis |-> xb, cands |-> xc,
               todo |-> xt, hash |-> xh, changes |-> xn]
    BY <1>1 DEF IsTask
  <2> QED BY <1>4, <2>1
<1>8. IsTask(k) /\ k.of <= scans /\ k.changes <= changes
      /\ (Clean(k, disk, changes) = Clean(x, disk, changes))
  BY <1>1, <1>7 DEF IsTask, TaskOK, Clean
<1>9. FirstPassOK(x, Clean(x, disk, changes))
  BY <1>1, <1>2 DEF TaskOK
<1>10. C = Colliding(Shared(B), x.hash) /\ C \subseteq B
  BY <1>9 DEF FirstPassOK, Shared, Colliding, SizeShared, OnePerIdentity
<1>11. Clean(x, disk, changes) => C = Suspects(B)
  <2> SUFFICES ASSUME Clean(x, disk, changes) PROVE C = Suspects(B)
    OBVIOUS
  <2>1. \A c \in Shared(B) : x.hash[c.node] = Ends[Content[c.object]]
    BY <1>2, <1>9 DEF FirstPassOK
  <2> HIDE DEF x, B, C
  <2> QED BY <1>1, <1>10, <2>1, CollidingAreSuspects
<1>12. SecondPassOK(k, Clean(k, disk, changes))
  <2>1. C \ C = {}
    OBVIOUS
  <2> HIDE DEF x, B, C, h
  <2>2. Hashed(k, k.cands)
    BY <1>6, <1>7, <2>1 DEF Hashed, Covers
  <2>3. \A c \in k.cands \ k.todo : FALSE
    BY <1>7
  <2> QED BY <1>7, <1>8, <1>10, <1>11, <2>2, <2>3 DEF SecondPassOK
<1>13. TaskOK(k, model, scans, disk, changes)
  <2> HIDE DEF x, B, C, h
  <2> QED BY <1>1, <1>7, <1>8, <1>12 DEF TaskOK, B
<1>14. TaskOK(k, model', scans', disk', changes')
  BY <1>2, <1>13 DEF Elsewhere, env, scanVars
<1>15. /\ DupTypes' /\ GroupsExact' /\ TicksFit' /\ TargetsOK' /\ TombstonesOK'
       /\ IsModel(model') /\ Onward
  BY <1>2, ElsewhereKeeps
<1>16. TasksOK'
  BY <1>5, <1>14, <1>15, OneTask DEF DupInv
<1> QED BY <1>15, <1>16 DEF DupInv

\* A step that changes none of this is no matter to the others.
LEMMA Steady ==
    ASSUME DupInv, model' = model, scans' = scans, disk' = disk, changes' = changes,
           astray' \in BOOLEAN, astray => astray'
    PROVE  IsModel(model') /\ Onward /\ Grown(model, model')
<1>1. IsModel(model) /\ scans \in Nat /\ changes \in Nat /\ Len(model) \in Nat
  BY DEF DupInv, DupTypes, IsModel
<1>2. Grown(model, model')
  BY <1>1 DEF Grown
<1> QED BY <1>1, <1>2 DEF Onward

\* The answer of a detection lands.
LEMMA DetectionEndsKeeps ==
    ASSUME DupInv, NEW t \in 1..Len(tasks), DetectionEnds(t)
    PROVE  DupInv'
<1> DEFINE x == tasks[t]
           B == x.basis
           G == Groups(x.cands, x.hash)
<1>1. TaskOK(x, model, scans, disk, changes) /\ IsTask(x) /\ IsBasis(B) /\ x.of \in Nat
  BY DEF DupInv, TasksOK, TaskOK, IsTask
<1>2. /\ x.phase = "full" /\ x.todo = {}
      /\ disk' = disk /\ changes' = changes /\ scans' = scans /\ model' = model
      /\ scannedAt' = scannedAt /\ ticked' = ticked /\ dialog' = dialog /\ batches' = batches
      /\ astray' = (astray \/ x.of # scans)
      /\ tasks' = [tasks EXCEPT ![t].phase = "over"]
  BY DEF DetectionEnds, env, scanVars
<1>3. report' = [groups |-> G, of |-> x.of, clean |-> changes = x.changes
                            /\ \A c \in B : disk[c.path] = c.object, basis |-> B]
  BY DEF DetectionEnds
<1>4. SecondPassOK(x, Clean(x, disk, changes))
  BY <1>1, <1>2 DEF TaskOK
<1>5. report'.groups = G /\ report'.basis = B /\ report'.clean = Clean(x, disk, changes)
  BY <1>3 DEF Clean
<1> HIDE DEF G
<1>6. astray' \in BOOLEAN /\ (astray => astray')
  BY <1>2 DEF DupInv, DupTypes
<1>7. IsModel(model') /\ Onward
  BY <1>2, <1>6, Steady
<1>8. \A f \in Files' : \E c \in B : f.node = c.node /\ f.path = c.path
  <2> TAKE f \in Files'
  <2>1. PICK g \in G : f \in g.files
    BY <1>5 DEF Files
  <2>2. PICK c \in x.cands : f.node = c.node /\ f.path = c.path
    BY <2>1, ReportedAreCandidates DEF G
  <2> QED BY <1>4, <2>2 DEF SecondPassOK
<1>9. DupTypes'
  <2>1. \A f \in Files' : f.path \in Paths
    BY <1>1, <1>8 DEF IsBasis, NodeRecord
  <2> QED BY <1>2, <1>6, <2>1 DEF DupInv, DupTypes
<1>10. GroupsExact'
  <2> SUFFICES ASSUME Clean(x, disk, changes), KnownApart(B)
               PROVE  Exact(G, B)
    BY <1>5 DEF GroupsExact, Exact
  <2>1. x.cands = Suspects(B) /\ \A c \in Suspects(B) : x.hash[c.node] = Content[c.object]
    BY <1>2, <1>4 DEF SecondPassOK
  <2>2. Exact(Groups(Suspects(B), x.hash), B)
    <3> HIDE DEF x, B
    <3> QED BY <1>1, <2>1, ReportExact
  <2> QED BY <2>1, <2>2 DEF G
<1>11. TicksFit'
  <2> SUFFICES ASSUME ~ astray'
               PROVE  (\A f \in Files' : Fits(f, model)) /\ \A r \in ticked : Fits(r, model)
    BY <1>2 DEF TicksFit
  <2>1. ~ astray /\ x.of = scans
    BY <1>2
  <2>2. \A c \in B : Fits(c, model)
    BY <1>1, <2>1 DEF TaskOK
  <2>3. \A f \in Files' : Fits(f, model)
    BY <1>8, <2>2 DEF Fits
  <2> QED BY <2>1, <2>3 DEF DupInv, TicksFit
<1>12. TargetsOK'
  BY <1>2, <1>7, TargetsStay DEF DupInv
<1>13. TombstonesOK'
  BY <1>2, <1>6, TombstonesStay DEF DupInv
<1>14. PICK k : k = [x EXCEPT !.phase = "over"]
  OBVIOUS
<1>15. tasks' = Put(tasks, t, k)
  BY <1>2, <1>14 DEF Put
<1>16. /\ k.phase = "over" /\ k.of = x.of /\ k.basis = B /\ k.cands = x.cands
       /\ k.todo = x.todo /\ k.hash = x.hash /\ k.changes = x.changes
       /\ k = [phase |-> k.phase, of |-> k.of, basis |-> k.basis, cands |-> k.cands,
               todo |-> k.todo, hash |-> k.hash, changes |-> k.changes]
  <2> HIDE DEF x
  <2>1. PICK xp, xo, xb, xc, xt, xh, xn :
          x = [phase |-> xp, of |-> xo, basis |-> xb, cands |-> xc,
               todo |-> xt, hash |-> xh, changes |-> xn]
    BY <1>1 DEF IsTask
  <2> QED BY <1>14, <2>1
<1>17. TaskOK(k, model, scans, disk, changes)
  <2>1. IsTask(k)
    BY <1>1, <1>16 DEF IsTask
  <2> HIDE DEF x, B
  <2> QED BY <1>1, <1>16, <2>1 DEF TaskOK, B
<1>18. TaskOK(k, model', scans', disk', changes')
  BY <1>2, <1>17
<1>19. TasksOK'
  BY <1>7, <1>15, <1>18, OneTask DEF DupInv
<1> QED BY <1>9, <1>10, <1>11, <1>12, <1>13, <1>19 DEF DupInv

-----------------------------------------------------------------------------
(* Scans and the tab.                                                      *)

\* No tree at all.
LEMMA NoModel ==
    IsModel(<<>>) /\ Len(<<>>) = 0 /\ \A m : Grown(<<>>, m) <=> 0 <= Len(m)
BY DEF IsModel, Grown

\* A scan that starts takes everything with it but the tasks, the dialog and the
\* removals under way.
LEMMA StartScanKeeps ==
    ASSUME DupInv, StartScan
    PROVE  DupInv'
<1>1. /\ model' = <<>> /\ scans' = scans + 1 /\ disk' = disk /\ changes' = changes
      /\ scannedAt' = scannedAt /\ report' = NoReport /\ ticked' = {} /\ dialog' = dialog
      /\ tasks' = tasks /\ batches' = batches /\ astray' = astray
  BY DEF StartScan, env
<1>2. scans \in Nat /\ changes \in Nat
  BY DEF DupInv, DupTypes
<1>3. IsModel(model') /\ Onward
  BY <1>1, <1>2, NoModel DEF Onward
<1>4. Files' = {}
  BY <1>1 DEF Files, NoReport
<1>5. DupTypes'
  BY <1>1, <1>3, <1>4 DEF DupInv, DupTypes
<1>6. TasksOK' /\ TargetsOK'
  BY <1>1, <1>3, TasksStay, TargetsStay DEF DupInv
<1>7. GroupsExact'
  BY <1>1 DEF GroupsExact, NoReport
<1>8. TicksFit'
  BY <1>1, <1>4 DEF TicksFit
<1>9. TombstonesOK'
  BY <1>1, NoModel DEF TombstonesOK, Buried
<1> QED BY <1>5, <1>6, <1>7, <1>8, <1>9 DEF DupInv

\* A scan that finishes.
LEMMA FinishScanKeeps ==
    ASSUME DupInv, FinishScan
    PROVE  DupInv'
<1>1. /\ model = <<>> /\ model' = ScanOf /\ scannedAt' = changes
      /\ scans' = scans /\ disk' = disk /\ changes' = changes /\ report' = report
      /\ ticked' = ticked /\ dialog' = dialog /\ batches' = batches /\ astray' = astray
      /\ (tasks' = tasks \/ Ensure(ScanOf, scans))
  BY DEF FinishScan, env, Shown
<1>2. scans \in Nat /\ changes \in Nat /\ disk \in [Paths -> Objects \union {NoObject}]
  BY DEF DupInv, DupTypes
<1>3. /\ IsModel(ScanOf)
      /\ \A k \in 1..Len(ScanOf) : /\ ~ ScanOf[k].gone
                                   /\ disk[ScanOf[k].path] # NoObject
  BY <1>2, ScanIs
<1>4. Grown(model, model')
  <2>1. Len(ScanOf) \in Nat
    BY <1>3 DEF IsModel
  <2> QED BY <1>1, <2>1, NoModel
<1>5. IsModel(model') /\ Onward
  BY <1>1, <1>2, <1>3, <1>4 DEF Onward
<1>6. Files' = Files
  BY <1>1 DEF Files
<1>7. DupTypes'
  BY <1>1, <1>2, <1>5, <1>6 DEF DupInv, DupTypes
<1>8. TasksOK'
  <2>1. CASE tasks' = tasks
    BY <1>5, <2>1, TasksStay DEF DupInv
  <2>2. CASE Ensure(ScanOf, scans)
    <3>1. PICK m, sc : m = ScanOf /\ sc = scans
      OBVIOUS
    <3>2. m = model' /\ sc = scans' /\ Ensure(m, sc)
      BY <1>1, <2>2, <3>1
    <3> QED BY <1>1, <1>5, <3>2, EnsureKeeps DEF DupInv
  <2> QED BY <1>1, <2>1, <2>2
<1>9. TargetsOK'
  BY <1>1, <1>5, TargetsStay DEF DupInv
<1>10. GroupsExact'
  BY <1>1 DEF DupInv, GroupsExact
<1>11. TicksFit'
  BY <1>1, <1>4, <1>5, TicksStay DEF DupInv
<1>12. TombstonesOK'
  <2>1. \A b \in 1..Len(batches) : \A t \in batches[b].removed : disk[t.path] = NoObject
    BY DEF DupInv, TargetsOK, BatchOK
  <2>2. Buried(ScanOf, disk, batches)
    BY <1>3, <2>1 DEF Buried, Taken
  <2> QED BY <1>1, <2>2 DEF TombstonesOK
<1> QED BY <1>7, <1>8, <1>9, <1>10, <1>11, <1>12 DEF DupInv

\* The tab is opened or closed, or its button asks for a detection.
LEMMA TabKeeps ==
    ASSUME DupInv, ToggleTab \/ FindAgain
    PROVE  DupInv'
<1>1. /\ model' = model /\ scannedAt' = scannedAt /\ scans' = scans /\ disk' = disk
      /\ changes' = changes /\ report' = report /\ ticked' = ticked /\ dialog' = dialog
      /\ batches' = batches /\ astray' = astray
      /\ (tasks' = tasks \/ Ensure(model, scans))
  BY DEF ToggleTab, FindAgain, env, scanVars
<1>2. astray \in BOOLEAN
  BY DEF DupInv, DupTypes
<1>3. IsModel(model') /\ Onward /\ Grown(model, model')
  BY <1>1, <1>2, Steady
<1>4. Files' = Files
  BY <1>1 DEF Files
<1>5. DupTypes'
  BY <1>1, <1>3, <1>4 DEF DupInv, DupTypes
<1>6. TasksOK'
  <2>1. CASE tasks' = tasks
    BY <1>3, <2>1, TasksStay DEF DupInv
  <2>2. CASE Ensure(model, scans)
    <3>1. PICK m, sc : m = model /\ sc = scans
      OBVIOUS
    <3>2. m = model' /\ sc = scans' /\ Ensure(m, sc)
      BY <1>1, <2>2, <3>1
    <3> QED BY <1>1, <1>3, <3>2, EnsureKeeps DEF DupInv
  <2> QED BY <1>1, <2>1, <2>2
<1>7. TargetsOK'
  BY <1>1, <1>3, TargetsStay DEF DupInv
<1>8. GroupsExact'
  BY <1>1 DEF DupInv, GroupsExact
<1>9. TicksFit'
  BY <1>1, <1>3, TicksStay DEF DupInv
<1>10. TombstonesOK'
  BY <1>1, TombstonesStay DEF DupInv
<1> QED BY <1>5, <1>6, <1>7, <1>8, <1>9, <1>10 DEF DupInv

\* Rows are ticked or unticked.
LEMMA ToggleKeeps ==
    ASSUME DupInv, NEW S, S \subseteq Files, NEW checked, Toggle(S, checked)
    PROVE  DupInv'
<1>1. /\ model' = model /\ scannedAt' = scannedAt /\ scans' = scans /\ disk' = disk
      /\ changes' = changes /\ report' = report /\ dialog' = dialog
      /\ batches' = batches /\ astray' = astray /\ tasks' = tasks
  BY DEF Toggle, env, scanVars
<1>2. \A r \in ticked' : r \in ticked \/ \E f \in S : r = Row(f)
  BY DEF Toggle
<1>3. IsModel(model') /\ Onward /\ Grown(model, model')
  <2>1. astray \in BOOLEAN
    BY DEF DupInv, DupTypes
  <2> QED BY <1>1, <2>1, Steady
<1>4. Files' = Files
  BY <1>1 DEF Files
<1>5. DupTypes'
  <2>1. \A r \in ticked' : r = Row(r)
    BY <1>2 DEF Row, DupInv, DupTypes
  <2> QED BY <1>1, <1>3, <1>4, <2>1 DEF DupInv, DupTypes
<1>6. TasksOK' /\ TargetsOK'
  BY <1>1, <1>3, TasksStay, TargetsStay DEF DupInv
<1>7. GroupsExact'
  BY <1>1 DEF DupInv, GroupsExact
<1>8. TicksFit'
  <2>1. \A f : Fits(f, model) => Fits(Row(f), model)
    BY DEF Fits, Row
  <2>2. ~ astray => \A r \in ticked' : Fits(r, model)
    BY <1>2, <2>1 DEF DupInv, TicksFit
  <2> QED BY <1>1, <1>4, <2>2 DEF DupInv, TicksFit
<1>9. TombstonesOK'
  BY <1>1, TombstonesStay DEF DupInv
<1> QED BY <1>5, <1>6, <1>7, <1>8, <1>9 DEF DupInv

\* Another program replaces or removes what a path holds.
LEMMA OtherProgramKeeps ==
    ASSUME DupInv, NEW p \in Paths, NEW o \in Objects \union {NoObject}, OtherProgram(p, o)
    PROVE  DupInv'
<1>1. /\ model' = model /\ scannedAt' = scannedAt /\ scans' = scans
      /\ changes' = changes + 1 /\ report' = report /\ ticked' = ticked /\ dialog' = dialog
      /\ batches' = batches /\ astray' = astray /\ tasks' = tasks
      /\ disk[p] # NoObject /\ disk' = [disk EXCEPT ![p] = o]
  BY DEF OtherProgram, scanVars
<1>2. /\ scans \in Nat /\ changes \in Nat /\ disk \in [Paths -> Objects \union {NoObject}]
      /\ IsModel(model) /\ scannedAt \in Nat /\ scannedAt <= changes
  BY DEF DupInv, DupTypes
<1>3. Grown(model, model') /\ IsModel(model')
  BY <1>1, <1>2 DEF Grown, IsModel
<1>4. /\ disk' \in [Paths -> Objects \union {NoObject}]
      /\ \A q \in Paths : disk[q] = NoObject => disk'[q] = NoObject
  BY <1>1, <1>2
<1>5. Onward
  BY <1>1, <1>2, <1>3, <1>4 DEF Onward
<1>6. Files' = Files
  BY <1>1 DEF Files
<1>7. DupTypes'
  BY <1>1, <1>2, <1>3, <1>4, <1>6 DEF DupInv, DupTypes
<1>8. TasksOK' /\ TargetsOK'
  BY <1>1, <1>3, <1>5, TasksStay, TargetsStay DEF DupInv
<1>9. GroupsExact'
  BY <1>1 DEF DupInv, GroupsExact
<1>10. TicksFit'
  BY <1>1, <1>3, TicksStay DEF DupInv
<1>11. TombstonesOK'
  BY <1>1, <1>2 DEF TombstonesOK
<1> QED BY <1>7, <1>8, <1>9, <1>10, <1>11 DEF DupInv

-----------------------------------------------------------------------------
(* Removing what is ticked.                                                *)

\* The dialog opens on what is ticked: a ticked node that is in the report is in a
\* row that shows its path.
LEMMA OpenDialogKeeps ==
    ASSUME DupInv, OpenDialog
    PROVE  DupInv'
<1>1. /\ model' = model /\ scannedAt' = scannedAt /\ scans' = scans /\ disk' = disk
      /\ changes' = changes /\ report' = report /\ ticked' = ticked
      /\ batches' = batches /\ astray' = astray /\ tasks' = tasks
  BY DEF OpenDialog, env, scanVars
<1>2. scans \in Nat /\ astray \in BOOLEAN /\ IsModel(model)
  BY DEF DupInv, DupTypes
<1>3. IsModel(model') /\ Onward /\ Grown(model, model')
  BY <1>1, <1>2, Steady
<1>4. Files' = Files
  BY <1>1 DEF Files
<1>5. DupTypes'
  BY <1>1, <1>3, <1>4 DEF DupInv, DupTypes
<1>6. TasksOK'
  BY <1>1, <1>3, TasksStay DEF DupInv
<1>7. GroupsExact'
  BY <1>1 DEF DupInv, GroupsExact
<1>8. TicksFit'
  BY <1>1, <1>3, TicksStay DEF DupInv
<1>9. TombstonesOK'
  BY <1>1, TombstonesStay DEF DupInv
<1>10. ASSUME NEW t \in dialog' PROVE TargetOK(t, model, scans, astray)
  <2>1. CASE dialog' = dialog
    BY <1>10, <2>1 DEF DupInv, TargetsOK
  <2>2. CASE dialog' # dialog
    <3>1. PICK f \in Files : /\ f.node \in Selected
                             /\ t = [node |-> f.node, path |-> f.path, identity |-> Now(f.path),
                                     of |-> scans, ticked |-> Row(f) \in ticked]
      BY <1>10, <2>2 DEF OpenDialog
    <3>2. t.node = f.node /\ t.path = f.path /\ t.of = scans /\ t.ticked = (Row(f) \in ticked)
      BY <3>1
    <3>3. t.path \in Paths
      BY <3>2 DEF DupInv, DupTypes
    <3>4. ASSUME ~ astray PROVE Fits(t, model) /\ Row(f) \in ticked
      <4>1. PICK r \in ticked : r.node = f.node
        BY <3>1 DEF Selected
      <4>2. Fits(f, model) /\ Fits(r, model)
        BY <3>4 DEF DupInv, TicksFit
      <4>3. r = Row(r)
        BY DEF DupInv, DupTypes
      <4>4. r.path = f.path
        BY <4>1, <4>2 DEF Fits
      <4>5. Row(f) = r
        BY <4>1, <4>3, <4>4 DEF Row
      <4>6. Fits(t, model)
        BY <3>2, <4>2 DEF Fits
      <4> QED BY <4>5, <4>6
    <3>5. t.of \in Nat /\ t.of <= scans
      BY <1>2, <3>2
    <3>6. ~ astray => t.ticked /\ (t.of = scans => Fits(t, model))
      BY <3>2, <3>4
    <3> QED BY <3>3, <3>5, <3>6 DEF TargetOK
  <2> QED BY <2>1, <2>2
<1>11. TargetsOK'
  <2>1. \A t \in dialog' : TargetOK(t, model', scans', astray')
    BY <1>1, <1>10
  <2>2. /\ batches' \in Seq(ToSet(batches'))
        /\ \A b \in 1..Len(batches') : BatchOK(batches'[b], model', scans', astray', disk')
    BY <1>1 DEF DupInv, TargetsOK
  <2> QED BY <2>1, <2>2 DEF TargetsOK
<1> QED BY <1>5, <1>6, <1>7, <1>8, <1>9, <1>11 DEF DupInv

\* A removal that starts has removed nothing yet.
LEMMA TakenAlike ==
    ASSUME NEW s, NEW r, Len(s) \in Nat, Len(r) = Len(s) + 1,
           \A i \in 1..Len(s) : r[i] = s[i], r[Len(s) + 1].removed = {}
    PROVE  \A path : Taken(path, r) <=> Taken(path, s)
<1> TAKE path
<1> DEFINE n == Len(s)
           Has(b) == ~ b.over /\ \E t \in b.removed : t.path = path
<1>1. Taken(path, s) <=> \E b \in 1..n : Has(s[b])
  BY DEF Taken
<1>2. Taken(path, r) <=> \E b \in 1..(n + 1) : Has(r[b])
  BY DEF Taken
<1>3. ~ Has(r[n + 1])
  OBVIOUS
<1>4. n \in Nat /\ \A i \in 1..n : r[i] = s[i]
  OBVIOUS
<1> HIDE DEF n, Has
<1> QED BY <1>1, <1>2, <1>3, <1>4

\* The dialog closes, with or without a removal.
LEMMA DialogKeeps ==
    ASSUME DupInv, CancelDialog \/ Accept
    PROVE  DupInv'
<1>1. /\ model' = model /\ scannedAt' = scannedAt /\ scans' = scans /\ disk' = disk
      /\ changes' = changes /\ report' = report /\ ticked' = ticked
      /\ astray' = astray /\ tasks' = tasks /\ dialog' = {}
  BY DEF CancelDialog, Accept, env, scanVars
<1>2. scans \in Nat /\ astray \in BOOLEAN /\ IsModel(model)
  BY DEF DupInv, DupTypes
<1>3. IsModel(model') /\ Onward /\ Grown(model, model')
  BY <1>1, <1>2, Steady
<1>4. Files' = Files
  BY <1>1 DEF Files
<1>5. DupTypes'
  BY <1>1, <1>3, <1>4 DEF DupInv, DupTypes
<1>6. TasksOK'
  BY <1>1, <1>3, TasksStay DEF DupInv
<1>7. GroupsExact'
  BY <1>1 DEF DupInv, GroupsExact
<1>8. TicksFit'
  BY <1>1, <1>3, TicksStay DEF DupInv
<1>9. TargetsOK' /\ TombstonesOK'
  <2>1. CASE CancelDialog
    <3>1. batches' = batches
      BY <2>1 DEF CancelDialog
    <3>2. TargetsOK'
      BY <1>1, <3>1 DEF DupInv, TargetsOK
    <3> QED BY <1>1, <3>1, <3>2, TombstonesStay DEF DupInv
  <2>2. CASE Accept
    <3> DEFINE kept == {t \in dialog : \A u \in dialog : u.identity = t.identity => t.node <= u.node}
    <3>1. PICK e : e = [todo |-> kept, removed |-> {}, failed |-> {},
                        skipped |-> dialog \ kept, over |-> FALSE]
      OBVIOUS
    <3>2. batches' = Append(batches, e)
      BY <2>2, <3>1 DEF Accept
    <3>3. kept \subseteq dialog
      OBVIOUS
    <3> HIDE DEF kept
    <3>4. /\ e.todo = kept /\ e.removed = {} /\ e.over = FALSE
          /\ e = [todo |-> e.todo, removed |-> e.removed, failed |-> e.failed,
                  skipped |-> e.skipped, over |-> e.over]
      BY <3>1
    <3>5. /\ batches' \in Seq(ToSet(batches')) /\ Len(batches') = Len(batches) + 1
          /\ Len(batches) \in Nat
          /\ \A i \in 1..Len(batches) : batches'[i] = batches[i]
          /\ batches'[Len(batches) + 1] = e
      <4>1. batches \in Seq(ToSet(batches))
        BY DEF DupInv, TargetsOK
      <4>2. PICK s, r : s = batches /\ r = batches'
        OBVIOUS
      <4>3. s \in Seq(ToSet(s)) /\ r = Grow(s, e)
        BY <3>2, <4>1, <4>2 DEF Grow
      <4>4. /\ r \in Seq(ToSet(r)) /\ Len(r) = Len(s) + 1 /\ Len(s) \in Nat
            /\ \A i \in 1..Len(s) : r[i] = s[i]
            /\ r[Len(s) + 1] = e
        BY <4>3, GrowIs
      <4> QED BY <4>2, <4>4
    <3>6. IsBatch(e)
      BY <3>4 DEF IsBatch
    <3>7. BatchOK(e, model, scans, astray, disk)
      BY <3>3, <3>4, <3>6 DEF BatchOK, DupInv, TargetsOK
    <3>8. ASSUME NEW b \in 1..Len(batches')
          PROVE  BatchOK(batches'[b], model, scans, astray, disk)
      <4>1. CASE b = Len(batches) + 1
        BY <3>5, <3>7, <4>1
      <4>2. CASE b # Len(batches) + 1
        <5>1. b \in 1..Len(batches)
          BY <3>5, <4>2
        <5> QED BY <3>5, <5>1 DEF DupInv, TargetsOK
      <4> QED BY <4>1, <4>2
    <3>9. TargetsOK'
      <4>1. \A b \in 1..Len(batches') : BatchOK(batches'[b], model', scans', astray', disk')
        BY <1>1, <3>8
      <4> QED BY <1>1, <3>5, <4>1 DEF TargetsOK
    <3>10. \A path : Taken(path, batches') <=> Taken(path, batches)
      <4>1. PICK s, r : s = batches /\ r = batches'
        OBVIOUS
      <4>2. /\ Len(s) \in Nat /\ Len(r) = Len(s) + 1
            /\ \A i \in 1..Len(s) : r[i] = s[i]
            /\ r[Len(s) + 1].removed = {}
        BY <3>4, <3>5, <4>1
      <4>3. \A path : Taken(path, r) <=> Taken(path, s)
        BY <4>2, TakenAlike
      <4> QED BY <4>1, <4>3
    <3>11. TombstonesOK'
      BY <1>1, <3>10 DEF DupInv, TombstonesOK, Buried
    <3> QED BY <3>9, <3>11
  <2> QED BY <2>1, <2>2
<1> QED BY <1>5, <1>6, <1>7, <1>8, <1>9 DEF DupInv

\* One target of a removal is done: gone is what it took off the disk.
Done(b, t, gone, k) ==
    /\ k.todo = batches[b].todo \ {t} /\ k.removed = batches[b].removed \union gone
    /\ k.over = batches[b].over /\ IsBatch(k)
    /\ batches' = Put(batches, b, k)
    /\ gone \subseteq {t}
    /\ disk' \in [Paths -> Objects \union {NoObject}]
    /\ \A p \in Paths : /\ disk'[p] \in {disk[p], NoObject}
                        /\ disk'[p] = NoObject <=> (disk[p] = NoObject \/ \E u \in gone : u.path = p)

\* What that means for the rest.
LEMMA DoneKeeps ==
    ASSUME DupInv, NEW b \in 1..Len(batches), NEW t \in batches[b].todo, NEW gone, NEW k,
           Done(b, t, gone, k), model' = model, scannedAt' = scannedAt, scans' = scans,
           changes' = changes, report' = report, ticked' = ticked, dialog' = dialog,
           tasks' = tasks, astray' = astray
    PROVE  DupInv'
<1>1. /\ scans \in Nat /\ changes \in Nat /\ astray \in BOOLEAN /\ IsModel(model)
      /\ disk \in [Paths -> Objects \union {NoObject}]
  BY DEF DupInv, DupTypes
<1>2. /\ k.todo = batches[b].todo \ {t} /\ k.removed = batches[b].removed \union gone
      /\ k.over = batches[b].over /\ IsBatch(k)
      /\ batches' = Put(batches, b, k)
      /\ gone \subseteq {t} /\ disk' \in [Paths -> Objects \union {NoObject}]
  BY DEF Done
<1>3. \A p \in Paths : /\ disk'[p] \in {disk[p], NoObject}
                       /\ disk'[p] = NoObject <=> (disk[p] = NoObject \/ \E u \in gone : u.path = p)
  BY DEF Done
<1>4. IsModel(model') /\ Grown(model, model')
  BY <1>1 DEF Grown, IsModel
<1>5. Onward
  BY <1>1, <1>3, <1>4 DEF Onward
<1>6. Files' = Files
  BY DEF Files
<1>7. DupTypes'
  BY <1>2, <1>4, <1>6 DEF DupInv, DupTypes
<1>8. TasksOK'
  BY <1>4, <1>5, TasksStay DEF DupInv
<1>9. GroupsExact'
  BY DEF DupInv, GroupsExact
<1>10. TicksFit'
  BY <1>4, TicksStay DEF DupInv
<1>11. /\ batches' \in Seq(ToSet(batches')) /\ Len(batches') = Len(batches)
       /\ batches'[b] = k /\ \A i \in 1..Len(batches) : i # b => batches'[i] = batches[i]
  <2>1. batches \in Seq(ToSet(batches))
    BY DEF DupInv, TargetsOK
  <2>2. PICK s, r : s = batches /\ r = batches'
    OBVIOUS
  <2>3. s \in Seq(ToSet(s)) /\ b \in 1..Len(s) /\ r = Put(s, b, k)
    BY <1>2, <2>1, <2>2
  <2>4. /\ r \in Seq(ToSet(r)) /\ Len(r) = Len(s)
        /\ r[b] = k /\ \A i \in 1..Len(s) : i # b => r[i] = s[i]
    BY <2>3, PutIs
  <2> QED BY <2>2, <2>4
<1>12. BatchOK(batches[b], model, scans, astray, disk)
  BY DEF DupInv, TargetsOK
<1>13. TargetOK(t, model, scans, astray) /\ t.path \in Paths
  BY <1>12 DEF BatchOK, TargetOK
<1>14. BatchOK(k, model', scans', astray', disk')
  <2>1. ASSUME NEW u \in k.todo \union k.removed
        PROVE  TargetOK(u, model', scans', astray')
    <3>1. u \in batches[b].todo \union batches[b].removed
      BY <1>2
    <3>2. TargetOK(u, model, scans, astray)
      BY <1>12, <3>1 DEF BatchOK
    <3> QED BY <1>4, <1>5, <3>2, TargetStays DEF DupInv
  <2>2. ASSUME NEW u \in k.removed
        PROVE  disk'[u.path] = NoObject
    <3>1. CASE u \in gone
      <4>1. u.path \in Paths
        BY <1>2, <1>13, <3>1
      <4> QED BY <1>3, <3>1, <4>1
    <3>2. CASE u \in batches[b].removed
      <4>1. TargetOK(u, model, scans, astray) /\ disk[u.path] = NoObject
        BY <1>12, <3>2 DEF BatchOK
      <4>2. u.path \in Paths
        BY <4>1 DEF TargetOK
      <4> QED BY <1>3, <4>1, <4>2
    <3> QED BY <1>2, <3>1, <3>2
  <2> QED BY <1>2, <2>1, <2>2 DEF BatchOK
<1>15. ASSUME NEW i \in 1..Len(batches')
       PROVE  BatchOK(batches'[i], model', scans', astray', disk')
  <2>1. CASE i = b
    BY <1>11, <1>14, <2>1
  <2>2. CASE i # b
    <3>1. BatchOK(batches[i], model, scans, astray, disk)
      BY <1>11 DEF DupInv, TargetsOK
    <3>2. batches'[i] = batches[i]
      BY <1>11, <2>2
    <3> QED BY <1>4, <1>5, <3>1, <3>2, BatchStays DEF DupInv
  <2> QED BY <2>1, <2>2
<1>16. TargetsOK'
  <2>1. \A u \in dialog' : TargetOK(u, model', scans', astray')
    BY DEF DupInv, TargetsOK
  <2> QED BY <1>11, <1>15, <2>1 DEF TargetsOK
<1>17. ~ batches[b].over
  BY <1>12 DEF BatchOK, IsBatch
<1>18. ASSUME NEW path
       PROVE  Taken(path, batches') <=> (Taken(path, batches) \/ \E u \in gone : u.path = path)
  <2>1. \A i \in 1..Len(batches) : i # b => batches'[i] = batches[i]
    BY <1>11
  <2>2. batches'[b].removed = batches[b].removed \union gone /\ ~ batches'[b].over
    BY <1>2, <1>11, <1>17
  <2>3. Len(batches') = Len(batches)
    BY <1>11
  <2> QED BY <1>17, <2>1, <2>2, <2>3 DEF Taken
<1>19. TombstonesOK'
  <2>1. ASSUME ~ astray, scannedAt = changes, NEW n \in 1..Len(model)
        PROVE  disk'[model[n].path] = NoObject
                 <=> (model[n].gone \/ Taken(model[n].path, batches'))
    <3>1. model[n].path \in Paths
      <4>1. model \in Seq(NodeRecord) /\ n \in 1..Len(model)
        BY <1>1 DEF IsModel
      <4>2. model[n] \in NodeRecord
        BY <4>1
      <4> QED BY <4>2 DEF NodeRecord
    <3>2. disk[model[n].path] = NoObject <=> (model[n].gone \/ Taken(model[n].path, batches))
      BY <2>1 DEF DupInv, TombstonesOK, Buried
    <3>3. disk'[model[n].path] = NoObject
            <=> (disk[model[n].path] = NoObject \/ \E u \in gone : u.path = model[n].path)
      BY <1>3, <3>1
    <3> QED BY <1>18, <3>2, <3>3
  <2>2. (~ astray /\ scannedAt = changes) => Buried(model, disk', batches')
    BY <2>1 DEF Buried
  <2> QED BY <2>2 DEF TombstonesOK
<1> QED BY <1>7, <1>8, <1>9, <1>10, <1>16, <1>19 DEF DupInv

\* The next target of a removal.
LEMMA RemoveNextKeeps ==
    ASSUME DupInv, NEW b \in 1..Len(batches), RemoveNext(b)
    PROVE  DupInv'
<1> DEFINE x == batches[b]
<1>1. /\ model' = model /\ scannedAt' = scannedAt /\ scans' = scans /\ changes' = changes
      /\ report' = report /\ ticked' = ticked /\ dialog' = dialog /\ tasks' = tasks
      /\ astray' = astray
  BY DEF RemoveNext, scanVars
<1>2. PICK t \in x.todo :
        \/ /\ batches' = [batches EXCEPT
                  ![b] = [x EXCEPT !.todo = x.todo \ {t}, !.skipped = x.skipped \union {t}]]
           /\ disk' = disk
        \/ /\ batches' = [batches EXCEPT
                  ![b] = [x EXCEPT !.todo = x.todo \ {t}, !.removed = x.removed \union {t}]]
           /\ disk' = [disk EXCEPT ![t.path] = NoObject]
        \/ /\ batches' = [batches EXCEPT
                  ![b] = [x EXCEPT !.todo = x.todo \ {t}, !.failed = x.failed \union {t}]]
           /\ disk' = disk
  BY DEF RemoveNext
<1>3. /\ BatchOK(x, model, scans, astray, disk) /\ IsBatch(x)
      /\ disk \in [Paths -> Objects \union {NoObject}]
  BY DEF DupInv, DupTypes, TargetsOK, BatchOK
<1>4. x = [todo |-> x.todo, removed |-> x.removed, failed |-> x.failed,
           skipped |-> x.skipped, over |-> x.over] /\ x.over = FALSE
  BY <1>3 DEF IsBatch
<1>5. t.path \in Paths
  BY <1>3 DEF BatchOK, TargetOK
<1>6. ASSUME disk' = disk, NEW k, k.todo = x.todo \ {t}, k.removed = x.removed,
             k.over = FALSE, k = [todo |-> k.todo, removed |-> k.removed, failed |-> k.failed,
                                  skipped |-> k.skipped, over |-> k.over],
             batches' = Put(batches, b, k)
      PROVE  DupInv'
  <2>1. IsBatch(k)
    BY <1>6 DEF IsBatch
  <2>2. Done(b, t, {}, k)
    BY <1>3, <1>4, <1>6, <2>1 DEF Done
  <2> QED BY <1>1, <2>2, DoneKeeps
<1>7. CASE /\ batches' = [batches EXCEPT
                  ![b] = [x EXCEPT !.todo = x.todo \ {t}, !.skipped = x.skipped \union {t}]]
           /\ disk' = disk
  <2>1. PICK k : k = [x EXCEPT !.todo = x.todo \ {t}, !.skipped = x.skipped \union {t}]
    OBVIOUS
  <2>2. batches' = Put(batches, b, k)
    BY <1>7, <2>1 DEF Put
  <2>3. /\ k.todo = x.todo \ {t} /\ k.removed = x.removed /\ k.over = FALSE
        /\ k = [todo |-> k.todo, removed |-> k.removed, failed |-> k.failed,
                skipped |-> k.skipped, over |-> k.over]
    <3> HIDE DEF x
    <3> QED BY <1>4, <2>1
  <2> QED BY <1>6, <1>7, <2>2, <2>3
<1>8. CASE /\ batches' = [batches EXCEPT
                  ![b] = [x EXCEPT !.todo = x.todo \ {t}, !.removed = x.removed \union {t}]]
           /\ disk' = [disk EXCEPT ![t.path] = NoObject]
  <2>1. PICK k : k = [x EXCEPT !.todo = x.todo \ {t}, !.removed = x.removed \union {t}]
    OBVIOUS
  <2>2. batches' = Put(batches, b, k)
    BY <1>8, <2>1 DEF Put
  <2>3. /\ k.todo = x.todo \ {t} /\ k.removed = x.removed \union {t} /\ k.over = FALSE
        /\ k = [todo |-> k.todo, removed |-> k.removed, failed |-> k.failed,
                skipped |-> k.skipped, over |-> k.over]
    <3> HIDE DEF x
    <3> QED BY <1>4, <2>1
  <2>4. IsBatch(k)
    BY <2>3 DEF IsBatch
  <2>5. disk' \in [Paths -> Objects \union {NoObject}]
    BY <1>3, <1>8
  <2>6. \A p \in Paths : /\ disk'[p] \in {disk[p], NoObject}
                         /\ disk'[p] = NoObject <=> (disk[p] = NoObject \/ \E u \in {t} : u.path = p)
    BY <1>3, <1>5, <1>8
  <2>7. Done(b, t, {t}, k)
    <3> HIDE DEF x
    <3> QED BY <1>4, <2>2, <2>3, <2>4, <2>5, <2>6 DEF Done, x
  <2> QED BY <1>1, <2>7, DoneKeeps
<1>9. CASE /\ batches' = [batches EXCEPT
                  ![b] = [x EXCEPT !.todo = x.todo \ {t}, !.failed = x.failed \union {t}]]
           /\ disk' = disk
  <2>1. PICK k : k = [x EXCEPT !.todo = x.todo \ {t}, !.failed = x.failed \union {t}]
    OBVIOUS
  <2>2. batches' = Put(batches, b, k)
    BY <1>9, <2>1 DEF Put
  <2>3. /\ k.todo = x.todo \ {t} /\ k.removed = x.removed /\ k.over = FALSE
        /\ k = [todo |-> k.todo, removed |-> k.removed, failed |-> k.failed,
                skipped |-> k.skipped, over |-> k.over]
    <3> HIDE DEF x
    <3> QED BY <1>4, <2>1
  <2> QED BY <1>6, <1>9, <2>2, <2>3
<1> QED BY <1>2, <1>7, <1>8, <1>9

\* The end of a removal: with every answer so far for this model, the nodes of what
\* it removed are nodes of the tree, and they become tombstones.
LEMMA BatchEndsKeeps ==
    ASSUME DupInv, NEW b \in 1..Len(batches), BatchEnds(b)
    PROVE  DupInv'
<1> DEFINE x == batches[b]
           gone == {t.node : t \in x.removed}
<1>1. /\ scannedAt' = scannedAt /\ scans' = scans /\ changes' = changes /\ disk' = disk
      /\ report' = NoReport /\ ticked' = {} /\ dialog' = dialog /\ tasks' = tasks
      /\ astray' = (astray \/ \E t \in x.removed : t.of # scans)
      /\ batches' = [batches EXCEPT ![b].over = TRUE]
      /\ x.todo = {} /\ x.over = FALSE
  <2>1. BatchOK(x, model, scans, astray, disk)
    BY DEF DupInv, TargetsOK
  <2>2. x.over \in BOOLEAN
    BY <2>1 DEF BatchOK, IsBatch
  <2> QED BY <2>2 DEF BatchEnds, env
<1>2. /\ Shown /\ ~ gone \subseteq DOMAIN model => model' = model
      /\ ~ (Shown /\ ~ gone \subseteq DOMAIN model) => model' = ApplyDeletions(model, gone)
  BY DEF BatchEnds
<1>3. /\ BatchOK(x, model, scans, astray, disk) /\ IsBatch(x)
      /\ scans \in Nat /\ changes \in Nat /\ astray \in BOOLEAN /\ IsModel(model)
      /\ batches \in Seq(ToSet(batches))
  BY DEF DupInv, DupTypes, TargetsOK, BatchOK
<1>4. Len(model) \in Nat /\ DOMAIN model = 1..Len(model)
  BY <1>3 DEF IsModel
<1> DEFINE r == ApplyDeletions(model, gone)
<1>5. /\ IsModel(r) /\ Len(r) = Len(model)
      /\ \A k \in 1..Len(model) : /\ r[k].path = model[k].path
                                  /\ r[k].gone = (model[k].gone \/ k \in gone)
  <2> HIDE DEF gone
  <2> QED BY <1>3, ApplyIs
<1> HIDE DEF r
<1>6. IsModel(model') /\ Grown(model, model')
  BY <1>2, <1>3, <1>4, <1>5 DEF Grown, r
<1>7. astray' \in BOOLEAN /\ (astray => astray')
  BY <1>1, <1>3
<1>8. Onward
  BY <1>1, <1>3, <1>6, <1>7 DEF Onward
<1>9. Files' = {}
  BY <1>1 DEF Files, NoReport
<1>10. DupTypes'
  <2>1. \A f \in Files' : f.path \in Paths
    BY <1>9
  <2>2. \A t \in ticked' : t = Row(t)
    BY <1>1
  <2> QED BY <1>1, <1>6, <1>7, <2>1, <2>2 DEF DupInv, DupTypes
<1>11. TasksOK'
  BY <1>1, <1>6, <1>8, TasksStay DEF DupInv
<1>12. GroupsExact'
  BY <1>1 DEF GroupsExact, NoReport
<1>13. TicksFit'
  BY <1>1, <1>9 DEF TicksFit
<1>14. PICK k : k = [x EXCEPT !.over = TRUE]
  OBVIOUS
<1>15. batches' = Put(batches, b, k)
  BY <1>1, <1>14 DEF Put
<1>16. /\ k.todo = x.todo /\ k.removed = x.removed /\ k.over = TRUE
       /\ k = [todo |-> k.todo, removed |-> k.removed, failed |-> k.failed,
               skipped |-> k.skipped, over |-> k.over]
  <2>1. x = [todo |-> x.todo, removed |-> x.removed, failed |-> x.failed,
             skipped |-> x.skipped, over |-> x.over]
    BY <1>3 DEF IsBatch
  <2> HIDE DEF x
  <2> QED BY <1>14, <2>1
<1>17. /\ batches' \in Seq(ToSet(batches')) /\ Len(batches') = Len(batches)
       /\ batches'[b] = k /\ \A i \in 1..Len(batches) : i # b => batches'[i] = batches[i]
  <2>2. PICK s, q : s = batches /\ q = batches'
    OBVIOUS
  <2>3. s \in Seq(ToSet(s)) /\ b \in 1..Len(s) /\ q = Put(s, b, k)
    BY <1>3, <1>15, <2>2
  <2>4. /\ q \in Seq(ToSet(q)) /\ Len(q) = Len(s)
        /\ q[b] = k /\ \A i \in 1..Len(s) : i # b => q[i] = s[i]
    BY <2>3, PutIs
  <2> QED BY <2>2, <2>4
<1>18. BatchOK(k, model, scans, astray, disk)
  <2>1. IsBatch(k)
    BY <1>1, <1>16 DEF IsBatch
  <2> QED BY <1>3, <1>16, <2>1 DEF BatchOK
<1>19. ASSUME NEW i \in 1..Len(batches')
       PROVE  BatchOK(batches'[i], model', scans', astray', disk')
  <2>1. BatchOK(batches'[i], model, scans, astray, disk)
    <3>1. CASE i = b
      BY <1>17, <1>18, <3>1
    <3>2. CASE i # b
      BY <1>17, <3>2 DEF DupInv, TargetsOK
    <3> QED BY <3>1, <3>2
  <2> QED BY <1>6, <1>8, <2>1, BatchStays DEF DupInv
<1>20. TargetsOK'
  <2>1. \A t \in dialog : TargetOK(t, model', scans', astray')
    BY <1>6, <1>8, TargetStays DEF DupInv, TargetsOK
  <2> QED BY <1>1, <1>17, <1>19, <2>1 DEF TargetsOK
<1>21. ASSUME ~ astray', scannedAt = changes
       PROVE  Buried(model', disk, batches')
  <2>1. ~ astray /\ \A t \in x.removed : t.of = scans
    BY <1>1, <1>21
  <2>2. \A t \in x.removed : t.node \in 1..Len(model) /\ t.path = model[t.node].path
    BY <1>3, <2>1 DEF BatchOK, TargetOK, Fits
  <2>3. gone \subseteq DOMAIN model
    BY <1>4, <2>2
  <2>4. model' = r
    BY <1>2, <2>3 DEF r
  <2>5. ASSUME NEW n \in 1..Len(model)
        PROVE  n \in gone <=> \E t \in x.removed : t.path = model[n].path
    <3>1. \A i \in 1..Len(model) : model[i].path = model[n].path => i = n
      BY <1>3 DEF IsModel
    <3> HIDE DEF x
    <3> QED BY <2>2, <3>1
  <2>6. ASSUME NEW path
        PROVE  Taken(path, batches)
                 <=> (Taken(path, batches') \/ \E t \in x.removed : t.path = path)
    <3>1. \A i \in 1..Len(batches) : i # b => batches'[i] = batches[i]
      BY <1>17
    <3>2. batches'[b].over = TRUE /\ Len(batches') = Len(batches)
      BY <1>16, <1>17
    <3> QED BY <1>1, <3>1, <3>2 DEF Taken
  <2>7. Buried(model, disk, batches)
    BY <1>21, <2>1 DEF DupInv, TombstonesOK
  <2>8. ASSUME NEW n \in 1..Len(r)
        PROVE  disk[r[n].path] = NoObject <=> (r[n].gone \/ Taken(r[n].path, batches'))
    <3>1. n \in 1..Len(model) /\ r[n].path = model[n].path
          /\ r[n].gone = (model[n].gone \/ n \in gone)
      BY <1>5
    <3>2. disk[model[n].path] = NoObject <=> (model[n].gone \/ Taken(model[n].path, batches))
      BY <2>7, <3>1 DEF Buried
    <3>3. n \in gone <=> \E t \in x.removed : t.path = model[n].path
      BY <2>5, <3>1
    <3>4. Taken(model[n].path, batches)
            <=> (Taken(model[n].path, batches') \/ \E t \in x.removed : t.path = model[n].path)
      BY <2>6
    <3> HIDE DEF gone, x
    <3> QED BY <3>1, <3>2, <3>3, <3>4
  <2> QED BY <2>4, <2>8 DEF Buried
<1>22. TombstonesOK'
  BY <1>1, <1>21 DEF TombstonesOK
<1> QED BY <1>10, <1>11, <1>12, <1>13, <1>20, <1>22 DEF DupInv

-----------------------------------------------------------------------------
(* The theorems.                                                           *)

\* Nothing has been scanned, found or ticked at first.
LEMMA DuplicatesInit == Init => DupInv
<1> SUFFICES ASSUME Init PROVE DupInv
  OBVIOUS
<1>1. Files = {} /\ report.clean = FALSE
  BY DEF Init, Files, NoReport
<1>2. disk \in [Paths -> Objects \union {NoObject}]
  BY DuplicatesAssumption DEF Init
<1>3. DupTypes
  <2>1. IsModel(model)
    BY NoModel DEF Init
  <2>2. changes = 0 /\ scans = 0 /\ scannedAt = 0 /\ ticked = {} /\ astray = FALSE
    BY DEF Init
  <2>3. changes \in Nat /\ scans \in Nat /\ scannedAt \in Nat /\ scannedAt <= changes
    BY <2>2
  <2>4. \A f \in Files : f.path \in Paths
    BY <1>1
  <2>5. \A r \in ticked : r = Row(r)
    BY <2>2
  <2>6. astray \in BOOLEAN
    BY <2>2
  <2> QED BY <1>2, <2>1, <2>3, <2>4, <2>5, <2>6 DEF DupTypes
<1>4. \A s : s = <<>> => s \in Seq(ToSet(s)) /\ Len(s) = 0
  BY EmptySeq
<1>5. TasksOK /\ TargetsOK
  BY <1>4 DEF Init, TasksOK, TargetsOK
<1>6. TombstonesOK
  BY NoModel DEF Init, TombstonesOK, Buried
<1> QED BY <1>1, <1>3, <1>5, <1>6 DEF Init, DupInv, GroupsExact, TicksFit

\* Every step keeps the inductive invariant.
LEMMA DuplicatesStep == DupInv /\ [Next]_vars => DupInv'
<1> SUFFICES ASSUME DupInv, [Next]_vars PROVE DupInv'
  OBVIOUS
<1>1. DOMAIN tasks = 1..Len(tasks) /\ DOMAIN batches = 1..Len(batches)
  BY DEF DupInv, TasksOK, TargetsOK
<1>2. ASSUME NEW p \in Paths, NEW o \in Objects \union {NoObject}, OtherProgram(p, o)
      PROVE  DupInv'
  BY <1>2, OtherProgramKeeps
<1>3. CASE StartScan
  BY <1>3, StartScanKeeps
<1>4. CASE FinishScan
  BY <1>4, FinishScanKeeps
<1>5. CASE ToggleTab \/ FindAgain
  BY <1>5, TabKeeps
<1>6. ASSUME NEW t \in 1..Len(tasks), HashNext(t) \/ SecondPass(t) \/ DetectionEnds(t)
      PROVE  DupInv'
  BY <1>6, HashKeeps, SecondPassKeeps, DetectionEndsKeeps
<1>7. ASSUME NEW f \in Files, NEW checked \in BOOLEAN, Toggle({f}, checked)
      PROVE  DupInv'
  <2>1. {f} \subseteq Files
    OBVIOUS
  <2> QED BY <1>7, <2>1, ToggleKeeps
<1>8. ASSUME NEW g \in report.groups, NEW checked \in BOOLEAN, Toggle(g.files, checked)
      PROVE  DupInv'
  <2>1. g.files \subseteq Files
    BY DEF Files
  <2> QED BY <1>8, <2>1, ToggleKeeps
<1>9. CASE OpenDialog
  BY <1>9, OpenDialogKeeps
<1>10. CASE CancelDialog \/ Accept
  BY <1>10, DialogKeeps
<1>11. ASSUME NEW b \in 1..Len(batches), RemoveNext(b) \/ BatchEnds(b)
       PROVE  DupInv'
  BY <1>11, RemoveNextKeeps, BatchEndsKeeps
<1>12. CASE UNCHANGED vars
  <2>1. Elsewhere /\ tasks' = tasks
    BY <1>12 DEF vars, Elsewhere, env, scanVars
  <2>2. /\ DupTypes' /\ GroupsExact' /\ TicksFit' /\ TargetsOK' /\ TombstonesOK'
        /\ IsModel(model') /\ Onward
    BY <2>1, ElsewhereKeeps
  <2>3. TasksOK'
    BY <2>1, <2>2, TasksStay DEF DupInv
  <2> QED BY <2>2, <2>3 DEF DupInv
<1> QED
  BY <1>1, <1>2, <1>3, <1>4, <1>5, <1>6, <1>7, <1>8, <1>9, <1>10, <1>11, <1>12 DEF Next

\* The inductive invariant: a detection knows the files it collected, its hashes are
\* theirs while nobody touched them, what is ticked, confirmed and removed fits the
\* tree, and tombstones are what is gone.
THEOREM DuplicatesInvariant == Spec => []DupInv
BY DuplicatesInit, DuplicatesStep, PTL DEF Spec

\* A report on files nobody touched is what comparing all of them would give
\* (finder.rs and hashing.rs), for any directory, contents and hashes.
THEOREM ReportsAreExact == Spec => []GroupsExact
<1>1. DupInv => GroupsExact
  BY DEF DupInv
<1> QED BY <1>1, DuplicatesInvariant, PTL

\* What a removal takes off the disk was ticked in a row that showed its path, as
\* long as no answer for an earlier model has landed.
THEOREM TickedOnly == Spec => []OnlyTicked
<1>1. DupInv => OnlyTicked
  <2> SUFFICES ASSUME DupInv, ~ astray, NEW b \in DOMAIN batches, NEW t \in batches[b].removed
               PROVE  t.ticked
    BY DEF OnlyTicked
  <2>1. b \in 1..Len(batches)
    BY DEF DupInv, TargetsOK
  <2>2. TargetOK(t, model, scans, astray)
    BY <2>1 DEF DupInv, TargetsOK, BatchOK
  <2> QED BY <2>2 DEF TargetOK
<1> QED BY <1>1, DuplicatesInvariant, PTL

\* Under the same premise, with nothing else changing the disk and no removal under
\* way, tombstones are the nodes of the files that are gone.
THEOREM TreeStaysTrue == Spec => []TreeAgrees
<1>1. DupInv => TreeAgrees
  <2> SUFFICES ASSUME DupInv, ~ astray, scannedAt = changes,
                      \A b \in DOMAIN batches : batches[b].over, NEW k \in DOMAIN model
               PROVE  model[k].gone <=> disk[model[k].path] = NoObject
    BY DEF TreeAgrees
  <2>1. DOMAIN model = 1..Len(model) /\ DOMAIN batches = 1..Len(batches)
    BY DEF DupInv, DupTypes, IsModel, TargetsOK
  <2>2. ~ Taken(model[k].path, batches)
    BY <2>1 DEF Taken
  <2>3. disk[model[k].path] = NoObject <=> (model[k].gone \/ Taken(model[k].path, batches))
    BY <2>1 DEF DupInv, TombstonesOK, Buried
  <2> QED BY <2>2, <2>3
<1> QED BY <1>1, DuplicatesInvariant, PTL
=============================================================================
