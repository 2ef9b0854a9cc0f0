------------------------------ MODULE Mft_proofs ------------------------------
(***************************************************************************)
(* Proofs about module Mft, for any volume, any layout of the table, any   *)
(* size of the chunks and of the records, and any answers of Windows.      *)
(*                                                                         *)
(* The argument: however the extents are learnt, one after the other they  *)
(* are the table (MapOK, LaidOut), so that the sector that is read next is *)
(* the one the parser takes it for (StreamOK); then a record is made of    *)
(* its own sectors or refused, and none is passed over (EntriesOK).  Of    *)
(* the tree: its list grows by the children of its k-th node at step k,    *)
(* and no longer than there are entries (GrownOK).                         *)
(*                                                                         *)
(* Each recursive function is reasoned about through its equation, which   *)
(* has a solution by induction over Nat.                                   *)
(***************************************************************************)
EXTENDS Mft, FiniteSetTheorems, WellFoundedInduction, TLAPS

-----------------------------------------------------------------------------
(* The invariant.                                                          *)

IsSeq(s) == s \in Seq(ToSet(s))

\* x lies within one extent of the table, where that one does.
Fits(x, l) ==
    \E k \in DOMAIN l :
        LET e == RunsToExtents(l)[k] IN
        /\ e.vcn <= x.vcn /\ x.vcn < x.next /\ x.next <= e.next
        /\ x.lcn = IF e.lcn = None THEN None ELSE e.lcn + x.vcn - e.vcn

\* The map of the beginning of the table, without a gap.
MapOK(map, l) ==
    /\ map \in Seq([vcn : Nat, next : Nat, lcn : Nat \union {None}])
    /\ \A k \in DOMAIN map :
           /\ Fits(map[k], l)
           /\ map[k].vcn = IF k = 1 THEN 0 ELSE map[k - 1].next

Lengths(p) == IsSeq(p) /\ \A k \in DOMAIN p : p[k].clusters \in Nat \ {0}

\* What is read, piece after piece, is the beginning of the table.
LaidOut(p, l) ==
    \A k \in DOMAIN p :
        p[k].lcn \in Nat /\ Fits([vcn |-> Ends(p)[k - 1], next |-> Ends(p)[k], lcn |-> p[k].lcn], l)

Start == /\ done = [extents |-> 0, sectors |-> 0]
         /\ next = 0 /\ carry = <<>> /\ entries = <<>>

TypesOK ==
    /\ layout \in Layouts /\ valid \in Valid /\ rewritten \subseteq Records
    /\ phase \in {"asking", "mapped", "fallback", "reading", "read", "built", "failed"}
    /\ next \in Nat /\ done \in [extents : Nat, sectors : Nat]
    /\ IsSeq(carry) /\ IsSeq(entries)

\* The entries are in the order of the table, and not metadata.
Ordered(s) ==
    \A k \in DOMAIN s :
        /\ s[k].no \in Nat /\ (s[k].no >= Meta \/ s[k].no = Root)
        /\ k > 1 => s[k - 1].no < s[k].no

PhasesOK ==
    /\ phase \in {"asking", "mapped"} => MapOK(extents, layout)
    /\ phase \in {"asking", "mapped", "fallback"} => Start
    /\ phase = "reading" =>
           /\ Lengths(physical) /\ done.extents \in 0..Len(physical)
           /\ done.extents = Len(physical) => done.sectors = 0
           /\ done.extents < Len(physical) => done.sectors < physical[done.extents + 1].clusters
    /\ phase = "built" =>
           /\ next * RS >= valid
           /\ Root \in Numbers(entries) /\ nodes = Grown(entries)[Len(entries)]

\* The i-th sector of a record, as it was written first or later.
SectorOf(r, i, later) == [record |-> r, part |-> i - 1, usn |-> <<r, later>>]

\* The parser and the volume are at the same sector of the table.
StreamOK ==
    /\ LaidOut(physical, layout)
    /\ Ends(physical)[done.extents] + done.sectors = next * RS + Len(carry)
    /\ Len(carry) < RS /\ next * RS < valid
    /\ \A i \in DOMAIN carry :
           \E later \in BOOLEAN : carry[i] = SectorOf(next, i, later) /\ (later => next \in rewritten)

\* e was read from its own place, in one piece.
Placed(e) ==
    /\ InTable(e.no)
    /\ \E later \in BOOLEAN : e.sectors = [i \in 1..RS |-> SectorOf(e.no, i, later)]

\* No record before n is passed over.
Covers(s, n) ==
    \A r \in Records \ rewritten : r < n /\ InTable(r) /\ WellFormed(r) => r \in Numbers(s)

AllPlaced(s) == \A k \in DOMAIN s : Placed(s[k])

EntriesOK == AllPlaced(entries) /\ Covers(entries, next)

\* The entries are in order, and of records before n.
Behind(s, n) == IsSeq(s) /\ Ordered(s) /\ \A k \in DOMAIN s : s[k].no < n

Entered == Behind(entries, next) /\ (Solid => EntriesOK)

MftInv == TypesOK /\ PhasesOK /\ Entered /\ (Solid /\ phase = "reading" => StreamOK)

-----------------------------------------------------------------------------
(* Sequences.                                                              *)

\* Induction over the naturals, for a set in the place of a predicate.
LEMMA NatSetInduction ==
    ASSUME NEW S, 0 \in S, \A n \in Nat : n \in S => n + 1 \in S
    PROVE  Nat \subseteq S
<1>1. SUFFICES ASSUME Nat \ S # {} PROVE FALSE
  OBVIOUS
<1>2. PICK x \in Nat \ S : \A y \in Nat \ S : ~ (<<y, x>> \in OpToRel(<, Nat))
  BY <1>1, NatLessThanWellFounded, WFMin
<1>3. x # 0 /\ x - 1 \in Nat
  OBVIOUS
<1>4. <<x - 1, x>> \in OpToRel(<, Nat)
  BY <1>3 DEF OpToRel
<1>5. x - 1 \in S
  BY <1>2, <1>3, <1>4
<1> QED BY <1>3, <1>5

\* A sequence over any set is one over its own elements.
LEMMA SeqIs ==
    ASSUME NEW T, NEW s, s \in Seq(T)
    PROVE  /\ IsSeq(s) /\ Len(s) \in Nat /\ DOMAIN s = 1..Len(s)
           /\ \A i \in 1..Len(s) : s[i] \in T
<1>1. Len(s) \in Nat /\ DOMAIN s = 1..Len(s) /\ \A i \in 1..Len(s) : s[i] \in T
  OBVIOUS
<1>2. \A i \in 1..Len(s) : s[i] \in ToSet(s)
  BY <1>1 DEF ToSet
<1>3. s = [i \in 1..Len(s) |-> s[i]]
  OBVIOUS
<1>4. s \in Seq(ToSet(s))
  BY <1>1, <1>2, <1>3
<1> QED BY <1>1, <1>4 DEF IsSeq

\* What IsSeq says.
LEMMA IsSeqIs ==
    ASSUME NEW s, IsSeq(s)
    PROVE  Len(s) \in Nat /\ DOMAIN s = 1..Len(s)
BY DEF IsSeq

\* Two sequences joined are the elements of both in turn.
LEMMA Joined ==
    ASSUME NEW s, NEW t, IsSeq(s), IsSeq(t)
    PROVE  /\ IsSeq(s \o t) /\ Len(s \o t) = Len(s) + Len(t)
           /\ \A i \in 1..(Len(s) + Len(t)) :
                 (s \o t)[i] = IF i <= Len(s) THEN s[i] ELSE t[i - Len(s)]
<1> DEFINE T == ToSet(s) \union ToSet(t)
<1>1. s \in Seq(T) /\ t \in Seq(T)
  <2>1. /\ s \in Seq(ToSet(s)) /\ Len(s) \in Nat /\ DOMAIN s = 1..Len(s)
        /\ t \in Seq(ToSet(t)) /\ Len(t) \in Nat /\ DOMAIN t = 1..Len(t)
    BY DEF IsSeq
  <2>2. \A i \in 1..Len(s) : s[i] \in T
    BY <2>1
  <2>3. \A i \in 1..Len(t) : t[i] \in T
    BY <2>1
  <2>4. s = [i \in 1..Len(s) |-> s[i]] /\ t = [i \in 1..Len(t) |-> t[i]]
    BY <2>1
  <2> HIDE DEF T
  <2> QED BY <2>1, <2>2, <2>3, <2>4
<1> HIDE DEF T
<1>2. s \o t \in Seq(T)
  BY <1>1
<1>3. IsSeq(s \o t)
  BY <1>2, SeqIs
<1> QED BY <1>1, <1>3

\* A sequence with one more element.
LEMMA Appended ==
    ASSUME NEW a, IsSeq(a), NEW x
    PROVE  /\ IsSeq(Append(a, x)) /\ Len(Append(a, x)) = Len(a) + 1
           /\ Append(a, x)[Len(a) + 1] = x
           /\ \A i \in 1..Len(a) : Append(a, x)[i] = a[i]
<1> DEFINE T == ToSet(a) \union {x}
           b == Append(a, x)
<1>1. Len(a) \in Nat /\ a = [i \in 1..Len(a) |-> a[i]] /\ \A i \in 1..Len(a) : a[i] \in T
  BY DEF IsSeq
<1>2. x \in T
  OBVIOUS
<1> HIDE DEF T
<1>3. a \in Seq(T)
  BY <1>1
<1>4. /\ b \in Seq(T) /\ Len(b) = Len(a) + 1 /\ b[Len(a) + 1] = x
      /\ \A i \in 1..Len(a) : b[i] = a[i]
  BY <1>2, <1>3
<1> HIDE DEF b
<1>5. IsSeq(b)
  BY <1>4, SeqIs
<1> QED BY <1>4, <1>5 DEF b

\* A part of a sequence.
LEMMA PartOf ==
    ASSUME NEW s, IsSeq(s), NEW a \in Nat, NEW b \in Nat, a >= 1, b <= Len(s), a <= b + 1
    PROVE  /\ IsSeq(SubSeq(s, a, b)) /\ Len(SubSeq(s, a, b)) = b + 1 - a
           /\ \A i \in 1..(b + 1 - a) : SubSeq(s, a, b)[i] = s[a + i - 1]
<1>1. s \in Seq(ToSet(s)) /\ Len(s) \in Nat
  BY DEF IsSeq
<1>2. SubSeq(s, a, b) \in Seq(ToSet(s))
  BY <1>1
<1>3. IsSeq(SubSeq(s, a, b))
  BY <1>2, SeqIs
<1> QED BY <1>1, <1>3

\* A function on the first numbers is a sequence.
LEMMA ListIs ==
    ASSUME NEW f, NEW n \in Nat, DOMAIN f = 1..n, f = [i \in 1..n |-> f[i]]
    PROVE  IsSeq(f) /\ Len(f) = n
<1>1. \A i \in 1..n : f[i] \in ToSet(f)
  BY DEF ToSet
<1>2. f \in Seq(ToSet(f)) /\ Len(f) = n
  BY <1>1
<1> QED BY <1>2 DEF IsSeq

-----------------------------------------------------------------------------
(* Keep.                                                                   *)

\* The recursive equation of Keep.
IsKept(g, s, S, D) ==
    g = [k \in D |-> IF k = 0 THEN <<>>
                     ELSE IF s[k] \in S THEN Append(g[k - 1], s[k]) ELSE g[k - 1]]

\* It has a solution.
LEMMA KeptExists ==
    ASSUME NEW s, NEW S, NEW n, n \in Nat
    PROVE  \E g : IsKept(g, s, S, 0..n)
<1> DEFINE Q == {k \in Nat : \E g : IsKept(g, s, S, 0..k)}
<1>1. 0 \in Q
  <2> DEFINE g == [k \in 0..0 |-> <<>>]
  <2>1. g = [k \in 0..0 |-> IF k = 0 THEN <<>>
                     ELSE IF s[k] \in S THEN Append(g[k - 1], s[k]) ELSE g[k - 1]]
    OBVIOUS
  <2> HIDE DEF g
  <2>2. IsKept(g, s, S, 0..0)
    BY <2>1, Zenon DEF IsKept
  <2> QED BY <2>2
<1>2. ASSUME NEW k \in Nat, k \in Q PROVE k + 1 \in Q
  <2>1. PICK g : IsKept(g, s, S, 0..k)
    BY <1>2
  <2> DEFINE h == [i \in 0..(k + 1) |-> IF i = 0 THEN <<>>
                     ELSE IF s[i] \in S THEN Append(g[i - 1], s[i]) ELSE g[i - 1]]
  <2>2. \A i \in 0..k : h[i] = g[i]
    <3>1. \A i \in 0..k : g[i] = IF i = 0 THEN <<>>
                     ELSE IF s[i] \in S THEN Append(g[i - 1], s[i]) ELSE g[i - 1]
      BY <2>1, Zenon DEF IsKept
    <3>2. ASSUME NEW i \in 0..k
          PROVE  h[i] = IF i = 0 THEN <<>>
                        ELSE IF s[i] \in S THEN Append(g[i - 1], s[i]) ELSE g[i - 1]
      OBVIOUS
    <3> HIDE DEF h
    <3> QED BY <3>1, <3>2
  <2>3. h = [i \in 0..(k + 1) |-> IF i = 0 THEN <<>>
                     ELSE IF s[i] \in S THEN Append(h[i - 1], s[i]) ELSE h[i - 1]]
    <3>1. ASSUME NEW i \in 0..(k + 1), i # 0 PROVE h[i - 1] = g[i - 1]
      <4>1. i - 1 \in 0..k
        BY <3>1
      <4> HIDE DEF h
      <4> QED BY <2>2, <4>1
    <3> QED BY <3>1
  <2>4. IsKept(h, s, S, 0..(k + 1))
    <3> HIDE DEF h
    <3> QED BY <2>3, Zenon DEF IsKept
  <2> QED BY <2>4
<1>3. Nat \subseteq Q
  <2> HIDE DEF Q
  <2> QED BY <1>1, <1>2, NatSetInduction
<1> QED BY <1>3

\* Its steps; Keep is the last one.
LEMMA KeepSteps ==
    ASSUME NEW s, NEW S, Len(s) \in Nat
    PROVE  \E g : /\ Keep(s, S) = g[Len(s)] /\ g[0] = <<>>
                  /\ \A k \in 1..Len(s) :
                        g[k] = IF s[k] \in S THEN Append(g[k - 1], s[k]) ELSE g[k - 1]
<1> DEFINE n == Len(s)
           g == CHOOSE g : IsKept(g, s, S, 0..n)
<1>1. IsKept(g, s, S, 0..n)
  BY KeptExists
<1>2. Keep(s, S) = g[n]
  BY Zenon DEF Keep, IsKept
<1> HIDE DEF g
<1>3. \A k \in 0..n : g[k] = IF k = 0 THEN <<>>
                     ELSE IF s[k] \in S THEN Append(g[k - 1], s[k]) ELSE g[k - 1]
  BY <1>1, Zenon DEF IsKept
<1>4. g[0] = <<>> /\ \A k \in 1..n : g[k] = IF s[k] \in S THEN Append(g[k - 1], s[k]) ELSE g[k - 1]
  BY <1>3
<1> QED BY <1>2, <1>4

\* Only the elements from the j-th on are in S.
FromOn(s, S, j) == j \in 1..(Len(s) + 1) /\ \A k \in 1..Len(s) : s[k] \in S <=> k >= j

\* t is s from the j-th element on.
IsTail(t, s, j) ==
    /\ IsSeq(t) /\ Len(t) = Len(s) + 1 - j
    /\ \A i \in 1..(Len(s) + 1 - j) : t[i] = s[j + i - 1]

\* What Keep leaves of such a sequence.
LEMMA KeepTail ==
    ASSUME NEW s, IsSeq(s), NEW S, NEW j, FromOn(s, S, j)
    PROVE  IsTail(Keep(s, S), s, j)
<1> DEFINE n == Len(s)
<1>1. n \in Nat /\ j \in 1..(n + 1) /\ \A k \in 1..n : s[k] \in S <=> k >= j
  BY IsSeqIs DEF FromOn
<1>2. PICK g : /\ Keep(s, S) = g[n] /\ g[0] = <<>>
               /\ \A k \in 1..n : g[k] = IF s[k] \in S THEN Append(g[k - 1], s[k]) ELSE g[k - 1]
  BY <1>1, KeepSteps
<1> HIDE DEF n
<1> DEFINE Rest(t, k) == /\ IsSeq(t) /\ Len(t) = IF k < j THEN 0 ELSE k + 1 - j
                         /\ \A i \in 1..Len(t) : t[i] = s[j + i - 1]
           Q == {k \in Nat : k <= n => Rest(g[k], k)}
<1>3. 0 \in Q
  <2>1. IsSeq(<<>>) /\ Len(<<>>) = 0
    BY DEF IsSeq
  <2> QED BY <1>1, <1>2, <2>1
<1>4. ASSUME NEW k \in Nat, k \in Q PROVE k + 1 \in Q
  <2> SUFFICES ASSUME k + 1 <= n PROVE Rest(g[k + 1], k + 1)
    OBVIOUS
  <2> DEFINE a == g[k]
             x == s[k + 1]
  <2>1. Rest(a, k)
    BY <1>1, <1>4
  <2>2. g[k + 1] = (IF x \in S THEN Append(a, x) ELSE a) /\ (x \in S <=> k + 1 >= j)
    <3>1. k + 1 \in 1..n /\ (k + 1) - 1 = k
      BY <1>1
    <3> HIDE DEF Rest, Q
    <3> QED BY <1>1, <1>2, <3>1
  <2>3. IsSeq(a) /\ Len(a) \in Nat
    BY <2>1, IsSeqIs
  <2> DEFINE b == Append(a, x)
  <2>4. /\ IsSeq(b) /\ Len(b) = Len(a) + 1 /\ b[Len(a) + 1] = x
        /\ \A i \in 1..Len(a) : b[i] = a[i]
    <3> HIDE DEF a, x
    <3> QED BY <2>3, Appended
  <2>5. CASE k + 1 < j
    <3>1. g[k + 1] = a /\ Len(a) = 0
      BY <1>1, <2>1, <2>2, <2>5
    <3> HIDE DEF a
    <3> QED BY <2>1, <2>5, <3>1
  <2>6. CASE k + 1 >= j
    <3>1. g[k + 1] = b /\ Len(a) = k + 1 - j /\ j + (Len(a) + 1) - 1 = k + 1
      BY <1>1, <2>1, <2>2, <2>6
    <3>2. \A i \in 1..Len(a) : a[i] = s[j + i - 1]
      BY <2>1
    <3> HIDE DEF a, b, n
    <3>3. ASSUME NEW i \in 1..Len(b) PROVE b[i] = s[j + i - 1]
      <4>1. CASE i = Len(a) + 1
        BY <2>4, <3>1, <4>1 DEF x
      <4>2. CASE i \in 1..Len(a)
        BY <2>4, <3>2, <4>2
      <4> QED BY <2>3, <2>4, <4>1, <4>2
    <3>4. Len(b) = IF k + 1 < j THEN 0 ELSE (k + 1) + 1 - j
      BY <1>1, <2>4, <2>6, <3>1
    <3>5. Rest(b, k + 1)
      BY <2>4, <3>3, <3>4
    <3> QED BY <3>1, <3>5
  <2> QED BY <1>1, <2>5, <2>6
<1>5. Nat \subseteq Q
  <2> HIDE DEF Q
  <2> QED BY <1>3, <1>4, NatSetInduction
<1>6. Rest(g[n], n)
  BY <1>1, <1>5
<1> DEFINE t == Keep(s, S)
<1>7. /\ IsSeq(t) /\ Len(t) = IF n < j THEN 0 ELSE n + 1 - j
      /\ \A i \in 1..Len(t) : t[i] = s[j + i - 1]
  BY <1>2, <1>6
<1> HIDE DEF t
<1>8. Len(t) = n + 1 - j
  BY <1>1, <1>7
<1>9. IsTail(t, s, j)
  BY <1>7, <1>8 DEF n, IsTail
<1> QED BY <1>9 DEF t

\* Nothing is left out of a sequence in S.
LEMMA KeepAll ==
    ASSUME NEW s, IsSeq(s), NEW S, ToSet(s) \subseteq S
    PROVE  Keep(s, S) = s
<1> DEFINE n == Len(s)
           t == Keep(s, S)
           j == 1
<1>1. n \in Nat /\ s = [i \in 1..n |-> s[i]] /\ \A k \in 1..n : s[k] \in S
  BY DEF IsSeq, ToSet
<1>2. j = 1 /\ FromOn(s, S, j)
  BY <1>1 DEF FromOn
<1> HIDE DEF j, t
<1>3. IsSeq(t) /\ Len(t) = n + 1 - j /\ \A i \in 1..(n + 1 - j) : t[i] = s[j + i - 1]
  <2>1. IsTail(t, s, j)
    BY <1>2, KeepTail DEF t
  <2> QED BY <2>1 DEF IsTail
<1> HIDE DEF n
<1>4. Len(t) = n /\ \A i \in 1..n : t[i] = s[i]
  <2>1. n + 1 - j = n /\ \A i \in 1..n : j + i - 1 = i
    BY <1>1, <1>2
  <2> QED BY <1>3, <2>1
<1>5. t = [i \in 1..n |-> t[i]]
  BY <1>3, <1>4 DEF IsSeq
<1>6. t = s
  BY <1>1, <1>4, <1>5
<1> QED BY <1>6 DEF t

\* g is what is left of the first k elements of s.
KeptOf(g, s, S, k) ==
    /\ IsSeq(g)
    /\ \A i \in 1..Len(g) : g[i] \in S /\ \E m \in 1..k : g[i] = s[m]
    /\ \A m \in 1..k : s[m] \in S => \E i \in 1..Len(g) : g[i] = s[m]
    /\ (\A i, m \in 1..k : i # m => s[i] # s[m]) => \A i, m \in 1..Len(g) : i # m => g[i] # g[m]

\* Keep returns the elements that are in S.
LEMMA KeepIs ==
    ASSUME NEW s, IsSeq(s), NEW S
    PROVE  KeptOf(Keep(s, S), s, S, Len(s))
<1> DEFINE n == Len(s)
<1>1. n \in Nat
  BY IsSeqIs
<1>2. PICK g : /\ Keep(s, S) = g[n] /\ g[0] = <<>>
               /\ \A k \in 1..n : g[k] = IF s[k] \in S THEN Append(g[k - 1], s[k]) ELSE g[k - 1]
  BY <1>1, KeepSteps
<1> DEFINE Q == {k \in Nat : k <= n => KeptOf(g[k], s, S, k)}
<1>3. 0 \in Q
  <2>1. IsSeq(<<>>) /\ Len(<<>>) = 0
    BY DEF IsSeq
  <2>2. KeptOf(<<>>, s, S, 0)
    BY <2>1 DEF KeptOf
  <2> QED BY <1>2, <2>2
<1>4. ASSUME NEW k \in Nat, k \in Q PROVE k + 1 \in Q
  <2> SUFFICES ASSUME k + 1 <= n PROVE KeptOf(g[k + 1], s, S, k + 1)
    OBVIOUS
  <2> DEFINE a == g[k]
             x == s[k + 1]
  <2>1. KeptOf(a, s, S, k)
    BY <1>1, <1>4
  <2>2. g[k + 1] = IF x \in S THEN Append(a, x) ELSE a
    BY <1>1, <1>2
  <2>3. Len(a) \in Nat /\ IsSeq(a)
    BY <2>1, IsSeqIs DEF KeptOf
  <2> HIDE DEF a, x
  <2>4. CASE x \notin S
    <3>1. \A m \in 1..(k + 1) : m \in 1..k \/ m = k + 1
      OBVIOUS
    <3>2. \A m \in 1..k : m \in 1..(k + 1)
      OBVIOUS
    <3>3. s[k + 1] \notin S
      BY <2>4 DEF x
    <3>4. KeptOf(a, s, S, k + 1)
      BY <2>1, <3>1, <3>2, <3>3 DEF KeptOf
    <3> QED BY <2>2, <2>4, <3>4
  <2>5. CASE x \in S
    <3> DEFINE b == Append(a, x)
    <3>1. /\ IsSeq(b) /\ Len(b) = Len(a) + 1 /\ b[Len(a) + 1] = x
          /\ \A i \in 1..Len(a) : b[i] = a[i]
      BY <2>3, Appended
    <3> HIDE DEF b
    <3>2. \A i \in 1..Len(b) : i \in 1..Len(a) \/ i = Len(b)
      BY <2>3, <3>1
    <3>3. x = s[k + 1] /\ \A m \in 1..(k + 1) : m \in 1..k \/ m = k + 1
      BY DEF x
    <3>4. 1..k \subseteq 1..(k + 1) /\ k + 1 \in 1..(k + 1) /\ k + 1 \notin 1..k
      OBVIOUS
    <3>5. 1..Len(a) \subseteq 1..Len(b) /\ Len(b) \in 1..Len(b) /\ Len(b) \notin 1..Len(a)
      BY <2>3, <3>1
    <3>6. \A i \in 1..Len(b) : b[i] \in S /\ \E m \in 1..(k + 1) : b[i] = s[m]
      <4> SUFFICES ASSUME NEW i \in 1..Len(b)
                   PROVE  b[i] \in S /\ \E m \in 1..(k + 1) : b[i] = s[m]
        OBVIOUS
      <4>1. CASE i \in 1..Len(a)
        BY <2>1, <3>1, <3>4, <4>1 DEF KeptOf
      <4>2. CASE i = Len(b)
        BY <2>5, <3>1, <3>3, <3>4, <4>2
      <4> QED BY <3>2, <4>1, <4>2
    <3>7. \A m \in 1..(k + 1) : s[m] \in S => \E i \in 1..Len(b) : b[i] = s[m]
      <4> SUFFICES ASSUME NEW m \in 1..(k + 1), s[m] \in S
                   PROVE  \E i \in 1..Len(b) : b[i] = s[m]
        OBVIOUS
      <4>1. CASE m \in 1..k
        <5>1. PICK i \in 1..Len(a) : a[i] = s[m]
          BY <2>1, <4>1 DEF KeptOf
        <5> QED BY <3>1, <3>5, <5>1
      <4>2. CASE m = k + 1
        BY <3>1, <3>3, <3>5, <4>2
      <4> QED BY <3>3, <4>1, <4>2
    <3>8. ASSUME \A i, m \in 1..(k + 1) : i # m => s[i] # s[m]
          PROVE  \A i, m \in 1..Len(b) : i # m => b[i] # b[m]
      <4>1. \A i, m \in 1..Len(a) : i # m => a[i] # a[m]
        BY <2>1, <3>4, <3>8 DEF KeptOf
      <4>2. \A i \in 1..Len(a) : a[i] # x
        BY <2>1, <3>3, <3>4, <3>8 DEF KeptOf
      <4> SUFFICES ASSUME NEW i \in 1..Len(b), NEW m \in 1..Len(b), i # m PROVE b[i] # b[m]
        OBVIOUS
      <4>3. CASE i \in 1..Len(a) /\ m \in 1..Len(a)
        BY <3>1, <4>1, <4>3
      <4>4. CASE i = Len(b) \/ m = Len(b)
        BY <3>1, <3>2, <4>2, <4>4
      <4> QED BY <3>2, <4>3, <4>4
    <3>9. KeptOf(b, s, S, k + 1)
      BY <3>1, <3>6, <3>7, <3>8, Zenon DEF KeptOf
    <3> QED BY <2>2, <2>5, <3>9 DEF b
  <2> QED BY <2>4, <2>5
<1>5. Nat \subseteq Q
  <2> HIDE DEF Q
  <2> QED BY <1>3, <1>4, NatSetInduction
<1> QED BY <1>1, <1>2, <1>5

-----------------------------------------------------------------------------
(* Where the runs end, and where they lie.                                 *)

\* The recursive equation of Ends.
IsEnds(g, p, D) == g = [k \in D |-> IF k = 0 THEN 0 ELSE g[k - 1] + p[k].clusters]

\* It has a solution.
LEMMA EndsExists ==
    ASSUME NEW p, NEW n, n \in Nat
    PROVE  \E g : IsEnds(g, p, 0..n)
<1> DEFINE Q == {k \in Nat : \E g : IsEnds(g, p, 0..k)}
<1>1. 0 \in Q
  <2> DEFINE g == [k \in 0..0 |-> 0]
  <2>1. g = [k \in 0..0 |-> IF k = 0 THEN 0 ELSE g[k - 1] + p[k].clusters]
    OBVIOUS
  <2> HIDE DEF g
  <2>2. IsEnds(g, p, 0..0)
    BY <2>1, Zenon DEF IsEnds
  <2> QED BY <2>2
<1>2. ASSUME NEW k \in Nat, k \in Q PROVE k + 1 \in Q
  <2>1. PICK g : IsEnds(g, p, 0..k)
    BY <1>2
  <2> DEFINE h == [i \in 0..(k + 1) |-> IF i = 0 THEN 0 ELSE g[i - 1] + p[i].clusters]
  <2>2. \A i \in 0..k : h[i] = g[i]
    <3>1. \A i \in 0..k : g[i] = IF i = 0 THEN 0 ELSE g[i - 1] + p[i].clusters
      BY <2>1, Zenon DEF IsEnds
    <3>2. ASSUME NEW i \in 0..k
          PROVE  h[i] = IF i = 0 THEN 0 ELSE g[i - 1] + p[i].clusters
      OBVIOUS
    <3> HIDE DEF h
    <3> QED BY <3>1, <3>2
  <2>3. h = [i \in 0..(k + 1) |-> IF i = 0 THEN 0 ELSE h[i - 1] + p[i].clusters]
    <3>1. ASSUME NEW i \in 0..(k + 1), i # 0 PROVE h[i - 1] = g[i - 1]
      <4>1. i - 1 \in 0..k
        BY <3>1
      <4> HIDE DEF h
      <4> QED BY <2>2, <4>1
    <3> QED BY <3>1
  <2>4. IsEnds(h, p, 0..(k + 1))
    <3> HIDE DEF h
    <3> QED BY <2>3, Zenon DEF IsEnds
  <2> QED BY <2>4
<1>3. Nat \subseteq Q
  <2> HIDE DEF Q
  <2> QED BY <1>1, <1>2, NatSetInduction
<1> QED BY <1>3

\* Ends satisfies the equation.
LEMMA EndsIs ==
    ASSUME NEW p, Len(p) \in Nat
    PROVE  /\ Ends(p)[0] = 0
           /\ \A k \in 1..Len(p) : Ends(p)[k] = Ends(p)[k - 1] + p[k].clusters
<1> DEFINE n == Len(p)
           g == CHOOSE g : IsEnds(g, p, 0..n)
<1>1. IsEnds(g, p, 0..n)
  BY EndsExists
<1>2. Ends(p) = g
  BY Zenon DEF Ends, IsEnds
<1> HIDE DEF g
<1>3. \A k \in 0..n : g[k] = IF k = 0 THEN 0 ELSE g[k - 1] + p[k].clusters
  BY <1>1, Zenon DEF IsEnds
<1>4. g[0] = 0 /\ \A k \in 1..n : g[k] = g[k - 1] + p[k].clusters
  BY <1>3
<1> QED BY <1>2, <1>4

\* The ends of runs that are not empty grow.
LEMMA EndsGrow ==
    ASSUME NEW p, Lengths(p)
    PROVE  /\ \A k \in 0..Len(p) : Ends(p)[k] \in Nat
           /\ \A i, k \in 0..Len(p) : i < k => Ends(p)[i] < Ends(p)[k]
<1> DEFINE n == Len(p)
           e == Ends(p)
<1>1. n \in Nat /\ \A k \in 1..n : p[k].clusters \in Nat \ {0}
  BY IsSeqIs DEF Lengths
<1>2. e[0] = 0 /\ \A k \in 1..n : e[k] = e[k - 1] + p[k].clusters
  BY <1>1, EndsIs
<1> HIDE DEF e, n
<1> DEFINE Up(k) == \A i \in 0..k : e[i] \in Nat /\ (i < k => e[i] < e[k])
           Q == {k \in Nat : k <= n => Up(k)}
<1>3. 0 \in Q
  BY <1>2
<1>4. ASSUME NEW k \in Nat, k \in Q PROVE k + 1 \in Q
  <2> SUFFICES ASSUME k + 1 <= n PROVE Up(k + 1)
    OBVIOUS
  <2>1. Up(k)
    BY <1>1, <1>4
  <2>2. k + 1 \in 1..n /\ (k + 1) - 1 = k
    BY <1>1
  <2>3. e[k + 1] = e[k] + p[k + 1].clusters /\ p[k + 1].clusters \in Nat \ {0}
    BY <1>1, <1>2, <2>2
  <2> SUFFICES ASSUME NEW i \in 0..(k + 1)
               PROVE  e[i] \in Nat /\ (i < k + 1 => e[i] < e[k + 1])
    OBVIOUS
  <2>4. e[k] \in Nat /\ k \in 0..k
    BY <2>1
  <2>5. CASE i = k + 1
    BY <2>3, <2>4, <2>5
  <2>6. CASE i \in 0..k
    <3>1. e[i] \in Nat /\ (i < k => e[i] < e[k]) /\ (i < k \/ i = k)
      BY <2>1, <2>6
    <3> QED BY <2>3, <2>4, <3>1
  <2> QED BY <2>5, <2>6
<1>5. Nat \subseteq Q
  <2> HIDE DEF Q
  <2> QED BY <1>3, <1>4, NatSetInduction
<1>6. \A k \in 0..n : Up(k)
  <2> SUFFICES ASSUME NEW k \in 0..n PROVE Up(k)
    OBVIOUS
  <2>1. k \in Q /\ k <= n
    BY <1>1, <1>5
  <2> QED BY <2>1
<1>7. \A k \in 0..n : e[k] \in Nat
  BY <1>1, <1>6
<1>8. \A i, k \in 0..n : i < k => e[i] < e[k]
  <2> SUFFICES ASSUME NEW i \in 0..n, NEW k \in 0..n, i < k PROVE e[i] < e[k]
    OBVIOUS
  <2>1. i \in 0..k
    BY <1>1
  <2> QED BY <1>6, <2>1
<1> QED BY <1>7, <1>8 DEF e, n

\* Whatever lies before the end of the last run lies in one of them.
LEMMA EndsCover ==
    ASSUME NEW p, Lengths(p), NEW v \in Nat, v < Ends(p)[Len(p)]
    PROVE  \E k \in 1..Len(p) : Ends(p)[k - 1] <= v /\ v < Ends(p)[k]
<1> DEFINE n == Len(p)
           e == Ends(p)
<1>1. n \in Nat /\ e[0] = 0 /\ \A k \in 0..n : e[k] \in Nat
  <2>1. n \in Nat
    BY IsSeqIs DEF Lengths
  <2> QED BY <2>1, EndsIs, EndsGrow
<1>2. v < e[n]
  OBVIOUS
<1> HIDE DEF e, n
<1> DEFINE Q == {k \in Nat : k <= n /\ v < e[k] => \E i \in 1..n : e[i - 1] <= v /\ v < e[i]}
<1>3. 0 \in Q
  BY <1>1
<1>4. ASSUME NEW k \in Nat, k \in Q PROVE k + 1 \in Q
  <2> SUFFICES ASSUME k + 1 <= n, v < e[k + 1]
               PROVE  \E i \in 1..n : e[i - 1] <= v /\ v < e[i]
    OBVIOUS
  <2>1. k + 1 \in 1..n /\ (k + 1) - 1 = k /\ k \in 0..n
    BY <1>1
  <2>2. CASE v < e[k]
    BY <1>1, <1>4, <2>1, <2>2
  <2>3. CASE ~ (v < e[k])
    <3>1. e[k] <= v
      BY <1>1, <2>1, <2>3
    <3> QED BY <2>1, <3>1
  <2> QED BY <2>2, <2>3
<1>5. Nat \subseteq Q
  <2> HIDE DEF Q
  <2> QED BY <1>3, <1>4, NatSetInduction
<1>6. n \in Q
  <2> HIDE DEF Q
  <2> QED BY <1>1, <1>5
<1> QED BY <1>1, <1>2, <1>6 DEF e, n

\* Runs of the same lengths end in the same places.
LEMMA EndsSame ==
    ASSUME NEW p, NEW q, Len(p) \in Nat, Len(q) = Len(p),
           \A k \in 1..Len(p) : q[k].clusters = p[k].clusters
    PROVE  \A k \in 0..Len(p) : Ends(q)[k] = Ends(p)[k]
<1> DEFINE n == Len(p)
           e == Ends(p)
           f == Ends(q)
<1>1. e[0] = 0 /\ \A k \in 1..n : e[k] = e[k - 1] + p[k].clusters
  BY EndsIs
<1>2. f[0] = 0 /\ \A k \in 1..n : f[k] = f[k - 1] + q[k].clusters
  <2>1. Len(q) \in Nat
    OBVIOUS
  <2> QED BY <2>1, EndsIs
<1>3. n \in Nat /\ \A k \in 1..n : q[k].clusters = p[k].clusters
  OBVIOUS
<1> HIDE DEF e, f, n
<1> DEFINE Q == {k \in Nat : k <= n => f[k] = e[k]}
<1>4. 0 \in Q
  BY <1>1, <1>2
<1>5. ASSUME NEW k \in Nat, k \in Q PROVE k + 1 \in Q
  <2> SUFFICES ASSUME k + 1 <= n PROVE f[k + 1] = e[k + 1]
    OBVIOUS
  <2>1. k + 1 \in 1..n /\ (k + 1) - 1 = k /\ f[k] = e[k]
    BY <1>3, <1>5
  <2> HIDE DEF Q
  <2> QED BY <1>1, <1>2, <1>3, <2>1
<1>6. Nat \subseteq Q
  <2> HIDE DEF Q
  <2> QED BY <1>4, <1>5, NatSetInduction
<1>7. \A k \in 0..n : f[k] = e[k]
  BY <1>3, <1>6
<1> QED BY <1>7 DEF e, f, n

\* The recursive equation of Places.
IsPlaces(g, p, D) == g = [k \in D |-> IF k = 0 THEN 0 ELSE g[k - 1] + p[k].delta]

\* It has a solution.
LEMMA PlacesExists ==
    ASSUME NEW p, NEW n, n \in Nat
    PROVE  \E g : IsPlaces(g, p, 0..n)
<1> DEFINE Q == {k \in Nat : \E g : IsPlaces(g, p, 0..k)}
<1>1. 0 \in Q
  <2> DEFINE g == [k \in 0..0 |-> 0]
  <2>1. g = [k \in 0..0 |-> IF k = 0 THEN 0 ELSE g[k - 1] + p[k].delta]
    OBVIOUS
  <2> HIDE DEF g
  <2>2. IsPlaces(g, p, 0..0)
    BY <2>1, Zenon DEF IsPlaces
  <2> QED BY <2>2
<1>2. ASSUME NEW k \in Nat, k \in Q PROVE k + 1 \in Q
  <2>1. PICK g : IsPlaces(g, p, 0..k)
    BY <1>2
  <2> DEFINE h == [i \in 0..(k + 1) |-> IF i = 0 THEN 0 ELSE g[i - 1] + p[i].delta]
  <2>2. \A i \in 0..k : h[i] = g[i]
    <3>1. \A i \in 0..k : g[i] = IF i = 0 THEN 0 ELSE g[i - 1] + p[i].delta
      BY <2>1, Zenon DEF IsPlaces
    <3>2. ASSUME NEW i \in 0..k
          PROVE  h[i] = IF i = 0 THEN 0 ELSE g[i - 1] + p[i].delta
      OBVIOUS
    <3> HIDE DEF h
    <3> QED BY <3>1, <3>2
  <2>3. h = [i \in 0..(k + 1) |-> IF i = 0 THEN 0 ELSE h[i - 1] + p[i].delta]
    <3>1. ASSUME NEW i \in 0..(k + 1), i # 0 PROVE h[i - 1] = g[i - 1]
      <4>1. i - 1 \in 0..k
        BY <3>1
      <4> HIDE DEF h
      <4> QED BY <2>2, <4>1
    <3> QED BY <3>1
  <2>4. IsPlaces(h, p, 0..(k + 1))
    <3> HIDE DEF h
    <3> QED BY <2>3, Zenon DEF IsPlaces
  <2> QED BY <2>4
<1>3. Nat \subseteq Q
  <2> HIDE DEF Q
  <2> QED BY <1>1, <1>2, NatSetInduction
<1> QED BY <1>3

\* Offsets from one run to the next add up to where the runs lie.
LEMMA PlacesAre ==
    ASSUME NEW p, Len(p) \in Nat, NEW at, at[0] = 0,
           \A k \in 1..Len(p) : at[k] \in Nat /\ p[k].delta = at[k] - at[k - 1]
    PROVE  \A k \in 0..Len(p) : Places(p)[k] = at[k]
<1> DEFINE n == Len(p)
           g == CHOOSE g : IsPlaces(g, p, 0..n)
<1>1. IsPlaces(g, p, 0..n)
  BY PlacesExists
<1>2. Places(p) = g
  BY Zenon DEF Places, IsPlaces
<1> HIDE DEF g
<1>3. \A k \in 0..n : g[k] = IF k = 0 THEN 0 ELSE g[k - 1] + p[k].delta
  BY <1>1, Zenon DEF IsPlaces
<1>4. /\ n \in Nat /\ at[0] = 0
      /\ \A k \in 1..n : at[k] \in Nat /\ p[k].delta = at[k] - at[k - 1]
  OBVIOUS
<1> HIDE DEF n
<1> DEFINE Q == {k \in Nat : k <= n => g[k] = at[k] /\ at[k] \in Nat}
<1>5. 0 \in Q
  BY <1>3, <1>4
<1>6. ASSUME NEW k \in Nat, k \in Q PROVE k + 1 \in Q
  <2> SUFFICES ASSUME k + 1 <= n PROVE g[k + 1] = at[k + 1] /\ at[k + 1] \in Nat
    OBVIOUS
  <2>1. k + 1 \in 1..n /\ k + 1 \in 0..n /\ k + 1 # 0 /\ (k + 1) - 1 = k /\ k <= n
    BY <1>4
  <2>2. g[k] = at[k] /\ at[k] \in Nat
    BY <1>6, <2>1
  <2> HIDE DEF Q
  <2>3. g[k + 1] = g[k] + p[k + 1].delta
    BY <1>3, <2>1
  <2>4. at[k + 1] \in Nat /\ p[k + 1].delta = at[k + 1] - at[k]
    BY <1>4, <2>1
  <2> QED BY <2>2, <2>3, <2>4
<1>7. Nat \subseteq Q
  <2> HIDE DEF Q
  <2> QED BY <1>5, <1>6, NatSetInduction
<1>8. \A k \in 0..n : g[k] = at[k]
  BY <1>4, <1>7
<1> QED BY <1>2, <1>8 DEF n

-----------------------------------------------------------------------------
(* The table on the disk.                                                  *)

\* What is known of a layout.
IsLayout(l) ==
    /\ Lengths(l) /\ Len(l) # 0
    /\ \A k \in DOMAIN l : l[k].lcn \in Nat \union {None}
    /\ \A i, j \in DOMAIN l :
           i # j /\ l[i].lcn # None /\ l[j].lcn # None =>
               \/ l[i].lcn + l[i].clusters <= l[j].lcn
               \/ l[j].lcn + l[j].clusters <= l[i].lcn

LEMMA LayoutIs ==
    ASSUME NEW l \in Layouts
    PROVE  IsLayout(l)
<1> DEFINE T == [lcn : Nat \union {None}, clusters : Nat \ {0}]
<1>1. l \in Seq(T) /\ l # <<>>
  BY MftAssumption
<1>2. \A x \in T : x.lcn \in Nat \union {None} /\ x.clusters \in Nat \ {0}
  OBVIOUS
<1> HIDE DEF T
<1>3. IsSeq(l) /\ Len(l) \in Nat /\ DOMAIN l = 1..Len(l) /\ \A k \in 1..Len(l) : l[k] \in T
  BY <1>1, SeqIs
<1>4. Len(l) # 0
  BY <1>1
<1>5. \A k \in DOMAIN l : l[k].lcn \in Nat \union {None} /\ l[k].clusters \in Nat \ {0}
  BY <1>2, <1>3
<1>6. \A i, j \in DOMAIN l :
          i # j /\ l[i].lcn # None /\ l[j].lcn # None =>
              \/ l[i].lcn + l[i].clusters <= l[j].lcn
              \/ l[j].lcn + l[j].clusters <= l[i].lcn
  BY MftAssumption
<1> QED BY <1>3, <1>4, <1>5, <1>6 DEF IsLayout, Lengths

\* The extents of runs follow one another.
LEMMA ExtentsOf ==
    ASSUME NEW l, Lengths(l)
    PROVE  /\ IsSeq(RunsToExtents(l)) /\ Len(RunsToExtents(l)) = Len(l)
           /\ DOMAIN RunsToExtents(l) = 1..Len(l)
           /\ \A k \in 1..Len(l) :
                 /\ RunsToExtents(l)[k] = [vcn |-> Ends(l)[k - 1], next |-> Ends(l)[k], lcn |-> l[k].lcn]
                 /\ RunsToExtents(l)[k].vcn = Ends(l)[k - 1] /\ RunsToExtents(l)[k].next = Ends(l)[k]
                 /\ RunsToExtents(l)[k].lcn = l[k].lcn
                 /\ Ends(l)[k - 1] \in Nat /\ Ends(l)[k] \in Nat /\ Ends(l)[k - 1] < Ends(l)[k]
                 /\ Ends(l)[k] = Ends(l)[k - 1] + l[k].clusters
<1> DEFINE n == Len(l)
           E == RunsToExtents(l)
<1>1. n \in Nat /\ DOMAIN l = 1..n
  BY IsSeqIs DEF Lengths
<1>2. E = [k \in 1..n |-> [vcn |-> Ends(l)[k - 1], next |-> Ends(l)[k], lcn |-> l[k].lcn]]
  BY <1>1 DEF RunsToExtents
<1>3. DOMAIN E = 1..n /\ E = [k \in 1..n |-> E[k]]
  BY <1>2
<1>4. \A k \in 1..n : E[k] = [vcn |-> Ends(l)[k - 1], next |-> Ends(l)[k], lcn |-> l[k].lcn]
  BY <1>2
<1> HIDE DEF E
<1>5. IsSeq(E) /\ Len(E) = n
  BY <1>1, <1>3, ListIs
<1>6. ASSUME NEW k \in 1..n
      PROVE  /\ Ends(l)[k - 1] \in Nat /\ Ends(l)[k] \in Nat /\ Ends(l)[k - 1] < Ends(l)[k]
             /\ Ends(l)[k] = Ends(l)[k - 1] + l[k].clusters
  <2>1. k - 1 \in 0..n /\ k \in 0..n /\ k - 1 < k
    BY <1>1
  <2> QED BY <1>1, <2>1, EndsGrow, EndsIs
<1> QED BY <1>3, <1>4, <1>5, <1>6 DEF E

\* Where the table lies in one place, the disk holds its sector there.
LEMMA SectorIs ==
    ASSUME layout \in Layouts, NEW x, Fits(x, layout), x.lcn # None,
           x.vcn \in Nat, x.next \in Nat, NEW d \in Nat, x.vcn + d < x.next
    PROVE  Sector(x.lcn + d) =
               SectorOf((x.vcn + d) \div RS, ((x.vcn + d) % RS) + 1, (x.vcn + d) \div RS \in rewritten)
<1> DEFINE l == layout
           n == Len(l)
           c == x.lcn + d
           In(e) == e.lcn # None /\ c \in e.lcn..(e.lcn + e.next - e.vcn - 1)
           S == {Table[k] : k \in DOMAIN Table}
<1>1. IsLayout(l) /\ Lengths(l) /\ n \in Nat /\ DOMAIN l = 1..n
  BY LayoutIs, IsSeqIs DEF IsLayout, Lengths
<1>2. /\ DOMAIN Table = 1..n
      /\ \A k \in 1..n :
            /\ Table[k].vcn = Ends(l)[k - 1] /\ Table[k].next = Ends(l)[k] /\ Table[k].lcn = l[k].lcn
            /\ Table[k].vcn \in Nat /\ Table[k].next \in Nat
            /\ Table[k].next = Table[k].vcn + l[k].clusters
  <2> DEFINE T == RunsToExtents(l)
  <2>1. /\ DOMAIN T = 1..n
        /\ \A k \in 1..n :
              /\ T[k].vcn = Ends(l)[k - 1] /\ T[k].next = Ends(l)[k] /\ T[k].lcn = l[k].lcn
              /\ Ends(l)[k - 1] \in Nat /\ Ends(l)[k] \in Nat
              /\ Ends(l)[k] = Ends(l)[k - 1] + l[k].clusters
    <3> HIDE DEF l
    <3> QED BY <1>1, ExtentsOf
  <2>2. Table = T
    BY DEF Table
  <2> HIDE DEF T, l, n
  <2> QED BY <2>1, <2>2
<1>3. PICK k \in 1..n :
          /\ Table[k].vcn <= x.vcn /\ x.vcn < x.next /\ x.next <= Table[k].next
          /\ x.lcn = IF Table[k].lcn = None THEN None ELSE Table[k].lcn + x.vcn - Table[k].vcn
  <2>1. DOMAIN layout = 1..n
    BY <1>1
  <2>2. \E k \in DOMAIN layout :
            LET e == RunsToExtents(layout)[k] IN
            /\ e.vcn <= x.vcn /\ x.vcn < x.next /\ x.next <= e.next
            /\ x.lcn = IF e.lcn = None THEN None ELSE e.lcn + x.vcn - e.vcn
    BY Zenon DEF Fits
  <2>3. PICK k \in DOMAIN layout :
            /\ Table[k].vcn <= x.vcn /\ x.vcn < x.next /\ x.next <= Table[k].next
            /\ x.lcn = IF Table[k].lcn = None THEN None ELSE Table[k].lcn + x.vcn - Table[k].vcn
    BY <2>2, Zenon DEF Table
  <2>4. k \in 1..n
    BY <2>1, <2>3
  <2> QED BY <2>3, <2>4, Zenon
<1>4. \A j \in 1..n : l[j].clusters \in Nat \ {0} /\ l[j].lcn \in Nat \union {None}
  BY <1>1 DEF IsLayout, Lengths
<1> DEFINE e == Table[k]
<1>5. e.lcn # None /\ e.lcn \in Nat /\ x.lcn = e.lcn + x.vcn - e.vcn /\ c = e.lcn + (x.vcn + d - e.vcn)
  <2>1. e.lcn \in Nat \union {None} /\ e.vcn \in Nat
    BY <1>2, <1>4
  <2>2. x.lcn = IF e.lcn = None THEN None ELSE e.lcn + x.vcn - e.vcn
    BY <1>3
  <2> HIDE DEF e
  <2>3. e.lcn # None /\ e.lcn \in Nat /\ x.lcn = e.lcn + x.vcn - e.vcn
    BY <2>1, <2>2
  <2> QED BY <2>1, <2>3
<1>6. In(e) /\ e \in S
  <2>1. e \in S
    BY <1>2
  <2>2. e.vcn \in Nat /\ e.next \in Nat /\ e.vcn <= x.vcn /\ x.next <= e.next
    BY <1>2, <1>3
  <2> HIDE DEF e
  <2>3. \A a, v, w, p, q \in Nat :
            v <= p /\ q <= w /\ p + d < q => a + (p + d - v) \in a..(a + w - v - 1)
    OBVIOUS
  <2>4. e.lcn + (x.vcn + d - e.vcn) \in e.lcn..(e.lcn + e.next - e.vcn - 1)
    BY <1>5, <2>2, <2>3
  <2> HIDE DEF c
  <2> QED BY <1>5, <2>1, <2>4
<1>7. ASSUME NEW y \in S, In(y) PROVE y = e
  <2>1. PICK j \in 1..n : y = Table[j]
    BY <1>2
  <2>2. CASE j = k
    BY <2>1, <2>2
  <2>3. CASE j # k
    <3>1. /\ l[j].lcn \in Nat /\ l[k].lcn \in Nat /\ l[j].lcn # None /\ l[k].lcn # None
          /\ l[j].clusters \in Nat /\ l[k].clusters \in Nat
      BY <1>2, <1>4, <1>5, <1>7, <2>1
    <3>2. \/ l[j].lcn + l[j].clusters <= l[k].lcn
          \/ l[k].lcn + l[k].clusters <= l[j].lcn
      BY <1>1, <2>3, <3>1 DEF IsLayout
    <3>3. c \in l[j].lcn..(l[j].lcn + l[j].clusters - 1)
      <4>1. /\ y.lcn = l[j].lcn /\ y.next = y.vcn + l[j].clusters /\ y.vcn \in Nat
        BY <1>2, <2>1
      <4> QED BY <1>7, <3>1, <4>1
    <3>4. c \in l[k].lcn..(l[k].lcn + l[k].clusters - 1)
      <4>1. /\ e.lcn = l[k].lcn /\ e.next = e.vcn + l[k].clusters /\ e.vcn \in Nat
        BY <1>2
      <4> QED BY <1>6, <3>1, <4>1
    <3>5. \A a, b, v, w, u \in Int :
             u \in a..(a + v - 1) /\ u \in b..(b + w - 1) => ~ (a + v <= b) /\ ~ (b + w <= a)
      OBVIOUS
    <3> HIDE DEF c
    <3>6. c \in Int
      BY <3>1, <3>4
    <3>7. ~ (l[j].lcn + l[j].clusters <= l[k].lcn) /\ ~ (l[k].lcn + l[k].clusters <= l[j].lcn)
      <4> DEFINE a == l[j].lcn
                 v == l[j].clusters
                 b == l[k].lcn
                 w == l[k].clusters
      <4>1. a \in Int /\ v \in Int /\ b \in Int /\ w \in Int
        BY <3>1
      <4>2. c \in a..(a + v - 1) /\ c \in b..(b + w - 1)
        BY <3>3, <3>4
      <4> HIDE DEF a, v, b, w
      <4>3. ~ (a + v <= b) /\ ~ (b + w <= a)
        BY <3>5, <3>6, <4>1, <4>2
      <4> QED BY <4>3, Zenon DEF a, v, b, w
    <3> QED BY <3>2, <3>7, Zenon
  <2> QED BY <2>2, <2>3
<1> DEFINE z == CHOOSE y \in S : In(y)
<1>8. z = e
  BY <1>6, <1>7
<1> DEFINE place == z.vcn + c - z.lcn
<1>9. Sector(c) = [record |-> place \div RS, part |-> place % RS,
                   usn |-> <<place \div RS, place \div RS \in rewritten>>]
  BY DEF Sector
<1>10. place = x.vcn + d
  <2> HIDE DEF z, c
  <2>1. place = e.vcn + c - e.lcn
    BY <1>8
  <2>2. \A a, b, q \in Int : b + (a + (q + d - b)) - a = q + d
    OBVIOUS
  <2>3. e.vcn \in Int /\ e.lcn \in Int /\ x.vcn \in Int
    BY <1>2, <1>5
  <2> HIDE DEF e, place
  <2>4. place = e.vcn + (e.lcn + (x.vcn + d - e.vcn)) - e.lcn
    BY <1>5, <2>1, Zenon
  <2> QED BY <2>2, <2>3, <2>4
<1>11. ((place % RS) + 1) - 1 = place % RS
  <2>1. place \in Nat /\ RS \in Nat \ {0}
    BY <1>10, RecordsAssumption
  <2> HIDE DEF place
  <2> QED BY <2>1
<1> HIDE DEF place
<1> QED BY <1>9, <1>10, <1>11 DEF SectorOf

-----------------------------------------------------------------------------
(* The map of the table.                                                   *)

\* No part of a layout lies nowhere.
NoHole(l) == \A k \in DOMAIN l : l[k].lcn # None

\* The extents of the whole table are a map of it.
LEMMA TableMaps ==
    ASSUME NEW l, IsLayout(l)
    PROVE  MapOK(RunsToExtents(l), l)
<1> DEFINE n == Len(l)
           E == RunsToExtents(l)
<1>1. n \in Nat /\ DOMAIN l = 1..n /\ Lengths(l) /\ \A k \in 1..n : l[k].lcn \in Nat \union {None}
  BY IsSeqIs DEF IsLayout, Lengths
<1>2. /\ IsSeq(E) /\ Len(E) = n /\ DOMAIN E = 1..n
      /\ \A k \in 1..n :
            /\ E[k] = [vcn |-> Ends(l)[k - 1], next |-> Ends(l)[k], lcn |-> l[k].lcn]
            /\ E[k].vcn = Ends(l)[k - 1] /\ E[k].next = Ends(l)[k]
            /\ E[k].lcn = l[k].lcn
            /\ Ends(l)[k - 1] \in Nat /\ Ends(l)[k] \in Nat /\ Ends(l)[k - 1] < Ends(l)[k]
  BY <1>1, ExtentsOf
<1>3. Ends(l)[0] = 0
  BY <1>1, EndsIs
<1> DEFINE T == [vcn : Nat, next : Nat, lcn : Nat \union {None}]
<1>4. \A k \in 1..n : E[k] \in T
  BY <1>1, <1>2
<1> HIDE DEF T
<1>5. E \in Seq(T)
  <2>1. E \in Seq(ToSet(E)) /\ E = [k \in 1..n |-> E[k]]
    <3>1. E \in Seq(ToSet(E))
      BY <1>2 DEF IsSeq
    <3> HIDE DEF E, n
    <3> QED BY <1>2, <3>1
  <2> HIDE DEF E, n
  <2> QED BY <1>1, <1>4, <2>1
<1>6. ASSUME NEW k \in 1..n
      PROVE  Fits(E[k], l) /\ E[k].vcn = IF k = 1 THEN 0 ELSE E[k - 1].next
  <2>1. Fits(E[k], l)
    <3>1. /\ E[k].vcn <= E[k].vcn /\ E[k].vcn < E[k].next /\ E[k].next <= E[k].next
          /\ E[k].lcn = IF E[k].lcn = None THEN None ELSE E[k].lcn + E[k].vcn - E[k].vcn
      <4>1. /\ E[k].vcn \in Nat /\ E[k].next \in Nat /\ E[k].vcn < E[k].next
            /\ E[k].lcn \in Nat \union {None}
        BY <1>1, <1>2
      <4> HIDE DEF E
      <4> QED BY <4>1
    <3> QED BY <1>1, <3>1, Zenon DEF Fits
  <2>2. k # 1 => k - 1 \in 1..n
    BY <1>1
  <2>3. k = 1 => k - 1 = 0
    OBVIOUS
  <2> HIDE DEF E, n
  <2> QED BY <1>2, <1>3, <2>1, <2>2, <2>3
<1> QED BY <1>2, <1>5, <1>6 DEF MapOK, T

\* What is read has a length, whatever the map.
LEMMA ValidLengths ==
    ASSUME NEW map, IsSeq(map), \A k \in DOMAIN map : map[k].vcn \in Nat /\ map[k].next \in Nat,
           NEW v, NEW c, NEW p \in ValidateExtents(map, v, c)
    PROVE  Lengths(p)
<1> DEFINE S == {e \in ToSet(map) : e.lcn # None}
           m == Keep(map, S)
           n == Len(m)
<1>0. Len(map) \in Nat /\ DOMAIN map = 1..Len(map)
  BY IsSeqIs
<1>1. KeptOf(m, map, S, Len(map))
  BY KeepIs
<1>2. /\ \A k \in DOMAIN map : map[k].next > map[k].vcn
      /\ p = [k \in DOMAIN m |-> [lcn |-> m[k].lcn, clusters |-> m[k].next - m[k].vcn]]
  BY DEF ValidateExtents
<1> HIDE DEF m
<1>3. IsSeq(m) /\ n \in Nat /\ DOMAIN m = 1..n
  BY <1>1, IsSeqIs DEF KeptOf
<1>4. ASSUME NEW k \in 1..n PROVE m[k].next - m[k].vcn \in Nat \ {0}
  <2>1. PICK i \in 1..Len(map) : m[k] = map[i]
    BY <1>1 DEF KeptOf
  <2>2. map[i].vcn \in Nat /\ map[i].next \in Nat /\ map[i].next > map[i].vcn
    BY <1>0, <1>2
  <2> QED BY <2>1, <2>2
<1>5. DOMAIN p = 1..n /\ p = [k \in 1..n |-> p[k]] /\ \A k \in 1..n : p[k].clusters = m[k].next - m[k].vcn
  BY <1>2, <1>3
<1>6. IsSeq(p)
  BY <1>3, <1>5, ListIs
<1> QED BY <1>4, <1>5, <1>6 DEF Lengths

\* What is read is the beginning of the table, when the map is and has no hole.
LEMMA ValidLaysOut ==
    ASSUME NEW l, IsLayout(l), NoHole(l), NEW map, MapOK(map, l),
           NEW v, NEW c, NEW p \in ValidateExtents(map, v, c)
    PROVE  LaidOut(p, l)
<1> DEFINE S == {e \in ToSet(map) : e.lcn # None}
           m == Keep(map, S)
           n == Len(map)
           T == [vcn : Nat, next : Nat, lcn : Nat \union {None}]
<1>1. map \in Seq(T)
  BY DEF MapOK
<1>2. \A e \in T : e.vcn \in Nat /\ e.next \in Nat /\ e.lcn \in Nat \union {None}
  OBVIOUS
<1> HIDE DEF T
<1>3. /\ IsSeq(map) /\ n \in Nat /\ DOMAIN map = 1..n
      /\ \A k \in 1..n : map[k].vcn \in Nat /\ map[k].next \in Nat /\ map[k].lcn \in Nat \union {None}
  BY <1>1, <1>2, SeqIs
<1>4. \A k \in 1..n : Fits(map[k], l) /\ map[k].vcn = IF k = 1 THEN 0 ELSE map[k - 1].next
  BY <1>3 DEF MapOK
<1>5. DOMAIN l = 1..Len(l) /\ \A j \in 1..Len(l) : RunsToExtents(l)[j].lcn # None
  <2>1. Lengths(l) /\ DOMAIN l = 1..Len(l)
    BY IsSeqIs DEF IsLayout, Lengths
  <2> QED BY <2>1, ExtentsOf DEF NoHole
<1>6. ASSUME NEW k \in 1..n PROVE map[k].lcn # None
  <2>1. PICK j \in 1..Len(l) :
            LET e == RunsToExtents(l)[j] IN
            /\ e.vcn <= map[k].vcn /\ map[k].vcn < map[k].next /\ map[k].next <= e.next
            /\ map[k].lcn = IF e.lcn = None THEN None ELSE e.lcn + map[k].vcn - e.vcn
    BY <1>4, <1>5, Zenon DEF Fits
  <2> DEFINE e == RunsToExtents(l)[j]
  <2>2. e.lcn \in Nat /\ e.vcn \in Nat
    <3>1. Lengths(l) /\ \A i \in DOMAIN l : l[i].lcn \in Nat \union {None}
      BY DEF IsLayout
    <3>2. e.lcn = l[j].lcn /\ e.vcn = Ends(l)[j - 1] /\ Ends(l)[j - 1] \in Nat
      BY <3>1, ExtentsOf
    <3> HIDE DEF e
    <3> QED BY <1>5, <3>1, <3>2 DEF NoHole
  <2>3. e.vcn <= map[k].vcn /\ map[k].lcn = e.lcn + map[k].vcn - e.vcn
    BY <1>5, <2>1
  <2> HIDE DEF e
  <2>4. map[k].vcn \in Nat
    BY <1>3
  <2> QED BY <2>2, <2>3, <2>4 DEF None
<1>7. m = map
  <2>1. ToSet(map) \subseteq S
    BY <1>3, <1>6 DEF ToSet
  <2> HIDE DEF S
  <2> QED BY <1>3, <2>1, KeepAll
<1>8. p = [k \in 1..n |-> [lcn |-> map[k].lcn, clusters |-> map[k].next - map[k].vcn]]
  <2>1. p = [k \in DOMAIN m |-> [lcn |-> m[k].lcn, clusters |-> m[k].next - m[k].vcn]]
    BY DEF ValidateExtents
  <2> HIDE DEF m
  <2> QED BY <1>3, <1>7, <2>1
<1>9. DOMAIN p = 1..n /\ \A k \in 1..n : p[k].lcn = map[k].lcn /\ p[k].clusters = map[k].next - map[k].vcn
  BY <1>8
<1>10. Len(p) = n
  <2>1. p = [k \in 1..n |-> p[k]]
    BY <1>8
  <2> QED BY <1>3, <1>9, <2>1, ListIs
<1>11. Ends(p)[0] = 0 /\ \A k \in 1..n : Ends(p)[k] = Ends(p)[k - 1] + p[k].clusters
  BY <1>3, <1>10, EndsIs
<1> HIDE DEF n
<1> DEFINE at(k) == IF k = 0 THEN 0 ELSE map[k].next
           Q == {k \in Nat : k <= n => Ends(p)[k] = at(k)}
<1>12. 0 \in Q
  BY <1>11
<1>13. ASSUME NEW k \in Nat, k \in Q PROVE k + 1 \in Q
  <2> SUFFICES ASSUME k + 1 <= n PROVE Ends(p)[k + 1] = at(k + 1)
    OBVIOUS
  <2>1. k + 1 \in 1..n /\ (k + 1) - 1 = k /\ k <= n /\ (k # 0 => k \in 1..n)
    BY <1>3
  <2>2. Ends(p)[k] = at(k)
    BY <1>13, <2>1
  <2>3. map[k + 1].vcn = at(k)
    <3>1. k + 1 = 1 <=> k = 0
      BY <2>1
    <3> QED BY <1>4, <2>1, <3>1
  <2>4. p[k + 1].clusters = map[k + 1].next - map[k + 1].vcn
    BY <1>9, <2>1
  <2>5. Ends(p)[k + 1] = Ends(p)[k] + p[k + 1].clusters
    BY <1>11, <2>1
  <2>6. map[k + 1].next \in Nat /\ map[k + 1].vcn \in Nat
    BY <1>3, <2>1
  <2>7. at(k + 1) = map[k + 1].next
    OBVIOUS
  <2> HIDE DEF Q, at
  <2> QED BY <2>2, <2>3, <2>4, <2>5, <2>6, <2>7
<1>14. Nat \subseteq Q
  <2> HIDE DEF Q
  <2> QED BY <1>12, <1>13, NatSetInduction
<1>15. \A k \in Nat : k <= n => Ends(p)[k] = at(k)
  BY <1>14
<1>16. ASSUME NEW k \in 1..n
       PROVE  /\ p[k].lcn \in Nat
              /\ Fits([vcn |-> Ends(p)[k - 1], next |-> Ends(p)[k], lcn |-> p[k].lcn], l)
  <2>1. Ends(p)[k] = map[k].next /\ Ends(p)[k - 1] = map[k].vcn
    <3>1. k \in Nat /\ k <= n /\ k # 0 /\ k - 1 \in Nat /\ k - 1 <= n /\ (k = 1 <=> k - 1 = 0)
      BY <1>3
    <3> HIDE DEF Q
    <3> QED BY <1>4, <1>15, <3>1
  <2>2. p[k].lcn = map[k].lcn /\ p[k].lcn \in Nat
    BY <1>3, <1>6, <1>9
  <2> DEFINE x == [vcn |-> Ends(p)[k - 1], next |-> Ends(p)[k], lcn |-> p[k].lcn]
  <2>3. x.vcn = map[k].vcn /\ x.next = map[k].next /\ x.lcn = map[k].lcn
    BY <2>1, <2>2
  <2>4. Fits(map[k], l)
    BY <1>4
  <2> HIDE DEF x
  <2>5. Fits(x, l)
    BY <2>3, <2>4, Zenon DEF Fits
  <2> QED BY <2>2, <2>5 DEF x
<1> QED BY <1>9, <1>16 DEF LaidOut

\* The run list in record 0, run by run.
LEMMA RunListIs ==
    ASSUME layout \in Layouts
    PROVE  /\ IsSeq(RunList) /\ Len(RunList) = Len(layout) /\ DOMAIN RunList = 1..Len(layout)
           /\ \A k \in 1..Len(layout) :
                 /\ RunList[k].clusters = layout[k].clusters
                 /\ RunList[k].clusters \in Nat \ {0}
                 /\ RunList[k].sparse <=> layout[k].lcn = None
<1> DEFINE l == layout
           n == Len(l)
           D(k) == layout[k].lcn - (IF {j \in 1..(k - 1) : layout[j].lcn # None} = {} THEN 0
                                    ELSE layout[Max({j \in 1..(k - 1) : layout[j].lcn # None})].lcn)
<1>1. n \in Nat /\ DOMAIN l = 1..n /\ \A k \in 1..n : l[k].clusters \in Nat \ {0}
  BY LayoutIs, IsSeqIs DEF IsLayout, Lengths
<1>2. RunList = [k \in DOMAIN layout |-> [clusters |-> layout[k].clusters,
                                           sparse |-> layout[k].lcn = None, delta |-> D(k)]]
  BY Zenon DEF RunList
<1> HIDE DEF D
<1>3. /\ DOMAIN RunList = 1..n /\ RunList = [k \in 1..n |-> RunList[k]]
      /\ \A k \in 1..n : RunList[k] = [clusters |-> layout[k].clusters,
                                       sparse |-> layout[k].lcn = None, delta |-> D(k)]
  BY <1>1, <1>2
<1>4. IsSeq(RunList) /\ Len(RunList) = n
  BY <1>1, <1>3, ListIs
<1>5. ASSUME NEW k \in 1..n
      PROVE  RunList[k].clusters = layout[k].clusters /\ (RunList[k].sparse <=> layout[k].lcn = None)
  <2>1. RunList[k].clusters = layout[k].clusters
    BY <1>3
  <2>2. RunList[k].sparse = (layout[k].lcn = None)
    <3> DEFINE sp == layout[k].lcn = None
               r == [clusters |-> layout[k].clusters, sparse |-> sp, delta |-> D(k)]
    <3>1. RunList[k] = r
      BY <1>3, Zenon
    <3> HIDE DEF sp
    <3>2. r.sparse = sp
      OBVIOUS
    <3> HIDE DEF r
    <3>3. RunList[k].sparse = sp
      BY <3>1, <3>2
    <3> QED BY <3>3, Zenon DEF sp
  <2> QED BY <2>1, <2>2
<1> QED BY <1>1, <1>3, <1>4, <1>5

\* A run list gives lengths to read, whatever the layout.
LEMMA RunsHaveLengths ==
    ASSUME layout \in Layouts, NEW runs \in DecodeRuns(RunList)
    PROVE  Lengths(runs)
<1> DEFINE S == {r \in ToSet(RunList) : ~ r.sparse /\ r.clusters > 0}
           m == Keep(RunList, S)
           n == Len(m)
<1>1. KeptOf(m, RunList, S, Len(RunList))
  BY RunListIs, KeepIs
<1>2. runs = [k \in DOMAIN m |-> [lcn |-> Places(m)[k], clusters |-> m[k].clusters]]
  BY DEF DecodeRuns
<1> HIDE DEF m
<1>3. IsSeq(m) /\ n \in Nat /\ DOMAIN m = 1..n
  BY <1>1, IsSeqIs DEF KeptOf
<1>4. ASSUME NEW k \in 1..n PROVE m[k].clusters \in Nat \ {0}
  <2>1. PICK i \in 1..Len(RunList) : m[k] = RunList[i]
    BY <1>1 DEF KeptOf
  <2> QED BY <2>1, RunListIs
<1>5. DOMAIN runs = 1..n /\ runs = [k \in 1..n |-> runs[k]] /\ \A k \in 1..n : runs[k].clusters = m[k].clusters
  BY <1>2, <1>3
<1>6. IsSeq(runs)
  BY <1>3, <1>5, ListIs
<1> QED BY <1>4, <1>5, <1>6 DEF Lengths

\* Without holes, it is the layout.
LEMMA RunsAreTable ==
    ASSUME layout \in Layouts, NoHole(layout), NEW runs \in DecodeRuns(RunList)
    PROVE  RunsToExtents(runs) = RunsToExtents(layout)
<1> DEFINE l == layout
           n == Len(l)
           S == {r \in ToSet(RunList) : ~ r.sparse /\ r.clusters > 0}
           m == Keep(RunList, S)
<1>1. n \in Nat /\ DOMAIN l = 1..n /\ \A k \in 1..n : l[k].clusters \in Nat \ {0} /\ l[k].lcn \in Nat
  <2>1. n \in Nat /\ DOMAIN l = 1..n
    BY LayoutIs, IsSeqIs DEF IsLayout, Lengths
  <2>2. \A k \in DOMAIN l : l[k].clusters \in Nat \ {0} /\ l[k].lcn \in Nat \union {None}
    BY LayoutIs DEF IsLayout, Lengths
  <2> QED BY <2>1, <2>2 DEF NoHole
<1>2. m = RunList
  <2>1. ASSUME NEW k \in 1..n PROVE RunList[k] \in S
    <3>1. RunList[k] \in ToSet(RunList)
      BY RunListIs DEF ToSet
    <3>2. ~ RunList[k].sparse /\ RunList[k].clusters > 0
      BY <1>1, RunListIs DEF NoHole
    <3> QED BY <3>1, <3>2
  <2>2. ToSet(RunList) \subseteq S
    BY <2>1, RunListIs DEF ToSet
  <2> HIDE DEF S
  <2> QED BY <2>2, RunListIs, KeepAll
<1>3. runs = [k \in 1..n |-> [lcn |-> Places(RunList)[k], clusters |-> RunList[k].clusters]]
  <2>1. runs = [k \in DOMAIN m |-> [lcn |-> Places(m)[k], clusters |-> m[k].clusters]]
    BY DEF DecodeRuns
  <2> HIDE DEF m
  <2> QED BY <1>2, <2>1, RunListIs
<1> DEFINE at == [k \in 0..n |-> IF k = 0 THEN 0 ELSE l[k].lcn]
<1>4. ASSUME NEW k \in 1..n
      PROVE  at[k] \in Nat /\ at[k] = l[k].lcn /\ RunList[k].delta = at[k] - at[k - 1]
  <2> DEFINE B == {j \in 1..(k - 1) : layout[j].lcn # None}
             D(i) == layout[i].lcn - (IF {j \in 1..(i - 1) : layout[j].lcn # None} = {} THEN 0
                                      ELSE layout[Max({j \in 1..(i - 1) : layout[j].lcn # None})].lcn)
  <2>1. RunList[k].delta = D(k)
    <3>1. RunList = [i \in DOMAIN layout |-> [clusters |-> layout[i].clusters,
                                              sparse |-> layout[i].lcn = None, delta |-> D(i)]]
      BY Zenon DEF RunList
    <3> HIDE DEF D
    <3> QED BY <1>1, <3>1
  <2>2. D(k) = layout[k].lcn - (IF B = {} THEN 0 ELSE layout[Max(B)].lcn)
    OBVIOUS
  <2>3. B = 1..(k - 1)
    BY <1>1 DEF NoHole
  <2> HIDE DEF B, D
  <2>4. CASE k = 1
    <3>1. B = {}
      BY <2>3, <2>4
    <3> QED BY <1>1, <2>1, <2>2, <2>4, <3>1
  <2>5. CASE k # 1
    <3>1. k - 1 \in B /\ \A y \in B : k - 1 >= y
      BY <2>3, <2>5
    <3>2. Max(B) = k - 1
      <4>1. \A x \in B : (\A y \in B : x >= y) => x = k - 1
        BY <2>3, <3>1
      <4> QED BY <3>1, <4>1 DEF Max
    <3>3. B # {} /\ k - 1 \in 1..n /\ k - 1 # 0
      BY <1>1, <2>5, <3>1
    <3> QED BY <1>1, <2>1, <2>2, <3>2, <3>3
  <2> QED BY <2>4, <2>5
<1>5. at[0] = 0
  BY <1>1
<1> HIDE DEF at
<1>6. \A k \in 1..n : Places(RunList)[k] = l[k].lcn
  <2>1. \A k \in 0..n : Places(RunList)[k] = at[k]
    BY <1>1, <1>4, <1>5, RunListIs, PlacesAre
  <2> QED BY <1>1, <1>4, <2>1
<1>7. /\ DOMAIN runs = 1..n /\ runs = [k \in 1..n |-> runs[k]]
      /\ \A k \in 1..n : runs[k].lcn = l[k].lcn /\ runs[k].clusters = l[k].clusters
  BY <1>3, <1>6, RunListIs
<1>8. Len(runs) = n
  BY <1>1, <1>7, ListIs
<1>9. \A k \in 0..n : Ends(runs)[k] = Ends(l)[k]
  BY <1>1, <1>7, <1>8, EndsSame
<1>10. \A k \in 1..n : k \in 0..n /\ k - 1 \in 0..n
  BY <1>1
<1> HIDE DEF n
<1>11. /\ RunsToExtents(runs) = [k \in 1..n |-> [vcn |-> Ends(runs)[k - 1], next |-> Ends(runs)[k],
                                                lcn |-> runs[k].lcn]]
       /\ RunsToExtents(l) = [k \in 1..n |-> [vcn |-> Ends(l)[k - 1], next |-> Ends(l)[k], lcn |-> l[k].lcn]]
  BY <1>1, <1>7, Zenon DEF RunsToExtents
<1> QED BY <1>7, <1>9, <1>10, <1>11

-----------------------------------------------------------------------------
(* What Windows answers.                                                   *)

\* Two maps, the second from where the first ends, are one.
LEMMA MapsJoin ==
    ASSUME NEW l, NEW a, NEW b, MapOK(a, l), b \in Seq([vcn : Nat, next : Nat, lcn : Nat \union {None}]),
           \A k \in DOMAIN b : Fits(b[k], l) /\ (k > 1 => b[k].vcn = b[k - 1].next),
           b # <<>> => b[1].vcn = IF a = <<>> THEN 0 ELSE Last(a).next
    PROVE  MapOK(a \o b, l)
<1> DEFINE T == [vcn : Nat, next : Nat, lcn : Nat \union {None}]
           s == a \o b
           n == Len(a)
           m == Len(b)
<1>1. a \in Seq(T) /\ b \in Seq(T) /\ T = [vcn : Nat, next : Nat, lcn : Nat \union {None}]
  BY DEF MapOK
<1> HIDE DEF T
<1>2. s \in Seq(T)
  BY <1>1
<1>3. /\ IsSeq(a) /\ IsSeq(b) /\ n \in Nat /\ m \in Nat /\ DOMAIN a = 1..n /\ DOMAIN b = 1..m
  BY <1>1, SeqIs
<1>4. /\ Len(s) = n + m /\ DOMAIN s = 1..(n + m)
      /\ \A i \in 1..(n + m) : s[i] = IF i <= n THEN a[i] ELSE b[i - n]
  <2>1. IsSeq(s) /\ Len(s) = n + m /\ \A i \in 1..(n + m) : s[i] = IF i <= n THEN a[i] ELSE b[i - n]
    BY <1>3, Joined
  <2> QED BY <2>1, IsSeqIs
<1>5. a = <<>> <=> n = 0
  BY <1>1, <1>3
<1>6. b = <<>> <=> m = 0
  BY <1>1, <1>3
<1>7. ASSUME NEW k \in 1..(n + m)
      PROVE  Fits(s[k], l) /\ s[k].vcn = IF k = 1 THEN 0 ELSE s[k - 1].next
  <2>1. CASE k <= n
    <3>1. k \in 1..n /\ (k # 1 => k - 1 \in 1..(n + m) /\ k - 1 <= n)
      BY <1>3, <2>1
    <3>2. s[k] = a[k] /\ (k # 1 => s[k - 1] = a[k - 1])
      BY <1>4, <3>1, <2>1
    <3> QED BY <1>3, <3>1, <3>2 DEF MapOK
  <2>2. CASE k = n + 1
    <3>1. m # 0 /\ 1 \in 1..m /\ k - n = 1 /\ ~ (k <= n)
      BY <1>3, <2>2
    <3>2. s[k] = b[1]
      BY <1>4, <3>1
    <3>3. n # 0 => s[k - 1] = Last(a) /\ k # 1
      <4> SUFFICES ASSUME n # 0 PROVE s[k - 1] = Last(a) /\ k # 1
        OBVIOUS
      <4>1. k - 1 = n /\ n \in 1..(n + m) /\ n <= n /\ k # 1
        BY <1>3, <2>2
      <4> QED BY <1>4, <4>1 DEF Last
    <3>4. n = 0 <=> k = 1
      BY <1>3, <2>2
    <3>5. Fits(b[1], l) /\ b[1].vcn = IF a = <<>> THEN 0 ELSE Last(a).next
      BY <1>3, <1>6, <3>1
    <3> QED BY <1>5, <3>2, <3>3, <3>4, <3>5
  <2>3. CASE k > n + 1
    <3>1. /\ k - n \in 1..m /\ k - n > 1 /\ (k - 1) - n = (k - n) - 1 /\ k - 1 \in 1..(n + m)
          /\ ~ (k <= n) /\ ~ (k - 1 <= n) /\ k # 1
      BY <1>3, <2>3
    <3>2. s[k] = b[k - n] /\ s[k - 1] = b[(k - n) - 1]
      BY <1>4, <3>1
    <3> QED BY <1>3, <3>1, <3>2
  <2>4. k <= n \/ k = n + 1 \/ k > n + 1
    BY <1>3
  <2> QED BY <2>1, <2>2, <2>3, <2>4, Zenon
<1>8. s \in Seq([vcn : Nat, next : Nat, lcn : Nat \union {None}])
  BY <1>1, <1>2
<1>9. \A k \in DOMAIN s : Fits(s[k], l) /\ s[k].vcn = IF k = 1 THEN 0 ELSE s[k - 1].next
  BY <1>4, <1>7
<1> HIDE DEF s
<1>10. MapOK(s, l)
  BY <1>8, <1>9 DEF MapOK
<1> QED BY <1>10 DEF s

\* A piece of a map.
Pieces == [vcn : Nat, next : Nat, lcn : Nat \union {None}]

\* The k-th extent of an answer that begins at start.
Told(raw, start, k) ==
    [vcn |-> IF k = 1 THEN start ELSE raw[k - 1].next, next |-> raw[k].next, lcn |-> raw[k].lcn]

\* What Windows answers is true of the table.
IsAnswer(raw, l, start) ==
    /\ IsSeq(raw)
    /\ \A k \in 1..Len(raw) : Told(raw, start, k) \in Pieces /\ Fits(Told(raw, start, k), l)

\* A map from v on.
MapFrom(b, l, v) ==
    /\ b \in Seq(Pieces)
    /\ \A k \in DOMAIN b : Fits(b[k], l) /\ (k > 1 => b[k].vcn = b[k - 1].next)
    /\ b # <<>> => b[1].vcn = v

\* What is left of a piece when it is trimmed lies where it did.
LEMMA TrimmedFits ==
    ASSUME NEW l, IsLayout(l), NEW x \in Pieces, Fits(x, l), NEW v \in Nat, v < x.next,
           NEW t, t = Trimmed(x.vcn, x.next, x.lcn, v)
    PROVE  /\ t \in Pieces /\ Fits(t, l) /\ t.next = x.next
           /\ t.vcn = IF x.vcn < v THEN v ELSE x.vcn
<1>1. PICK k \in DOMAIN l :
          LET e == RunsToExtents(l)[k] IN
          /\ e.vcn <= x.vcn /\ x.vcn < x.next /\ x.next <= e.next
          /\ x.lcn = IF e.lcn = None THEN None ELSE e.lcn + x.vcn - e.vcn
  BY Zenon DEF Fits
<1> DEFINE e == RunsToExtents(l)[k]
           a == e.vcn
           b == e.next
           c == e.lcn
           p == x.vcn
           q == x.next
           r == x.lcn
           d == IF p < v THEN v - p ELSE 0
<1>2. a \in Nat /\ b \in Nat /\ c \in Nat \union {None}
  <2>1. Lengths(l) /\ k \in 1..Len(l) /\ l[k].lcn \in Nat \union {None}
    BY IsSeqIs DEF IsLayout, Lengths
  <2> QED BY <2>1, ExtentsOf
<1>3. a <= p /\ p < q /\ q <= b /\ r = IF c = None THEN None ELSE c + p - a
  BY <1>1
<1>4. p \in Nat /\ q \in Nat /\ r \in Nat \union {None} /\ v < q
  BY DEF Pieces
<1>5. t = [vcn |-> p + d, next |-> q, lcn |-> IF r = None THEN None ELSE r + d]
  BY Zenon DEF Trimmed
<1> DEFINE u == IF r = None THEN None ELSE r + d
<1>6. t.vcn = p + d /\ t.next = q /\ t.lcn = u
  BY <1>5
<1> HIDE DEF e, a, b, c, p, q, r, d
<1>7. d \in Nat /\ p + d = (IF p < v THEN v ELSE p) /\ p + d < q /\ a <= p + d
  BY <1>2, <1>3, <1>4 DEF d
<1>8. u \in Nat \union {None} /\ u = IF c = None THEN None ELSE c + (p + d) - a
  <2>1. CASE c = None
    BY <1>3, <2>1
  <2>2. CASE c # None
    <3>1. c \in Nat /\ r = c + p - a /\ r \in Nat /\ r # None
      BY <1>2, <1>3, <1>4, <2>2 DEF None
    <3> QED BY <1>2, <1>4, <1>7, <2>2, <3>1
  <2> QED BY <2>1, <2>2
<1> HIDE DEF u
<1>9. t \in Pieces
  BY <1>4, <1>5, <1>6, <1>7, <1>8 DEF Pieces, u
<1>10. Fits(t, l)
  <2>1. /\ a <= t.vcn /\ t.vcn < t.next /\ t.next <= b
        /\ t.lcn = IF c = None THEN None ELSE c + t.vcn - a
    BY <1>3, <1>6, <1>7, <1>8
  <2> QED BY <2>1, Zenon DEF Fits, a, b, c, e
<1> QED BY <1>6, <1>7, <1>9, <1>10 DEF p, q

\* Numbers that grow pass v once.
LEMMA Passes ==
    ASSUME NEW m \in Nat, NEW at, NEW v \in Nat, \A k \in 1..m : at[k] \in Nat,
           \A k \in 1..m : k > 1 => at[k - 1] < at[k], m # 0, v < at[m]
    PROVE  \E j \in 1..m : \A k \in 1..m : v < at[k] <=> k >= j
<1> DEFINE Once(n) == \E j \in 1..(n + 1) : \A k \in 1..n : v < at[k] <=> k >= j
           Q == {n \in Nat : n <= m => Once(n)}
<1>1. 0 \in Q
  OBVIOUS
<1>2. ASSUME NEW n \in Nat, n \in Q PROVE n + 1 \in Q
  <2> SUFFICES ASSUME n + 1 <= m
               PROVE  \E j \in 1..((n + 1) + 1) : \A k \in 1..(n + 1) : v < at[k] <=> k >= j
    OBVIOUS
  <2>1. PICK j \in 1..(n + 1) : \A k \in 1..n : v < at[k] <=> k >= j
    BY <1>2
  <2>2. \A k \in 1..(n + 1) : k \in 1..n \/ k = n + 1
    OBVIOUS
  <2>3. n + 1 \in 1..m /\ at[n + 1] \in Nat
    OBVIOUS
  <2>4. CASE j <= n
    <3>1. n \in 1..m /\ n \in 1..n /\ n + 1 > 1 /\ (n + 1) - 1 = n
      BY <2>4
    <3>2. v < at[n] /\ at[n] < at[n + 1] /\ at[n] \in Nat
      BY <2>1, <2>3, <2>4, <3>1
    <3>3. v < at[n + 1] /\ n + 1 >= j
      BY <2>3, <2>4, <3>2
    <3>4. j \in 1..((n + 1) + 1) /\ \A k \in 1..(n + 1) : v < at[k] <=> k >= j
      BY <2>1, <2>2, <3>3
    <3> QED BY <3>4
  <2>5. CASE j = n + 1 /\ v < at[n + 1]
    <3>1. j \in 1..((n + 1) + 1) /\ \A k \in 1..(n + 1) : v < at[k] <=> k >= j
      BY <2>1, <2>2, <2>5
    <3> QED BY <3>1
  <2>6. CASE j = n + 1 /\ ~ (v < at[n + 1])
    <3> DEFINE i == (n + 1) + 1
    <3>1. i \in 1..((n + 1) + 1) /\ \A k \in 1..(n + 1) : ~ (k >= i)
      OBVIOUS
    <3>2. \A k \in 1..n : ~ (k >= j)
      BY <2>6
    <3>3. \A k \in 1..(n + 1) : ~ (v < at[k])
      BY <2>1, <2>2, <2>6, <3>2
    <3> QED BY <3>1, <3>3
  <2> QED BY <2>4, <2>5, <2>6
<1>3. Nat \subseteq Q
  <2> HIDE DEF Q
  <2> QED BY <1>1, <1>2, NatSetInduction
<1>4. PICK j \in 1..(m + 1) : \A k \in 1..m : v < at[k] <=> k >= j
  <2>1. Once(m)
    <3> HIDE DEF Once
    <3> QED BY <1>3
  <2> QED BY <2>1
<1>5. m \in 1..m
  OBVIOUS
<1>6. m >= j
  BY <1>4, <1>5
<1>7. j \in 1..m
  BY <1>6
<1> QED BY <1>4, <1>7

\* An answer leads to a map from the cluster that was asked for on, wherever it
\* begins, and whatever of it was known already.
LEMMA ParsedFits ==
    ASSUME NEW l, IsLayout(l), NEW v \in Nat, NEW start \in Nat, NEW raw, IsAnswer(raw, l, start)
    PROVE  MapFrom(ParsePointers(start, raw, v), l, v)
<1> DEFINE m == Len(raw)
           from(k) == IF k = 1 THEN start ELSE raw[k - 1].next
           all == [k \in DOMAIN raw |-> Trimmed(from(k), raw[k].next, raw[k].lcn, v)]
           S == {e \in ToSet(all) : e.next > v}
           sound == /\ raw # <<>> /\ start <= v
                    /\ \A k \in DOMAIN raw : raw[k].next > from(k)
                    /\ Last(raw).next > v
           b == ParsePointers(start, raw, v)
<1>1. b = IF sound THEN Keep(all, S) ELSE <<>>
  BY Zenon DEF ParsePointers
<1>2. IsSeq(raw) /\ m \in Nat /\ DOMAIN raw = 1..m
  BY IsSeqIs DEF IsAnswer
<1>3. ASSUME ~ sound PROVE MapFrom(b, l, v)
  <2>1. b = <<>> /\ <<>> \in Seq(Pieces) /\ DOMAIN <<>> = {}
    BY <1>1, <1>3
  <2> HIDE DEF b
  <2> QED BY <2>1 DEF MapFrom
<1>4. ASSUME sound PROVE MapFrom(b, l, v)
  <2>1. m # 0 /\ start <= v /\ v < raw[m].next
    <3>1. m # 0
      BY <1>2, <1>4
    <3>2. m \in 1..m
      BY <1>2, <3>1
    <3>3. Told(raw, start, m).next \in Nat
      BY <3>2 DEF IsAnswer, Pieces
    <3> QED BY <1>4, <3>1, <3>3 DEF Last, Told
  <2>2. ASSUME NEW k \in 1..m
        PROVE  /\ Told(raw, start, k) \in Pieces /\ Fits(Told(raw, start, k), l)
               /\ Told(raw, start, k).vcn = from(k) /\ from(k) \in Nat
               /\ Told(raw, start, k).next = raw[k].next /\ raw[k].next \in Nat
               /\ Told(raw, start, k).lcn = raw[k].lcn
               /\ from(k) < raw[k].next
               /\ all[k] = Trimmed(from(k), raw[k].next, raw[k].lcn, v)
    <3> DEFINE x == Told(raw, start, k)
    <3>1. x.vcn = from(k) /\ x.next = raw[k].next /\ x.lcn = raw[k].lcn
      BY DEF Told
    <3>2. x \in Pieces /\ Fits(x, l)
      BY DEF IsAnswer
    <3>3. all[k] = Trimmed(from(k), raw[k].next, raw[k].lcn, v) /\ raw[k].next > from(k)
      BY <1>2, <1>4
    <3>4. x.vcn \in Nat /\ x.next \in Nat
      <4> HIDE DEF x
      <4> QED BY <3>2 DEF Pieces
    <3> HIDE DEF x, from, all
    <3>5. from(k) \in Nat /\ raw[k].next \in Nat /\ from(k) < raw[k].next
      BY <3>1, <3>3, <3>4
    <3> QED BY <3>1, <3>2, <3>3, <3>5 DEF x
  <2>3. \A k \in 1..m : k > 1 => k - 1 \in 1..m /\ from(k) = raw[k - 1].next
    BY <1>2
  <2>4. from(1) = start
    OBVIOUS
  <2>5. all = [k \in 1..m |-> all[k]] /\ DOMAIN all = 1..m
    BY <1>2
  <2> HIDE DEF from, all, sound
  <2>6. IsSeq(all) /\ Len(all) = m
    BY <1>2, <2>5, ListIs
  <2> HIDE DEF m
  \* The first extent that goes beyond v.
  <2>7. PICK j \in 1..m : \A k \in 1..m : v < raw[k].next <=> k >= j
    <3> DEFINE at == [k \in 1..m |-> raw[k].next]
    <3>1. \A k \in 1..m : at[k] = raw[k].next /\ at[k] \in Nat
      BY <2>2
    <3>2. \A k \in 1..m : k > 1 => at[k - 1] < at[k]
      BY <2>2, <2>3, <3>1
    <3>3. v < at[m]
      BY <1>2, <2>1, <3>1
    <3> HIDE DEF at
    <3>4. \E j \in 1..m : \A k \in 1..m : v < at[k] <=> k >= j
      BY <1>2, <2>1, <3>1, <3>2, <3>3, Passes
    <3> QED BY <3>1, <3>4
  <2>8. from(j) <= v
    <3>1. CASE j = 1
      BY <2>1, <2>4, <3>1
    <3>2. CASE j > 1
      <4>1. j - 1 \in 1..m /\ from(j) = raw[j - 1].next /\ raw[j - 1].next \in Nat
        BY <2>2, <2>3, <3>2
      <4>2. ~ (v < raw[j - 1].next)
        BY <1>2, <2>7, <4>1
      <4> QED BY <4>1, <4>2
    <3> QED BY <3>1, <3>2
  <2>9. ASSUME NEW k \in 1..m, k >= j
        PROVE  /\ all[k] \in Pieces /\ Fits(all[k], l) /\ all[k].next = raw[k].next
               /\ all[k].vcn = IF k = j THEN v ELSE raw[k - 1].next
    <3>1. v < raw[k].next
      BY <2>7, <2>9
    <3> DEFINE x == Told(raw, start, k)
    <3>2. /\ x \in Pieces /\ Fits(x, l) /\ x.next = raw[k].next /\ x.vcn = from(k)
          /\ all[k] = Trimmed(x.vcn, x.next, x.lcn, v) /\ v < x.next /\ from(k) \in Nat
      BY <2>2, <3>1
    <3> HIDE DEF x
    <3>3. /\ all[k] \in Pieces /\ Fits(all[k], l) /\ all[k].next = x.next
          /\ all[k].vcn = IF x.vcn < v THEN v ELSE x.vcn
      BY <3>2, TrimmedFits
    <3>4. CASE k = j
      BY <2>8, <3>2, <3>3, <3>4
    <3>5. CASE k # j
      <4>1. k > 1 /\ k - 1 \in 1..m /\ k - 1 >= j
        BY <1>2, <2>9, <3>5
      <4>2. v < raw[k - 1].next /\ from(k) = raw[k - 1].next
        BY <2>3, <2>7, <4>1
      <4> QED BY <3>2, <3>3, <3>5, <4>2
    <3> QED BY <3>4, <3>5
  <2>10. FromOn(all, S, j)
    <3>1. ASSUME NEW k \in 1..m PROVE all[k] \in S <=> k >= j
      <4>1. all[k] \in ToSet(all) /\ raw[k].next \in Nat
        BY <2>2, <2>5 DEF ToSet
      <4>2. all[k].next = raw[k].next
        <5>1. all[k] = Trimmed(from(k), raw[k].next, raw[k].lcn, v)
          BY <2>2
        <5>2. \A e, f, g : Trimmed(e, f, g, v).next = f
          BY DEF Trimmed
        <5> QED BY <5>1, <5>2
      <4>3. all[k].next > v <=> v < raw[k].next
        BY <4>1, <4>2
      <4> QED BY <2>7, <4>1, <4>3
    <3>2. j \in 1..(Len(all) + 1)
      BY <1>2, <2>6
    <3> HIDE DEF S
    <3> QED BY <2>6, <3>1, <3>2 DEF FromOn
  <2> HIDE DEF S
  <2>11. IsTail(b, all, j)
    BY <1>1, <1>4, <2>6, <2>10, KeepTail
  <2> HIDE DEF b
  <2>12. /\ IsSeq(b) /\ Len(b) = m + 1 - j /\ DOMAIN b = 1..(m + 1 - j)
         /\ \A i \in 1..(m + 1 - j) : b[i] = all[j + i - 1]
    BY <2>6, <2>11, IsSeqIs DEF IsTail
  <2>13. ASSUME NEW i \in 1..(m + 1 - j)
         PROVE  /\ b[i] \in Pieces /\ Fits(b[i], l) /\ b[i].next = raw[j + i - 1].next
                /\ b[i].vcn = IF i = 1 THEN v ELSE raw[j + i - 2].next
    <3> DEFINE k == j + i - 1
    <3>1. k \in 1..m /\ k >= j /\ (k = j <=> i = 1) /\ k - 1 = j + i - 2
      BY <1>2
    <3> HIDE DEF k
    <3> QED BY <2>9, <2>12, <3>1 DEF k
  <2>14. b \in Seq(Pieces)
    <3>1. b = [i \in 1..Len(b) |-> b[i]] /\ Len(b) \in Nat
      BY <2>12 DEF IsSeq
    <3> QED BY <2>12, <2>13, <3>1
  <2>15. ASSUME NEW i \in 1..(m + 1 - j), i > 1 PROVE b[i].vcn = b[i - 1].next
    <3>1. i - 1 \in 1..(m + 1 - j) /\ j + (i - 1) - 1 = j + i - 2 /\ i # 1
      BY <1>2, <2>15
    <3> QED BY <2>13, <3>1
  <2>16. 1 \in 1..(m + 1 - j)
    BY <1>2
  <2>17. b[1].vcn = v
    BY <2>13, <2>16
  <2>18. \A i \in DOMAIN b : Fits(b[i], l) /\ (i > 1 => b[i].vcn = b[i - 1].next)
    BY <2>12, <2>13, <2>15
  <2> QED BY <2>14, <2>17, <2>18 DEF MapFrom
<1> QED BY <1>3, <1>4

\* The smaller of two numbers.
LEMMA MinOfTwo ==
    ASSUME NEW a \in Int, NEW b \in Int
    PROVE  Min({a, b}) = IF a <= b THEN a ELSE b
<1>1. a <= b \/ b <= a
  OBVIOUS
<1>2. \A x \in {a, b} : (\A y \in {a, b} : x <= y) => x = IF a <= b THEN a ELSE b
  OBVIOUS
<1>3. \E x \in {a, b} : \A y \in {a, b} : x <= y
  BY <1>1
<1> QED BY <1>2, <1>3 DEF Min

\* The larger of two numbers.
LEMMA MaxOfTwo ==
    ASSUME NEW a \in Int, NEW b \in Int
    PROVE  Max({a, b}) = IF a <= b THEN b ELSE a
<1>1. a <= b \/ b <= a
  OBVIOUS
<1>2. \A x \in {a, b} : (\A y \in {a, b} : x >= y) => x = IF a <= b THEN b ELSE a
  OBVIOUS
<1>3. \E x \in {a, b} : \A y \in {a, b} : x >= y
  BY <1>1
<1> QED BY <1>2, <1>3 DEF Max

\* The extents of the table, and the one that holds a cluster.
LEMMA TableIs ==
    ASSUME layout \in Layouts
    PROVE  /\ DOMAIN Table = 1..Len(layout) /\ Len(Table) = Len(layout) /\ Len(layout) \in Nat \ {0}
           /\ \A k \in 1..Len(layout) :
                  /\ Table[k].vcn \in Nat /\ Table[k].next \in Nat /\ Table[k].vcn < Table[k].next
                  /\ Table[k].lcn \in Nat \union {None}
                  /\ k > 1 => k - 1 \in 1..Len(layout) /\ Table[k].vcn = Table[k - 1].next
           /\ Last(Table).next \in Nat
           /\ \A c \in Nat : c < Last(Table).next =>
                  \E k \in 1..Len(layout) : Table[k].vcn <= c /\ c < Table[k].next
           /\ \A i, k \in 1..Len(layout) : i < k => Table[i].next <= Table[k].vcn
<1> DEFINE n == Len(layout)
<1>1. /\ Lengths(layout) /\ n \in Nat /\ n # 0 /\ DOMAIN layout = 1..n
      /\ \A k \in 1..n : layout[k].lcn \in Nat \union {None}
  <2>1. IsLayout(layout)
    BY LayoutIs
  <2> QED BY <2>1, IsSeqIs DEF IsLayout, Lengths
<1>2. /\ DOMAIN Table = 1..n /\ Len(Table) = n
      /\ \A k \in 1..n : /\ Table[k].vcn = Ends(layout)[k - 1] /\ Table[k].next = Ends(layout)[k]
                         /\ Table[k].lcn = layout[k].lcn
                         /\ Ends(layout)[k - 1] \in Nat /\ Ends(layout)[k] \in Nat
                         /\ Ends(layout)[k - 1] < Ends(layout)[k]
  BY <1>1, ExtentsOf DEF Table
<1>3. /\ \A k \in 0..n : Ends(layout)[k] \in Nat
      /\ \A i, k \in 0..n : i < k => Ends(layout)[i] < Ends(layout)[k]
  BY <1>1, EndsGrow
<1>4. \A c \in Nat : c < Ends(layout)[n] =>
          \E k \in 1..n : Ends(layout)[k - 1] <= c /\ c < Ends(layout)[k]
  BY <1>1, EndsCover
<1> HIDE DEF n
<1>5. n \in 1..n /\ Last(Table) = Table[n]
  BY <1>1, <1>2 DEF Last
<1>6. ASSUME NEW k \in 1..n, k > 1 PROVE k - 1 \in 1..n /\ Table[k].vcn = Table[k - 1].next
  <2>1. k - 1 \in 1..n
    BY <1>1, <1>6
  <2> QED BY <1>2, <2>1
<1>7. ASSUME NEW i \in 1..n, NEW k \in 1..n, i < k PROVE Table[i].next <= Table[k].vcn
  <2>1. i \in 0..n /\ k - 1 \in 0..n /\ (i < k - 1 \/ i = k - 1)
    BY <1>1, <1>7
  <2>2. Ends(layout)[i] \in Nat /\ Ends(layout)[k - 1] \in Nat
    BY <1>3, <2>1
  <2>3. Ends(layout)[i] <= Ends(layout)[k - 1]
    BY <1>3, <2>1, <2>2
  <2> QED BY <1>2, <2>3
<1>8. \A c \in Nat : c < Last(Table).next => \E k \in 1..n : Table[k].vcn <= c /\ c < Table[k].next
  BY <1>2, <1>4, <1>5
<1>9. Last(Table).next \in Nat /\ n \in Nat \ {0}
  BY <1>1, <1>2, <1>5
<1>10. \A k \in 1..n : /\ Table[k].vcn \in Nat /\ Table[k].next \in Nat /\ Table[k].vcn < Table[k].next
                       /\ Table[k].lcn \in Nat \union {None}
  BY <1>1, <1>2
<1> QED BY <1>2, <1>6, <1>7, <1>8, <1>9, <1>10 DEF n

\* What Windows says is true of the table, wherever the answer begins and ends.
LEMMA AnswerIs ==
    ASSUME layout \in Layouts, NEW start \in Nat, NEW stop \in Nat, start < stop,
           stop <= Last(Table).next
    PROVE  IsAnswer(Answer(start, stop), layout, start)
<1> DEFINE n == Len(layout)
           at(c) == CHOOSE k \in DOMAIN Table : c \in Table[k].vcn..(Table[k].next - 1)
           first == at(start)
           last == at(stop - 1)
           m == last - first + 1
           E(k) == Table[first + k - 1]
           raw == Answer(start, stop)
<1>1. /\ DOMAIN Table = 1..n /\ n \in Nat \ {0}
      /\ \A k \in 1..n :
             /\ Table[k].vcn \in Nat /\ Table[k].next \in Nat /\ Table[k].vcn < Table[k].next
             /\ Table[k].lcn \in Nat \union {None}
             /\ k > 1 => k - 1 \in 1..n /\ Table[k].vcn = Table[k - 1].next
      /\ Last(Table).next \in Nat
      /\ \A c \in Nat : c < Last(Table).next => \E k \in 1..n : Table[k].vcn <= c /\ c < Table[k].next
      /\ \A i, k \in 1..n : i < k => Table[i].next <= Table[k].vcn
  BY TableIs
<1>2. raw = [k \in 1..m |->
                [next |-> Min({E(k).next, stop}),
                 lcn |-> IF E(k).lcn = None THEN None ELSE E(k).lcn + Max({E(k).vcn, start}) - E(k).vcn]]
  BY Zenon DEF Answer
<1> HIDE DEF n, raw
<1>3. ASSUME NEW c \in Nat, c < Last(Table).next
      PROVE  at(c) \in 1..n /\ Table[at(c)].vcn <= c /\ c < Table[at(c)].next
  <2>1. PICK k \in 1..n : Table[k].vcn <= c /\ c < Table[k].next
    BY <1>1, <1>3
  <2>2. k \in DOMAIN Table /\ c \in Table[k].vcn..(Table[k].next - 1)
    BY <1>1, <2>1
  <2> DEFINE i == at(c)
  <2>3. i \in DOMAIN Table /\ c \in Table[i].vcn..(Table[i].next - 1)
    BY <2>2
  <2> HIDE DEF i
  <2>4. i \in 1..n /\ Table[i].vcn \in Nat /\ Table[i].next \in Nat
    BY <1>1, <2>3
  <2>5. Table[i].vcn <= c /\ c < Table[i].next
    BY <2>3, <2>4
  <2> QED BY <2>4, <2>5 DEF i
<1> HIDE DEF at
<1>4. first \in 1..n /\ Table[first].vcn <= start /\ start < Table[first].next
  <2>1. start < Last(Table).next
    BY <1>1
  <2> QED BY <1>3, <2>1
<1>5. last \in 1..n /\ Table[last].vcn < stop /\ stop <= Table[last].next
  <2>1. stop - 1 \in Nat /\ stop - 1 < Last(Table).next
    BY <1>1
  <2>2. last \in 1..n /\ Table[last].vcn <= stop - 1 /\ stop - 1 < Table[last].next
    BY <1>3, <2>1
  <2> HIDE DEF last
  <2>3. Table[last].vcn \in Nat /\ Table[last].next \in Nat
    BY <1>1, <2>2
  <2> QED BY <2>2, <2>3
<1> HIDE DEF first, last
<1>6. first <= last
  <2> SUFFICES ASSUME last < first PROVE FALSE
    BY <1>4, <1>5
  <2>1. Table[last].next <= Table[first].vcn
    BY <1>1, <1>4, <1>5
  <2>2. Table[last].next \in Nat /\ Table[first].vcn \in Nat
    BY <1>1, <1>4, <1>5
  <2> QED BY <1>4, <1>5, <2>1, <2>2
<1>7. m \in Nat /\ m # 0
  BY <1>4, <1>5, <1>6
<1>8. ASSUME NEW k \in 1..m
      PROVE  /\ first + k - 1 \in 1..n
             /\ E(k).vcn \in Nat /\ E(k).next \in Nat /\ E(k).vcn < E(k).next
             /\ E(k).lcn \in Nat \union {None}
             /\ E(k).vcn < stop /\ start < E(k).next
             /\ k = 1 => E(k).vcn <= start
             /\ k > 1 => start <= E(k).vcn /\ k - 1 \in 1..m /\ E(k).vcn = E(k - 1).next
  <2> DEFINE i == first + k - 1
  <2>1. /\ i \in 1..n /\ (i = last \/ i < last) /\ (i = first \/ first < i) /\ (k = 1 <=> i = first)
        /\ k > 1 => k - 1 \in 1..m /\ first + (k - 1) - 1 = i - 1 /\ i > 1 /\ first < i
    <3>1. n \in Nat /\ first \in 1..n /\ last \in 1..n /\ first <= last /\ k \in 1..(last - first + 1)
      BY <1>1, <1>4, <1>5, <1>6
    <3> QED BY <3>1
  <2>2. first \in 1..n /\ last \in 1..n
    BY <1>4, <1>5
  <2> HIDE DEF i
  <2>3. /\ Table[i].vcn \in Nat /\ Table[i].next \in Nat /\ Table[i].vcn < Table[i].next
        /\ Table[i].lcn \in Nat \union {None} /\ (i > 1 => Table[i].vcn = Table[i - 1].next)
        /\ Table[first].next \in Nat /\ Table[last].vcn \in Nat
    BY <1>1, <2>1, <2>2
  <2>4. (i < last => Table[i].next <= Table[last].vcn) /\ (first < i => Table[first].next <= Table[i].vcn)
    BY <1>1, <2>1, <2>2
  <2>5. Table[i].vcn < stop
    BY <1>5, <2>1, <2>3, <2>4
  <2>6. start < Table[i].next /\ (first < i => start <= Table[i].vcn)
    BY <1>4, <2>1, <2>3, <2>4
  <2>7. k = 1 => Table[i].vcn <= start
    BY <1>4, <2>1
  <2>8. k > 1 => start <= Table[i].vcn /\ k - 1 \in 1..m /\ Table[i].vcn = Table[first + (k - 1) - 1].next
    BY <2>1, <2>3, <2>6
  <2> QED BY <2>1, <2>3, <2>5, <2>6, <2>7, <2>8 DEF i
<1>9. ASSUME NEW k \in 1..m
      PROVE  /\ raw[k].next = IF E(k).next <= stop THEN E(k).next ELSE stop
             /\ raw[k].lcn = IF E(k).lcn = None THEN None
                             ELSE E(k).lcn + (IF E(k).vcn <= start THEN start ELSE E(k).vcn) - E(k).vcn
  <2> DEFINE a == E(k).vcn
             b == E(k).next
             c == E(k).lcn
  <2>1. a \in Nat /\ b \in Nat
    BY <1>8
  <2>2. raw[k] = [next |-> Min({b, stop}), lcn |-> IF c = None THEN None ELSE c + Max({a, start}) - a]
    BY <1>2
  <2> HIDE DEF a, b, c
  <2>3. Min({b, stop}) = IF b <= stop THEN b ELSE stop
    BY <2>1, MinOfTwo
  <2>4. Max({a, start}) = IF a <= start THEN start ELSE a
    BY <2>1, MaxOfTwo
  <2>5. /\ raw[k].next = IF b <= stop THEN b ELSE stop
        /\ raw[k].lcn = IF c = None THEN None ELSE c + (IF a <= start THEN start ELSE a) - a
    BY <2>2, <2>3, <2>4
  <2> QED BY <2>5 DEF a, b, c
<1>10. IsSeq(raw) /\ Len(raw) = m
  <2>1. DOMAIN raw = 1..m /\ raw = [k \in 1..m |-> raw[k]]
    BY <1>2
  <2> HIDE DEF m
  <2> QED BY <1>7, <2>1, ListIs
<1> HIDE DEF m
<1>11. ASSUME NEW k \in 1..m
       PROVE  Told(raw, start, k) \in Pieces /\ Fits(Told(raw, start, k), layout)
  <2> DEFINE x == Told(raw, start, k)
             a == E(k).vcn
             b == E(k).next
             c == E(k).lcn
             p == IF k = 1 THEN start ELSE raw[k - 1].next
  <2>1. /\ x = [vcn |-> p, next |-> raw[k].next, lcn |-> raw[k].lcn]
        /\ x.vcn = p /\ x.next = raw[k].next /\ x.lcn = raw[k].lcn
    BY DEF Told
  <2>2. /\ a \in Nat /\ b \in Nat /\ a < b /\ c \in Nat \union {None} /\ a < stop /\ start < b
        /\ k = 1 => a <= start
        /\ k > 1 => start <= a /\ k - 1 \in 1..m /\ a = E(k - 1).next
    BY <1>8
  <2>3. /\ raw[k].next = IF b <= stop THEN b ELSE stop
        /\ raw[k].lcn = IF c = None THEN None ELSE c + (IF a <= start THEN start ELSE a) - a
    BY <1>9
  <2>4. k > 1 => p = IF a <= stop THEN a ELSE stop
    <3> SUFFICES ASSUME k > 1 PROVE p = IF a <= stop THEN a ELSE stop
      OBVIOUS
    <3>1. k - 1 \in 1..m /\ a = E(k - 1).next /\ p = raw[k - 1].next
      BY <2>2
    <3> HIDE DEF a, p
    <3> QED BY <1>9, <3>1
  <2>5. k = 1 => p = start
    OBVIOUS
  <2>6. k = 1 \/ k > 1
    BY <1>7
  <2>7. first + k - 1 \in DOMAIN layout
    <3>1. DOMAIN layout = 1..n
      BY LayoutIs, IsSeqIs DEF IsLayout, Lengths, n
    <3> QED BY <1>8, <3>1
  <2>8. /\ Table[first + k - 1].vcn = a /\ Table[first + k - 1].next = b /\ Table[first + k - 1].lcn = c
    OBVIOUS
  <2> HIDE DEF x, a, b, c, p, E
  <2>9. p \in Nat /\ p = IF a <= start THEN start ELSE a
    BY <2>2, <2>4, <2>5, <2>6
  <2>10. a <= p /\ p < x.next /\ x.next <= b /\ x.next \in Nat
    BY <2>1, <2>2, <2>3, <2>9
  <2>11. x.lcn = (IF c = None THEN None ELSE c + p - a) /\ x.lcn \in Nat \union {None}
    <3>1. x.lcn = IF c = None THEN None ELSE c + p - a
      BY <2>1, <2>3, <2>9
    <3> QED BY <2>2, <2>9, <2>10, <3>1
  <2>12. x \in Pieces
    BY <2>1, <2>9, <2>10, <2>11 DEF Pieces
  <2>13. Fits(x, layout)
    <3>1. /\ Table[first + k - 1].vcn <= x.vcn /\ x.vcn < x.next /\ x.next <= Table[first + k - 1].next
          /\ x.lcn = IF Table[first + k - 1].lcn = None THEN None
                     ELSE Table[first + k - 1].lcn + x.vcn - Table[first + k - 1].vcn
      BY <2>1, <2>8, <2>10, <2>11
    <3> QED BY <2>7, <3>1, Zenon DEF Fits, Table
  <2> QED BY <2>12, <2>13 DEF x
<1>12. IsAnswer(raw, layout, start)
  BY <1>10, <1>11 DEF IsAnswer
<1> QED BY <1>12 DEF raw

\* An answer of Windows prolongs the map.
LEMMA AskMaps ==
    ASSUME layout \in Layouts, MapOK(extents, layout),
           NEW start \in Marks, NEW stop \in Marks, NEW more \in BOOLEAN, Ask(start, stop, more)
    PROVE  MapOK(extents', layout)
<1> DEFINE vcn == IF extents = <<>> THEN 0 ELSE Last(extents).next
           b == ParsePointers(start, Answer(start, stop), vcn)
<1>1. start < stop /\ stop <= Last(Table).next /\ extents' = extents \o b
  BY Zenon DEF Ask
<1>2. start \in Nat /\ stop \in Nat
  <2>1. \A k \in DOMAIN Table : Table[k].next \in Nat
    BY TableIs
  <2>2. Cuts \subseteq Nat
    BY MftAssumption, Zenon
  <2>3. ASSUME NEW x \in Marks PROVE x \in Nat
    <3>1. x = 0 \/ (\E k \in DOMAIN Table : x = Table[k].next) \/ x \in Cuts
      BY Zenon DEF Marks
    <3>2. 0 \in Nat
      OBVIOUS
    <3> QED BY <2>1, <2>2, <3>1, <3>2, Zenon
  <2> QED BY <2>3
<1>3. vcn \in Nat
  <2>1. extents \in Seq(Pieces)
    BY DEF MapOK, Pieces
  <2>2. \A x \in Pieces : x.next \in Nat
    BY DEF Pieces
  <2>3. extents # <<>> => Len(extents) \in 1..Len(extents)
    BY <2>1
  <2>4. extents # <<>> => Last(extents) \in Pieces
    BY <2>1, <2>3, SeqIs DEF Last
  <2> QED BY <2>2, <2>4
<1>4. MapFrom(b, layout, vcn)
  <2>1. IsAnswer(Answer(start, stop), layout, start) /\ IsLayout(layout)
    BY <1>1, <1>2, AnswerIs, LayoutIs
  <2> HIDE DEF vcn
  <2> QED BY <1>2, <1>3, <2>1, ParsedFits
<1> HIDE DEF b
<1>5. MapOK(extents \o b, layout)
  BY <1>4, MapsJoin DEF vcn, MapFrom, Pieces
<1> QED BY <1>1, <1>5

\* The list of a set with one element.
LEMMA ListOfOne ==
    ASSUME NEW x
    PROVE  IsSeq(SetToSeq({x})) /\ Len(SetToSeq({x})) = 1 /\ SetToSeq({x})[1] = x
<1> DEFINE f == SetToSeq({x})
<1>1. Cardinality({x}) = 1
  BY FS_Singleton
<1>2. [i \in 1..1 |-> x] \in [1..1 -> {x}] /\ IsInjective([i \in 1..1 |-> x])
  BY DEF IsInjective
<1>3. f \in [1..1 -> {x}]
  BY <1>1, <1>2 DEF SetToSeq
<1> HIDE DEF f
<1>4. DOMAIN f = 1..1 /\ f = [i \in 1..1 |-> f[i]] /\ f[1] = x
  BY <1>3
<1>5. IsSeq(f) /\ Len(f) = 1
  BY <1>4, ListIs
<1> QED BY <1>4, <1>5 DEF f

\* The list of the empty set.
LEMMA ListOfNone == IsSeq(SetToSeq({})) /\ Len(SetToSeq({})) = 0
<1> DEFINE f == SetToSeq({})
<1>1. Cardinality({}) = 0
  BY FS_EmptySet
<1>2. [i \in 1..0 |-> 0] \in [1..0 -> {}] /\ IsInjective([i \in 1..0 |-> 0])
  BY DEF IsInjective
<1>3. f \in [1..0 -> {}]
  BY <1>1, <1>2 DEF SetToSeq
<1> HIDE DEF f
<1>4. DOMAIN f = 1..0 /\ f = [i \in 1..0 |-> f[i]]
  BY <1>3
<1>5. IsSeq(f) /\ Len(f) = 0
  BY <1>4, ListIs
<1> QED BY <1>5 DEF f

\* What makes a record one that is kept.
Kept(no, s) ==
    /\ FixedUp(s) /\ s[1].part = 0 /\ Content(s[1].record, s[1].usn[2]).inUse
    /\ (no >= Meta \/ no = Root)
    /\ ExtractEntry(no, Content(s[1].record, s[1].usn[2])) # {}

\* A record is kept as one entry, with the sectors it was read from, or passed over.
LEMMA ConsumedIs ==
    ASSUME NEW no, NEW s
    PROVE  /\ IsSeq(Consumed(no, s))
           /\ ~ Kept(no, s) => Len(Consumed(no, s)) = 0
           /\ Kept(no, s) => /\ Len(Consumed(no, s)) = 1
                             /\ Consumed(no, s)[1].no = no /\ Consumed(no, s)[1].sectors = s
<1> DEFINE raw == Content(s[1].record, s[1].usn[2])
           X == ExtractEntry(no, raw)
           entry(x) == [no |-> x.no, parent |-> x.parent, name |-> x.name, dir |-> x.dir,
                        logical |-> x.logical, allocated |-> x.allocated, sectors |-> s]
<1>1. X = {} \/ \E x : X = {x} /\ x.no = no
  <2> DEFINE names == SelectSeq(OfType(raw, "name"), LAMBDA a : a.fault # "skipped")
             streams == SelectSeq(OfType(raw, "data"), LAMBDA a : ~ a.named)
             indices == OfType(raw, "index")
             best == BestName(names)
             one == [no |-> no, parent |-> best.parent, name |-> NameOf(names, best), dir |-> raw.dir,
                     logical |-> IF raw.dir \/ streams = <<>> THEN 0 ELSE streams[1].real,
                     allocated |-> IF raw.dir THEN (IF indices = <<>> THEN 0 ELSE indices[1].allocated)
                                   ELSE IF streams = <<>> THEN 0 ELSE streams[1].allocated]
  <2>1. X = {} \/ X = {one}
    BY Zenon DEF ExtractEntry
  <2>2. one.no = no
    OBVIOUS
  <2> HIDE DEF one, X
  <2> QED BY <2>1, <2>2
<1>2. CASE Kept(no, s)
  <2>1. /\ FixedUp(s) /\ s[1].part = 0 /\ raw.inUse /\ (no >= Meta \/ no = Root)
        /\ X # {}
    BY <1>2, Zenon DEF Kept
  <2>2. PICK x : X = {x} /\ x.no = no
    BY <1>1, <2>1
  <2> HIDE DEF entry
  <2>3. ConsumeRecord(no, s) = {entry(y) : y \in X}
    BY <2>1, Zenon DEF ConsumeRecord, Parsed, entry
  <2>4. ConsumeRecord(no, s) = {entry(x)}
    <3> HIDE DEF X
    <3> QED BY <2>2, <2>3
  <2>5. Consumed(no, s) = SetToSeq({entry(x)})
    BY <2>4 DEF Consumed
  <2>6. entry(x).no = no /\ entry(x).sectors = s
    BY <2>2 DEF entry
  <2> HIDE DEF raw, X
  <2>7. IsSeq(Consumed(no, s)) /\ Len(Consumed(no, s)) = 1 /\ Consumed(no, s)[1] = entry(x)
    BY <2>5, ListOfOne
  <2> QED BY <1>2, <2>6, <2>7
<1>3. CASE ~ Kept(no, s)
  <2> DEFINE sound == s[1].part = 0 /\ raw.inUse /\ (no >= Meta \/ no = Root)
  <2>1. ~ (FixedUp(s) /\ sound /\ X # {})
    BY <1>3, Zenon DEF Kept
  <2> HIDE DEF entry
  <2>2. Parsed(no, s) = IF sound THEN {entry(y) : y \in X} ELSE {}
    BY Zenon DEF Parsed, entry
  <2>3. ConsumeRecord(no, s) = IF FixedUp(s) THEN Parsed(no, s) ELSE {}
    BY Zenon DEF ConsumeRecord
  <2>4. ConsumeRecord(no, s) = {}
    <3> HIDE DEF X, sound
    <3> QED BY <2>1, <2>2, <2>3
  <2>5. Consumed(no, s) = SetToSeq({})
    BY <2>4 DEF Consumed
  <2> HIDE DEF raw, X
  <2> QED BY <1>3, <2>5, ListOfNone
<1> QED BY <1>2, <1>3

-----------------------------------------------------------------------------
(* The parser.                                                             *)

\* The sectors of the k-th record that is completed.
Piece(joined, k) == SubSeq(joined, (k - 1) * RS + 1, k * RS)

\* The recursive equation of Taken.
IsTaken(g, joined, D) ==
    g = [k \in D |-> IF k = 0 THEN entries ELSE g[k - 1] \o Consumed(next + k - 1, Piece(joined, k))]

\* It has a solution.
LEMMA TakenExists ==
    ASSUME NEW joined, NEW n, n \in Nat
    PROVE  \E g : IsTaken(g, joined, 0..n)
<1> DEFINE Q == {k \in Nat : \E g : IsTaken(g, joined, 0..k)}
           more(k) == Consumed(next + k - 1, Piece(joined, k))
<1> HIDE DEF more
<1>0. \A g, D : IsTaken(g, joined, D) <=> g = [k \in D |-> IF k = 0 THEN entries ELSE g[k - 1] \o more(k)]
  BY Zenon DEF IsTaken, more
<1>1. 0 \in Q
  <2> DEFINE g == [k \in 0..0 |-> entries]
  <2>1. g = [k \in 0..0 |-> IF k = 0 THEN entries ELSE g[k - 1] \o more(k)]
    OBVIOUS
  <2> HIDE DEF g
  <2>2. IsTaken(g, joined, 0..0)
    BY <1>0, <2>1, Zenon
  <2> QED BY <2>2
<1>2. ASSUME NEW k \in Nat, k \in Q PROVE k + 1 \in Q
  <2>1. PICK g : IsTaken(g, joined, 0..k)
    BY <1>2
  <2> DEFINE h == [i \in 0..(k + 1) |-> IF i = 0 THEN entries ELSE g[i - 1] \o more(i)]
  <2>2. \A i \in 0..k : h[i] = g[i]
    <3>1. g = [i \in 0..k |-> IF i = 0 THEN entries ELSE g[i - 1] \o more(i)]
      BY <1>0, <2>1, Zenon
    <3>2. \A i \in 0..k : g[i] = IF i = 0 THEN entries ELSE g[i - 1] \o more(i)
      BY <3>1, Zenon
    <3>3. ASSUME NEW i \in 0..k
          PROVE  h[i] = IF i = 0 THEN entries ELSE g[i - 1] \o more(i)
      OBVIOUS
    <3> HIDE DEF h
    <3> QED BY <3>2, <3>3
  <2>3. h = [i \in 0..(k + 1) |-> IF i = 0 THEN entries ELSE h[i - 1] \o more(i)]
    <3>1. ASSUME NEW i \in 0..(k + 1), i # 0 PROVE h[i - 1] = g[i - 1]
      <4>1. i - 1 \in 0..k
        BY <3>1
      <4> HIDE DEF h
      <4> QED BY <2>2, <4>1
    <3> QED BY <3>1
  <2>4. IsTaken(h, joined, 0..(k + 1))
    <3> HIDE DEF h
    <3> QED BY <1>0, <2>3, Zenon
  <2> QED BY <2>4
<1>3. Nat \subseteq Q
  <2> HIDE DEF Q
  <2> QED BY <1>1, <1>2, NatSetInduction
<1> QED BY <1>3

\* Its steps; Taken is the last one.
LEMMA TakenSteps ==
    ASSUME NEW joined, NEW n \in Nat
    PROVE  \E g : /\ Taken(joined, n) = g[n] /\ g[0] = entries
                  /\ \A k \in 1..n : g[k] = g[k - 1] \o Consumed(next + k - 1, Piece(joined, k))
<1> DEFINE g == CHOOSE f : IsTaken(f, joined, 0..n)
           more(k) == Consumed(next + k - 1, Piece(joined, k))
<1>1. IsTaken(g, joined, 0..n)
  BY TakenExists
<1>2. Taken(joined, n) = g[n]
  BY Zenon DEF Taken, IsTaken, Piece
<1> HIDE DEF g
<1>3. \A k \in 0..n : g[k] = IF k = 0 THEN entries ELSE g[k - 1] \o more(k)
  BY <1>1, Zenon DEF IsTaken
<1> HIDE DEF more
<1>4. g[0] = entries /\ \A k \in 1..n : k # 0 /\ k \in 0..n
  BY <1>3
<1>5. \A k \in 1..n : g[k] = g[k - 1] \o more(k)
  BY <1>3, <1>4, Zenon
<1> QED BY <1>2, <1>4, <1>5, Zenon DEF more

\* t is s and the record r of the sectors p, where it is kept.
Grew(s, t, r, p) ==
    /\ IsSeq(t) /\ Len(t) >= Len(s)
    /\ \A k \in DOMAIN s : k \in DOMAIN t /\ t[k] = s[k]
    /\ \A k \in DOMAIN t : k \in DOMAIN s \/ k = Len(s) + 1
    /\ \A k \in DOMAIN t :
          k \notin DOMAIN s => t[k].no = r /\ t[k].sectors = p /\ Kept(r, p)
    /\ Kept(r, p) => r \in Numbers(t)

\* One more record, of whatever sectors, follows the entries so far or is passed over.
LEMMA OneMore ==
    ASSUME NEW s, IsSeq(s), NEW r, NEW p
    PROVE  Grew(s, s \o Consumed(r, p), r, p)
<1> DEFINE c == Consumed(r, p)
           t == s \o Consumed(r, p)
<1>1. /\ IsSeq(c) /\ (~ Kept(r, p) => Len(c) = 0)
      /\ Kept(r, p) => Len(c) = 1 /\ c[1].no = r /\ c[1].sectors = p
  BY ConsumedIs
<1> HIDE DEF c
<1>2. t = s \o c
  BY DEF c
<1> HIDE DEF t
<1>3. /\ IsSeq(t) /\ Len(t) = Len(s) + Len(c)
      /\ \A i \in 1..(Len(s) + Len(c)) : t[i] = IF i <= Len(s) THEN s[i] ELSE c[i - Len(s)]
  BY <1>1, <1>2, Joined
<1>4. /\ Len(s) \in Nat /\ DOMAIN s = 1..Len(s) /\ Len(c) \in Nat
      /\ DOMAIN t = 1..(Len(s) + Len(c))
  <2>1. Len(s) \in Nat /\ DOMAIN s = 1..Len(s)
    BY IsSeqIs
  <2>2. Len(c) \in Nat
    BY <1>1, IsSeqIs
  <2>3. DOMAIN t = 1..Len(t)
    BY <1>3, IsSeqIs
  <2> QED BY <1>3, <2>1, <2>2, <2>3
<1>5. Len(c) = 0 \/ (Len(c) = 1 /\ Kept(r, p))
  BY <1>1
<1>6. \A k \in DOMAIN s : k \in DOMAIN t /\ t[k] = s[k]
  BY <1>3, <1>4
<1>7. \A k \in DOMAIN t : k \in DOMAIN s \/ (k = Len(s) + 1 /\ Len(c) = 1)
  <2>1. \A a \in Nat, b \in {0, 1} : \A k \in 1..(a + b) : k \in 1..a \/ (k = a + 1 /\ b = 1)
    OBVIOUS
  <2>2. Len(c) \in {0, 1}
    BY <1>5
  <2> QED BY <1>4, <2>1, <2>2
<1>8. ASSUME Len(c) = 1
      PROVE  Len(s) + 1 \in DOMAIN t /\ t[Len(s) + 1] = c[1]
  <2>1. Len(s) + 1 \in 1..(Len(s) + Len(c)) /\ ~ (Len(s) + 1 <= Len(s)) /\ (Len(s) + 1) - Len(s) = 1
    BY <1>4, <1>8
  <2>2. t[Len(s) + 1] = c[(Len(s) + 1) - Len(s)]
    BY <1>3, <2>1
  <2> QED BY <1>4, <2>1, <2>2
<1>9. \A k \in DOMAIN t : k \notin DOMAIN s => t[k].no = r /\ t[k].sectors = p /\ Kept(r, p)
  BY <1>1, <1>5, <1>7, <1>8
<1>10. Kept(r, p) => r \in Numbers(t)
  BY <1>1, <1>8 DEF Numbers
<1>11. Len(t) >= Len(s)
  BY <1>3, <1>4
<1> QED BY <1>3, <1>6, <1>7, <1>9, <1>10, <1>11 DEF Grew, t

\* The entries stay in order, and behind the records that are taken.
LEMMA OneMoreBehind ==
    ASSUME NEW s, NEW r \in Nat, Behind(s, r), NEW p, NEW t, Grew(s, t, r, p)
    PROVE  Behind(t, r + 1)
<1>1. IsSeq(s) /\ Len(s) \in Nat /\ DOMAIN s = 1..Len(s)
  BY IsSeqIs DEF Behind
<1>2. /\ IsSeq(t)
      /\ \A k \in DOMAIN s : k \in DOMAIN t /\ t[k] = s[k]
      /\ \A k \in DOMAIN t : k \in DOMAIN s \/ k = Len(s) + 1
      /\ \A k \in DOMAIN t : k \notin DOMAIN s => t[k].no = r /\ Kept(r, p)
  BY DEF Grew
<1>3. \A k \in DOMAIN s : /\ s[k].no \in Nat /\ (s[k].no >= Meta \/ s[k].no = Root) /\ s[k].no < r
                          /\ k > 1 => s[k - 1].no < s[k].no
  BY DEF Behind, Ordered
<1>4. ASSUME NEW k \in DOMAIN t
      PROVE  /\ t[k].no \in Nat /\ (t[k].no >= Meta \/ t[k].no = Root) /\ t[k].no < r + 1
             /\ k > 1 => t[k - 1].no < t[k].no
  <2>1. CASE k \in DOMAIN s
    <3>1. t[k] = s[k] /\ k \in 1..Len(s)
      BY <1>1, <1>2, <2>1
    <3>2. t[k].no \in Nat /\ (t[k].no >= Meta \/ t[k].no = Root) /\ t[k].no < r
      BY <1>3, <2>1, <3>1
    <3>3. k > 1 => k - 1 \in DOMAIN s
      BY <1>1, <3>1
    <3>4. k > 1 => t[k - 1].no < t[k].no
      BY <1>2, <1>3, <2>1, <3>1, <3>3
    <3> QED BY <3>2, <3>4
  <2>2. CASE k \notin DOMAIN s
    <3>1. k = Len(s) + 1 /\ t[k].no = r /\ (r >= Meta \/ r = Root)
      BY <1>2, <2>2 DEF Kept
    <3>2. k > 1 => k - 1 \in DOMAIN s
      BY <1>1, <3>1
    <3>3. k > 1 => t[k - 1].no < r
      BY <1>2, <1>3, <3>2
    <3> QED BY <3>1, <3>3
  <2> QED BY <2>1, <2>2
<1> QED BY <1>2, <1>4 DEF Behind, Ordered

LEMMA TakenBehind ==
    ASSUME next \in Nat, Behind(entries, next), NEW joined, NEW n \in Nat
    PROVE  Behind(Taken(joined, n), next + n)
<1> DEFINE more(k) == Consumed(next + k - 1, Piece(joined, k))
<1>1. PICK g : /\ Taken(joined, n) = g[n] /\ g[0] = entries
               /\ \A k \in 1..n : g[k] = g[k - 1] \o more(k)
  BY TakenSteps, Zenon
<1> DEFINE Q == {k \in Nat : k <= n => Behind(g[k], next + k)}
<1>2. 0 \in Q
  BY <1>1
<1>3. ASSUME NEW k \in Nat, k \in Q PROVE k + 1 \in Q
  <2> SUFFICES ASSUME k + 1 <= n PROVE Behind(g[k + 1], next + (k + 1))
    OBVIOUS
  <2>1. Behind(g[k], next + k) /\ k + 1 \in 1..n /\ (k + 1) - 1 = k
    BY <1>3
  <2>2. next + (k + 1) - 1 = next + k /\ next + k \in Nat /\ (next + k) + 1 = next + (k + 1)
    OBVIOUS
  <2>3. g[k + 1] = g[(k + 1) - 1] \o more(k + 1)
    BY <1>1, <2>1, Zenon
  <2>4. g[k + 1] = g[k] \o Consumed(next + k, Piece(joined, k + 1))
    BY <2>1, <2>2, <2>3, Zenon
  <2>5. Behind(g[k + 1], (next + k) + 1)
    <3>1. IsSeq(g[k])
      BY <2>1 DEF Behind
    <3>2. Grew(g[k], g[k + 1], next + k, Piece(joined, k + 1))
      BY <2>4, <3>1, OneMore
    <3> QED BY <2>1, <2>2, <3>2, OneMoreBehind
  <2> QED BY <2>2, <2>5
<1>4. Nat \subseteq Q
  <2> HIDE DEF Q
  <2> QED BY <1>2, <1>3, NatSetInduction
<1>5. Behind(g[n], next + n)
  BY <1>4
<1> QED BY <1>1, <1>5

\* Division by the size of a record.
LEMMA DivIs ==
    ASSUME NEW q \in Nat, NEW r \in 0..(RS - 1), NEW a, a = q * RS + r
    PROVE  a \in Nat /\ a \div RS = q /\ a % RS = r
<1>1. RS \in Nat \ {0}
  BY RecordsAssumption
<1>2. q * RS \in Nat
  BY <1>1
<1>3. a \in Nat
  BY <1>1, <1>2
<1> QED BY <1>1, <1>3

\* x is what the table holds at the sector a.
AtPlace(x, a) ==
    \E later \in BOOLEAN : /\ x = SectorOf(a \div RS, (a % RS) + 1, later)
                           /\ later => a \div RS \in rewritten

\* p is the sectors of the record r, each as it was written first or later.
OwnSectors(p, r) ==
    /\ IsSeq(p) /\ Len(p) = RS
    /\ \A i \in 1..RS :
          \E later \in BOOLEAN : p[i] = SectorOf(r, i, later) /\ (later => r \in rewritten)

\* Where the sectors follow one another, the k-th piece is the k-th record.
LEMMA PieceOf ==
    ASSUME next \in Nat, NEW joined, IsSeq(joined), NEW k \in Nat \ {0}, k * RS <= Len(joined),
           \A j \in 1..Len(joined) : AtPlace(joined[j], next * RS + j - 1)
    PROVE  OwnSectors(Piece(joined, k), next + k - 1)
<1> DEFINE a == (k - 1) * RS + 1
           b == k * RS
           p == Piece(joined, k)
<1>1. RS \in Nat \ {0} /\ Len(joined) \in Nat
  BY RecordsAssumption, IsSeqIs
<1>2. k - 1 \in Nat /\ (k - 1) * RS \in Nat /\ b = (k - 1) * RS + RS /\ b <= Len(joined)
  BY <1>1
<1>3. a \in Nat /\ b \in Nat /\ a >= 1 /\ b <= Len(joined) /\ a <= b + 1 /\ b + 1 - a = RS
  <2> DEFINE c == (k - 1) * RS
  <2>1. c \in Nat /\ b = c + RS /\ a = c + 1 /\ b <= Len(joined)
    BY <1>2
  <2> HIDE DEF a, b, c
  <2> QED BY <1>1, <2>1
<1>4. p = SubSeq(joined, a, b)
  BY DEF Piece
<1> HIDE DEF a, b, p
<1>5. IsSeq(p) /\ Len(p) = RS /\ \A i \in 1..RS : p[i] = joined[a + i - 1]
  BY <1>3, <1>4, PartOf
<1>6. ASSUME NEW i \in 1..RS
      PROVE  \E later \in BOOLEAN :
                 p[i] = SectorOf(next + k - 1, i, later) /\ (later => next + k - 1 \in rewritten)
  <2> DEFINE j == a + i - 1
             at == next * RS + j - 1
             r == next + k - 1
  <2>1. j \in 1..Len(joined) /\ j = (k - 1) * RS + i
    <3>1. \A x, y, m, w \in Int : \A z \in 1..w :
              x >= 1 /\ y <= m /\ y + 1 - x = w => x + z - 1 \in 1..m
      OBVIOUS
    <3>2. j \in 1..Len(joined)
      BY <1>1, <1>3, <3>1
    <3> DEFINE c == (k - 1) * RS
    <3>3. a = c + 1 /\ c \in Nat
      BY <1>2 DEF a
    <3> HIDE DEF c
    <3>4. j = c + i
      BY <1>1, <3>3
    <3> QED BY <3>2, <3>4 DEF c
  <2>2. p[i] = joined[j]
    BY <1>5
  <2>3. r \in Nat /\ r * RS = next * RS + (k - 1) * RS /\ next * RS \in Nat
    BY <1>1, <1>2
  <2>4. at = r * RS + (i - 1) /\ i - 1 \in 0..(RS - 1)
    BY <1>1, <1>2, <2>1, <2>3
  <2> HIDE DEF j
  <2>5. AtPlace(p[i], at)
    BY <2>1, <2>2
  <2> HIDE DEF at
  <2>6. at \div RS = r /\ at % RS = i - 1
    <3> HIDE DEF r
    <3> QED BY <2>3, <2>4, DivIs
  <2> HIDE DEF r
  <2>7. (at % RS) + 1 = i
    BY <2>6
  <2>8. \E later \in BOOLEAN : p[i] = SectorOf(r, i, later) /\ (later => r \in rewritten)
    BY <2>5, <2>6, <2>7, Zenon DEF AtPlace
  <2> QED BY <2>8, Zenon DEF r
<1> QED BY <1>5, <1>6, Zenon DEF OwnSectors, p

\* A record with one update sequence number is of one time.
LEMMA OwnPlaced ==
    ASSUME NEW r, NEW p, OwnSectors(p, r), FixedUp(p)
    PROVE  \E later \in BOOLEAN : p = [i \in 1..RS |-> SectorOf(r, i, later)]
<1>1. /\ RS \in Nat \ {0} /\ Len(p) = RS /\ DOMAIN p = 1..RS /\ IsSeq(p)
      /\ \A i \in 1..RS : \E later \in BOOLEAN : p[i] = SectorOf(r, i, later)
  BY RecordsAssumption, IsSeqIs DEF OwnSectors
<1>2. PICK l \in BOOLEAN : p[1] = SectorOf(r, 1, l)
  BY <1>1
<1>3. p[1].usn = <<r, l>>
  BY <1>2 DEF SectorOf
<1>4. ASSUME NEW i \in 1..RS PROVE p[i] = SectorOf(r, i, l)
  <2>1. PICK m \in BOOLEAN : p[i] = SectorOf(r, i, m)
    BY <1>1
  <2>2. p[i].usn = <<r, m>>
    BY <2>1 DEF SectorOf
  <2>3. p[i].usn = p[1].usn
    BY <1>1 DEF FixedUp
  <2>4. <<r, m>> = <<r, l>>
    BY <1>3, <2>2, <2>3
  <2>5. m = l
    <3>1. <<r, m>>[2] = m /\ <<r, l>>[2] = l
      OBVIOUS
    <3> QED BY <2>4, <3>1
  <2> QED BY <2>1, <2>5
<1>5. p = [i \in 1..RS |-> p[i]]
  <2>1. p \in Seq(ToSet(p))
    BY <1>1 DEF IsSeq
  <2> QED BY <1>1, <2>1
<1>6. p = [i \in 1..RS |-> SectorOf(r, i, l)]
  BY <1>4, <1>5
<1> QED BY <1>2, <1>6

\* A sound record that was not written meanwhile is kept.
LEMMA OwnKept ==
    ASSUME NEW r, NEW p, OwnSectors(p, r), r \notin rewritten, WellFormed(r), r >= Meta \/ r = Root
    PROVE  Kept(r, p)
<1>1. /\ RS \in Nat \ {0} /\ DOMAIN p = 1..RS
      /\ \A i \in 1..RS :
            \E later \in BOOLEAN : p[i] = SectorOf(r, i, later) /\ (later => r \in rewritten)
  BY RecordsAssumption, IsSeqIs DEF OwnSectors
<1>2. ASSUME NEW i \in 1..RS PROVE p[i] = SectorOf(r, i, FALSE)
  <2>1. PICK m \in BOOLEAN : p[i] = SectorOf(r, i, m) /\ (m => r \in rewritten)
    BY <1>1
  <2>2. m = FALSE
    BY <2>1
  <2> QED BY <2>1, <2>2
<1>3. \A i \in 1..RS : p[i].usn = <<r, FALSE>>
  <2>1. \A i : SectorOf(r, i, FALSE).usn = <<r, FALSE>>
    BY DEF SectorOf
  <2> QED BY <1>2, <2>1
<1>4. 1 \in 1..RS
  BY <1>1
<1>5. FixedUp(p)
  BY <1>1, <1>3, <1>4 DEF FixedUp
<1>6. p[1] = SectorOf(r, 1, FALSE)
  BY <1>2, <1>4
<1>7. p[1].record = r /\ p[1].part = 0 /\ p[1].usn[2] = FALSE
  BY <1>6 DEF SectorOf
<1>8. Content(p[1].record, p[1].usn[2]) = Content(r, FALSE)
  BY <1>7
<1>9. Content(r, FALSE).inUse /\ ExtractEntry(r, Content(r, FALSE)) # {}
  BY Zenon DEF WellFormed
<1> QED BY <1>5, <1>7, <1>8, <1>9, Zenon DEF Kept

\* One more record that was read from its place.
LEMMA OneMoreInPlace ==
    ASSUME NEW s, NEW t, NEW r \in Nat, NEW p, Grew(s, t, r, p), OwnSectors(p, r), r * RS < valid,
           AllPlaced(s), Covers(s, r)
    PROVE  AllPlaced(t) /\ Covers(t, r + 1)
<1>1. ASSUME NEW k \in DOMAIN t PROVE Placed(t[k])
  <2>1. CASE k \in DOMAIN s
    BY <2>1 DEF Grew, AllPlaced
  <2>2. CASE k \notin DOMAIN s
    <3>1. t[k].no = r /\ t[k].sectors = p /\ Kept(r, p)
      BY <2>2 DEF Grew
    <3>2. \E later \in BOOLEAN : p = [i \in 1..RS |-> SectorOf(r, i, later)]
      BY <3>1, OwnPlaced DEF Kept
    <3>3. InTable(r)
      BY <3>1 DEF Kept, InTable
    <3> QED BY <3>1, <3>2, <3>3, Zenon DEF Placed
  <2> QED BY <2>1, <2>2
<1>2. ASSUME NEW q \in Records \ rewritten, q < r + 1, InTable(q), WellFormed(q)
      PROVE  q \in Numbers(t)
  <2>1. CASE q = r
    <3>1. Kept(r, p)
      BY <1>2, <2>1, OwnKept DEF InTable
    <3> QED BY <2>1, <3>1 DEF Grew
  <2>2. CASE q # r
    <3>1. q \in Nat
      BY MftAssumption DEF Records
    <3>2. q < r
      BY <1>2, <2>2, <3>1
    <3>3. q \in Numbers(s)
      BY <1>2, <3>2 DEF Covers
    <3> QED BY <3>3 DEF Numbers, Grew
  <2> QED BY <2>1, <2>2
<1>3. Covers(t, r + 1)
  BY <1>2, Zenon DEF Covers
<1> QED BY <1>1, <1>3 DEF AllPlaced

\* The records of the joined sectors are in their places, and none is passed over.
LEMMA TakenInPlace ==
    ASSUME next \in Nat, Behind(entries, next), EntriesOK, valid \in Nat,
           NEW joined, IsSeq(joined), NEW n \in Nat, n * RS <= Len(joined),
           \A j \in 1..Len(joined) : AtPlace(joined[j], next * RS + j - 1),
           n # 0 => (next + n - 1) * RS < valid
    PROVE  AllPlaced(Taken(joined, n)) /\ Covers(Taken(joined, n), next + n)
<1>0. n * RS <= Len(joined)
  OBVIOUS
<1> DEFINE more(k) == Consumed(next + k - 1, Piece(joined, k))
           Good(s, m) == Behind(s, m) /\ AllPlaced(s) /\ Covers(s, m)
<1>1. PICK g : /\ Taken(joined, n) = g[n] /\ g[0] = entries
               /\ \A k \in 1..n : g[k] = g[k - 1] \o more(k)
  BY TakenSteps, Zenon
<1>2. RS \in Nat \ {0} /\ Len(joined) \in Nat
  BY RecordsAssumption, IsSeqIs
<1> DEFINE Q == {k \in Nat : k <= n => Good(g[k], next + k)}
<1>3. 0 \in Q
  <2>1. Good(entries, next) /\ next + 0 = next
    BY DEF EntriesOK
  <2> HIDE DEF Good
  <2> QED BY <1>1, <2>1
<1>4. ASSUME NEW k \in Nat, k \in Q PROVE k + 1 \in Q
  <2> SUFFICES ASSUME k + 1 <= n PROVE Good(g[k + 1], next + (k + 1))
    OBVIOUS
  <2> DEFINE r == next + k
             p == Piece(joined, k + 1)
             s == g[k]
             t == g[k + 1]
  <2>1. Good(s, r) /\ k + 1 \in 1..n /\ (k + 1) - 1 = k
    <3> HIDE DEF Good
    <3> QED BY <1>4
  <2>2. next + (k + 1) - 1 = r /\ r \in Nat /\ r + 1 = next + (k + 1)
    OBVIOUS
  <2>3. g[k + 1] = g[(k + 1) - 1] \o more(k + 1)
    BY <1>1, <2>1, Zenon
  <2>4. t = s \o Consumed(r, p)
    BY <2>1, <2>2, <2>3, Zenon
  <2>5. (k + 1) * RS <= n * RS /\ (k + 1) * RS \in Int /\ n * RS \in Int
    BY <1>2, <2>1
  <2>6. (k + 1) * RS <= Len(joined)
    <3>1. \A x, y, z \in Int : x <= y /\ y <= z => x <= z
      OBVIOUS
    <3>2. Len(joined) \in Int
      BY <1>2
    <3> QED BY <1>0, <2>5, <3>1, <3>2, Zenon
  <2>7. OwnSectors(Piece(joined, k + 1), next + (k + 1) - 1)
    <3>1. k + 1 \in Nat \ {0}
      OBVIOUS
    <3> QED BY <2>6, <3>1, PieceOf
  <2>8. OwnSectors(p, r)
    BY <2>2, <2>7, Zenon
  <2>9. r * RS < valid
    <3>1. r <= next + n - 1 /\ next + n - 1 \in Nat /\ n # 0
      BY <2>1
    <3>2. r * RS <= (next + n - 1) * RS /\ r * RS \in Int /\ (next + n - 1) * RS \in Int
      BY <1>2, <2>2, <3>1
    <3>3. (next + n - 1) * RS < valid
      BY <3>1
    <3> QED BY <3>2, <3>3
  <2> HIDE DEF r, p, s, t
  <2>10. Grew(s, t, r, p)
    <3>1. IsSeq(s)
      BY <2>1 DEF Behind
    <3> QED BY <2>4, <3>1, OneMore
  <2>11. Behind(t, r + 1)
    BY <2>1, <2>2, <2>10, OneMoreBehind
  <2>12. AllPlaced(t) /\ Covers(t, r + 1)
    BY <2>1, <2>2, <2>8, <2>9, <2>10, OneMoreInPlace
  <2>13. Good(t, r + 1)
    BY <2>11, <2>12
  <2> HIDE DEF Good
  <2> QED BY <2>2, <2>13 DEF t
<1>5. Nat \subseteq Q
  <2> HIDE DEF Q
  <2> QED BY <1>3, <1>4, NatSetInduction
<1>6. Good(g[n], next + n)
  <2> HIDE DEF Good
  <2> QED BY <1>5
<1> QED BY <1>1, <1>6

\* Whole records in a number of sectors.
LEMMA DivBounds ==
    ASSUME NEW a \in Int
    PROVE  /\ a \div RS \in Int /\ (a \div RS) * RS \in Int
           /\ (a \div RS) * RS <= a /\ a < (a \div RS) * RS + RS
           /\ a >= 0 => a \div RS \in Nat
<1>1. RS \in Nat \ {0}
  BY RecordsAssumption
<1> QED BY <1>1

\* More records are more sectors.
LEMMA Sectors ==
    ASSUME NEW a \in Int, NEW b \in Int
    PROVE  /\ a * RS \in Int /\ b * RS \in Int /\ (a + b) * RS = a * RS + b * RS
           /\ a <= b => a * RS <= b * RS
           /\ a < b => a * RS + RS <= b * RS
<1>1. RS \in Nat \ {0}
  BY RecordsAssumption
<1>2. a * RS \in Int /\ b * RS \in Int /\ (a + b) * RS = a * RS + b * RS
  BY <1>1
<1>3. \A c, d \in Int : c <= d => c * RS <= d * RS
  BY <1>1
<1>4. a < b => a + 1 <= b /\ a + 1 \in Int /\ (a + 1) * RS = a * RS + RS
  BY <1>1
<1>5. a < b => a * RS + RS <= b * RS
  BY <1>1, <1>3, <1>4
<1> QED BY <1>2, <1>3, <1>5

\* What process_chunk leaves behind: n records taken, and the rest of the joined sectors.
Processed(p, joined, n) ==
    /\ n * RS <= Len(joined)
    /\ p.entries = Taken(joined, n) /\ p.next = next + n
    /\ p.more <=> (next + n) * RS < valid
    /\ IsSeq(p.carry)
    /\ next * RS < valid =>
           /\ n # 0 => (next + n - 1) * RS < valid
           /\ (next + n) * RS < valid =>
                  /\ Len(joined) - n * RS < RS /\ Len(p.carry) = Len(joined) - n * RS
                  /\ \A i \in 1..Len(p.carry) : p.carry[i] = joined[n * RS + i]

LEMMA ProcessIs ==
    ASSUME next \in Nat, valid \in Nat, IsSeq(carry), NEW new, IsSeq(new)
    PROVE  \E n \in Nat : Processed(ProcessChunk(new), carry \o new, n)
<1> DEFINE joined == carry \o new
           J == Len(joined)
           full == J \div RS
           v == valid - next * RS
           w == v + RS - 1
           part == (valid - next * RS + RS - 1) \div RS
           left == Max({0, part})
           room == IF carry = <<>> THEN left ELSE Max({1, left})
           read == Min({full, room})
           more == (next + read) * RS < valid
           rest == IF more THEN SubSeq(joined, full * RS + 1, Len(joined)) ELSE <<>>
           p == ProcessChunk(new)
<1>1. /\ p.entries = Taken(joined, read) /\ p.next = next + read /\ p.carry = rest
      /\ p.more <=> more
  <2>1. p = [entries |-> Taken(joined, read), next |-> next + read, carry |-> rest, more |-> more]
    BY Zenon DEF ProcessChunk
  <2> HIDE DEF p, rest, more, read, joined
  <2>2. p.entries = Taken(joined, read) /\ p.next = next + read /\ p.carry = rest
    BY <2>1
  <2>3. p.more = more
    BY <2>1, Zenon
  <2> QED BY <2>2, <2>3
<1> HIDE DEF p
<1>2. RS \in Nat \ {0} /\ IsSeq(joined) /\ J \in Nat
  <2>1. IsSeq(joined)
    BY Joined
  <2> HIDE DEF joined
  <2> QED BY <2>1, RecordsAssumption, IsSeqIs
<1> HIDE DEF joined, J
<1>3. full \in Nat /\ full * RS \in Int /\ full * RS <= J /\ J < full * RS + RS
  BY <1>2, DivBounds
<1> HIDE DEF full
<1>4. v \in Int /\ w \in Int /\ part = w \div RS
  <2>1. next * RS \in Int
    BY <1>2
  <2> QED BY <1>2, <2>1
<1>5. part \in Int /\ part * RS \in Int /\ part * RS <= w /\ w < part * RS + RS
  <2> HIDE DEF w, part
  <2> QED BY <1>4, DivBounds
<1> HIDE DEF part
<1>6. left = IF 0 <= part THEN part ELSE 0
  BY <1>5, MaxOfTwo
<1> HIDE DEF left
<1>7. left \in Nat
  BY <1>5, <1>6
<1>8. room = IF carry = <<>> \/ 1 <= left THEN left ELSE 1
  <2>1. Max({1, left}) = IF 1 <= left THEN left ELSE 1
    BY <1>7, MaxOfTwo
  <2> QED BY <2>1
<1> HIDE DEF room
<1>9. room \in Nat
  BY <1>7, <1>8
<1>10. read = IF full <= room THEN full ELSE room
  BY <1>3, <1>9, MinOfTwo
<1> HIDE DEF read
<1>11. read \in Nat /\ read <= full /\ read <= room
  BY <1>3, <1>9, <1>10
<1>12. read * RS \in Int /\ read * RS <= J
  <2>1. read * RS \in Int /\ read * RS <= full * RS
    BY <1>3, <1>11, Sectors
  <2> QED BY <1>2, <1>3, <2>1
<1>13. IsSeq(rest) /\ (more => /\ Len(rest) = J - full * RS
                               /\ \A i \in 1..Len(rest) : rest[i] = joined[full * RS + i])
  <2>1. CASE more
    <3> DEFINE a == full * RS + 1
    <3>1. a \in Nat /\ a >= 1 /\ a <= J + 1
      <4>1. full * RS \in Nat
        BY <1>2, <1>3
      <4> QED BY <1>2, <1>3, <4>1
    <3>2. rest = SubSeq(joined, a, Len(joined))
      BY <2>1
    <3> HIDE DEF rest
    <3>3. /\ IsSeq(rest) /\ Len(rest) = J + 1 - a
          /\ \A i \in 1..(J + 1 - a) : rest[i] = joined[a + i - 1]
      <4> HIDE DEF a
      <4> QED BY <1>2, <3>1, <3>2, PartOf DEF J
    <3>4. J + 1 - a = J - full * RS /\ \A i \in Int : a + i - 1 = full * RS + i
      BY <1>2, <1>3
    <3> HIDE DEF a
    <3>5. J - full * RS \in Int
      BY <1>2, <1>3
    <3>6. \A i \in 1..(J - full * RS) : rest[i] = joined[full * RS + i]
      <4> SUFFICES ASSUME NEW i \in 1..(J - full * RS) PROVE rest[i] = joined[full * RS + i]
        OBVIOUS
      <4>1. i \in Int
        BY <3>5
      <4>2. i \in 1..(J + 1 - a) /\ a + i - 1 = full * RS + i
        BY <3>4, <4>1
      <4>3. rest[i] = joined[a + i - 1]
        BY <3>3, <4>2
      <4> QED BY <4>2, <4>3, Zenon
    <3> QED BY <3>3, <3>4, <3>6
  <2>2. CASE ~ more
    <3>1. rest = <<>>
      BY <2>2
    <3>2. IsSeq(<<>>)
      BY DEF IsSeq
    <3> HIDE DEF rest
    <3> QED BY <2>2, <3>1, <3>2
  <2> QED BY <2>1, <2>2
<1> HIDE DEF rest
<1>14. ASSUME next * RS < valid PROVE left = part /\ part >= 1 /\ v <= part * RS
  <2>1. next * RS \in Int /\ v >= 1
    BY <1>2, <1>14
  <2>2. w >= RS /\ w = v + RS - 1
    BY <1>2, <1>4, <2>1
  <2> HIDE DEF w, v
  <2>3. part >= 1
    <3>1. part <= 0 => part * RS <= 0
      BY <1>2, <1>5
    <3> QED BY <1>2, <1>4, <1>5, <2>2, <3>1
  <2>4. v <= part * RS
    BY <1>2, <1>4, <1>5, <2>2
  <2> QED BY <1>5, <1>6, <2>3, <2>4
<1>15. ASSUME next * RS < valid, read # 0 PROVE (next + read - 1) * RS < valid
  <2>1. read <= part /\ part * RS <= w /\ w = valid - next * RS + RS - 1
    BY <1>5, <1>7, <1>8, <1>11, <1>14, <1>15
  <2>2. /\ (next + read - 1) * RS = next * RS + read * RS - RS
        /\ next * RS \in Int /\ read * RS \in Int
    BY <1>2, <1>11
  <2>3. read * RS <= part * RS
    BY <1>5, <1>11, <2>1, Sectors
  <2> HIDE DEF w
  <2> QED BY <1>2, <1>4, <1>5, <2>1, <2>2, <2>3
<1>16. ASSUME next * RS < valid, more PROVE read = full
  <2>1. (next + read) * RS = next * RS + read * RS /\ next * RS \in Int /\ read * RS \in Int
    BY <1>2, <1>11
  <2>2. read * RS < v
    BY <1>2, <1>16, <2>1
  <2>3. v <= part * RS /\ left = part /\ part >= 1
    BY <1>14, <1>16
  <2>4. part <= read => part * RS <= read * RS
    BY <1>5, <1>11, Sectors
  <2> HIDE DEF v
  <2>5. ~ (part <= read)
    BY <1>4, <1>5, <2>1, <2>2, <2>3, <2>4
  <2>6. room = part
    BY <1>8, <2>3
  <2> QED BY <1>3, <1>5, <1>10, <2>5, <2>6
<1>17. Len(joined) = J
  BY DEF J
<1>18. ASSUME next * RS < valid, more
       PROVE  /\ J - read * RS < RS /\ Len(rest) = J - read * RS
              /\ \A i \in 1..Len(rest) : rest[i] = joined[read * RS + i]
  <2>1. read = full
    BY <1>16, <1>18
  <2>2. /\ Len(rest) = J - full * RS
        /\ \A i \in 1..Len(rest) : rest[i] = joined[full * RS + i]
    BY <1>13, <1>18
  <2>3. J - full * RS < RS
    BY <1>2, <1>3
  <2> QED BY <2>1, <2>2, <2>3
<1>19. Processed(p, joined, read)
  <2> HIDE DEF more
  <2>1. more <=> (next + read) * RS < valid
    BY DEF more
  <2>2. IsSeq(p.carry) /\ p.carry = rest
    BY <1>1, <1>13
  <2>3. next * RS < valid =>
           /\ read # 0 => (next + read - 1) * RS < valid
           /\ more =>
                  /\ Len(joined) - read * RS < RS /\ Len(p.carry) = Len(joined) - read * RS
                  /\ \A i \in 1..Len(p.carry) : p.carry[i] = joined[read * RS + i]
    BY <1>15, <1>17, <1>18, <2>2
  <2> QED BY <1>1, <1>12, <1>17, <2>1, <2>2, <2>3 DEF Processed
<1> QED BY <1>11, <1>19 DEF p, joined

-----------------------------------------------------------------------------
(* The steps.                                                              *)

\* As long as the parser and the volume stay as they are, so do the entries.
LEMMA SameEntries ==
    ASSUME Entered, UNCHANGED <<disk, rewritten, parser>>
    PROVE  Entered'
<1>1. /\ volume' = volume /\ layout' = layout /\ valid' = valid /\ rewritten' = rewritten
      /\ next' = next /\ entries' = entries
  BY DEF disk, parser
<1>2. Behind(entries, next)'
  BY <1>1 DEF Entered, Behind, IsSeq, Ordered
<1>3. Solid' => EntriesOK'
  BY <1>1 DEF Entered, Solid, EntriesOK, AllPlaced, Placed, InTable, Covers, WellFormed, Content
<1> QED BY <1>2, <1>3 DEF Entered

\* What one read takes of the volume.
Extent == physical[done.extents + 1]
Length == Min({Extent.clusters - done.sectors, Chunk})
New == [k \in 1..Length |-> Sector(Extent.lcn + done.sectors + k - 1)]

\* Something is read, and not more than there is of the extent.
LEMMA LengthIs ==
    ASSUME TypesOK, PhasesOK, phase = "reading", done.extents < Len(physical)
    PROVE  /\ Lengths(physical) /\ Len(physical) \in Nat /\ DOMAIN physical = 1..Len(physical)
           /\ done.extents \in Nat /\ done.extents + 1 \in 1..Len(physical)
           /\ (done.extents + 1) - 1 = done.extents
           /\ Extent.clusters \in Nat \ {0} /\ done.sectors \in Nat
           /\ Length \in Nat \ {0} /\ done.sectors + Length <= Extent.clusters
<1>1. /\ Lengths(physical) /\ done.extents \in 0..Len(physical)
      /\ done.sectors < physical[done.extents + 1].clusters
  BY DEF PhasesOK
<1>2. Len(physical) \in Nat /\ DOMAIN physical = 1..Len(physical)
  BY <1>1, IsSeqIs DEF Lengths
<1>3. done.extents \in Nat /\ done.sectors \in Nat
  BY DEF TypesOK
<1>4. done.extents + 1 \in 1..Len(physical) /\ (done.extents + 1) - 1 = done.extents
  BY <1>2, <1>3
<1>5. Extent.clusters \in Nat \ {0}
  BY <1>1, <1>2, <1>4 DEF Lengths, Extent
<1> DEFINE a == Extent.clusters - done.sectors
<1>6. a \in Nat \ {0}
  BY <1>1, <1>3, <1>5 DEF Extent
<1>7. Chunk \in Nat \ {0}
  BY MftAssumption
<1>8. Length = IF a <= Chunk THEN a ELSE Chunk
  <2> HIDE DEF a
  <2>1. Min({a, Chunk}) = IF a <= Chunk THEN a ELSE Chunk
    BY <1>6, <1>7, MinOfTwo
  <2> QED BY <2>1 DEF Length, a
<1>9. Length \in Nat \ {0} /\ Length <= a
  <2> HIDE DEF a
  <2> QED BY <1>6, <1>7, <1>8
<1>10. done.sectors + Length <= Extent.clusters
  BY <1>3, <1>5, <1>9
<1> QED BY <1>1, <1>2, <1>3, <1>4, <1>5, <1>9, <1>10

\* A list of that many sectors.
LEMMA NewIs ==
    ASSUME Length \in Nat
    PROVE  /\ IsSeq(New) /\ Len(New) = Length
           /\ \A k \in 1..Length : New[k] = Sector(Extent.lcn + done.sectors + k - 1)
<1>1. DOMAIN New = 1..Length /\ New = [k \in 1..Length |-> New[k]]
  BY DEF New
<1>2. \A k \in 1..Length : New[k] = Sector(Extent.lcn + done.sectors + k - 1)
  BY DEF New
<1>3. IsSeq(New) /\ Len(New) = Length
  BY <1>1, ListIs
<1> QED BY <1>2, <1>3

\* Where the table lies without holes, what is carried over and what is read follow
\* one another.
LEMMA JoinedInPlace ==
    ASSUME TypesOK, PhasesOK, StreamOK, phase = "reading", done.extents < Len(physical)
    PROVE  \A j \in 1..Len(carry \o New) : AtPlace((carry \o New)[j], next * RS + j - 1)
<1>1. /\ Len(physical) \in Nat /\ DOMAIN physical = 1..Len(physical)
      /\ done.extents \in Nat /\ done.extents + 1 \in 1..Len(physical)
      /\ (done.extents + 1) - 1 = done.extents
      /\ Extent.clusters \in Nat \ {0} /\ done.sectors \in Nat
      /\ Length \in Nat \ {0} /\ done.sectors + Length <= Extent.clusters
  BY LengthIs
<1>2. /\ LaidOut(physical, layout)
      /\ Ends(physical)[done.extents] + done.sectors = next * RS + Len(carry)
      /\ Len(carry) < RS
      /\ \A i \in DOMAIN carry :
            \E later \in BOOLEAN : carry[i] = SectorOf(next, i, later) /\ (later => next \in rewritten)
  BY DEF StreamOK
<1>3. next \in Nat /\ IsSeq(carry) /\ Len(carry) \in Nat /\ DOMAIN carry = 1..Len(carry) /\ RS \in Nat \ {0}
      /\ layout \in Layouts
  BY IsSeqIs, RecordsAssumption DEF TypesOK
<1>4. /\ IsSeq(New) /\ Len(New) = Length
      /\ \A k \in 1..Length : New[k] = Sector(Extent.lcn + done.sectors + k - 1)
  BY <1>1, NewIs
<1>5. /\ Len(carry \o New) = Len(carry) + Length
      /\ \A i \in 1..(Len(carry) + Length) :
            (carry \o New)[i] = IF i <= Len(carry) THEN carry[i] ELSE New[i - Len(carry)]
  BY <1>3, <1>4, Joined
<1>6. Lengths(physical)
  BY LengthIs
<1> DEFINE E == Ends(physical)
<1>7. /\ E[done.extents] \in Nat /\ E[done.extents + 1] \in Nat
      /\ E[done.extents + 1] = E[done.extents] + Extent.clusters
  <2>1. \A k \in 0..Len(physical) : E[k] \in Nat
    BY <1>6, EndsGrow
  <2>2. E[done.extents + 1] = E[(done.extents + 1) - 1] + physical[done.extents + 1].clusters
    BY <1>1, EndsIs
  <2>3. done.extents \in 0..Len(physical) /\ done.extents + 1 \in 0..Len(physical)
    BY <1>1
  <2> HIDE DEF E
  <2> QED BY <1>1, <2>1, <2>2, <2>3 DEF Extent
<1> DEFINE x == [vcn |-> E[done.extents], next |-> E[done.extents + 1], lcn |-> Extent.lcn]
<1>8. x.lcn \in Nat /\ Fits(x, layout)
  <2>1. /\ physical[done.extents + 1].lcn \in Nat
        /\ Fits([vcn |-> E[(done.extents + 1) - 1], next |-> E[done.extents + 1],
                 lcn |-> physical[done.extents + 1].lcn], layout)
    BY <1>1, <1>2 DEF LaidOut
  <2> HIDE DEF E
  <2> QED BY <1>1, <2>1 DEF Extent
<1>9. x.vcn = E[done.extents] /\ x.next = E[done.extents + 1] /\ x.lcn = Extent.lcn
  OBVIOUS
<1> HIDE DEF x
<1>10. ASSUME NEW j \in 1..(Len(carry) + Length)
       PROVE  AtPlace((carry \o New)[j], next * RS + j - 1)
  <2> DEFINE at == next * RS + j - 1
  <2>0. next * RS \in Nat
    BY <1>3
  <2>1. CASE j <= Len(carry)
    <3>1. j \in 1..Len(carry) /\ (carry \o New)[j] = carry[j] /\ j - 1 \in 0..(RS - 1)
      BY <1>1, <1>2, <1>3, <1>5, <2>1
    <3>2. PICK later \in BOOLEAN : carry[j] = SectorOf(next, j, later) /\ (later => next \in rewritten)
      BY <1>2, <1>3, <3>1
    <3>3. at = next * RS + (j - 1)
      BY <1>3, <2>0
    <3> HIDE DEF at
    <3>4. at \div RS = next /\ at % RS = j - 1
      BY <1>3, <3>1, <3>3, DivIs
    <3>5. (at % RS) + 1 = j
      BY <3>1, <3>4
    <3>6. AtPlace((carry \o New)[j], at)
      BY <3>1, <3>2, <3>4, <3>5, Zenon DEF AtPlace
    <3> QED BY <3>6 DEF at
  <2>2. CASE ~ (j <= Len(carry))
    <3> DEFINE i == j - Len(carry)
               d == done.sectors + i - 1
    <3>1. i \in 1..Length /\ (carry \o New)[j] = New[i]
      BY <1>1, <1>3, <1>5, <2>2
    <3>2. New[i] = Sector(Extent.lcn + done.sectors + i - 1)
      BY <1>4, <3>1
    <3>3. Extent.lcn + done.sectors + i - 1 = x.lcn + d
      <4> HIDE DEF i
      <4> QED BY <1>1, <1>8, <1>9, <3>1
    <3>4. x.vcn + d = at
      <4>1. \A e, s, n, c \in Nat, k \in Int : e + s = n + c => e + (s + (k - c) - 1) = n + k - 1
        OBVIOUS
      <4>2. x.vcn \in Nat /\ x.vcn + done.sectors = next * RS + Len(carry)
        BY <1>2, <1>7, <1>9
      <4>3. j \in Int
        BY <1>1, <1>3
      <4>4. x.vcn + (done.sectors + (j - Len(carry)) - 1) = next * RS + j - 1
        BY <1>1, <1>3, <2>0, <4>1, <4>2, <4>3
      <4> QED BY <4>4
    <3>5. d \in Nat /\ x.vcn + d < x.next /\ x.lcn # None
      <4>1. \A e, s, c, n \in Nat : \A k \in 1..n :
                s + n <= c => s + k - 1 \in Nat /\ e + (s + k - 1) < e + c
        OBVIOUS
      <4>2. x.vcn \in Nat /\ x.next = x.vcn + Extent.clusters
        BY <1>7, <1>9
      <4> HIDE DEF i
      <4>3. d \in Nat /\ x.vcn + d < x.vcn + Extent.clusters
        BY <1>1, <3>1, <4>1, <4>2
      <4> QED BY <1>8, <4>2, <4>3 DEF None
    <3> HIDE DEF d, i
    <3>6. Sector(x.lcn + d) =
              SectorOf((x.vcn + d) \div RS, ((x.vcn + d) % RS) + 1, (x.vcn + d) \div RS \in rewritten)
      BY <1>3, <1>7, <1>8, <1>9, <3>5, SectorIs
    <3> DEFINE r == at \div RS
               later == r \in rewritten
    <3>7. (carry \o New)[j] = SectorOf(r, (at % RS) + 1, later)
      <4>1. (carry \o New)[j] = Sector(x.lcn + d)
        BY <3>1, <3>2, <3>3
      <4> HIDE DEF at
      <4>2. Sector(x.lcn + d) = SectorOf(at \div RS, (at % RS) + 1, at \div RS \in rewritten)
        BY <3>4, <3>6
      <4> QED BY <4>1, <4>2
    <3>8. later \in BOOLEAN /\ (later => r \in rewritten)
      <4> HIDE DEF r
      <4> QED OBVIOUS
    <3> HIDE DEF later, at
    <3>9. AtPlace((carry \o New)[j], at)
      BY <3>7, <3>8, Zenon DEF AtPlace
    <3> QED BY <3>9 DEF at
  <2> QED BY <2>1, <2>2
<1> QED BY <1>5, <1>10

\* Where the scan ends, nothing is left to hold but the entries.
LEMMA Stops ==
    ASSUME MftInv, UNCHANGED <<disk, rewritten, parser>>, phase' = "failed"
    PROVE  MftInv'
<1>1. Entered'
  BY SameEntries DEF MftInv
<1>2. /\ layout' = layout /\ valid' = valid /\ rewritten' = rewritten
      /\ next' = next /\ done' = done /\ carry' = carry /\ entries' = entries
  BY DEF disk, parser
<1>3. TypesOK'
  BY <1>2 DEF MftInv, TypesOK, IsSeq
<1>4. PhasesOK'
  BY DEF PhasesOK
<1> QED BY <1>1, <1>3, <1>4 DEF MftInv

\* One read of the volume.
LEMMA ReadStep ==
    ASSUME MftInv, Read
    PROVE  MftInv'
<1> DEFINE parsed == ProcessChunk(New)
           joined == carry \o New
           ended == ~ parsed.more \/ done.sectors + Length = Extent.clusters
<1>1. /\ phase = "reading" /\ done.extents < Len(physical)
      /\ UNCHANGED <<disk, rewritten, extents, physical, cancel, nodes>>
      /\ \/ cancel /\ phase' = "failed" /\ UNCHANGED parser
         \/ /\ ~ cancel
            /\ entries' = parsed.entries /\ next' = parsed.next /\ carry' = parsed.carry
            /\ done' = IF ended THEN [extents |-> done.extents + 1, sectors |-> 0]
                       ELSE [done EXCEPT !.sectors = @ + Length]
            /\ phase' = IF ended /\ parsed.next * RS >= valid THEN "read" ELSE "reading"
  BY Zenon DEF Read, Extent, Length, New
<1>2. CASE cancel /\ phase' = "failed" /\ UNCHANGED parser
  BY <1>1, <1>2, Stops
<1>3. CASE ~ (cancel /\ phase' = "failed" /\ UNCHANGED parser)
  <2>0. /\ layout' = layout /\ valid' = valid /\ volume' = volume /\ rewritten' = rewritten
        /\ physical' = physical
    BY <1>1 DEF disk
  <2>1. TypesOK /\ PhasesOK /\ Entered /\ (Solid => StreamOK)
    BY <1>1 DEF MftInv
  <2>2. /\ Lengths(physical) /\ Len(physical) \in Nat /\ DOMAIN physical = 1..Len(physical)
        /\ done.extents \in Nat /\ done.extents + 1 \in 1..Len(physical)
        /\ (done.extents + 1) - 1 = done.extents
        /\ Extent.clusters \in Nat \ {0} /\ done.sectors \in Nat
        /\ Length \in Nat \ {0} /\ done.sectors + Length <= Extent.clusters
    BY <1>1, <2>1, LengthIs
  <2>3. IsSeq(New) /\ Len(New) = Length
    BY <2>2, NewIs
  <2>4. /\ next \in Nat /\ valid \in Nat /\ IsSeq(carry) /\ Len(carry) \in Nat
        /\ done \in [extents : Nat, sectors : Nat] /\ RS \in Nat \ {0}
    BY <2>1, IsSeqIs, MftAssumption, RecordsAssumption DEF TypesOK
  <2>5. PICK n \in Nat : Processed(parsed, joined, n)
    BY <2>3, <2>4, ProcessIs
  <2>6. IsSeq(joined) /\ Len(joined) = Len(carry) + Length
    BY <2>3, <2>4, Joined
  <2>7. /\ n * RS <= Len(joined)
        /\ entries' = Taken(joined, n) /\ next' = next + n /\ carry' = parsed.carry
        /\ IsSeq(carry') /\ (parsed.more <=> (next + n) * RS < valid)
    <3> HIDE DEF parsed, joined, ended
    <3> QED BY <1>1, <1>3, <2>5 DEF Processed
  <2> DEFINE e == (next + n) * RS >= valid \/ done.sectors + Length = Extent.clusters
  <2>8. (next + n) * RS \in Int
    BY <2>4
  <2>9. ended <=> e
    <3> HIDE DEF parsed
    <3> QED BY <2>4, <2>7, <2>8
  <2>10. /\ done' = IF e THEN [extents |-> done.extents + 1, sectors |-> 0]
                    ELSE [done EXCEPT !.sectors = @ + Length]
         /\ phase' = IF e /\ (next + n) * RS >= valid THEN "read" ELSE "reading"
    <3>1. parsed.next = next + n
      <4> HIDE DEF parsed, joined
      <4> QED BY <2>5 DEF Processed
    <3> HIDE DEF parsed, joined, ended, e
    <3> QED BY <1>1, <1>3, <2>9, <3>1
  <2> HIDE DEF ended
  <2>11. /\ e => done'.extents = done.extents + 1 /\ done'.sectors = 0
         /\ ~ e => done'.extents = done.extents /\ done'.sectors = done.sectors + Length
         /\ done' \in [extents : Nat, sectors : Nat]
    <3>1. CASE e
      BY <2>2, <2>10, <3>1
    <3>2. CASE ~ e
      <4>1. done' = [extents |-> done.extents, sectors |-> done.sectors + Length]
        <5> HIDE DEF e
        <5> QED BY <2>4, <2>10, <3>2
      <4> QED BY <2>2, <3>2, <4>1
    <3> QED BY <3>1, <3>2
  <2>12. /\ phase' = "read" => (next + n) * RS >= valid
         /\ phase' # "read" => phase' = "reading" /\ (next + n) * RS < valid
    <3>1. (next + n) * RS >= valid => e
      OBVIOUS
    <3> HIDE DEF e
    <3> QED BY <2>4, <2>8, <2>10, <3>1
  <2>13. Behind(entries', next')
    <3>1. Behind(entries, next)
      BY <2>1 DEF Entered
    <3> HIDE DEF joined
    <3> QED BY <2>4, <2>7, <3>1, TakenBehind
  <2>14. TypesOK'
    <3>1. IsSeq(entries') /\ IsSeq(carry')
      BY <2>7, <2>13 DEF Behind
    <3>2. next' \in Nat
      BY <2>4, <2>7
    <3>3. layout' \in Layouts /\ valid' \in Valid /\ rewritten' \subseteq Records
      BY <2>0, <2>1 DEF TypesOK
    <3>4. phase' \in {"read", "reading"}
      BY <2>12
    <3> QED BY <2>11, <3>1, <3>2, <3>3, <3>4 DEF TypesOK
  <2>15. PhasesOK'
    <3>1. phase' \in {"read", "reading"}
      BY <2>12
    <3> SUFFICES ASSUME phase' = "reading"
                 PROVE  /\ Lengths(physical') /\ done'.extents \in 0..Len(physical')
                        /\ done'.extents = Len(physical') => done'.sectors = 0
                        /\ done'.extents < Len(physical') =>
                               done'.sectors < physical'[done'.extents + 1].clusters
      BY <3>1 DEF PhasesOK
    <3>2. CASE e
      <4>1. done'.extents = done.extents + 1 /\ done'.sectors = 0
        BY <2>11, <3>2
      <4>2. done'.extents < Len(physical) => done'.extents + 1 \in DOMAIN physical
        BY <2>2, <4>1
      <4>3. done'.extents < Len(physical) => 0 < physical[done'.extents + 1].clusters
        BY <2>2, <4>2 DEF Lengths
      <4>4. done'.extents \in 0..Len(physical)
        BY <2>2, <4>1
      <4> QED BY <2>0, <2>2, <4>1, <4>3, <4>4
    <3>3. CASE ~ e
      <4>1. done'.extents = done.extents /\ done'.sectors = done.sectors + Length
        BY <2>11, <3>3
      <4>2. done.sectors + Length < Extent.clusters
        <5>1. done.sectors + Length # Extent.clusters
          BY <3>3, Zenon
        <5> HIDE DEF e
        <5> QED BY <2>2, <5>1
      <4>3. done.extents \in 0..Len(physical) /\ done.extents # Len(physical)
        BY <2>2
      <4> QED BY <2>0, <2>2, <4>1, <4>2, <4>3 DEF Extent
    <3> QED BY <3>2, <3>3
  <2> HIDE DEF e
  <2>16. ASSUME Solid
         PROVE  /\ next * RS < valid /\ (n # 0 => (next + n - 1) * RS < valid)
                /\ \A j \in 1..Len(joined) : AtPlace(joined[j], next * RS + j - 1)
    <3>1. StreamOK
      BY <2>1, <2>16
    <3>2. next * RS < valid
      BY <3>1 DEF StreamOK
    <3>3. \A j \in 1..Len(joined) : AtPlace(joined[j], next * RS + j - 1)
      BY <1>1, <2>1, <3>1, JoinedInPlace
    <3> HIDE DEF parsed, joined
    <3>4. n # 0 => (next + n - 1) * RS < valid
      BY <2>5, <3>2 DEF Processed
    <3> QED BY <3>2, <3>3, <3>4
  <2>17. ASSUME Solid' PROVE EntriesOK'
    <3>1. Solid
      BY <2>0, <2>17 DEF Solid
    <3>2. Behind(entries, next) /\ EntriesOK
      BY <2>1, <3>1 DEF Entered
    <3>3. /\ n # 0 => (next + n - 1) * RS < valid
          /\ \A j \in 1..Len(joined) : AtPlace(joined[j], next * RS + j - 1)
      BY <2>16, <3>1
    <3> HIDE DEF joined
    <3>4. AllPlaced(Taken(joined, n)) /\ Covers(Taken(joined, n), next + n)
      BY <2>4, <2>6, <2>7, <3>2, <3>3, TakenInPlace
    <3>5. AllPlaced(entries') /\ Covers(entries', next')
      BY <2>7, <3>4
    <3>6. AllPlaced(entries)' /\ Covers(entries, next)'
      BY <2>0, <3>5 DEF AllPlaced, Placed, InTable, Covers, WellFormed, Content
    <3> QED BY <3>6 DEF EntriesOK
  <2>18. Entered'
    <3>1. Behind(entries, next)'
      BY <2>13 DEF Behind, IsSeq, Ordered
    <3> QED BY <2>17, <3>1 DEF Entered
  <2>19. ASSUME Solid', phase' = "reading" PROVE StreamOK'
    <3> DEFINE E == Ends(physical)
    <3>1. Solid /\ (next + n) * RS < valid
      BY <2>0, <2>12, <2>19 DEF Solid
    <3>2. /\ next * RS < valid
          /\ \A j \in 1..Len(joined) : AtPlace(joined[j], next * RS + j - 1)
      BY <2>16, <3>1
    <3>3. /\ LaidOut(physical, layout)
          /\ E[done.extents] + done.sectors = next * RS + Len(carry)
      BY <2>1, <3>1 DEF StreamOK
    <3>4. /\ Len(joined) - n * RS < RS /\ Len(carry') = Len(joined) - n * RS
          /\ \A i \in 1..Len(carry') : carry'[i] = joined[n * RS + i]
      <4> HIDE DEF parsed, joined
      <4> QED BY <2>5, <2>7, <3>1, <3>2 DEF Processed
    <3>5. n * RS \in Nat /\ next * RS \in Nat /\ (next + n) * RS = next * RS + n * RS
      BY <2>4
    <3>6. /\ E[done.extents] \in Nat
          /\ E[done.extents + 1] = E[done.extents] + Extent.clusters
      <4>1. \A k \in 0..Len(physical) : E[k] \in Nat
        BY <2>2, EndsGrow
      <4>2. E[done.extents + 1] = E[(done.extents + 1) - 1] + physical[done.extents + 1].clusters
        BY <2>2, EndsIs
      <4>3. done.extents \in 0..Len(physical)
        BY <2>2
      <4> HIDE DEF E
      <4> QED BY <2>2, <4>1, <4>2, <4>3 DEF Extent
    <3> HIDE DEF E, joined
    <3>7. E[done'.extents] + done'.sectors = E[done.extents] + done.sectors + Length
      <4>1. CASE e
        <5>1. done.sectors + Length = Extent.clusters
          BY <2>4, <2>8, <3>1, <4>1 DEF e
        <5> QED BY <2>2, <2>11, <3>6, <4>1, <5>1
      <4>2. CASE ~ e
        BY <2>2, <2>11, <3>6, <4>2
      <4> QED BY <4>1, <4>2
    <3>8. E[done'.extents] + done'.sectors = next' * RS + Len(carry')
      <4>1. next' * RS = next * RS + n * RS
        BY <2>7, <3>5
      <4> QED BY <2>2, <2>4, <2>6, <3>3, <3>4, <3>5, <3>6, <3>7, <4>1
    <3>9. Len(carry') < RS /\ next' * RS < valid
      BY <2>7, <3>1, <3>4
    <3>10. Len(carry') \in Nat /\ DOMAIN carry' = 1..Len(carry')
      BY <2>7, IsSeqIs
    <3>11. ASSUME NEW i \in 1..Len(carry')
           PROVE  \E later \in BOOLEAN : /\ carry'[i] = SectorOf(next', i, later)
                                         /\ later => next' \in rewritten
      <4> DEFINE j == n * RS + i
                 at == next * RS + j - 1
      <4>1. j \in 1..Len(joined)
        <5>1. \A a, m \in Nat : \A c \in Nat : c = a - m => \A k \in 1..c : m + k \in 1..a
          OBVIOUS
        <5>2. Len(joined) \in Nat
          BY <2>2, <2>4, <2>6
        <5>3. n * RS \in Nat /\ Len(carry') \in Nat /\ Len(carry') = Len(joined) - n * RS
          BY <3>4, <3>5, <3>10
        <5> QED BY <5>1, <5>2, <5>3
      <4>2. carry'[i] = joined[j]
        BY <3>4
      <4>3. at = next' * RS + (i - 1) /\ i - 1 \in 0..(RS - 1) /\ next' \in Nat
        <5>1. i \in Int /\ i - 1 \in 0..(RS - 1)
          BY <2>4, <3>9, <3>10
        <5>2. next' * RS = next * RS + n * RS /\ next' \in Nat
          BY <2>4, <2>7, <3>5
        <5> QED BY <3>5, <5>1, <5>2
      <4> HIDE DEF j
      <4>4. AtPlace(carry'[i], at)
        BY <3>2, <4>1, <4>2
      <4> HIDE DEF at
      <4>5. at \div RS = next' /\ at % RS = i - 1
        BY <4>3, DivIs
      <4>6. (at % RS) + 1 = i
        BY <4>3, <4>5
      <4> QED BY <4>4, <4>5, <4>6, Zenon DEF AtPlace
    <3>12. \A i \in DOMAIN carry' :
              \E later \in BOOLEAN : /\ carry'[i] = SectorOf(next', i, later)
                                     /\ later => next' \in rewritten'
      BY <2>0, <3>10, <3>11
    <3>13. LaidOut(physical', layout') /\ Ends(physical')[done'.extents] = E[done'.extents]
      BY <2>0, <3>3 DEF E
    <3> QED BY <2>0, <3>8, <3>9, <3>12, <3>13 DEF StreamOK, SectorOf
  <2> QED BY <2>14, <2>15, <2>18, <2>19 DEF MftInv
<1> QED BY <1>2, <1>3

\* What stays as it is as long as the parser and the volume do.
LEMMA Still ==
    ASSUME MftInv, UNCHANGED <<disk, rewritten, parser>>,
           phase' \in {"asking", "mapped", "fallback", "reading", "read", "built", "failed"}
    PROVE  /\ TypesOK' /\ Entered' /\ (Start => Start')
           /\ layout' = layout /\ valid' = valid /\ next' = next /\ done' = done
           /\ carry' = carry /\ entries' = entries /\ rewritten' = rewritten
<1>1. Entered'
  BY SameEntries DEF MftInv
<1>2. /\ layout' = layout /\ valid' = valid /\ rewritten' = rewritten
      /\ next' = next /\ done' = done /\ carry' = carry /\ entries' = entries
  BY DEF disk, parser
<1>3. TypesOK'
  BY <1>2 DEF MftInv, TypesOK, IsSeq
<1>4. Start => Start'
  BY <1>2 DEF Start
<1> QED BY <1>1, <1>2, <1>3, <1>4

\* One call of Windows.
LEMMA AskStep ==
    ASSUME MftInv, NEW start \in Marks, NEW stop \in Marks, NEW more \in BOOLEAN,
           Ask(start, stop, more)
    PROVE  MftInv'
<1>1. /\ phase = "asking" /\ phase' \in {"fallback", "asking", "mapped"}
      /\ UNCHANGED <<disk, rewritten, physical, parser, cancel, nodes>>
  <2> DEFINE vcn == IF extents = <<>> THEN 0 ELSE Last(extents).next
             found == ParsePointers(start, Answer(start, stop), vcn)
  <2>1. /\ phase = "asking"
        /\ phase' = IF found = <<>> THEN "fallback" ELSE IF more THEN "asking" ELSE "mapped"
        /\ UNCHANGED <<disk, rewritten, physical, parser, cancel, nodes>>
    BY Zenon DEF Ask
  <2> HIDE DEF found
  <2> QED BY <2>1
<1>2. layout \in Layouts /\ MapOK(extents, layout) /\ Start
  BY <1>1 DEF MftInv, TypesOK, PhasesOK
<1>3. MapOK(extents', layout)
  BY <1>2, AskMaps
<1>4. TypesOK' /\ Entered' /\ Start' /\ layout' = layout
  BY <1>1, <1>2, Still
<1>5. PhasesOK'
  BY <1>1, <1>3, <1>4 DEF PhasesOK
<1> QED BY <1>1, <1>4, <1>5 DEF MftInv

\* The end of the calls.
LEMMA AskedStep ==
    ASSUME MftInv, AskedAll \/ AskFails
    PROVE  MftInv'
<1>1. /\ phase = "asking" /\ phase' \in {"fallback", "mapped"}
      /\ UNCHANGED <<disk, rewritten, extents, physical, parser, cancel, nodes>>
  BY DEF AskedAll, AskFails
<1>2. MapOK(extents, layout) /\ Start
  BY <1>1 DEF MftInv, PhasesOK
<1>3. TypesOK' /\ Entered' /\ Start' /\ layout' = layout
  BY <1>1, <1>2, Still
<1>4. PhasesOK'
  BY <1>1, <1>2, <1>3 DEF PhasesOK
<1> QED BY <1>1, <1>3, <1>4 DEF MftInv

\* Reading begins, at the first sector of the table.
LEMMA ReadingBegins ==
    ASSUME MftInv, phase \in {"mapped", "fallback"}, phase' = "reading",
           UNCHANGED <<disk, rewritten, parser>>,
           Lengths(physical'), Solid => LaidOut(physical', layout)
    PROVE  MftInv'
<1>1. Start
  BY DEF MftInv, PhasesOK
<1>2. /\ TypesOK' /\ Entered' /\ Start'
      /\ layout' = layout /\ valid' = valid /\ next' = next /\ carry' = carry /\ done' = done
  BY <1>1, Still
<1>3. Len(physical') \in Nat /\ DOMAIN physical' = 1..Len(physical')
  BY IsSeqIs DEF Lengths
<1>4. done'.extents = 0 /\ done'.sectors = 0 /\ next' = 0 /\ carry' = <<>>
  BY <1>1, <1>2 DEF Start
<1>5. PhasesOK'
  <2>1. 0 < Len(physical') => 0 < physical'[0 + 1].clusters
    <3>1. 0 < Len(physical') => 1 \in DOMAIN physical'
      BY <1>3
    <3>2. 0 < Len(physical') => physical'[1].clusters \in Nat \ {0}
      BY <3>1 DEF Lengths
    <3> QED BY <3>2
  <2> QED BY <1>2, <1>3, <1>4, <2>1 DEF PhasesOK
<1>6. ASSUME Solid' PROVE StreamOK'
  <2>1. Solid
    BY <1>2, <1>6 DEF Solid
  <2>2. LaidOut(physical', layout')
    BY <1>2, <2>1
  <2>3. Ends(physical')[0] = 0
    BY <1>3, EndsIs
  <2>4. Len(carry') = 0 /\ DOMAIN carry' = {} /\ 0 < RS /\ 0 * RS = 0
    BY <1>4, RecordsAssumption
  <2>5. 0 < valid'
    BY <1>2, MftAssumption DEF TypesOK
  <2> QED BY <1>4, <2>2, <2>3, <2>4, <2>5 DEF StreamOK
<1> QED BY <1>2, <1>5, <1>6 DEF MftInv

\* The map of Windows is taken, or not.
LEMMA UseMapStep ==
    ASSUME MftInv, UseMap
    PROVE  MftInv'
<1>1. /\ phase = "mapped" /\ UNCHANGED <<disk, rewritten, extents, parser, cancel, nodes>>
      /\ \/ phase' = "fallback" /\ UNCHANGED physical
         \/ phase' = "reading" /\ physical' \in ValidateExtents(extents, valid, Clusters)
  BY Zenon DEF UseMap
<1>2. MapOK(extents, layout) /\ Start /\ layout \in Layouts
  BY <1>1 DEF MftInv, TypesOK, PhasesOK
<1>3. CASE phase' = "fallback" /\ UNCHANGED physical
  <2>1. TypesOK' /\ Entered' /\ Start'
    BY <1>1, <1>2, <1>3, Still
  <2>2. PhasesOK'
    BY <1>3, <2>1 DEF PhasesOK
  <2> QED BY <1>3, <2>1, <2>2 DEF MftInv
<1>4. CASE phase' = "reading" /\ physical' \in ValidateExtents(extents, valid, Clusters)
  <2>1. IsSeq(extents) /\ \A k \in DOMAIN extents : extents[k].vcn \in Nat /\ extents[k].next \in Nat
    <3> DEFINE T == [vcn : Nat, next : Nat, lcn : Nat \union {None}]
    <3>1. extents \in Seq(T)
      BY <1>2 DEF MapOK
    <3>2. \A x \in T : x.vcn \in Nat /\ x.next \in Nat
      OBVIOUS
    <3> HIDE DEF T
    <3>3. IsSeq(extents) /\ \A i \in DOMAIN extents : extents[i] \in T
      BY <3>1, SeqIs
    <3> QED BY <3>2, <3>3
  <2>2. Lengths(physical')
    BY <1>4, <2>1, ValidLengths
  <2>3. ASSUME Solid PROVE LaidOut(physical', layout)
    <3>1. IsLayout(layout) /\ NoHole(layout)
      BY <1>2, <2>3, LayoutIs DEF Solid, NoHole
    <3> QED BY <1>2, <1>4, <3>1, ValidLaysOut
  <2> QED BY <1>1, <1>4, <2>2, <2>3, ReadingBegins
<1> QED BY <1>1, <1>3, <1>4

\* The run list of the first record is taken, or not.
LEMMA UseRunListStep ==
    ASSUME MftInv, UseRunList
    PROVE  MftInv'
<1>1. /\ phase = "fallback" /\ UNCHANGED <<disk, rewritten, extents, parser, cancel, nodes>>
      /\ \/ phase' = "failed"
         \/ /\ phase' = "reading"
            /\ physical' \in UNION {ValidateExtents(RunsToExtents(runs), valid, Clusters) :
                                       runs \in DecodeRuns(RunList)}
  BY Zenon DEF UseRunList
<1>2. layout \in Layouts
  BY DEF MftInv, TypesOK
<1>3. CASE phase' = "failed"
  BY <1>1, <1>3, Stops
<1>4. CASE phase' # "failed"
  <2>1. PICK runs \in DecodeRuns(RunList) :
            physical' \in ValidateExtents(RunsToExtents(runs), valid, Clusters)
    BY <1>1, <1>4
  <2>2. Lengths(runs)
    BY <1>2, RunsHaveLengths
  <2>3. /\ IsSeq(RunsToExtents(runs))
        /\ \A k \in DOMAIN RunsToExtents(runs) :
              RunsToExtents(runs)[k].vcn \in Nat /\ RunsToExtents(runs)[k].next \in Nat
    <3> DEFINE E == RunsToExtents(runs)
    <3>1. /\ IsSeq(E) /\ DOMAIN E = 1..Len(runs)
          /\ \A k \in 1..Len(runs) :
                /\ E[k].vcn = Ends(runs)[k - 1] /\ E[k].next = Ends(runs)[k]
                /\ Ends(runs)[k - 1] \in Nat /\ Ends(runs)[k] \in Nat
      BY <2>2, ExtentsOf
    <3> HIDE DEF E
    <3>2. \A k \in DOMAIN E : E[k].vcn \in Nat /\ E[k].next \in Nat
      BY <3>1
    <3> QED BY <3>1, <3>2 DEF E
  <2>4. Lengths(physical')
    BY <2>1, <2>3, ValidLengths
  <2>5. ASSUME Solid PROVE LaidOut(physical', layout)
    <3>1. IsLayout(layout) /\ NoHole(layout)
      BY <1>2, <2>5, LayoutIs DEF Solid, NoHole
    <3>2. RunsToExtents(runs) = RunsToExtents(layout)
      BY <1>2, <3>1, RunsAreTable
    <3>3. MapOK(RunsToExtents(layout), layout)
      BY <3>1, TableMaps
    <3> QED BY <2>1, <3>1, <3>2, <3>3, ValidLaysOut
  <2>6. phase' = "reading" /\ UNCHANGED <<disk, rewritten, parser>>
    BY <1>1, <1>4
  <2> QED BY <1>1, <2>4, <2>5, <2>6, ReadingBegins
<1> QED BY <1>3, <1>4

\* The end of the reads.
LEMMA EndStep ==
    ASSUME MftInv, AllRead \/ ReadFails
    PROVE  MftInv'
<1>1. phase' \in {"read", "failed"} /\ UNCHANGED <<disk, rewritten, parser>>
  BY DEF AllRead, ReadFails
<1>2. TypesOK' /\ Entered'
  BY <1>1, Still
<1>3. PhasesOK'
  BY <1>1 DEF PhasesOK
<1> QED BY <1>1, <1>2, <1>3 DEF MftInv

\* The tree is built, or not.
LEMMA BuildStep ==
    ASSUME MftInv, Build
    PROVE  MftInv'
<1>1. /\ phase = "read" /\ UNCHANGED <<disk, rewritten, extents, physical, parser, cancel>>
      /\ \/ phase' = "failed"
         \/ /\ phase' = "built"
            /\ nodes' \in IF ~ cancel /\ next * RS >= valid THEN BuildModel(entries) ELSE {}
  BY Zenon DEF Build
<1>2. CASE phase' = "failed"
  BY <1>1, <1>2, Stops
<1>3. CASE phase' # "failed"
  <2>1. phase' = "built" /\ next * RS >= valid /\ nodes' \in BuildModel(entries)
    BY <1>1, <1>3
  <2>2. Root \in Numbers(entries) /\ nodes' = Grown(entries)[Len(entries)]
    BY <2>1 DEF BuildModel
  <2>3. /\ TypesOK' /\ Entered' /\ next' = next /\ entries' = entries /\ valid' = valid
    BY <1>1, <2>1, Still
  <2>4. PhasesOK'
    BY <2>1, <2>2, <2>3 DEF PhasesOK
  <2> QED BY <2>1, <2>3, <2>4 DEF MftInv
<1> QED BY <1>2, <1>3

\* The user cancels.
LEMMA CancelStep ==
    ASSUME MftInv, Cancel
    PROVE  MftInv'
<1>1. /\ phase' = phase /\ phase \in {"asking", "reading", "read"}
      /\ UNCHANGED <<disk, rewritten, parser>> /\ extents' = extents /\ physical' = physical
  BY DEF Cancel
<1>2. /\ TypesOK' /\ Entered' /\ (Start => Start') /\ layout' = layout /\ valid' = valid
      /\ done' = done /\ next' = next /\ carry' = carry /\ rewritten' = rewritten
  BY <1>1, Still
<1>3. PhasesOK'
  BY <1>1, <1>2 DEF MftInv, PhasesOK
<1>4. Solid' /\ phase' = "reading" => StreamOK'
  BY <1>1, <1>2 DEF MftInv, Solid, StreamOK
<1> QED BY <1>2, <1>3, <1>4 DEF MftInv

\* A record is rewritten: nothing that was read or will be is passed over for it.
LEMMA RewriteStep ==
    ASSUME MftInv, NEW r \in Records, Rewrite(r)
    PROVE  MftInv'
<1>1. /\ phase = "reading" /\ phase' = phase /\ rewritten' = rewritten \union {r}
      /\ volume' = volume /\ layout' = layout /\ valid' = valid /\ physical' = physical
      /\ done' = done /\ next' = next /\ carry' = carry /\ entries' = entries
  BY DEF Rewrite, disk, parser
<1>2. TypesOK'
  BY <1>1 DEF MftInv, TypesOK, IsSeq
<1>3. PhasesOK'
  BY <1>1 DEF MftInv, PhasesOK
<1>4. Entered'
  <2>1. Behind(entries, next)'
    BY <1>1 DEF MftInv, Entered, Behind, IsSeq, Ordered
  <2>2. ASSUME Solid' PROVE EntriesOK'
    <3>1. EntriesOK
      BY <1>1, <2>2 DEF MftInv, Entered, Solid
    <3>2. AllPlaced(entries)'
      BY <1>1, <3>1 DEF EntriesOK, AllPlaced, Placed, InTable
    <3>3. Covers(entries, next)'
      BY <1>1, <3>1 DEF EntriesOK, Covers, InTable, WellFormed, Content
    <3> QED BY <3>2, <3>3 DEF EntriesOK
  <2> QED BY <2>1, <2>2 DEF Entered
<1>5. ASSUME Solid' PROVE StreamOK'
  <2>1. StreamOK
    BY <1>1, <1>5 DEF MftInv, Solid
  <2> QED BY <1>1, <2>1 DEF StreamOK
<1> QED BY <1>2, <1>3, <1>4, <1>5 DEF MftInv

\* At first nothing is read.
LEMMA MftStarts ==
    ASSUME Init
    PROVE  MftInv
<1>1. /\ layout \in Layouts /\ valid \in Valid /\ rewritten = {} /\ phase = "asking"
      /\ extents = <<>> /\ Start
  BY DEF Init, Start
<1>2. next = 0 /\ entries = <<>> /\ carry = <<>> /\ done = [extents |-> 0, sectors |-> 0]
  BY <1>1 DEF Start
<1>3. IsSeq(<<>>) /\ DOMAIN <<>> = {}
  BY DEF IsSeq
<1>4. TypesOK
  BY <1>1, <1>2, <1>3 DEF TypesOK
<1>5. PhasesOK
  <2>1. MapOK(<<>>, layout)
    BY <1>3 DEF MapOK
  <2> QED BY <1>1, <2>1 DEF PhasesOK
<1>6. EntriesOK
  <2>1. \A q \in Records : ~ (q < 0)
    BY MftAssumption DEF Records
  <2> QED BY <1>2, <1>3, <2>1 DEF EntriesOK, AllPlaced, Covers
<1>7. Entered
  BY <1>2, <1>3, <1>6 DEF Entered, Behind, Ordered
<1> QED BY <1>1, <1>4, <1>5, <1>7 DEF MftInv

LEMMA MftStep ==
    ASSUME MftInv, [Next]_vars
    PROVE  MftInv'
<1>1. CASE \E start, stop \in Marks, more \in BOOLEAN : Ask(start, stop, more)
  BY <1>1, AskStep
<1>2. CASE AskedAll \/ AskFails
  BY <1>2, AskedStep
<1>3. CASE UseMap
  BY <1>3, UseMapStep
<1>4. CASE UseRunList
  BY <1>4, UseRunListStep
<1>5. CASE Read
  BY <1>5, ReadStep
<1>6. CASE AllRead \/ ReadFails
  BY <1>6, EndStep
<1>7. CASE Build
  BY <1>7, BuildStep
<1>8. CASE Cancel
  BY <1>8, CancelStep
<1>9. CASE \E r \in Records : Rewrite(r)
  BY <1>9, RewriteStep
<1>10. CASE UNCHANGED vars
  <2>1. /\ volume' = volume /\ layout' = layout /\ valid' = valid /\ rewritten' = rewritten
        /\ phase' = phase /\ extents' = extents /\ physical' = physical
        /\ done' = done /\ next' = next /\ carry' = carry /\ entries' = entries /\ nodes' = nodes
    BY <1>10 DEF vars, disk, parser
  <2>2. UNCHANGED <<disk, rewritten, parser>>
    BY <2>1 DEF disk, parser
  <2>3. TypesOK' /\ Entered' /\ (Start => Start')
    <3>1. phase' \in {"asking", "mapped", "fallback", "reading", "read", "built", "failed"}
      BY <2>1 DEF MftInv, TypesOK
    <3> QED BY <2>2, <3>1, Still
  <2>4. PhasesOK'
    BY <2>1, <2>3 DEF MftInv, PhasesOK
  <2>5. Solid' /\ phase' = "reading" => StreamOK'
    BY <2>1 DEF MftInv, Solid, StreamOK
  <2> QED BY <2>3, <2>4, <2>5 DEF MftInv
<1> QED BY <1>1, <1>2, <1>3, <1>4, <1>5, <1>6, <1>7, <1>8, <1>9, <1>10 DEF Next

\* The invariant of the scan of a master file table.
THEOREM MftInvariant == Spec => []MftInv
<1>1. Init => MftInv
  BY MftStarts
<1>2. MftInv /\ [Next]_vars => MftInv'
  BY MftStep
<1> QED BY <1>1, <1>2, PTL DEF Spec

\* RecordsInPlace (mft.rs, MftStreamParser and build_model): wherever the table lies
\* without holes, every entry was read from its own place, once, in order and in one
\* piece, and none below the tree is passed over but the damaged and the rewritten.
THEOREM RecordsStayInPlace == Spec => []RecordsInPlace
<1>1. MftInv => RecordsInPlace
  <2> SUFFICES ASSUME MftInv, Solid
               PROVE  /\ \A k \in DOMAIN entries :
                             LET e == entries[k] IN
                             /\ InTable(e.no)
                             /\ k > 1 => e.no > entries[k - 1].no
                             /\ \E later \in BOOLEAN :
                                    e.sectors = [i \in 1..RS |-> [record |-> e.no, part |-> i - 1,
                                                                  usn |-> <<e.no, later>>]]
                      /\ phase = "built" =>
                             {r \in Records \ rewritten : InTable(r) /\ WellFormed(r)}
                                 \subseteq Numbers(entries)
    BY DEF RecordsInPlace
  <2>1. Behind(entries, next) /\ AllPlaced(entries) /\ Covers(entries, next)
    BY DEF MftInv, Entered, EntriesOK
  <2>2. ASSUME NEW k \in DOMAIN entries, k > 1 PROVE entries[k].no > entries[k - 1].no
    <3>1. entries[k - 1].no < entries[k].no
      BY <2>1, <2>2 DEF Behind, Ordered
    <3> QED BY <3>1
  <2>3. ASSUME NEW k \in DOMAIN entries
        PROVE  /\ InTable(entries[k].no)
               /\ \E later \in BOOLEAN :
                      entries[k].sectors = [i \in 1..RS |-> [record |-> entries[k].no, part |-> i - 1,
                                                             usn |-> <<entries[k].no, later>>]]
    <3>1. Placed(entries[k])
      BY <2>1 DEF AllPlaced
    <3> QED BY <3>1 DEF Placed, SectorOf
  <2>4. ASSUME phase = "built", NEW r \in Records \ rewritten, InTable(r), WellFormed(r)
        PROVE  r \in Numbers(entries)
    <3>1. next * RS >= valid /\ next \in Nat /\ valid \in Nat
      BY <2>4, MftAssumption DEF MftInv, PhasesOK, TypesOK
    <3>2. r * RS < valid /\ r \in Nat
      BY <2>4, MftAssumption DEF InTable, Records
    <3>3. next <= r => next * RS <= r * RS
      BY <3>1, <3>2, Sectors
    <3>4. next * RS \in Int /\ r * RS \in Int
      BY <3>1, <3>2, Sectors
    <3>5. r < next
      BY <3>1, <3>2, <3>3, <3>4
    <3> QED BY <2>1, <2>4, <3>5 DEF Covers
  <2> QED BY <2>2, <2>3, <2>4
<1> QED BY <1>1, MftInvariant, PTL

-----------------------------------------------------------------------------
(* The tree.                                                               *)

\* What the entries are for the tree: one of each number, the root and no other metadata.
Listed(es) ==
    /\ IsSeq(es) /\ Root \in Numbers(es)
    /\ \A k \in DOMAIN es : es[k].no \in Nat /\ (es[k].no >= Meta \/ es[k].no = Root)
    /\ \A k, m \in DOMAIN es : es[k].no = es[m].no => k = m

\* The number under which the entry of a number is placed.
Above(es, r) == Parent(es, EntryOf(es, r))

\* Entries in order are of different numbers.
LEMMA OrderedDiffer ==
    ASSUME NEW es, NEW n, Behind(es, n), NEW k \in DOMAIN es, NEW m \in DOMAIN es, es[k].no = es[m].no
    PROVE  k = m
<1>1. Len(es) \in Nat /\ DOMAIN es = 1..Len(es)
  BY IsSeqIs DEF Behind
<1>2. \A i \in DOMAIN es : es[i].no \in Nat /\ (i > 1 => es[i - 1].no < es[i].no)
  BY DEF Behind, Ordered
<1> DEFINE Up(j) == \A i \in 1..Len(es) : i < j => es[i].no < es[j].no
           Q == {j \in Nat : j \in 1..Len(es) => Up(j)}
<1>3. 0 \in Q
  OBVIOUS
<1>4. ASSUME NEW j \in Nat, j \in Q PROVE j + 1 \in Q
  <2> SUFFICES ASSUME j + 1 \in 1..Len(es), NEW i \in 1..Len(es), i < j + 1
               PROVE  es[i].no < es[j + 1].no
    OBVIOUS
  <2>1. j \in 1..Len(es) /\ (j + 1) - 1 = j /\ j + 1 > 1 /\ (i = j \/ i < j)
    BY <1>1
  <2>2. es[j].no < es[j + 1].no
    BY <1>1, <1>2, <2>1
  <2>3. i < j => es[i].no < es[j].no
    BY <1>4, <2>1
  <2>4. es[i].no \in Nat /\ es[j].no \in Nat /\ es[j + 1].no \in Nat
    BY <1>1, <1>2, <2>1
  <2> QED BY <2>1, <2>2, <2>3, <2>4
<1>5. Nat \subseteq Q
  <2> HIDE DEF Q
  <2> QED BY <1>3, <1>4, NatSetInduction
<1>6. Up(k) /\ Up(m)
  BY <1>1, <1>5
<1>7. k < m \/ m < k \/ k = m
  BY <1>1, <1>2
<1>8. es[k].no \in Nat /\ es[m].no \in Nat
  BY <1>2
<1> QED BY <1>1, <1>6, <1>7, <1>8

\* The entry of a number.
LEMMA EntryIs ==
    ASSUME NEW es, Listed(es), NEW k \in DOMAIN es
    PROVE  EntryOf(es, es[k].no) = es[k] /\ es[k].no \in Numbers(es)
<1> DEFINE m == CHOOSE j \in DOMAIN es : es[j].no = es[k].no
<1>1. m \in DOMAIN es /\ es[m].no = es[k].no
  OBVIOUS
<1>2. EntryOf(es, es[k].no) = es[m]
  BY DEF EntryOf
<1> HIDE DEF m
<1>3. m = k
  BY <1>1 DEF Listed
<1> QED BY <1>2, <1>3 DEF Numbers

\* c is the entries that are placed under a number, each once.
AreChildren(c, es, no) ==
    /\ IsSeq(c)
    /\ \A i \in 1..Len(c) : c[i].no \in Numbers(es) /\ c[i].no >= Meta /\ Above(es, c[i].no) = no
    /\ \A i, m \in 1..Len(c) : c[i].no = c[m].no => i = m
    /\ \A r \in Numbers(es) : r >= Meta /\ Above(es, r) = no => \E i \in 1..Len(c) : c[i].no = r

LEMMA ChildrenAre ==
    ASSUME NEW es, Listed(es), NEW no
    PROVE  AreChildren(Children(es, no), es, no)
<1> DEFINE S == {e \in ToSet(es) : e.no >= Meta /\ Parent(es, e) = no}
           c == Children(es, no)
           n == Len(es)
<1>1. IsSeq(es) /\ n \in Nat /\ DOMAIN es = 1..n
  BY IsSeqIs DEF Listed
<1>2. KeptOf(c, es, S, n)
  BY <1>1, KeepIs DEF Children
<1> HIDE DEF c
<1>3. \A k, m \in 1..n : es[k].no = es[m].no => k = m
  BY <1>1 DEF Listed
<1>4. /\ IsSeq(c)
      /\ \A i \in 1..Len(c) : c[i] \in S /\ \E m \in 1..n : c[i] = es[m]
      /\ \A m \in 1..n : es[m] \in S => \E i \in 1..Len(c) : c[i] = es[m]
      /\ (\A i, m \in 1..n : i # m => es[i] # es[m]) => \A i, m \in 1..Len(c) : i # m => c[i] # c[m]
  BY <1>2, Zenon DEF KeptOf
<1>5. \A i, m \in 1..n : i # m => es[i] # es[m]
  BY <1>3
<1>6. \A k \in 1..n : EntryOf(es, es[k].no) = es[k] /\ es[k].no \in Numbers(es)
  BY <1>1, EntryIs
<1>7. \A e : e \in S <=> e \in ToSet(es) /\ e.no >= Meta /\ Parent(es, e) = no
  OBVIOUS
<1> HIDE DEF S
<1>8. ASSUME NEW i \in 1..Len(c)
      PROVE  c[i].no \in Numbers(es) /\ c[i].no >= Meta /\ Above(es, c[i].no) = no
  <2>1. PICK m \in 1..n : c[i] = es[m]
    BY <1>4
  <2>2. EntryOf(es, c[i].no) = c[i] /\ c[i].no \in Numbers(es)
    BY <1>6, <2>1
  <2>3. c[i].no >= Meta /\ Parent(es, c[i]) = no
    BY <1>4, <1>7
  <2> QED BY <2>2, <2>3 DEF Above
<1>9. ASSUME NEW i \in 1..Len(c), NEW m \in 1..Len(c), c[i].no = c[m].no
      PROVE  i = m
  <2>1. PICK a \in 1..n : c[i] = es[a]
    BY <1>4
  <2>2. PICK b \in 1..n : c[m] = es[b]
    BY <1>4
  <2>3. a = b
    BY <1>3, <1>9, <2>1, <2>2
  <2>4. c[i] = c[m]
    BY <2>1, <2>2, <2>3
  <2> QED BY <1>4, <1>5, <2>4
<1>10. ASSUME NEW r \in Numbers(es), r >= Meta, Above(es, r) = no
       PROVE  \E i \in 1..Len(c) : c[i].no = r
  <2>1. PICK k \in 1..n : es[k].no = r
    BY <1>1 DEF Numbers
  <2>2. Parent(es, es[k]) = no
    BY <1>6, <1>10, <2>1 DEF Above
  <2>3. es[k] \in ToSet(es)
    BY <1>1 DEF ToSet
  <2>4. es[k] \in S
    BY <1>7, <1>10, <2>1, <2>2, <2>3
  <2>5. PICK i \in 1..Len(c) : c[i] = es[k]
    BY <1>4, <2>4
  <2> QED BY <2>1, <2>5
<1> QED BY <1>4, <1>8, <1>9, <1>10 DEF AreChildren, c

\* The nodes of a list of children.
Leaves(c, k) == [i \in DOMAIN c |-> [no |-> c[i].no, parent |-> k]]

\* One more node is visited.
Visited(es, t, k) == IF k > Len(t) THEN t ELSE t \o Leaves(Children(es, t[k].no), k)

\* The recursive equation of Grown.
IsGrown(g, es, D) ==
    g = [k \in D |-> IF k = 0 THEN <<[no |-> Root, parent |-> None]>> ELSE Visited(es, g[k - 1], k)]

\* It has a solution.
LEMMA GrownExists ==
    ASSUME NEW es, NEW n, n \in Nat
    PROVE  \E g : IsGrown(g, es, 0..n)
<1> DEFINE Q == {k \in Nat : \E g : IsGrown(g, es, 0..k)}
           one == <<[no |-> Root, parent |-> None]>>
<1>0. \A g, D : IsGrown(g, es, D) <=> g = [k \in D |-> IF k = 0 THEN one ELSE Visited(es, g[k - 1], k)]
  BY Zenon DEF IsGrown
<1> HIDE DEF one
<1>1. 0 \in Q
  <2> DEFINE g == [k \in 0..0 |-> one]
  <2>1. g = [k \in 0..0 |-> IF k = 0 THEN one ELSE Visited(es, g[k - 1], k)]
    OBVIOUS
  <2> HIDE DEF g
  <2>2. IsGrown(g, es, 0..0)
    BY <1>0, <2>1, Zenon
  <2> QED BY <2>2
<1>2. ASSUME NEW k \in Nat, k \in Q PROVE k + 1 \in Q
  <2>1. PICK g : IsGrown(g, es, 0..k)
    BY <1>2
  <2> DEFINE h == [i \in 0..(k + 1) |-> IF i = 0 THEN one ELSE Visited(es, g[i - 1], i)]
  <2>2. \A i \in 0..k : h[i] = g[i]
    <3>1. g = [i \in 0..k |-> IF i = 0 THEN one ELSE Visited(es, g[i - 1], i)]
      BY <1>0, <2>1, Zenon
    <3>2. \A i \in 0..k : g[i] = IF i = 0 THEN one ELSE Visited(es, g[i - 1], i)
      BY <3>1, Zenon
    <3>3. ASSUME NEW i \in 0..k
          PROVE  h[i] = IF i = 0 THEN one ELSE Visited(es, g[i - 1], i)
      OBVIOUS
    <3> HIDE DEF h
    <3> QED BY <3>2, <3>3
  <2>3. h = [i \in 0..(k + 1) |-> IF i = 0 THEN one ELSE Visited(es, h[i - 1], i)]
    <3>1. ASSUME NEW i \in 0..(k + 1), i # 0 PROVE h[i - 1] = g[i - 1]
      <4>1. i - 1 \in 0..k
        BY <3>1
      <4> HIDE DEF h
      <4> QED BY <2>2, <4>1
    <3> QED BY <3>1
  <2>4. IsGrown(h, es, 0..(k + 1))
    <3> HIDE DEF h
    <3> QED BY <1>0, <2>3, Zenon
  <2> QED BY <2>4
<1>3. Nat \subseteq Q
  <2> HIDE DEF Q
  <2> QED BY <1>1, <1>2, NatSetInduction
<1> QED BY <1>3

\* Its steps.
LEMMA GrownSteps ==
    ASSUME NEW es, Len(es) \in Nat
    PROVE  /\ Grown(es)[0] = <<[no |-> Root, parent |-> None]>>
           /\ \A k \in 1..Len(es) : Grown(es)[k] = Visited(es, Grown(es)[k - 1], k)
<1> DEFINE n == Len(es)
           one == <<[no |-> Root, parent |-> None]>>
           g == CHOOSE f : IsGrown(f, es, 0..n)
<1>1. IsGrown(g, es, 0..n)
  BY GrownExists
<1>2. Grown(es) = g
  BY Zenon DEF Grown, IsGrown, Visited, Leaves
<1> HIDE DEF g, one
<1>3. \A k \in 0..n : g[k] = IF k = 0 THEN one ELSE Visited(es, g[k - 1], k)
  BY <1>1, Zenon DEF IsGrown, one
<1>4. g[0] = one /\ \A k \in 1..n : g[k] = Visited(es, g[k - 1], k)
  BY <1>3
<1> QED BY <1>2, <1>4 DEF one

\* The list of nodes after k of them were visited.
GrownOK(es, t, k) ==
    /\ IsSeq(t) /\ Len(t) >= 1 /\ t[1] = [no |-> Root, parent |-> None]
    /\ \A j \in 2..Len(t) :
          /\ t[j].parent \in 1..(j - 1) /\ t[j].parent <= k
          /\ t[j].no \in Numbers(es) /\ t[j].no >= Meta
          /\ t[t[j].parent].no = Above(es, t[j].no)
    /\ \A i, j \in 1..Len(t) : t[i].no = t[j].no => i = j
    /\ \A i \in 1..Len(t) : i <= k =>
          \A r \in Numbers(es) : r >= Meta /\ Above(es, r) = t[i].no => \E j \in 1..Len(t) : t[j].no = r

\* A visit keeps it.
LEMMA VisitGrows ==
    ASSUME NEW es, Listed(es), NEW k \in Nat, NEW t, GrownOK(es, t, k)
    PROVE  GrownOK(es, Visited(es, t, k + 1), k + 1)
<1>1. /\ IsSeq(t) /\ Len(t) >= 1 /\ t[1] = [no |-> Root, parent |-> None]
      /\ \A j \in 2..Len(t) :
            /\ t[j].parent \in 1..(j - 1) /\ t[j].parent <= k
            /\ t[j].no \in Numbers(es) /\ t[j].no >= Meta
            /\ t[t[j].parent].no = Above(es, t[j].no)
      /\ \A i, j \in 1..Len(t) : t[i].no = t[j].no => i = j
      /\ \A i \in 1..Len(t) : i <= k =>
            \A r \in Numbers(es) : r >= Meta /\ Above(es, r) = t[i].no => \E j \in 1..Len(t) : t[j].no = r
  BY Zenon DEF GrownOK
<1>2. Len(t) \in Nat /\ DOMAIN t = 1..Len(t)
  BY <1>1, IsSeqIs
<1> DEFINE u == Visited(es, t, k + 1)
           c == Children(es, t[k + 1].no)
           l == Leaves(c, k + 1)
<1>3. u = IF k + 1 > Len(t) THEN t ELSE t \o l
  BY Zenon DEF Visited
<1>4. CASE k + 1 > Len(t)
  <2>1. u = t /\ \A i \in 1..Len(t) : i <= k
    BY <1>2, <1>3, <1>4
  <2>2. \A j \in 2..Len(t) : t[j].parent <= k + 1
    <3>1. ASSUME NEW j \in 2..Len(t) PROVE t[j].parent <= k + 1
      <4>1. t[j].parent \in 1..(j - 1) /\ t[j].parent <= k
        BY <1>1
      <4> QED BY <1>2, <4>1
    <3> QED BY <3>1
  <2> HIDE DEF u
  <2>3. GrownOK(es, t, k + 1)
    <3>1. \A i \in 1..Len(t) : i <= k + 1 =>
            \A r \in Numbers(es) : r >= Meta /\ Above(es, r) = t[i].no => \E j \in 1..Len(t) : t[j].no = r
      BY <1>1, <2>1, Zenon
    <3>2. \A j \in 2..Len(t) :
            /\ t[j].parent \in 1..(j - 1) /\ t[j].parent <= k + 1
            /\ t[j].no \in Numbers(es) /\ t[j].no >= Meta
            /\ t[t[j].parent].no = Above(es, t[j].no)
      BY <1>1, <2>2, Zenon
    <3> QED BY <1>1, <3>1, <3>2, Zenon DEF GrownOK
  <2> QED BY <2>1, <2>3 DEF u
<1>5. CASE ~ (k + 1 > Len(t))
  <2> DEFINE n == Len(t)
             m == Len(c)
  <2>1. u = t \o l /\ k + 1 \in 1..n /\ n \in Nat
    BY <1>2, <1>3, <1>5
  <2>2. /\ IsSeq(c)
        /\ \A i \in 1..m : c[i].no \in Numbers(es) /\ c[i].no >= Meta /\ Above(es, c[i].no) = t[k + 1].no
        /\ \A i, j \in 1..m : c[i].no = c[j].no => i = j
        /\ \A r \in Numbers(es) : r >= Meta /\ Above(es, r) = t[k + 1].no => \E i \in 1..m : c[i].no = r
    <3>1. AreChildren(c, es, t[k + 1].no)
      BY ChildrenAre
    <3> HIDE DEF c
    <3> QED BY <3>1, Zenon DEF AreChildren
  <2> HIDE DEF c, u, n
  <2>3. m \in Nat /\ DOMAIN c = 1..m
    BY <2>2, IsSeqIs
  <2>4. /\ IsSeq(l) /\ Len(l) = m
        /\ \A i \in 1..m : l[i].no = c[i].no /\ l[i].parent = k + 1
    <3>1. DOMAIN l = 1..m /\ l = [i \in 1..m |-> l[i]]
      BY <2>3 DEF Leaves
    <3>2. \A i \in 1..m : l[i] = [no |-> c[i].no, parent |-> k + 1]
      BY <2>3 DEF Leaves
    <3> HIDE DEF l
    <3>3. ASSUME NEW i \in 1..m PROVE l[i].no = c[i].no /\ l[i].parent = k + 1
      <4>1. l[i] = [no |-> c[i].no, parent |-> k + 1]
        BY <3>2
      <4> QED BY <4>1
    <3> QED BY <2>3, <3>1, <3>3, ListIs
  <2> HIDE DEF l
  <2>5. /\ IsSeq(u) /\ Len(u) = n + m
        /\ \A i \in 1..(n + m) : u[i] = IF i <= n THEN t[i] ELSE l[i - n]
    <3>1. /\ IsSeq(t \o l) /\ Len(t \o l) = Len(t) + Len(l)
          /\ \A i \in 1..(Len(t) + Len(l)) : (t \o l)[i] = IF i <= Len(t) THEN t[i] ELSE l[i - Len(t)]
      BY <1>1, <2>4, Joined
    <3> QED BY <2>1, <2>4, <3>1 DEF n
  <2> HIDE DEF m
  <2>6. \A i \in 1..n : i \in 1..(n + m) /\ u[i] = t[i]
    BY <2>1, <2>3, <2>5
  <2>7. \A i \in 1..m : /\ n + i \in 1..(n + m) /\ u[n + i].no = c[i].no /\ u[n + i].parent = k + 1
    <3> SUFFICES ASSUME NEW i \in 1..m
                 PROVE  n + i \in 1..(n + m) /\ u[n + i].no = c[i].no /\ u[n + i].parent = k + 1
      OBVIOUS
    <3>1. n + i \in 1..(n + m) /\ ~ (n + i <= n) /\ (n + i) - n = i
      BY <2>1, <2>3
    <3>2. u[n + i] = l[i]
      BY <2>5, <3>1
    <3> QED BY <2>4, <3>1, <3>2
  <2>8. \A j \in 1..(n + m) : j \in 1..n \/ \E i \in 1..m : j = n + i
    <3> SUFFICES ASSUME NEW j \in 1..(n + m), j \notin 1..n PROVE \E i \in 1..m : j = n + i
      OBVIOUS
    <3>1. j - n \in 1..m /\ j = n + (j - n)
      BY <2>1, <2>3
    <3> QED BY <3>1
  <2>9. /\ n >= 1 /\ \A j \in 2..n : t[j].parent \in 1..(j - 1) /\ t[j].parent <= k
        /\ \A j \in 2..n : /\ t[j].no \in Numbers(es) /\ t[j].no >= Meta
                           /\ t[t[j].parent].no = Above(es, t[j].no)
        /\ \A i, j \in 1..n : t[i].no = t[j].no => i = j
        /\ \A i \in 1..n : i <= k =>
            \A r \in Numbers(es) : r >= Meta /\ Above(es, r) = t[i].no => \E j \in 1..n : t[j].no = r
    BY <1>1 DEF n
  <2>10. u[1] = [no |-> Root, parent |-> None]
    <3>1. 1 \in 1..n
      BY <2>1, <2>9
    <3> QED BY <1>1, <2>6, <3>1
  \* Where the nodes hang.
  <2>11. ASSUME NEW j \in 2..(n + m)
         PROVE  /\ u[j].parent \in 1..(j - 1) /\ u[j].parent <= k + 1
                /\ u[j].no \in Numbers(es) /\ u[j].no >= Meta
                /\ u[u[j].parent].no = Above(es, u[j].no)
    <3>1. CASE j \in 1..n
      <4>1. j \in 2..n /\ u[j] = t[j]
        <5>1. j \in 2..n
          BY <2>1, <2>3, <3>1
        <5> QED BY <2>6, <3>1, <5>1
      <4>2. /\ t[j].parent \in 1..(j - 1) /\ t[j].parent <= k
            /\ t[j].no \in Numbers(es) /\ t[j].no >= Meta
            /\ t[t[j].parent].no = Above(es, t[j].no)
        BY <2>9, <4>1
      <4>3. t[j].parent \in 1..n /\ t[j].parent <= k + 1
        BY <2>1, <4>1, <4>2
      <4>4. u[t[j].parent] = t[t[j].parent]
        BY <2>6, <4>3
      <4> QED BY <4>1, <4>2, <4>3, <4>4
    <3>2. CASE j \notin 1..n
      <4>1. j \in 1..(n + m)
        BY <2>1, <2>3
      <4>2. PICK i \in 1..m : j = n + i
        BY <2>8, <3>2, <4>1
      <4>3. u[j].no = c[i].no /\ u[j].parent = k + 1
        BY <2>7, <4>2
      <4>4. u[k + 1] = t[k + 1]
        BY <2>1, <2>6
      <4>5. k + 1 \in 1..(j - 1) /\ k + 1 <= k + 1
        BY <2>1, <2>3, <4>2
      <4>6. c[i].no \in Numbers(es) /\ c[i].no >= Meta /\ Above(es, c[i].no) = t[k + 1].no
        BY <2>2
      <4> QED BY <4>3, <4>4, <4>5, <4>6
    <3> QED BY <3>1, <3>2
  \* A child was no node before.
  <2>12. ASSUME NEW a \in 1..n, NEW i \in 1..m PROVE t[a].no # c[i].no
    <3> SUFFICES ASSUME t[a].no = c[i].no PROVE FALSE
      OBVIOUS
    <3>1. c[i].no >= Meta /\ Above(es, c[i].no) = t[k + 1].no /\ c[i].no \in Numbers(es)
      BY <2>2
    <3>2. CASE a = 1
      <4>1. c[i].no = Root
        BY <1>1, <3>2
      <4> QED BY <3>1, <4>1, RecordsAssumption
    <3>3. CASE a # 1
      <4>1. a \in 2..n
        BY <2>1, <3>3
      <4>2. /\ t[a].parent \in 1..(a - 1) /\ t[a].parent <= k
            /\ t[t[a].parent].no = Above(es, t[a].no)
        BY <2>9, <4>1
      <4>3. t[a].parent \in 1..n
        BY <2>1, <4>1, <4>2
      <4>4. t[t[a].parent].no = t[k + 1].no
        BY <3>1, <4>2
      <4>5. t[a].parent = k + 1
        BY <2>1, <2>9, <4>3, <4>4
      <4> QED BY <4>2, <4>5
    <3> QED BY <3>2, <3>3
  <2>13. ASSUME NEW a \in 1..(n + m), NEW b \in 1..(n + m), u[a].no = u[b].no
         PROVE  a = b
    <3>1. CASE a \in 1..n /\ b \in 1..n
      BY <2>6, <2>9, <2>13, <3>1
    <3>2. CASE a \in 1..n /\ b \notin 1..n
      <4>1. PICK i \in 1..m : b = n + i
        BY <2>8, <3>2
      <4> QED BY <2>6, <2>7, <2>12, <2>13, <3>2, <4>1
    <3>3. CASE a \notin 1..n /\ b \in 1..n
      <4>1. PICK i \in 1..m : a = n + i
        BY <2>8, <3>3
      <4>2. u[b] = t[b] /\ u[a].no = c[i].no
        BY <2>6, <2>7, <3>3, <4>1
      <4> QED BY <2>12, <2>13, <3>3, <4>2
    <3>4. CASE a \notin 1..n /\ b \notin 1..n
      <4>1. PICK i \in 1..m : a = n + i
        BY <2>8, <3>4
      <4>2. PICK j \in 1..m : b = n + j
        BY <2>8, <3>4
      <4>3. c[i].no = c[j].no
        BY <2>7, <2>13, <4>1, <4>2
      <4>4. i = j
        BY <2>2, <4>3
      <4> QED BY <4>1, <4>2, <4>4
    <3> QED BY <3>1, <3>2, <3>3, <3>4
  \* The children of the nodes that were visited.
  <2>14. ASSUME NEW a \in 1..(n + m), a <= k + 1,
                NEW r \in Numbers(es), r >= Meta, Above(es, r) = u[a].no
         PROVE  \E b \in 1..(n + m) : u[b].no = r
    <3>1. a \in 1..n /\ u[a] = t[a]
      <4>1. a \in 1..n
        BY <2>1, <2>3, <2>14
      <4> QED BY <2>6, <4>1
    <3>2. CASE a = k + 1
      <4>1. PICK i \in 1..m : c[i].no = r
        BY <2>2, <2>14, <3>1, <3>2
      <4> QED BY <2>7, <4>1
    <3>3. CASE a # k + 1
      <4>1. a <= k
        BY <2>1, <2>14, <3>1, <3>3
      <4>2. PICK b \in 1..n : t[b].no = r
        BY <2>9, <2>14, <3>1, <4>1
      <4> QED BY <2>6, <4>2
    <3> QED BY <3>2, <3>3
  <2>15. Len(u) >= 1
    BY <2>1, <2>3, <2>5, <2>9
  <2> USE <2>5
  <2>16. GrownOK(es, u, k + 1)
    <3>1. \A j \in 2..Len(u) :
             /\ u[j].parent \in 1..(j - 1) /\ u[j].parent <= k + 1
             /\ u[j].no \in Numbers(es) /\ u[j].no >= Meta
             /\ u[u[j].parent].no = Above(es, u[j].no)
      BY <2>11
    <3>2. \A i, j \in 1..Len(u) : u[i].no = u[j].no => i = j
      BY <2>13
    <3>3. \A i \in 1..Len(u) : i <= k + 1 =>
             \A r \in Numbers(es) : r >= Meta /\ Above(es, r) = u[i].no => \E j \in 1..Len(u) : u[j].no = r
      BY <2>14
    <3> QED BY <2>10, <2>15, <3>1, <3>2, <3>3, Zenon DEF GrownOK
  <2> QED BY <2>16 DEF u
<1> QED BY <1>4, <1>5

\* The tree of a list of entries: no node is left to visit.
LEMMA GrownIs ==
    ASSUME NEW es, Listed(es)
    PROVE  GrownOK(es, Grown(es)[Len(es)], Len(es)) /\ Len(Grown(es)[Len(es)]) <= Len(es)
<1> DEFINE n == Len(es)
           g == Grown(es)
           one == <<[no |-> Root, parent |-> None]>>
<1>1. n \in Nat /\ DOMAIN es = 1..n
  BY IsSeqIs DEF Listed
<1>2. g[0] = one /\ \A k \in 1..n : g[k] = Visited(es, g[k - 1], k)
  BY <1>1, GrownSteps
<1> HIDE DEF g, n
<1> DEFINE Q == {k \in Nat : k <= n => GrownOK(es, g[k], k)}
<1>3. 0 \in Q
  <2>1. IsSeq(one) /\ Len(one) = 1 /\ one[1] = [no |-> Root, parent |-> None]
    BY DEF IsSeq, ToSet
  <2> HIDE DEF one
  <2>2. GrownOK(es, one, 0)
    <3>1. 2..Len(one) = {} /\ Len(one) >= 1 /\ \A i, j \in 1..Len(one) : i = j
      BY <2>1
    <3>2. \A i \in 1..Len(one) : ~ (i <= 0)
      BY <2>1
    <3> QED BY <2>1, <3>1, <3>2 DEF GrownOK
  <2> QED BY <1>2, <2>2
<1> HIDE DEF one
<1>4. ASSUME NEW k \in Nat, k \in Q PROVE k + 1 \in Q
  <2> SUFFICES ASSUME k + 1 <= n PROVE GrownOK(es, g[k + 1], k + 1)
    OBVIOUS
  <2>1. GrownOK(es, g[k], k) /\ k + 1 \in 1..n /\ (k + 1) - 1 = k
    BY <1>1, <1>4
  <2>2. g[k + 1] = Visited(es, g[k], k + 1)
    BY <1>2, <2>1
  <2> QED BY <2>1, <2>2, VisitGrows
<1>5. Nat \subseteq Q
  <2> HIDE DEF Q
  <2> QED BY <1>3, <1>4, NatSetInduction
<1> DEFINE t == g[n]
<1>6. GrownOK(es, t, n)
  BY <1>1, <1>5
<1> HIDE DEF t
<1>7. /\ IsSeq(t) /\ Len(t) >= 1 /\ t[1] = [no |-> Root, parent |-> None]
      /\ \A j \in 2..Len(t) : t[j].no \in Numbers(es)
      /\ \A i, j \in 1..Len(t) : t[i].no = t[j].no => i = j
  BY <1>6, Zenon DEF GrownOK
<1>8. Len(t) \in Nat
  BY <1>7, IsSeqIs
<1>9. ASSUME NEW j \in 1..Len(t) PROVE \E i \in 1..n : es[i].no = t[j].no
  <2>1. t[j].no \in Numbers(es)
    <3>1. CASE j = 1
      BY <1>7, <3>1 DEF Listed
    <3>2. CASE j # 1
      <4>1. j \in 2..Len(t)
        BY <1>8, <3>2
      <4> QED BY <1>7, <4>1
    <3> QED BY <3>1, <3>2
  <2> QED BY <1>1, <2>1 DEF Numbers
<1>10. Len(t) <= n
  <2> DEFINE f == [j \in 1..Len(t) |-> CHOOSE i \in 1..n : es[i].no = t[j].no]
  <2>1. \A j \in 1..Len(t) : f[j] \in 1..n /\ es[f[j]].no = t[j].no
    BY <1>9
  <2>2. f \in [1..Len(t) -> 1..n]
    BY <2>1
  <2> HIDE DEF f
  <2>3. \A i, j \in 1..Len(t) : f[i] = f[j] => i = j
    BY <1>7, <2>1
  <2>4. f \in Injection(1..Len(t), 1..n)
    BY <2>2, <2>3 DEF Injection, IsInjective
  <2>5. /\ IsFiniteSet(1..n) /\ Cardinality(1..n) = n
        /\ Cardinality(1..Len(t)) = Len(t)
    <3>1. \A a \in Nat : IsFiniteSet(1..a) /\ Cardinality(1..a) = a
      <4> SUFFICES ASSUME NEW a \in Nat PROVE IsFiniteSet(1..a) /\ Cardinality(1..a) = a
        OBVIOUS
      <4>1. IsFiniteSet(1..a) /\ Cardinality(1..a) = IF 1 > a THEN 0 ELSE a - 1 + 1
        BY FS_Interval
      <4> QED BY <4>1
    <3> QED BY <1>1, <1>8, <3>1
  <2> QED BY <2>4, <2>5, FS_Injection
<1> QED BY <1>6, <1>10 DEF t, g, n

\* The tree holds the entries.
LEMMA TreeIs ==
    ASSUME MftInv
    PROVE  TreeHoldsEntries
<1> DEFINE es == entries
           t == nodes
           out == {r \in Numbers(es) : \A k \in DOMAIN t : t[k].no # r}
           up(r) == EntryOf(es, r).parent
           misplaced(r) == up(r) = r \/ up(r) < Meta \/ up(r) \notin Numbers(es)
           looped(r) == \E Q \in SUBSET Numbers(es) :
                            r \in Q /\ \A q \in Q : ~ misplaced(q) /\ up(q) \in Q
<1> SUFFICES ASSUME phase = "built"
             PROVE  /\ t[1] = [no |-> Root, parent |-> None]
                    /\ \A k \in 2..Len(t) :
                          /\ t[k].parent \in 1..(k - 1)
                          /\ \/ t[t[k].parent].no =
                                    IF misplaced(t[k].no) THEN Root ELSE up(t[k].no)
                             \/ looped(t[k].no) /\ t[k].parent = 1
                          /\ \A j \in 1..(k - 1) : t[j].no # t[k].no
                    /\ \A r \in out : looped(r)
  BY Zenon DEF TreeHoldsEntries
<1>1. Root \in Numbers(es) /\ t = Grown(es)[Len(es)] /\ Behind(es, next)
  BY DEF MftInv, PhasesOK, Entered
<1>2. Listed(es)
  <2>1. \A k, m \in DOMAIN es : es[k].no = es[m].no => k = m
    BY <1>1, OrderedDiffer
  <2> QED BY <1>1, <2>1 DEF Listed, Behind, Ordered
<1>3. GrownOK(es, t, Len(es)) /\ Len(t) <= Len(es)
  BY <1>1, <1>2, GrownIs
<1> HIDE DEF es, t
<1>4. Len(es) \in Nat /\ Len(t) \in Nat /\ DOMAIN t = 1..Len(t) /\ DOMAIN es = 1..Len(es)
  BY <1>2, <1>3, IsSeqIs DEF Listed, GrownOK
<1>5. /\ Len(t) >= 1 /\ t[1] = [no |-> Root, parent |-> None]
      /\ \A j \in 2..Len(t) :
            /\ t[j].parent \in 1..(j - 1)
            /\ t[j].no \in Numbers(es) /\ t[j].no >= Meta
            /\ t[t[j].parent].no = Above(es, t[j].no)
      /\ \A i, j \in 1..Len(t) : t[i].no = t[j].no => i = j
      /\ \A i \in 1..Len(t) : i <= Len(es) =>
            \A r \in Numbers(es) : r >= Meta /\ Above(es, r) = t[i].no => \E j \in 1..Len(t) : t[j].no = r
  BY <1>3, Zenon DEF GrownOK
<1>6. ASSUME NEW i \in 1..Len(t), NEW r \in Numbers(es), r >= Meta, Above(es, r) = t[i].no
      PROVE  \E j \in 1..Len(t) : t[j].no = r
  <2>1. i <= Len(es)
    BY <1>3, <1>4
  <2> QED BY <1>5, <1>6, <2>1
<1>7. ASSUME NEW r \in Numbers(es)
      PROVE  /\ r \in Nat /\ (r >= Meta \/ r = Root)
             /\ Above(es, r) = IF misplaced(r) THEN Root ELSE up(r)
  <2>1. PICK k \in DOMAIN es : es[k].no = r
    BY DEF Numbers
  <2>2. EntryOf(es, r).no = r /\ r \in Nat /\ (r >= Meta \/ r = Root)
    BY <1>2, <2>1, EntryIs DEF Listed
  <2> DEFINE p == up(r)
  <2>3. Above(es, r) = IF p # r /\ p >= Meta /\ p \in Numbers(es) THEN p ELSE Root
    BY <2>2 DEF Above, Parent
  <2>4. misplaced(r) <=> p = r \/ p < Meta \/ p \notin Numbers(es)
    BY Zenon
  <2> HIDE DEF p, misplaced
  <2>5. p \in Numbers(es) => p \in Nat
    BY <1>2 DEF Listed, Numbers
  <2>6. p \in Numbers(es) => (p >= Meta <=> ~ (p < Meta))
    BY <2>5, RecordsAssumption
  <2>7. Above(es, r) = IF misplaced(r) THEN Root ELSE p
    BY <2>3, <2>4, <2>6
  <2> QED BY <2>2, <2>7 DEF p
<1>8. \A r : r \in out <=> r \in Numbers(es) /\ \A k \in 1..Len(t) : t[k].no # r
  BY <1>4
<1>9. \A r : ~ misplaced(r) => up(r) \in Numbers(es)
  OBVIOUS
<1> HIDE DEF misplaced, up, out
<1>10. ASSUME NEW k \in 2..Len(t)
       PROVE  /\ t[k].parent \in 1..(k - 1)
              /\ t[t[k].parent].no = IF misplaced(t[k].no) THEN Root ELSE up(t[k].no)
              /\ \A j \in 1..(k - 1) : t[j].no # t[k].no
  <2>1. /\ t[k].parent \in 1..(k - 1) /\ t[k].no \in Numbers(es)
        /\ t[t[k].parent].no = Above(es, t[k].no)
    BY <1>5
  <2>2. Above(es, t[k].no) = IF misplaced(t[k].no) THEN Root ELSE up(t[k].no)
    BY <1>7, <2>1
  <2>3. ASSUME NEW j \in 1..(k - 1) PROVE t[j].no # t[k].no
    <3>1. j \in 1..Len(t) /\ k \in 1..Len(t) /\ j # k
      BY <1>4
    <3> QED BY <1>5, <3>1
  <2> QED BY <2>1, <2>2, <2>3
<1>11. ASSUME NEW r \in out
       PROVE  ~ misplaced(r) /\ up(r) \in out
  <2>1. r \in Numbers(es) /\ \A k \in 1..Len(t) : t[k].no # r
    BY <1>8
  <2>2. 1 \in 1..Len(t) /\ t[1].no = Root
    BY <1>4, <1>5
  <2>3. r >= Meta
    BY <1>7, <2>1, <2>2
  <2>4. \A i \in 1..Len(t) : Above(es, r) # t[i].no
    BY <1>6, <2>1, <2>3
  <2>5. ~ misplaced(r)
    BY <1>7, <2>1, <2>2, <2>4
  <2>6. up(r) \in Numbers(es) /\ Above(es, r) = up(r)
    BY <1>7, <1>9, <2>1, <2>5
  <2> QED BY <1>8, <2>4, <2>5, <2>6
<1>12. out \subseteq Numbers(es)
  BY <1>8
<1>13. \A r \in out : looped(r)
  BY <1>11, <1>12
<1> HIDE DEF looped
<1> QED BY <1>5, <1>10, <1>13

\* TreeHoldsEntries (mft.rs, build_model): whatever the parents the records name, every
\* node of the tree is under the record it names, or under the root, parents come first,
\* no record is there twice, and what is left out hangs on a cycle.
THEOREM TreeIsWhole == Spec => []TreeHoldsEntries
<1>1. MftInv => TreeHoldsEntries
  BY TreeIs
<1> QED BY <1>1, MftInvariant, PTL
=============================================================================
