--------------------------- MODULE Search_proofs ---------------------------
(***************************************************************************)
(* Proofs about the search protocol, for any letters and case folding, any *)
(* arenas and texts, and any number of scans and edits.                    *)
(***************************************************************************)
EXTENDS Search, SequenceTheorems, WellFoundedInduction, TLAPS

-----------------------------------------------------------------------------
(* The inductive invariant.                                                *)

\* A text the index can be asked for: in lower case.
IsQuery(q) == q \in Seq(Letters) /\ \A k \in 1..Len(q) : Lower[q[k]] = q[k]

SearchTypes ==
    /\ models \in Seq(Arenas)
    /\ shown \in BOOLEAN /\ (shown => Len(models) > 0)
    /\ index \in 0..Len(models) /\ builds \subseteq 1..Len(models)
    /\ input \in Seq(Letters)
    /\ IsQuery(active)
    /\ generation \in Nat
    /\ hurried \in BOOLEAN /\ mixed \in BOOLEAN

\* Every answer of the present generation is for the active query and the
\* present index; without a query or an index there is nothing to show.
PassesOK ==
    /\ \A p \in passes :
          /\ p.generation \in Nat /\ p.generation <= generation
          /\ p.generation = generation =>
                /\ p.query = active /\ active # <<>>
                /\ p.index = index /\ index # 0
                /\ \A r \in passes : r.generation = generation => r = p
    /\ input = <<>> => active = <<>>
    /\ active = <<>> \/ index = 0 => results = {}

\* The index is that of the latest model, the results are ids of it, and when
\* no answer is awaited they are what the query finds.
ResultsOK ==
    /\ status = "running"
    /\ index # 0 =>
          /\ index = Len(models)
          /\ results \subseteq DOMAIN models[index]
          /\ (active # <<>> /\ ~ InFlight) =>
                /\ results \subseteq Find(index, active)
                /\ ~ hurried => Find(index, active) \subseteq results

SearchInv == SearchTypes /\ PassesOK /\ (~ mixed => ResultsOK)
-----------------------------------------------------------------------------
(* What the recursion of the substring scan computes.                      *)

\* Induction over the naturals, for a set instead of a predicate.
LEMMA NatSetInduction ==
    ASSUME NEW S, 0 \in S, \A n \in Nat : n \in S => n + 1 \in S
    PROVE  Nat \subseteq S
<1>1. SUFFICES ASSUME Nat \ S # {} PROVE FALSE
  OBVIOUS
<1>2. PICK x \in Nat \ S : \A y \in Nat \ S : ~ (<<y, x>> \in OpToRel(<, Nat))
  BY <1>1, NatLessThanWellFounded, WFMin
<1>3. x # 0 /\ x - 1 \in Nat
  OBVIOUS
<1>4. <<x - 1, x>> \in OpToRel(<, Nat)
  BY <1>3 DEF OpToRel
<1>5. x - 1 \in S
  BY <1>2, <1>3, <1>4
<1> QED
  BY <1>3, <1>5

\* A set of positions that is not empty has a least one.
LEMMA MinIs ==
    ASSUME NEW s, s \subseteq Nat, s # {}
    PROVE  Min(s) \in s /\ \A y \in s : Min(s) <= y
<1>1. PICK x \in s : \A y \in s : ~ (<<y, x>> \in OpToRel(<, Nat))
  BY NatLessThanWellFounded, WFMin
<1>2. ASSUME NEW y \in s PROVE x <= y
  <2>1. x \in Nat /\ y \in Nat
    OBVIOUS
  <2>2. y < x => <<y, x>> \in OpToRel(<, Nat)
    BY <2>1 DEF OpToRel
  <2>3. ~ (y < x)
    BY <1>1, <2>2, Zenon
  <2> QED BY <2>1, <2>3
<1> QED
  BY <1>2 DEF Min

\* The needle stands in the text from position k on.
At(hay, needle, k) ==
    k + Len(needle) - 1 <= Len(hay) /\ \A i \in 1..Len(needle) : hay[k + i - 1] = needle[i]

\* The needle stands in the text at some position from start on.
From(hay, needle, start) == \E k \in start..Len(hay) : At(hay, needle, k)

\* The positions of the needle's first letter.
Firsts(hay, needle, start) == {k \in start..Len(hay) : hay[k] = needle[1]}

\* One round of the loop.
Round(f, hay, needle, start) ==
    IF Firsts(hay, needle, start) = {} THEN FALSE
    ELSE LET i == Min(Firsts(hay, needle, start)) IN
         /\ i <= Len(hay) - Len(needle) + 1
         /\ SubSeq(hay, i, i + Len(needle) - 1) = needle \/ f[i + 1]

\* The comparison of a slice is the comparison letter by letter.
LEMMA SliceIs ==
    ASSUME NEW hay \in Seq(Letters), NEW needle \in Seq(Letters), NEW k \in Nat \ {0},
           k <= Len(hay) - Len(needle) + 1
    PROVE  (SubSeq(hay, k, k + Len(needle) - 1) = needle) <=> At(hay, needle, k)
<1> DEFINE n == Len(needle)
           s == SubSeq(hay, k, k + n - 1)
<1>1. n \in Nat /\ Len(hay) \in Nat
  OBVIOUS
<1>2. \A i \in k..(k + n - 1) : hay[i] \in Letters
  BY <1>1
<1>3. k + n - 1 \in Int
  BY <1>1
<1>4. /\ s \in Seq(Letters)
      /\ Len(s) = IF k <= k + n - 1 THEN k + n - 1 - k + 1 ELSE 0
      /\ \A i \in 1..(k + n - 1 - k + 1) : s[i] = hay[k + i - 1]
  BY <1>2, <1>3, SubSeqProperties
<1>5. Len(s) = n /\ \A i \in 1..n : s[i] = hay[k + i - 1]
  BY <1>1, <1>4
<1>6. k + n - 1 <= Len(hay)
  BY <1>1
<1>7. ASSUME s = needle PROVE At(hay, needle, k)
  BY <1>5, <1>6, <1>7 DEF At
<1>8. ASSUME At(hay, needle, k) PROVE s = needle
  <2>1. \A i \in 1..Len(s) : s[i] = needle[i]
    BY <1>5, <1>8 DEF At
  <2> QED BY <1>4, <1>5, <2>1, SeqEqual
<1> QED BY <1>7, <1>8

\* An occurrence begins with the first letter, so the loop misses none.
LEMMA RoundIs ==
    ASSUME NEW hay \in Seq(Letters), NEW needle \in Seq(Letters), Len(needle) > 0,
           NEW start \in 1..(Len(hay) + 1), NEW f,
           \A k \in (start + 1)..(Len(hay) + 1) : f[k] = From(hay, needle, k)
    PROVE  Round(f, hay, needle, start) = From(hay, needle, start)
<1> DEFINE n == Len(needle)
           F == Firsts(hay, needle, start)
           i == Min(F)
<1>1. n \in Nat /\ Len(hay) \in Nat /\ F \subseteq Nat
  BY DEF Firsts
<1>2. \A k \in start..Len(hay) : At(hay, needle, k) => k \in F /\ k + n - 1 <= Len(hay)
  <2> TAKE k \in start..Len(hay)
  <2> HAVE At(hay, needle, k)
  <2>1. hay[k + 1 - 1] = needle[1] /\ k + n - 1 <= Len(hay)
    BY <1>1 DEF At
  <2> QED BY <1>1, <2>1 DEF Firsts
<1>3. CASE F = {}
  <2>1. ~ From(hay, needle, start)
    BY <1>2, <1>3 DEF From
  <2>2. ~ Round(f, hay, needle, start)
    BY <1>3 DEF Round
  <2> QED BY <2>1, <2>2 DEF Round, From
<1>4. CASE F # {}
  <2>1. /\ i \in start..Len(hay)
        /\ \A k \in start..Len(hay) : At(hay, needle, k) => i <= k
    <3>1. i \in F /\ \A y \in F : i <= y
      BY <1>1, <1>4, MinIs
    <3> QED BY <1>2, <3>1 DEF Firsts
  <2> HIDE DEF i
  <2>2. CASE i <= Len(hay) - n + 1
    <3>1. (SubSeq(hay, i, i + n - 1) = needle) <=> At(hay, needle, i)
      BY <2>1, <2>2, SliceIs
    <3>2. f[i + 1] <=> \E k \in (i + 1)..Len(hay) : At(hay, needle, k)
      <4>1. i + 1 \in (start + 1)..(Len(hay) + 1)
        BY <1>1, <2>1
      <4>2. f[i + 1] = From(hay, needle, i + 1)
        BY <4>1
      <4> QED BY <4>2 DEF From
    <3>3. From(hay, needle, start)
             <=> At(hay, needle, i) \/ \E k \in (i + 1)..Len(hay) : At(hay, needle, k)
      <4>1. ASSUME NEW k \in start..Len(hay), At(hay, needle, k), k # i
            PROVE  k \in (i + 1)..Len(hay)
        BY <1>1, <2>1, <4>1
      <4>2. (i + 1)..Len(hay) \subseteq start..Len(hay)
        BY <1>1, <2>1
      <4> QED BY <2>1, <4>1, <4>2 DEF From
    <3>4. Round(f, hay, needle, start)
             <=> (SubSeq(hay, i, i + n - 1) = needle) \/ f[i + 1]
      BY <1>4, <2>2 DEF Round, i
    <3>5. Round(f, hay, needle, start) <=> From(hay, needle, start)
      BY <3>1, <3>2, <3>3, <3>4
    <3> QED BY <3>5 DEF Round, From
  <2>3. CASE ~ (i <= Len(hay) - n + 1)
    <3>1. ~ From(hay, needle, start)
      <4> SUFFICES ASSUME NEW k \in start..Len(hay), At(hay, needle, k) PROVE FALSE
        BY DEF From
      <4> QED BY <1>1, <1>2, <2>1, <2>3
    <3>2. ~ Round(f, hay, needle, start)
      BY <1>4, <2>3 DEF Round, i
    <3> QED BY <3>1, <3>2 DEF Round, From
  <2> QED BY <2>2, <2>3
<1> QED BY <1>3, <1>4

\* The scan finds a needle exactly when it stands somewhere in the text.
THEOREM MemmemExact ==
    ASSUME NEW hay \in Seq(Letters), NEW needle \in Seq(Letters), Len(needle) > 0
    PROVE  Memmem(hay, needle) <=> From(hay, needle, 1)
<1> DEFINE D == 1..(Len(hay) + 1)
           ref == [start \in D |-> From(hay, needle, start)]
           f == CHOOSE f : f = [start \in D |-> Round(f, hay, needle, start)]
<1>1. Len(hay) \in Nat
  OBVIOUS
<1>2. ref = [start \in D |-> Round(ref, hay, needle, start)]
  <2>1. ASSUME NEW start \in D
        PROVE  Round(ref, hay, needle, start) = From(hay, needle, start)
    <3>1. \A k \in (start + 1)..(Len(hay) + 1) : ref[k] = From(hay, needle, k)
      BY <1>1
    <3> HIDE DEF ref
    <3> QED BY <3>1, RoundIs
  <2> QED BY <2>1
<1>3. f = [start \in D |-> Round(f, hay, needle, start)]
  <2> HIDE DEF ref
  <2> QED BY <1>2
<1> DEFINE Q == {d \in Nat : \A k \in D : k + d >= Len(hay) + 1 => f[k] = From(hay, needle, k)}
<1> HIDE DEF f
<1>4. ASSUME NEW start \in D,
             \A k \in (start + 1)..(Len(hay) + 1) : f[k] = From(hay, needle, k)
      PROVE  f[start] = From(hay, needle, start)
  <2>1. Round(f, hay, needle, start) = From(hay, needle, start)
    BY <1>4, RoundIs
  <2> QED BY <1>3, <2>1
<1>5. 0 \in Q
  <2> SUFFICES ASSUME NEW k \in D, k >= Len(hay) + 1 PROVE f[k] = From(hay, needle, k)
    BY <1>1
  <2> QED BY <1>1, <1>4
<1>6. ASSUME NEW d \in Nat, d \in Q PROVE d + 1 \in Q
  <2> SUFFICES ASSUME NEW k \in D, k + (d + 1) >= Len(hay) + 1
               PROVE  f[k] = From(hay, needle, k)
    OBVIOUS
  <2>1. \A j \in (k + 1)..(Len(hay) + 1) : j \in D /\ j + d >= Len(hay) + 1
    BY <1>1
  <2>2. \A j \in D : j + d >= Len(hay) + 1 => f[j] = From(hay, needle, j)
    BY <1>6
  <2>3. \A j \in (k + 1)..(Len(hay) + 1) : f[j] = From(hay, needle, j)
    BY <2>1, <2>2
  <2> QED BY <1>4, <2>3
<1>7. Len(hay) \in Q
  <2> HIDE DEF Q
  <2> QED BY <1>1, <1>5, <1>6, NatSetInduction
<1>8. f[1] = From(hay, needle, 1)
  BY <1>1, <1>7
<1>9. Memmem(hay, needle) <=> f[1]
  BY DEF Memmem, f, Round, Firsts
<1> QED BY <1>8, <1>9
-----------------------------------------------------------------------------
(* What an index finds.                                                    *)

\* The names of an arena are texts; so are the normalized ones, and queries.
LEMMA LowerCaseIs ==
    ASSUME NEW t \in Seq(Letters)
    PROVE  /\ IsQuery(LowerCase(t))
           /\ Len(LowerCase(t)) = Len(t)
           /\ \A k \in 1..Len(t) : LowerCase(t)[k] = Lower[t[k]]
<1> DEFINE n == Len(t)
           e(k) == Lower[t[k]]
<1>1. DOMAIN t = 1..n /\ n \in Nat /\ \A k \in 1..n : t[k] \in Letters
  OBVIOUS
<1>2. \A k \in 1..n : e(k) \in Letters /\ Lower[e(k)] = e(k)
  BY <1>1, SearchAssumption
<1>3. LowerCase(t) = [k \in 1..n |-> e(k)]
  BY <1>1 DEF LowerCase
<1>4. [k \in 1..n |-> e(k)] \in Seq(Letters)
  <2> HIDE DEF e
  <2> QED BY <1>1, <1>2, IsASeq
<1>5. Len(LowerCase(t)) = n
  BY <1>1, <1>3, <1>4
<1> QED
  BY <1>2, <1>3, <1>4, <1>5 DEF IsQuery

\* A normalized name has the letters of the name, each as it is or in lower case.
LEMMA NormalizeIs ==
    ASSUME NEW t \in Seq(Letters)
    PROVE  /\ Normalize(t) \in Seq(Letters)
           /\ Len(Normalize(t)) = Len(t)
           /\ \A k \in 1..Len(t) : Lower[Normalize(t)[k]] = Lower[t[k]]
<1>1. \A k \in 1..Len(t) : t[k] \in Letters
  OBVIOUS
<1>2. \A k \in 1..Len(t) : Lower[Lower[t[k]]] = Lower[t[k]]
  BY <1>1, SearchAssumption
<1>3. CASE Normalize(t) = t
  BY <1>3
<1>4. CASE Normalize(t) = LowerCase(t)
  BY <1>2, <1>4, LowerCaseIs DEF IsQuery
<1> QED BY <1>3, <1>4 DEF Normalize

\* A query that grew is found at most where the shorter one was.
LEMMA ExtensionNarrows ==
    ASSUME NEW hay \in Seq(Letters), NEW q1 \in Seq(Letters), NEW q2 \in Seq(Letters),
           Len(q1) > 0, IsPrefix(q1, q2), Memmem(hay, q2)
    PROVE  Memmem(hay, q1)
<1>1. Len(q1) <= Len(q2) /\ Len(q1) \in Nat /\ Len(q2) \in Nat /\ Len(q2) > 0
  BY DEF IsPrefix
<1>2. \A i \in 1..Len(q1) : q1[i] = q2[i]
  <2>1. SubSeq(q1, 1, Len(q1)) = SubSeq(q2, 1, Len(q1))
    BY DEF IsPrefix
  <2>2. \A i \in 1..Len(q1) : q1[i] \in Letters /\ q2[i] \in Letters
    BY <1>1
  <2>3. \A i \in 1..(Len(q1) - 1 + 1) : SubSeq(q1, 1, Len(q1))[i] = q1[1 + i - 1]
    BY <1>1, <2>2, SubSeqProperties
  <2>4. \A i \in 1..(Len(q1) - 1 + 1) : SubSeq(q2, 1, Len(q1))[i] = q2[1 + i - 1]
    BY <1>1, <2>2, SubSeqProperties
  <2> QED BY <1>1, <2>1, <2>3, <2>4
<1>3. From(hay, q2, 1)
  BY <1>1, MemmemExact
<1>4. From(hay, q1, 1)
  <2>1. \A k \in 1..Len(hay) : At(hay, q2, k) => At(hay, q1, k)
    BY <1>1, <1>2 DEF At
  <2> QED BY <1>3, <2>1 DEF From
<1> QED
  BY <1>4, MemmemExact

\* What an arena contains.
LEMMA ArenaNames ==
    ASSUME models \in Seq(Arenas), NEW m \in 1..Len(models)
    PROVE  \A k \in DOMAIN models[m] : /\ models[m][k] \in Seq(Letters)
                                       /\ Names(m)[k] = Normalize(models[m][k])
<1>1. models[m] \in Seq(Seq(Letters))
  BY SearchAssumption
<1> QED BY <1>1 DEF Names

\* Where the query stands in a name, it is spelled there, whatever the case.
LEMMA SpellsIs ==
    ASSUME NEW name \in Seq(Letters), NEW q, IsQuery(q), Len(q) > 0,
           NEW hay \in Seq(Letters), Len(hay) = Len(name),
           \A k \in 1..Len(name) : Lower[hay[k]] = Lower[name[k]]
    PROVE  /\ Memmem(hay, q) => Spells(name, q)
           /\ hay = LowerCase(name) /\ Spells(name, q) => Memmem(hay, q)
<1>1. /\ q \in Seq(Letters) /\ Len(q) \in Nat /\ Len(name) \in Nat
      /\ \A i \in 1..Len(q) : Lower[q[i]] = q[i]
      /\ DOMAIN q = 1..Len(q)
  BY DEF IsQuery
<1>2. Memmem(hay, q) <=> From(hay, q, 1)
  BY <1>1, MemmemExact
<1>3. ASSUME NEW k \in 1..Len(hay), At(hay, q, k)
      PROVE  Spells(name, q)
  <2>1. k - 1 \in 0..(Len(name) - Len(q))
    BY <1>1, <1>3 DEF At
  <2>2. \A i \in 1..Len(q) : Lower[name[k - 1 + i]] = q[i]
    <3> TAKE i \in 1..Len(q)
    <3>1. k + i - 1 \in 1..Len(name) /\ k - 1 + i = k + i - 1
      BY <1>1, <1>3 DEF At
    <3>2. Lower[hay[k + i - 1]] = q[i]
      BY <1>1, <1>3 DEF At
    <3>3. Lower[name[k + i - 1]] = q[i]
      BY <3>1, <3>2
    <3> QED BY <3>1, <3>3
  <2> QED BY <1>1, <2>1, <2>2 DEF Spells
<1>4. ASSUME hay = LowerCase(name), Spells(name, q)
      PROVE  From(hay, q, 1)
  <2>1. PICK k \in 0..(Len(name) - Len(q)) : \A i \in 1..Len(q) : Lower[name[k + i]] = q[i]
    BY <1>1, <1>4 DEF Spells
  <2>2. k + 1 \in 1..Len(hay)
    BY <1>1
  <2>3. At(hay, q, k + 1)
    <3>1. k + 1 + Len(q) - 1 <= Len(hay)
      BY <1>1
    <3>2. ASSUME NEW i \in 1..Len(q) PROVE hay[k + 1 + i - 1] = q[i]
      <4>1. k + i \in 1..Len(name) /\ k + 1 + i - 1 = k + i
        BY <1>1
      <4>2. hay[k + i] = Lower[name[k + i]]
        BY <1>4, <4>1, LowerCaseIs
      <4> QED BY <2>1, <4>1, <4>2
    <3> QED BY <3>1, <3>2 DEF At
  <2> QED BY <2>2, <2>3 DEF From
<1> QED BY <1>2, <1>3, <1>4 DEF From

\* A full pass finds nothing but nodes whose name has the query, and all of those
\* whose name was folded when the index was built.
LEMMA FindIs ==
    ASSUME models \in Seq(Arenas), NEW m \in 1..Len(models),
           NEW q, IsQuery(q), q # <<>>
    PROVE  /\ Find(m, q) \subseteq Matches(m, q)
           /\ Matches(m, q) \ Unfolded(m) \subseteq Find(m, q)
<1>1. q \in Seq(Letters) /\ Len(q) > 0
  BY DEF IsQuery
<1>2. ASSUME NEW k \in DOMAIN models[m]
      PROVE  /\ Memmem(Names(m)[k], q) => Spells(models[m][k], q)
             /\ /\ LowerCase(models[m][k]) = Normalize(models[m][k])
                /\ Spells(models[m][k], q)
                => Memmem(Names(m)[k], q)
  <2> DEFINE name == models[m][k]
             hay == Normalize(name)
  <2>1. name \in Seq(Letters) /\ Names(m)[k] = hay
    BY ArenaNames
  <2> HIDE DEF name
  <2>2. /\ hay \in Seq(Letters) /\ Len(hay) = Len(name)
        /\ \A i \in 1..Len(name) : Lower[hay[i]] = Lower[name[i]]
    BY <2>1, NormalizeIs
  <2> HIDE DEF hay
  <2>3. /\ Memmem(hay, q) => Spells(name, q)
        /\ hay = LowerCase(name) /\ Spells(name, q) => Memmem(hay, q)
    BY <1>1, <2>1, <2>2, SpellsIs
  <2> QED BY <2>1, <2>3 DEF name, hay
<1> QED
  BY <1>2 DEF Find, Matches, Unfolded
-----------------------------------------------------------------------------
(* The steps.                                                              *)

\* A search that grew a settled result narrows it to what a full pass finds.
LEMMA RefineIs ==
    ASSUME models \in Seq(Arenas), NEW m \in 1..Len(models),
           NEW q1, IsQuery(q1), q1 # <<>>, NEW q2, IsQuery(q2), q2 # <<>>,
           NEW R, R \subseteq DOMAIN models[m]
    PROVE  /\ Refine(m, R, q2) \subseteq R
           /\ Refine(m, R, q2) \subseteq Find(m, q2)
           /\ IsPrefix(q1, q2) /\ Find(m, q1) \subseteq R => Find(m, q2) \subseteq Refine(m, R, q2)
<1>1. Refine(m, R, q2) \subseteq R /\ Refine(m, R, q2) \subseteq Find(m, q2)
  BY DEF Refine, Find
<1>2. ASSUME IsPrefix(q1, q2), Find(m, q1) \subseteq R, NEW k \in Find(m, q2)
      PROVE  k \in Refine(m, R, q2)
  <2>1. k \in DOMAIN models[m] /\ Memmem(Names(m)[k], q2)
    BY <1>2 DEF Find
  <2>2. Names(m)[k] \in Seq(Letters)
    <3>1. models[m][k] \in Seq(Letters) /\ Names(m)[k] = Normalize(models[m][k])
      BY <2>1, ArenaNames
    <3> QED BY <3>1, NormalizeIs
  <2>3. q1 \in Seq(Letters) /\ q2 \in Seq(Letters) /\ Len(q1) > 0
    BY DEF IsQuery
  <2>4. Memmem(Names(m)[k], q1)
    BY <1>2, <2>1, <2>2, <2>3, ExtensionNarrows
  <2> QED BY <1>2, <2>1, <2>4 DEF Find, Refine
<1> QED BY <1>1, <1>2

\* A search of any text with any index keeps the invariant, if an index of an
\* earlier model is recorded as such.
LEMMA RunSearchKeeps ==
    ASSUME SearchInv, NEW text \in Seq(Letters), NEW ix \in 0..Len(models),
           RunSearch(text, ix),
           models' = models, shown' = shown, index' = ix, input' = text,
           builds' \subseteq builds, mixed' \in BOOLEAN,
           ~ mixed' => ~ mixed /\ (ix # 0 => ix = Len(models))
    PROVE  SearchInv'
<1> DEFINE query == LowerCase(text)
           extends == active # <<>> /\ IsPrefix(active, query) /\ results # {}
           Clears == /\ query = <<>> /\ ClearSearch(1) /\ hurried' = FALSE
                     /\ UNCHANGED <<passes, status>>
           Grows == /\ query # <<>> /\ extends
                    /\ generation' = generation + 1 /\ active' = query
                    /\ hurried' = (hurried \/ InFlight)
                    /\ results' = IF ix = 0 \/ RefinePanics(ix, results) THEN {}
                                  ELSE Refine(ix, results, query)
                    /\ status' = IF ix # 0 /\ RefinePanics(ix, results) THEN "crashed"
                                 ELSE status
                    /\ UNCHANGED passes
           Turns == /\ query # <<>> /\ ~ extends
                    /\ active' = query /\ generation' = generation + 1 /\ hurried' = FALSE
                    /\ IF ix = 0 THEN results' = {} /\ UNCHANGED passes
                       ELSE /\ passes' = passes \union
                               {[generation |-> generation + 1, query |-> query, index |-> ix]}
                            /\ UNCHANGED results
                    /\ UNCHANGED status
<1>1. Clears \/ Grows \/ Turns
  BY DEF RunSearch
<1>2. IsQuery(query) /\ (text = <<>> => query = <<>>)
  BY LowerCaseIs DEF IsQuery
<1> HIDE DEF query, extends, Clears, Grows, Turns
<1>3. SearchTypes /\ PassesOK /\ (~ mixed => ResultsOK)
  BY DEF SearchInv
<1>4. generation' = generation + 1
  BY <1>1 DEF Clears, Grows, Turns, ClearSearch
<1>5. IsQuery(active') /\ (input' = <<>> => active' = <<>>)
  BY <1>1, <1>2 DEF Clears, Grows, Turns, ClearSearch, IsQuery
<1>6. SearchTypes'
  <2>1. hurried' \in BOOLEAN
    BY <1>1, <1>3 DEF Clears, Grows, Turns, SearchTypes
  <2>2. IsQuery(active)'
    BY <1>5 DEF IsQuery
  <2> QED BY <1>3, <1>4, <2>1, <2>2 DEF SearchTypes
<1>7. PassesOK'
  <2>1. active' = <<>> \/ index' = 0 => results' = {}
    BY <1>1, <1>3 DEF Clears, Grows, Turns, ClearSearch
  <2>2. CASE passes' = passes
    BY <1>3, <1>4, <1>5, <2>1, <2>2 DEF PassesOK, SearchTypes
  <2>3. CASE /\ query # <<>> /\ active' = query /\ ix # 0
             /\ passes' = passes \union
                    {[generation |-> generation + 1, query |-> query, index |-> ix]}
    <3> DEFINE new == [generation |-> generation + 1, query |-> query, index |-> ix]
    <3>1. \A p \in passes : p.generation \in Nat /\ p.generation <= generation
      BY <1>3 DEF PassesOK
    <3>2. generation \in Nat
      BY <1>3 DEF SearchTypes
    <3>3. \A p \in passes' : p = new \/ (p.generation \in Nat /\ p.generation <= generation)
      BY <2>3, <3>1
    <3>4. new.generation = generation + 1 /\ new.query = query /\ new.index = ix
      OBVIOUS
    <3> HIDE DEF new
    <3> QED BY <1>4, <1>5, <2>1, <2>3, <3>2, <3>3, <3>4 DEF PassesOK
  <2> QED BY <1>1, <2>2, <2>3 DEF Clears, Grows, Turns
<1>8. ASSUME ~ mixed' PROVE ResultsOK'
  <2>1. ResultsOK /\ (ix # 0 => ix = Len(models))
    BY <1>3, <1>8
  <2>2. Find(index, active)' = Find(ix, active')
    BY DEF Find, Names
  <2>3. CASE Clears
    BY <2>1, <2>3 DEF Clears, ClearSearch, ResultsOK
  <2>4. CASE Turns
    <3>1. CASE ix = 0
      BY <2>1, <2>4, <3>1 DEF Turns, ResultsOK
    <3>2. CASE ix # 0
      <4>1. results' \subseteq DOMAIN models[ix]
        <5>1. CASE index = 0
          BY <1>3, <2>4, <3>2, <5>1 DEF Turns, PassesOK
        <5>2. CASE index # 0
          BY <2>1, <2>4, <3>2, <5>2 DEF Turns, ResultsOK
        <5> QED BY <5>1, <5>2
      <4>2. InFlight'
        <5> DEFINE new == [generation |-> generation + 1, query |-> query, index |-> ix]
        <5>1. new \in passes' /\ new.generation = generation'
          BY <1>4, <2>4, <3>2 DEF Turns
        <5> QED BY <5>1 DEF InFlight
      <4> QED BY <2>1, <2>4, <4>1, <4>2 DEF Turns, ResultsOK
    <3> QED BY <3>1, <3>2
  <2>5. CASE Grows
    <3>1. index # 0 /\ active # <<>> /\ IsQuery(active)
      BY <1>3, <2>5 DEF Grows, extends, PassesOK, SearchTypes
    <3>2. CASE ix = 0
      BY <2>1, <2>5, <3>2 DEF Grows, ResultsOK
    <3>3. CASE ix # 0
      <4>1. index = ix /\ ix \in 1..Len(models) /\ results \subseteq DOMAIN models[ix]
        BY <2>1, <3>1, <3>3 DEF ResultsOK
      <4>2. ~ RefinePanics(ix, results)
        BY <4>1 DEF RefinePanics
      <4>3. results' = Refine(ix, results, query) /\ status' = "running"
        BY <2>1, <2>5, <3>3, <4>2 DEF Grows, ResultsOK
      <4>4. models \in Seq(Arenas) /\ active' = query /\ query # <<>> /\ IsPrefix(active, query)
        BY <1>3, <2>5 DEF Grows, extends, SearchTypes
      <4>5. /\ results' \subseteq results
            /\ results' \subseteq Find(ix, query)
            /\ Find(ix, active) \subseteq results => Find(ix, query) \subseteq results'
        BY <1>2, <3>1, <4>1, <4>3, <4>4, RefineIs
      <4>6. ~ hurried' => Find(ix, active) \subseteq results
        BY <2>1, <2>5, <3>1, <4>1 DEF Grows, ResultsOK
      <4> QED BY <2>1, <2>2, <4>1, <4>3, <4>4, <4>5, <4>6 DEF ResultsOK
    <3> QED BY <3>2, <3>3
  <2> QED BY <1>1, <2>3, <2>4, <2>5
<1> QED BY <1>6, <1>7, <1>8 DEF SearchInv

\* Clearing drops the query, the results and whatever answer is in flight.
LEMMA ClearKeeps ==
    ASSUME SearchInv, NEW bumps \in Nat \ {0}, ClearSearch(bumps), passes' = passes,
           models' \in Seq(Arenas), Len(models') >= Len(models),
           index' \in {0, index}, shown' \in BOOLEAN, shown' => Len(models') > 0,
           builds' \subseteq 1..Len(models'), input' \in Seq(Letters),
           hurried' \in BOOLEAN, mixed' \in BOOLEAN,
           ~ mixed' => /\ status' = "running"
                       /\ index' # 0 => ~ mixed /\ models' = models
    PROVE  SearchInv'
<1>1. SearchTypes /\ PassesOK /\ (~ mixed => ResultsOK)
  BY DEF SearchInv
<1>2. results' = {} /\ active' = <<>> /\ generation' = generation + bumps
  BY DEF ClearSearch
<1>3. SearchTypes'
  <2>1. IsQuery(active)'
    BY <1>2 DEF IsQuery
  <2>2. index' \in 0..Len(models')
    BY <1>1 DEF SearchTypes
  <2> QED BY <1>1, <1>2, <2>1, <2>2 DEF SearchTypes
<1>4. PassesOK'
  <2>1. \A p \in passes' : p.generation \in Nat /\ p.generation < generation'
    BY <1>1, <1>2 DEF PassesOK, SearchTypes
  <2>2. generation' \in Nat
    BY <1>3 DEF SearchTypes
  <2> QED BY <1>2, <2>1, <2>2 DEF PassesOK
<1>5. ASSUME ~ mixed' PROVE ResultsOK'
  BY <1>1, <1>2, <1>5 DEF ResultsOK
<1> QED BY <1>3, <1>4, <1>5 DEF SearchInv

\* An answer is taken when it is the latest, and then it is the last awaited.
LEMMA AnswerKeeps ==
    ASSUME SearchInv, NEW p, Answer(p)
    PROVE  SearchInv'
<1>1. SearchTypes /\ PassesOK /\ (~ mixed => ResultsOK)
  BY DEF SearchInv
<1>2. /\ p \in passes /\ passes' = passes \ {p} /\ status' = status
      /\ models' = models /\ shown' = shown /\ index' = index /\ active' = active
      /\ generation' = generation /\ hurried' = hurried /\ mixed' = mixed
      /\ input' = input /\ builds' = builds
      /\ results' = IF p.generation = generation THEN Find(p.index, p.query) ELSE results
  BY DEF Answer, scanVars, history
<1>3. SearchTypes'
  BY <1>1, <1>2 DEF SearchTypes, IsQuery
<1>4. Find(index, active)' = Find(index, active)
  BY <1>2 DEF Find, Names
<1>5. CASE p.generation = generation
  <2>1. p.query = active /\ active # <<>> /\ p.index = index /\ index # 0
    BY <1>1, <1>2, <1>5 DEF PassesOK
  <2>2. results' = Find(index, active)
    BY <1>2, <1>5, <2>1
  <2>3. PassesOK'
    BY <1>1, <1>2, <2>1 DEF PassesOK
  <2>4. Find(index, active) \subseteq DOMAIN models[index]
    BY DEF Find
  <2>5. ~ mixed' => ResultsOK'
    BY <1>1, <1>2, <1>4, <2>2, <2>4 DEF ResultsOK
  <2> QED BY <1>3, <2>3, <2>5 DEF SearchInv
<1>6. CASE p.generation # generation
  <2>1. results' = results /\ (InFlight' <=> InFlight)
    BY <1>2, <1>6 DEF InFlight
  <2>2. PassesOK'
    BY <1>1, <1>2, <2>1 DEF PassesOK
  <2>3. ~ mixed' => ResultsOK'
    BY <1>1, <1>2, <1>4, <2>1 DEF ResultsOK
  <2> QED BY <1>3, <2>2, <2>3 DEF SearchInv
<1> QED BY <1>5, <1>6

\* What a step does that touches neither the index nor what was searched.
LEMMA IdleKeeps ==
    ASSUME SearchInv, models' = models, index' = index, active' = active,
           results' = results, generation' = generation, passes' = passes,
           input' = input, builds' = builds, hurried' = hurried, mixed' = mixed,
           shown' \in {shown, FALSE}, ~ mixed => status' = status
    PROVE  SearchInv'
<1>1. SearchTypes /\ PassesOK /\ (~ mixed => ResultsOK)
  BY DEF SearchInv
<1>2. SearchTypes'
  <2>1. IsQuery(active)'
    BY <1>1 DEF SearchTypes, IsQuery
  <2>2. CASE shown' = shown
    BY <1>1, <2>1, <2>2 DEF SearchTypes
  <2>3. CASE shown' = FALSE
    BY <1>1, <2>1, <2>3 DEF SearchTypes
  <2> QED BY <2>2, <2>3
<1>3. PassesOK'
  BY <1>1 DEF PassesOK
<1>4. Find(index, active)' = Find(index, active) /\ (InFlight' <=> InFlight)
  BY DEF Find, Names, InFlight
<1>5. ~ mixed' => ResultsOK'
  BY <1>1, <1>4 DEF ResultsOK
<1> QED BY <1>2, <1>3, <1>5 DEF SearchInv

\* The invariant holds when the window opens.
LEMMA SearchStarts == Init => SearchInv
<1> SUFFICES ASSUME Init PROVE SearchInv
  OBVIOUS
<1>1. SearchTypes
  <2>1. IsQuery(active) /\ input \in Seq(Letters)
    BY DEF Init, IsQuery
  <2>2. models \in Seq(Arenas) /\ Len(models) = 0
    BY DEF Init
  <2>3. index \in 0..Len(models) /\ builds \subseteq 1..Len(models)
    BY <2>2 DEF Init
  <2>4. shown = FALSE /\ hurried = FALSE /\ mixed = FALSE /\ generation = 0
    BY DEF Init
  <2> QED BY <2>1, <2>2, <2>3, <2>4 DEF SearchTypes
<1>2. PassesOK
  BY DEF Init, PassesOK
<1>3. ResultsOK
  BY DEF Init, ResultsOK
<1> QED BY <1>1, <1>2, <1>3 DEF SearchInv

\* Every step of the search keeps the invariant.
LEMMA SearchSteps == SearchInv /\ [Next]_vars => SearchInv'
<1> SUFFICES ASSUME SearchInv, [Next]_vars PROVE SearchInv'
  OBVIOUS
<1>1. SearchTypes /\ PassesOK /\ (~ mixed => ResultsOK)
  BY DEF SearchInv
<1>2. CASE StartScan
  BY <1>2, IdleKeeps DEF StartScan, history
<1>3. CASE ScanFails
  BY <1>3, IdleKeeps DEF ScanFails, history
<1>4. CASE FramePanics
  <2>1. mixed
    <3> SUFFICES ASSUME ~ mixed PROVE FALSE
      OBVIOUS
    <3>1. results # {} /\ Len(models) > 0 /\ ~ results \subseteq DOMAIN models[Len(models)]
      BY <1>1, <1>4 DEF FramePanics, ShowsRows, Last, SearchTypes
    <3>2. index # 0
      BY <1>1, <3>1 DEF PassesOK
    <3> QED BY <1>1, <3>1, <3>2 DEF ResultsOK
  <2> QED BY <1>4, <2>1, IdleKeeps DEF FramePanics, scanVars, history
<1>5. ASSUME NEW arena \in Arenas, FinishScan(arena) PROVE SearchInv'
  <2>1. /\ models \in Seq(Arenas) /\ builds \subseteq 1..Len(models)
    BY <1>1 DEF SearchTypes
  <2>2. /\ models' \in Seq(Arenas) /\ Len(models') = Len(models) + 1
    BY <1>5, <2>1, AppendProperties DEF FinishScan
  <2>3. builds' \subseteq 1..Len(models')
    <3>1. builds' = builds \union {Len(models) + 1} /\ Len(models) \in Nat
      BY <1>5, <2>1 DEF FinishScan
    <3> DEFINE n == Len(models)
               n2 == Len(models')
    <3>2. n \in Nat /\ n2 = n + 1 /\ builds \subseteq 1..n /\ builds' = builds \union {n + 1}
      BY <2>1, <2>2, <3>1
    <3> HIDE DEF n, n2
    <3>3. builds' \subseteq 1..n2
      BY <3>2
    <3> QED BY <3>3 DEF n2
  <2>4. /\ ClearSearch(2) /\ passes' = passes /\ index' = 0 /\ shown' = TRUE
        /\ hurried' = FALSE /\ mixed' = FALSE /\ input' = input /\ status' = "running"
    BY <1>5 DEF FinishScan
  <2>5. input \in Seq(Letters) /\ Len(models) \in Nat
    BY <1>1 DEF SearchTypes
  <2>6. /\ 2 \in Nat \ {0} /\ Len(models') >= Len(models) /\ index' \in {0, index}
        /\ shown' \in BOOLEAN /\ (shown' => Len(models') > 0)
        /\ input' \in Seq(Letters) /\ hurried' \in BOOLEAN /\ mixed' \in BOOLEAN
        /\ ~ mixed' => status' = "running" /\ (index' # 0 => ~ mixed /\ models' = models)
    <3>1. 2 \in Nat \ {0} /\ Len(models') >= Len(models) /\ Len(models') > 0
      BY <2>2, <2>5
    <3> QED BY <2>4, <2>5, <3>1, Zenon
  <2> QED BY <2>2, <2>3, <2>4, <2>6, ClearKeeps
<1>6. ASSUME NEW text \in Texts, Type(text) PROVE SearchInv'
  <2>1. text \in Seq(Letters)
    BY SearchAssumption
  <2>2. /\ RunSearch(text, index) /\ models' = models /\ shown' = shown /\ index' = index
        /\ input' = text /\ builds' = builds /\ mixed' = mixed
    BY <1>6 DEF Type, scanVars
  <2>3. /\ index \in 0..Len(models) /\ mixed \in BOOLEAN
        /\ ~ mixed => (index # 0 => index = Len(models))
    BY <1>1 DEF SearchTypes, ResultsOK
  <2> QED BY <2>1, <2>2, <2>3, RunSearchKeeps
<1>7. ASSUME NEW m \in builds, IndexBuilt(m) PROVE SearchInv'
  <2>1. /\ m \in 0..Len(models) /\ m # 0 /\ mixed \in BOOLEAN /\ input \in Seq(Letters)
        /\ models \in Seq(Arenas)
    BY <1>1 DEF SearchTypes
  <2>2. /\ models' = models /\ shown' = shown /\ index' = m /\ input' = input
        /\ builds' = builds \ {m} /\ mixed' = (mixed \/ m # Len(models))
    BY <1>7 DEF IndexBuilt, scanVars
  <2>3. CASE RunSearch(input, m)
    <3>1. builds' \subseteq builds /\ mixed' \in BOOLEAN
      BY <2>1, <2>2
    <3>2. ~ mixed' => ~ mixed /\ (m # 0 => m = Len(models))
      BY <2>2
    <3> QED BY <2>1, <2>2, <2>3, <3>1, <3>2, RunSearchKeeps
  <2>4. CASE input = <<>> /\ UNCHANGED <<active, results, generation, passes, hurried, status>>
    <3>1. active = <<>> /\ results = {} /\ \A p \in passes : p.generation < generation
      BY <1>1, <2>4 DEF PassesOK, SearchTypes
    <3>2. SearchTypes'
      BY <1>1, <2>1, <2>2, <2>4 DEF SearchTypes, IsQuery
    <3>3. PassesOK'
      BY <1>1, <2>2, <2>4, <3>1 DEF PassesOK, SearchTypes
    <3>4. ~ mixed' => ResultsOK'
      BY <1>1, <2>1, <2>2, <2>4, <3>1 DEF ResultsOK
    <3> QED BY <3>2, <3>3, <3>4 DEF SearchInv
  <2> QED BY <1>7, <2>3, <2>4 DEF IndexBuilt
<1>8. ASSUME NEW p \in passes, Answer(p) PROVE SearchInv'
  BY <1>8, AnswerKeeps
<1>9. ASSUME NEW n \in results, OpenSearchResult(n) PROVE SearchInv'
  <2>1. /\ ClearSearch(1) /\ passes' = passes /\ models' = models /\ index' = index
        /\ shown' = shown /\ builds' = builds /\ input' = <<>>
        /\ hurried' = FALSE /\ mixed' = mixed
        /\ status' = IF n \in DOMAIN Last(models) THEN status ELSE "crashed"
    BY <1>9 DEF OpenSearchResult, scanVars
  <2>2. ~ mixed => status' = "running"
    <3> SUFFICES ASSUME ~ mixed PROVE status' = "running"
      OBVIOUS
    <3>1. index # 0
      BY <1>1 DEF PassesOK
    <3> QED BY <1>1, <2>1, <3>1 DEF ResultsOK, Last
  <2>3. /\ models \in Seq(Arenas) /\ shown \in BOOLEAN /\ (shown => Len(models) > 0)
        /\ builds \subseteq 1..Len(models) /\ mixed \in BOOLEAN /\ <<>> \in Seq(Letters)
        /\ Len(models) \in Nat
    BY <1>1 DEF SearchTypes
  <2>4. /\ 1 \in Nat \ {0} /\ models' \in Seq(Arenas) /\ Len(models') >= Len(models)
        /\ index' \in {0, index} /\ builds' \subseteq 1..Len(models')
        /\ shown' \in BOOLEAN /\ (shown' => Len(models') > 0)
        /\ input' \in Seq(Letters) /\ hurried' \in BOOLEAN /\ mixed' \in BOOLEAN
        /\ ~ mixed' => status' = "running" /\ (index' # 0 => ~ mixed /\ models' = models)
    <3>1. 1 \in Nat \ {0} /\ Len(models') >= Len(models)
      BY <2>1, <2>3
    <3>2. index' \in {0, index} /\ hurried' \in BOOLEAN
      BY <2>1
    <3> QED BY <2>1, <2>2, <2>3, <3>1, <3>2, Zenon
  <2> QED BY <2>1, <2>4, ClearKeeps
<1>10. CASE UNCHANGED vars
  BY <1>10, IdleKeeps DEF vars, scanVars, history
<1> QED
  BY <1>2, <1>3, <1>4, <1>5, <1>6, <1>7, <1>8, <1>9, <1>10 DEF Next

\* The invariant of the protocol, in every reachable state.
THEOREM SearchInvariant == Spec => []SearchInv
<1>1. Init => SearchInv
  BY SearchStarts
<1>2. SearchInv /\ [Next]_vars => SearchInv'
  BY SearchSteps
<1> QED
  BY <1>1, <1>2, PTL DEF Spec

\* What is listed once the answers are in contains the query, and is a node of the
\* tree that is shown; no row or click leaves the arena.
THEOREM HitsAreTrue == Spec => []NoFalseHits
<1>1. SearchInv => NoFalseHits
  <2> SUFFICES ASSUME SearchInv, ~ mixed
               PROVE  /\ status = "running"
                      /\ shown => results \subseteq DOMAIN Last(models)
                      /\ Settled => results \subseteq Matches(Len(models), active)
    BY DEF NoFalseHits
  <2>1. SearchTypes /\ PassesOK /\ ResultsOK
    BY DEF SearchInv
  <2>2. shown => results \subseteq DOMAIN Last(models)
    BY <2>1 DEF PassesOK, ResultsOK, Last
  <2>3. ASSUME Settled PROVE results \subseteq Matches(Len(models), active)
    <3>1. /\ index = Len(models) /\ index \in 1..Len(models)
          /\ results \subseteq Find(index, active)
          /\ models \in Seq(Arenas) /\ IsQuery(active) /\ active # <<>>
      BY <2>1, <2>3 DEF SearchTypes, ResultsOK, Settled
    <3>2. Find(index, active) \subseteq Matches(index, active)
      BY <3>1, FindIs
    <3> QED BY <3>1, <3>2
  <2> QED BY <2>1, <2>2, <2>3 DEF ResultsOK
<1> QED
  BY <1>1, SearchInvariant, PTL

\* Nothing is missing from the list, although most lists are refined from
\* earlier ones and not searched for.
THEOREM HitsAreAll == Spec => []NoMissingHits
<1>1. SearchInv => NoMissingHits
  <2> SUFFICES ASSUME SearchInv, Settled, ~ mixed, ~ hurried
               PROVE  Matches(Len(models), active) \ Unfolded(Len(models)) \subseteq results
    BY DEF NoMissingHits
  <2>1. /\ index = Len(models) /\ index \in 1..Len(models) /\ Find(index, active) \subseteq results
        /\ models \in Seq(Arenas) /\ IsQuery(active) /\ active # <<>>
    BY DEF SearchInv, SearchTypes, ResultsOK, Settled
  <2>2. Matches(index, active) \ Unfolded(index) \subseteq Find(index, active)
    BY <2>1, FindIs
  <2> QED BY <2>1, <2>2
<1> QED
  BY <1>1, SearchInvariant, PTL
=============================================================================
