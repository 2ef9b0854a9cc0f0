---------------------------- MODULE Scanner_proofs ----------------------------
(***************************************************************************)
(* Proofs about module Scanner, for any file system, any number of workers *)
(* and any limits: the inductive invariant of a scan, and the properties   *)
(* that follow from it.                                                    *)
(*                                                                         *)
(* The argument: every entry that is not in the arena yet is claimed by at *)
(* most one job that is still to run (ClaimsOK), so that whoever inserts   *)
(* it, and whenever, inserts it once, under the node of its directory.     *)
(* The pool underneath is the one of WorkerPool_proofs.                    *)
(*                                                                         *)
(* The second half: every entry that a directory of the arena lists is in  *)
(* the arena, owed by a job that is still to run, or was counted as an     *)
(* error, unless jobs were dropped by a cancellation or a panic (Lossless).*)
(* When the pool has ended nothing is owed, so that an outcome sent as     *)
(* complete lacks nothing but what could not be read; and the counters,    *)
(* flushed or not, are those of the arena. The scan is then shown to       *)
(* implement the contract of module ScanContract, step by step.            *)
(***************************************************************************)
EXTENDS Scanner, ScanModel_proofs

Pool == INSTANCE WorkerPool_proofs WITH Jobs <- ScanJobs, RootJob <- DirJob(RootDir, 1)

-----------------------------------------------------------------------------
(* The invariant.                                                          *)

\* The scan is a pool until its outcome is sent, and nobody runs after that.
PoolOK ==
    /\ TypeOK
    /\ outcome.kind \in {"none", "failed", "completed"}
    /\ outcome.kind # "failed" => Pool!IInv
    /\ outcome.kind # "none" => pool = "joined" /\ \A w \in Workers : pc[w] \in EndedPC
    /\ outcome.kind = "completed" => panicMsg = "none"

LinkType == [node : 1..(Cardinality(Entries) + 1), id : {Identity(e) : e \in Entries}]
StateType == [counts : [files : Nat, dirs : Nat, bytes : Nat, errors : Nat],
              links : SUBSET LinkType, since : Nat]

\* Where the workers stand in process_job, and with what.
StagesOK ==
    /\ stage \in [Workers -> {"start", "listed", "insert", "queue", "end"}]
    /\ todo \in [Workers -> Seq(ScanJobs)]
    /\ batch \in [Workers -> [names : Seq(Entries), failed : SUBSET Entries]]
    /\ local \in [Workers -> StateType]
    /\ \A w \in Workers :
        /\ stage[w] # "start" => pc[w] \in {"process", "enqueue", "wake", "panicked"}
        /\ stage[w] \notin {"listed", "queue"} => todo[w] = <<>>
        /\ stage[w] \in {"listed", "insert"} => batch[w].names = NamesOf(job[w])

Todo == UNION {ToSet(todo[w]) : w \in Workers}
Ever == pushed \union Todo

InStage(j, stages) == \E w \in Workers : job[w] = j /\ stage[w] \in stages

\* The jobs that have not begun, and those that have not inserted yet.
Waiting == {j \in Ever : \/ j \in injector \union Todo
                         \/ \E w \in Workers : pushing[w] = j
                         \/ InStage(j, {"start"})}
Working == {j \in Ever : InStage(j, {"listed", "insert"})}
Active == Waiting \union Working

\* A job names the node of its directory, which is walked.
JobOK(j, t) ==
    /\ j.node \in DOMAIN t
    /\ t[j.node].entry = j.dir /\ t[j.node].kind = "dir"
    /\ Device[j.dir] = Device[RootDir]
    /\ j.kind = "dir" => j.from = 0

JobsOK == \A j \in Ever : JobOK(j, nodes)

\* No job is made twice.
TodoFresh ==
    \A w \in Workers :
        /\ ToSet(todo[w]) \intersect pushed = {}
        /\ NoRepeat(todo[w])
        /\ \A v \in Workers \ {w} : ToSet(todo[v]) \intersect ToSet(todo[w]) = {}

\* A directory that is not listed yet has no chunks.
Unspilled == \A j \in Waiting : j.kind = "dir" => \A k \in Ever : k.kind = "meta" => k.node # j.node

\* The entries that are for a job to insert.
Claim(j) ==
    IF j.kind = "dir" /\ j \in Waiting THEN ToSet(Listing[j.dir]) ELSE ToSet(NamesOf(j))

EntriesOf(t) == {t[i].entry : i \in DOMAIN t}

\* No two jobs are to insert the same entry, and none is to insert one again.
ClaimsOK ==
    /\ \A j, k \in Active : j # k => Claim(j) \intersect Claim(k) = {}
    /\ \A j \in Active : Claim(j) \intersect EntriesOf(nodes) = {}

\* An arena that mirrors the file system.
Mirrors(t) ==
    /\ IsArena(t, Entries \union {RootDir}) /\ t # <<>>
    /\ t[Root].entry = RootDir /\ t[Root].kind = "dir"
    /\ \A i, k \in DOMAIN t : i # k => t[i].entry # t[k].entry
    /\ \A i \in DOMAIN t \ {Root} :
        /\ t[i].entry \in Entries /\ t[i].kind = Kind[t[i].entry]
        /\ t[t[i].parent].kind = "dir"
        /\ t[i].entry \in ToSet(Listing[t[t[i].parent].entry])
        /\ Device[t[t[i].parent].entry] = Device[RootDir]
    /\ \A i \in DOMAIN t :
        /\ t[i].children = {c \in DOMAIN t : t[c].parent = i}
        /\ "tombstoned" \notin t[i].flags

\* The arena of a scan that is under way.
ArenaOK ==
    /\ Mirrors(nodes) /\ IsFresh(nodes, Entries \union {RootDir})
    /\ \A i \in DOMAIN nodes \ {Root} : nodes[i].own = OwnBytes(nodes[i].entry)

Scanning == ArenaOK /\ JobsOK /\ TodoFresh /\ Unspilled /\ ClaimsOK

Candidates == links \union UNION {local[w].links : w \in Workers}

\* The hard-link candidates among the nodes.
LinksOf(t) == {[node |-> i, id |-> Identity(t[i].entry)] :
                    i \in {n \in DOMAIN t : t[n].kind = "file" /\ t[n].entry \in MultiLink}}

LinksOK ==
    /\ links \subseteq LinkType
    /\ outcome.kind # "completed" => Candidates = LinksOf(nodes)
    /\ \A w \in Workers : pc[w] = "done" => local[w].links = {}

\* What is sent.
OutcomeOK ==
    outcome.kind = "completed" =>
        /\ Mirrors(outcome.nodes) /\ AggregatesExact(outcome.nodes) /\ LinksCountedOnce
        /\ Sized /\ nodes = <<>>

ScanInv ==
    /\ PoolOK
    /\ StagesOK
    /\ outcome.kind # "completed" => Scanning
    /\ OutcomeOK
    /\ LinksOK

-----------------------------------------------------------------------------
(* Sequences.                                                              *)

\* The smaller of two numbers.
LEMMA MinOfTwo == \A a, b \in Int : Min({a, b}) = IF a <= b THEN a ELSE b
<1> SUFFICES ASSUME NEW a \in Int, NEW b \in Int
             PROVE  Min({a, b}) = IF a <= b THEN a ELSE b
  OBVIOUS
<1> DEFINE m == IF a <= b THEN a ELSE b
<1>1. m \in {a, b} /\ \A y \in {a, b} : m <= y
  OBVIOUS
<1>2. \A x \in {a, b} : (\A y \in {a, b} : x <= y) => x = m
  OBVIOUS
<1> HIDE DEF m
<1>3. Min({a, b}) = m
  BY <1>1, <1>2, Zenon DEF Min
<1> QED
  BY <1>3 DEF m

\* A sequence without repetitions is no longer than its elements are many.
LEMMA NoRepeatLen ==
    ASSUME NEW T, IsFiniteSet(T), NEW s, s \in Seq(T), NoRepeat(s)
    PROVE  Len(s) <= Cardinality(T)
<1>1. Len(s) \in Nat /\ s \in [1..Len(s) -> T] /\ DOMAIN s = 1..Len(s)
  OBVIOUS
<1>2. s \in Injection(1..Len(s), T)
  BY <1>1 DEF NoRepeat, Injection, IsInjective
<1>3. Cardinality(1..Len(s)) <= Cardinality(T)
  BY <1>2, FS_Injection
<1>4. Cardinality(1..Len(s)) = Len(s)
  BY <1>1, FS_Interval
<1> QED
  BY <1>3, <1>4

-----------------------------------------------------------------------------
(* Directories, listings and the jobs they are cut into.                   *)

\* What the readdir of a directory returns.
LEMMA ListingIs ==
    ASSUME NEW d, d \in Dirs
    PROVE  /\ Listing[d] \in Seq(Entries) /\ Len(Listing[d]) \in Nat
           /\ DOMAIN Listing[d] = 1..Len(Listing[d])
           /\ \A i \in 1..Len(Listing[d]) : Listing[d][i] \in Entries
           /\ NoRepeat(Listing[d])
           /\ Len(Listing[d]) <= Cardinality(Entries)
           /\ Cardinality(Entries) \in Nat
<1>1. Listing[d] \in Seq(Entries)
  BY ScannerAssumption
<1>2. NoRepeat(Listing[d])
  BY FileSystemAssumption DEF NoRepeat
<1> QED
  BY <1>1, <1>2, NoRepeatLen, FileSystemAssumption, FS_CardinalityType

\* What SubSeq returns.
LEMMA SubSeqIs ==
    ASSUME NEW T, NEW s, s \in Seq(T), NEW a, a \in Nat, NEW b, b \in Nat, b <= Len(s)
    PROVE  /\ SubSeq(s, a + 1, b) \in Seq(T)
           /\ Len(SubSeq(s, a + 1, b)) = IF a < b THEN b - a ELSE 0
           /\ \A i \in 1..Len(SubSeq(s, a + 1, b)) : SubSeq(s, a + 1, b)[i] = s[a + i]
<1> DEFINE r == SubSeq(s, a + 1, b)
<1>1. CASE a < b
  <2>1. Len(r) = b - a
    BY <1>1
  <2>2. ASSUME NEW i \in 1..(b - a) PROVE r[i] = s[a + i]
    BY <1>1
  <2>3. r \in Seq(T)
    BY <1>1
  <2> HIDE DEF r
  <2> QED BY <1>1, <2>1, <2>2, <2>3
<1>2. CASE ~(a < b)
  <2>1. Len(r) = 0
    BY <1>2
  <2>3. r \in Seq(T)
    BY <1>2
  <2> HIDE DEF r
  <2> QED BY <1>2, <2>1, <2>3
<1> QED
  BY <1>1, <1>2

\* How many names a job takes, and which.
SizeOf(j) == IF j.kind = "dir" THEN InlineLimit ELSE Chunk
Positions(j) == {i \in DOMAIN Listing[j.dir] : j.from < i /\ i <= j.from + SizeOf(j)}

\* The names of a job are those at its positions in the listing.
LEMMA NamesIs ==
    ASSUME NEW j, j \in ScanJobs
    PROVE  /\ NamesOf(j) \in Seq(Entries) /\ NoRepeat(NamesOf(j))
           /\ ToSet(NamesOf(j)) = {Listing[j.dir][i] : i \in Positions(j)}
           /\ ToSet(NamesOf(j)) \subseteq ToSet(Listing[j.dir])
<1> DEFINE l == Listing[j.dir]
           n == Len(l)
           hi == Min({n, j.from + SizeOf(j)})
           r == NamesOf(j)
<1>1. j.dir \in Dirs /\ j.from \in Nat
  BY ListingIs DEF ScanJobs
<1>2. /\ l \in Seq(Entries) /\ n \in Nat /\ DOMAIN l = 1..n
      /\ NoRepeat(l)
  BY <1>1, ListingIs
<1>3. SizeOf(j) \in Nat \ {0}
  BY ScannerAssumption DEF SizeOf
<1>4. hi \in Nat /\ hi <= n /\ \A i \in 1..n : i <= hi <=> i <= j.from + SizeOf(j)
  <2>1. n \in Int /\ j.from + SizeOf(j) \in Int
    BY <1>1, <1>2, <1>3
  <2>2. hi = IF n <= j.from + SizeOf(j) THEN n ELSE j.from + SizeOf(j)
    BY <2>1, MinOfTwo
  <2> HIDE DEF hi, n
  <2> QED BY <1>1, <1>2, <1>3, <2>2
<1>5. r = SubSeq(l, j.from + 1, hi)
  BY Zenon DEF NamesOf, SizeOf
<1> HIDE DEF hi, l, r
<1>6. /\ r \in Seq(Entries) /\ Len(r) = IF j.from + 1 <= hi THEN hi - j.from ELSE 0
      /\ DOMAIN r = 1..Len(r)
      /\ \A i \in 1..Len(r) : r[i] = l[j.from + i]
  BY <1>1, <1>2, <1>4, <1>5, SubSeqIs
<1>7. NoRepeat(r)
  <2> SUFFICES ASSUME NEW i \in 1..Len(r), NEW k \in 1..Len(r), i # k PROVE r[i] # r[k]
    BY <1>6 DEF NoRepeat
  <2>1. j.from + i \in 1..n /\ j.from + k \in 1..n /\ j.from + i # j.from + k
    BY <1>1, <1>4, <1>6
  <2> HIDE DEF n
  <2> QED BY <1>2, <1>6, <2>1 DEF NoRepeat
<1>8. ToSet(r) = {l[i] : i \in Positions(j)}
  <2>1. \A i : i \in Positions(j) <=> i \in 1..n /\ j.from < i /\ i <= hi
    BY <1>2, <1>4 DEF Positions, l
  <2>2. ASSUME NEW i \in 1..Len(r) PROVE j.from + i \in Positions(j)
    <3>1. i \in Nat /\ i >= 1 /\ i <= hi - j.from
      BY <1>1, <1>4, <1>6
    <3>2. j.from + i \in 1..n /\ j.from < j.from + i /\ j.from + i <= hi
      BY <1>1, <1>2, <1>4, <3>1
    <3> QED BY <2>1, <3>2
  <2>3. ASSUME NEW i \in Positions(j) PROVE i - j.from \in 1..Len(r) /\ j.from + (i - j.from) = i
    BY <1>1, <1>4, <1>6, <2>1
  <2>4. \A x : x \in ToSet(r) <=> \E i \in 1..Len(r) : r[i] = x
    BY <1>6, Zenon DEF ToSet
  <2>5. \A x \in ToSet(r) : x \in {l[i] : i \in Positions(j)}
    BY <1>6, <2>2, <2>4
  <2>6. ASSUME NEW i \in Positions(j) PROVE l[i] \in ToSet(r)
    BY <1>6, <2>3, <2>4
  <2> QED BY <2>5, <2>6
<1>9. ToSet(r) \subseteq ToSet(l)
  BY <1>8 DEF Positions, ToSet, l
<1> QED
  BY <1>6, <1>7, <1>8, <1>9 DEF r, l

\* Jobs of one directory that lie apart have no name in common.
LEMMA NamesApart ==
    ASSUME NEW j, j \in ScanJobs, NEW k, k \in ScanJobs, j.dir = k.dir,
           j.from + SizeOf(j) <= k.from
    PROVE  ToSet(NamesOf(j)) \intersect ToSet(NamesOf(k)) = {}
<1>1. j.dir \in Dirs /\ j.from \in Nat /\ k.from \in Nat /\ SizeOf(j) \in Nat
  BY ListingIs, ScannerAssumption DEF ScanJobs, SizeOf
<1>2. DOMAIN Listing[j.dir] \subseteq Int /\ NoRepeat(Listing[j.dir])
  BY <1>1, ListingIs
<1>3. Positions(j) \intersect Positions(k) = {}
  BY <1>1, <1>2 DEF Positions
<1>4. Positions(j) \subseteq DOMAIN Listing[j.dir] /\ Positions(k) \subseteq DOMAIN Listing[j.dir]
  BY DEF Positions
<1>5. \A a \in Positions(j), b \in Positions(k) : Listing[j.dir][a] # Listing[k.dir][b]
  BY <1>2, <1>3, <1>4 DEF NoRepeat
<1> QED
  BY <1>5, NamesIs

\* A product of naturals is a natural.
LEMMA ProductNat == \A x, y \in Nat : x * y \in Nat
  OBVIOUS

\* Multiples of c are at least c apart.
LEMMA MultiplesApart == \A c \in Nat, k, m \in Int : k < m => k * c + c <= m * c
<1> SUFFICES ASSUME NEW c \in Nat, NEW k \in Int, NEW m \in Int, k < m
             PROVE  k * c + c <= m * c
  OBVIOUS
<1>1. m - k - 1 \in Nat
  OBVIOUS
<1>2. (m - k - 1) * c \in Nat
  BY <1>1, ProductNat
<1>3. (m - k - 1) * c = m * c - k * c - c
  OBVIOUS
<1>4. m * c \in Int /\ k * c \in Int
  OBVIOUS
<1> QED
  BY <1>2, <1>3, <1>4

\* Dividing and multiplying again does not exceed the number.
LEMMA DivisionBelow == \A a \in Nat, c \in Nat \ {0} : (a \div c) \in Nat /\ (a \div c) * c <= a
  OBVIOUS

\* The chunks of a listing: jobs of their own, each with names of its own.
LEMMA SpillIs ==
    ASSUME NEW j, j \in ScanJobs, j.kind = "dir", j.from = 0
    PROVE  /\ SpillJobs(j) \in Seq(ScanJobs) /\ NoRepeat(SpillJobs(j))
           /\ \A k \in ToSet(SpillJobs(j)) :
                /\ k.kind = "meta" /\ k.dir = j.dir /\ k.node = j.node
                /\ ToSet(NamesOf(j)) \intersect ToSet(NamesOf(k)) = {}
           /\ \A k, m \in ToSet(SpillJobs(j)) :
                k # m => ToSet(NamesOf(k)) \intersect ToSet(NamesOf(m)) = {}
<1> DEFINE n == Len(Listing[j.dir])
           N == IF n <= InlineLimit THEN 0 ELSE (n - InlineLimit + Chunk - 1) \div Chunk
           from(k) == InlineLimit + (k - 1) * Chunk
           J(k) == MetaJob(j.dir, j.node, from(k))
           r == SpillJobs(j)
<1>1. /\ j.dir \in Dirs /\ j.node \in 1..(Cardinality(Entries) + 1)
      /\ n \in Nat /\ n <= Cardinality(Entries) /\ Cardinality(Entries) \in Nat
  BY ListingIs DEF ScanJobs
<1>2. InlineLimit \in Nat \ {0} /\ Chunk \in Nat \ {0}
  BY ScannerAssumption
<1>3. N \in Nat /\ (N > 0 => N * Chunk <= n - InlineLimit + Chunk - 1)
  <2>1. CASE n <= InlineLimit
    BY <2>1
  <2>2. CASE ~(n <= InlineLimit)
    <3> DEFINE a == n - InlineLimit + Chunk - 1
    <3>1. a \in Nat /\ N = a \div Chunk
      BY <1>1, <1>2, <2>2
    <3> HIDE DEF a, N
    <3>2. N \in Nat /\ N * Chunk <= a
      BY <1>2, <3>1, DivisionBelow
    <3> QED BY <3>2 DEF a
  <2> QED BY <2>1, <2>2
<1>4. r = [k \in 1..N |-> J(k)]
  BY Zenon DEF SpillJobs
<1> HIDE DEF N, r
<1>5. ASSUME NEW k \in 1..N
      PROVE  /\ from(k) \in Nat /\ from(k) >= InlineLimit /\ from(k) <= Cardinality(Entries)
             /\ J(k) \in ScanJobs
             /\ J(k).kind = "meta" /\ J(k).dir = j.dir /\ J(k).node = j.node /\ J(k).from = from(k)
  <2>1. k - 1 \in Nat /\ k - 1 < N /\ N > 0
    BY <1>3
  <2>2. (k - 1) * Chunk \in Nat
    BY <1>2, <2>1, ProductNat
  <2>3. (k - 1) * Chunk + Chunk <= N * Chunk
    BY <1>2, <1>3, <2>1, MultiplesApart
  <2>4. N * Chunk \in Nat
    BY <1>2, <1>3, ProductNat
  <2>5. N * Chunk <= n - InlineLimit + Chunk - 1
    BY <1>3, <2>1
  <2> DEFINE a == (k - 1) * Chunk
             b == N * Chunk
  <2>6. /\ InlineLimit + a \in Nat /\ InlineLimit + a >= InlineLimit
        /\ InlineLimit + a <= Cardinality(Entries)
    <3> HIDE DEF a, b, n
    <3> QED BY <1>1, <1>2, <2>2, <2>3, <2>4, <2>5 DEF a, b
  <2>7. from(k) \in 0..Cardinality(Entries)
    BY <1>1, <2>6
  <2> HIDE DEF from, a, b, n
  <2>8. J(k) \in ScanJobs
    BY <1>1, <2>7 DEF ScanJobs, MetaJob
  <2>9. J(k).kind = "meta" /\ J(k).dir = j.dir /\ J(k).node = j.node /\ J(k).from = from(k)
    BY DEF MetaJob
  <2> QED BY <2>6, <2>8, <2>9 DEF from, a
<1>6. ASSUME NEW k \in 1..N, NEW m \in 1..N, k < m
      PROVE  from(k) + Chunk <= from(m)
  <2>1. (k - 1) * Chunk + Chunk <= (m - 1) * Chunk
    <3>1. k - 1 \in Int /\ m - 1 \in Int /\ k - 1 < m - 1 /\ Chunk \in Nat
      BY <1>2, <1>3, <1>6
    <3> QED BY <3>1, MultiplesApart
  <2>2. (k - 1) * Chunk \in Int /\ (m - 1) * Chunk \in Int
    BY <1>2, <1>3
  <2> QED BY <1>2, <2>1, <2>2
<1> HIDE DEF from, J
<1>7. \A k, m \in 1..N : k # m => from(k) # from(m)
  <2> SUFFICES ASSUME NEW k \in 1..N, NEW m \in 1..N, k # m PROVE from(k) # from(m)
    OBVIOUS
  <2>1. k < m \/ m < k
    BY <1>3
  <2> QED BY <1>2, <1>5, <1>6, <2>1
<1>8. r \in Seq(ScanJobs) /\ Len(r) = N /\ DOMAIN r = 1..N /\ \A k \in 1..N : r[k] = J(k)
  BY <1>3, <1>4, <1>5
<1>9. NoRepeat(r)
  <2>1. \A k, m \in 1..N : k # m => J(k) # J(m)
    BY <1>5, <1>7
  <2> QED BY <1>8, <2>1 DEF NoRepeat
<1>10. \A x \in ToSet(r) : \E k \in 1..N : x = J(k)
  BY <1>8 DEF ToSet
<1>11. ASSUME NEW k \in 1..N
       PROVE  ToSet(NamesOf(j)) \intersect ToSet(NamesOf(J(k))) = {}
  <2>1. j.from + SizeOf(j) <= J(k).from /\ j.dir = J(k).dir /\ J(k) \in ScanJobs
    BY <1>2, <1>5 DEF SizeOf
  <2> QED BY <2>1, NamesApart
<1>12. ASSUME NEW k \in 1..N, NEW m \in 1..N, k # m
       PROVE  ToSet(NamesOf(J(k))) \intersect ToSet(NamesOf(J(m))) = {}
  <2>1. /\ J(k) \in ScanJobs /\ J(m) \in ScanJobs /\ J(k).dir = J(m).dir
        /\ SizeOf(J(k)) = Chunk /\ SizeOf(J(m)) = Chunk
        /\ J(k).from = from(k) /\ J(m).from = from(m)
    BY <1>5 DEF SizeOf
  <2>2. CASE k < m
    <3>1. J(k).from + SizeOf(J(k)) <= J(m).from
      BY <1>6, <2>1, <2>2
    <3> QED BY <2>1, <3>1, NamesApart
  <2>3. CASE m < k
    <3>1. J(m).from + SizeOf(J(m)) <= J(k).from
      BY <1>6, <2>1, <2>3
    <3> QED BY <2>1, <3>1, NamesApart
  <2>4. k < m \/ m < k
    BY <1>3, <1>12
  <2> QED BY <2>2, <2>3, <2>4
<1>13. \A x \in ToSet(r) :
          /\ x.kind = "meta" /\ x.dir = j.dir /\ x.node = j.node
          /\ ToSet(NamesOf(j)) \intersect ToSet(NamesOf(x)) = {}
  BY <1>5, <1>10, <1>11
<1>14. \A x, y \in ToSet(r) : x # y => ToSet(NamesOf(x)) \intersect ToSet(NamesOf(y)) = {}
  <2> SUFFICES ASSUME NEW x \in ToSet(r), NEW y \in ToSet(r), x # y
               PROVE  ToSet(NamesOf(x)) \intersect ToSet(NamesOf(y)) = {}
    OBVIOUS
  <2>1. PICK k \in 1..N : x = J(k)
    BY <1>10
  <2>2. PICK m \in 1..N : y = J(m)
    BY <1>10
  <2>3. k # m
    BY <2>1, <2>2
  <2> QED BY <1>12, <2>1, <2>2, <2>3
<1> QED
  BY <1>8, <1>9, <1>13, <1>14 DEF r

-----------------------------------------------------------------------------
(* The pool under the scan.                                                *)

\* The jobs of the scan meet the assumptions of the pool.
LEMMA PoolAssumptions ==
    /\ DirJob(RootDir, 1) \in ScanJobs /\ NoJob \notin ScanJobs
    /\ Workers # {} /\ Pool!IsFiniteSet(Workers) /\ CanPanic \in BOOLEAN
<1>1. Cardinality(Entries) \in Nat
  BY FileSystemAssumption, FS_CardinalityType
<1>2. DirJob(RootDir, 1) \in ScanJobs
  BY <1>1 DEF DirJob, ScanJobs, Dirs
<1>3. Pool!IsFiniteSet(Workers)
  BY ScanPoolAssumption, Zenon DEF Pool!IsFiniteSet, IsFiniteSet
<1> QED
  BY <1>2, <1>3, ScanPoolAssumption

\* The scan starts the pool.
LEMMA PoolStarts == PoolInit => Pool!IInv
<1>1. PoolInit => Pool!PoolInit
  BY Zenon DEF PoolInit, Pool!PoolInit, NewScheduler, Pool!NewScheduler
<1>2. Pool!PoolInit => Pool!IInv
  BY PoolAssumptions, Pool!PoolInitIInv
<1> QED
  BY <1>1, <1>2

\* A step of the pool keeps its invariant.
LEMMA PoolSteps == Pool!IInv /\ Pool!PoolNext => Pool!IInv'
<1>1. Pool!IInv /\ [Pool!PoolNext]_(Pool!poolVars) => Pool!IInv'
  BY PoolAssumptions, Pool!PoolNextIInv
<1> QED
  BY <1>1

\* What the invariant of the pool says in the terms of the scan.
LEMMA PoolSays ==
    ASSUME Pool!IInv
    PROVE  /\ TypeOK /\ JobsDistinct /\ PcMatchesJob /\ PanicRecorded /\ JoinedIsOver
           /\ pushing \in [Workers -> ScanJobs \union {NoJob}]
<1>1. TypeOK
  BY Zenon DEF Pool!IInv, Pool!TypeOK, TypeOK, PC, Pool!PC, BusyPC, Pool!BusyPC, IdlePC,
               Pool!IdlePC, EndedPC, Pool!EndedPC
<1>2. JobsDistinct
  BY Zenon DEF Pool!IInv, Pool!JobsDistinct, JobsDistinct, Outstanding, Pool!Outstanding,
               Held, Pool!Held
<1>3. PcMatchesJob
  BY Zenon DEF Pool!IInv, Pool!PcMatchesJob, PcMatchesJob, HoldingPC, Pool!HoldingPC
<1>4. PanicRecorded /\ JoinedIsOver
  BY Zenon DEF Pool!IInv, Pool!PanicRecorded, PanicRecorded, Pool!JoinedIsOver, JoinedIsOver,
               EndedPC, Pool!EndedPC
<1> QED
  BY <1>1, <1>2, <1>3, <1>4 DEF TypeOK

\* The same of the next state.
LEMMA PoolSaysNext ==
    ASSUME Pool!IInv'
    PROVE  TypeOK'
  BY Zenon DEF Pool!IInv, Pool!TypeOK, TypeOK, PC, Pool!PC, BusyPC, Pool!BusyPC, IdlePC,
               Pool!IdlePC, EndedPC, Pool!EndedPC

\* A step of the loop is a step of the pool.
LEMMA LoopIsPool == ASSUME NEW w \in Workers, LoopStep(w) PROVE Pool!PoolNext
<1>1. Pool!LoopStep(w)
  BY Zenon DEF LoopStep, Pool!LoopStep, Top, Pool!Top, FindJob, Pool!FindJob,
    FindNothing, Pool!FindNothing, Register, Pool!Register, Claimed, Pool!Claimed,
    QuietCheck, Pool!QuietCheck, Leave, Pool!Leave, Park, Pool!Park, Woken, Pool!Woken,
    Enqueue, Pool!Enqueue, Wake, Pool!Wake, Drain, Pool!Drain, Go, Pool!Go, Take, Pool!Take,
    schedVars, Pool!schedVars, RegisterIdle, Pool!RegisterIdle,
    UnregisterIdle, Pool!UnregisterIdle, IsQuiet, Pool!IsQuiet, ConsumePermit,
    Pool!ConsumePermit, Publish, Pool!Publish, WakeOne, Pool!WakeOne, WakeAll, Pool!WakeAll
<1> QED
  BY <1>1, Zenon DEF Pool!PoolNext, Pool!WorkerStep

\* So are the other steps a scan takes with its pool.
LEMMA OthersArePool ==
    ASSUME NEW w \in Workers
    PROVE  /\ \A j \in ScanJobs \ pushed : Announce(w, j) => Pool!PoolNext
           /\ CompleteJob(w) => Pool!PoolNext
           /\ Flush(w) => Pool!PoolNext
           /\ Panic(w) => Pool!PoolNext
           /\ SpuriousWake(w) => Pool!PoolNext
           /\ Cancel => Pool!PoolNext
           /\ Join => Pool!PoolNext
<1>1. \A j \in ScanJobs \ pushed : Announce(w, j) => Pool!Announce(w, j)
  BY Zenon DEF Announce, Pool!Announce, RaisePending, Pool!RaisePending, Go, Pool!Go
<1>2. CompleteJob(w) => Pool!CompleteJob(w)
  BY Zenon DEF CompleteJob, Pool!CompleteJob, LowerPending, Pool!LowerPending, Go, Pool!Go,
               WasLast, Pool!WasLast
<1>3. Flush(w) => Pool!Flush(w)
  BY Zenon DEF Flush, Pool!Flush, Go, Pool!Go, schedVars, Pool!schedVars
<1>4. Panic(w) => Pool!Panic(w)
  BY Zenon DEF Panic, Pool!Panic, Go, Pool!Go, schedVars, Pool!schedVars
<1>5. SpuriousWake(w) => Pool!SpuriousWake(w)
  BY Zenon DEF SpuriousWake, Pool!SpuriousWake, Go, Pool!Go, schedVars, Pool!schedVars
<1>6. Cancel => Pool!Cancel
  BY Zenon DEF Cancel, Pool!Cancel, schedVars, Pool!schedVars
<1>7. Join => Pool!Join
  BY Zenon DEF Join, Pool!Join, EndedPC, Pool!EndedPC, IsQuiet, Pool!IsQuiet, schedVars,
               Pool!schedVars
<1> QED
  BY <1>1, <1>2, <1>3, <1>4, <1>5, <1>6, <1>7, Zenon DEF Pool!PoolNext, Pool!WorkerStep

\* While nothing is sent, a step of the pool keeps PoolOK.
LEMMA PoolKept ==
    ASSUME PoolOK, outcome.kind = "none", outcome' = outcome,
           Pool!PoolNext \/ UNCHANGED threadVars
    PROVE  PoolOK'
<1>1. CASE Pool!PoolNext
  <2>1. Pool!IInv'
    BY <1>1, PoolSteps DEF PoolOK
  <2>2. TypeOK'
    BY <2>1, PoolSaysNext
  <2> QED BY <2>1, <2>2 DEF PoolOK
<1>2. CASE UNCHANGED threadVars
  <2>1. UNCHANGED Pool!poolVars
    BY <1>2, Zenon DEF threadVars, Pool!poolVars, Pool!schedVars
  <2>2. Pool!IInv'
    <3>1. Pool!IInv /\ [Pool!PoolNext]_(Pool!poolVars) => Pool!IInv'
      BY PoolAssumptions, Pool!PoolNextIInv
    <3> QED BY <2>1, <3>1 DEF PoolOK
  <2>3. TypeOK'
    BY <2>2, PoolSaysNext
  <2> QED BY <2>2, <2>3 DEF PoolOK
<1> QED
  BY <1>1, <1>2

\* A worker that can still step belongs to a scan that has sent nothing.
LEMMA NothingSent ==
    ASSUME PoolOK, NEW w \in Workers, pc[w] \notin EndedPC
    PROVE  outcome.kind = "none" /\ Pool!IInv
  BY DEF PoolOK

-----------------------------------------------------------------------------
(* Steps that make no job.                                                 *)

\* Every job ever made is a job.
LEMMA EverTyped ==
    ASSUME TypeOK, StagesOK
    PROVE  Ever \subseteq ScanJobs /\ NoJob \notin Ever
<1>1. \A w \in Workers : ToSet(todo[w]) \subseteq ScanJobs
  BY DEF StagesOK, ToSet
<1> QED
  BY <1>1, ScanPoolAssumption DEF TypeOK, Ever, Todo

\* No job is made, none goes back, and none begins or ends twice.
Calm ==
    /\ pushed' = pushed /\ todo' = todo
    /\ \A j \in injector' : j \in injector \/ \E v \in Workers : pushing[v] = j
    /\ \A v \in Workers :
        /\ pushing'[v] \in {pushing[v], NoJob}
        /\ \/ job'[v] \in {job[v], NoJob}
           \/ job'[v] \in injector /\ stage'[v] = "start"
        /\ stage'[v] = "start" => stage[v] = "start" \/ job'[v] = NoJob
        /\ stage'[v] \in {"listed", "insert"} => stage[v] \in {"start", "listed", "insert"}

\* Then the jobs that are still to run get fewer at most.
LEMMA CalmShrinks ==
    ASSUME TypeOK, StagesOK, Calm
    PROVE  Ever' = Ever /\ Waiting' \subseteq Waiting /\ Active' \subseteq Active
<1>1. Todo' = Todo /\ Ever' = Ever
  BY DEF Calm, Todo, Ever
<1>2. NoJob \notin Ever
  BY EverTyped
<1>3. ASSUME NEW j \in Waiting' PROVE j \in Waiting
  <2>1. j \in Ever /\ j # NoJob
    BY <1>1, <1>2 DEF Waiting
  <2>2. CASE j \in injector'
    BY <2>1, <2>2 DEF Calm, Waiting
  <2>3. CASE j \in Todo'
    BY <1>1, <2>1, <2>3 DEF Waiting
  <2>4. CASE \E v \in Workers : pushing'[v] = j
    BY <2>1, <2>4 DEF Calm, Waiting
  <2>5. ASSUME NEW v \in Workers, job'[v] = j, stage'[v] = "start" PROVE j \in Waiting
    <3>1. CASE j \in injector
      BY <2>1, <3>1 DEF Waiting
    <3>2. CASE job[v] = j /\ stage[v] = "start"
      BY <2>1, <3>2 DEF Waiting, InStage
    <3> QED BY <2>1, <2>5, <3>1, <3>2 DEF Calm
  <2> QED BY <1>3, <2>2, <2>3, <2>4, <2>5 DEF Waiting, InStage
<1>4. ASSUME NEW j \in Working' PROVE j \in Active
  <2>1. j \in Ever /\ j # NoJob
    BY <1>1, <1>2, <1>4 DEF Working
  <2>2. PICK v \in Workers : job'[v] = j /\ stage'[v] \in {"listed", "insert"}
    BY <1>4 DEF Working, InStage
  <2>3. job[v] = j /\ stage[v] \in {"start", "listed", "insert"}
    BY <2>1, <2>2 DEF Calm
  <2> QED BY <2>1, <2>3 DEF Active, Waiting, Working, InStage
<1> QED
  BY <1>1, <1>3, <1>4 DEF Active

\* Arenas whose nodes are the same entries.
SameEntries(t, u) ==
    /\ DOMAIN u = DOMAIN t
    /\ \A i \in DOMAIN t : u[i].entry = t[i].entry /\ u[i].kind = t[i].kind

\* What is left of the jobs is in order if all was.
LEMMA JobsShrink ==
    ASSUME TypeOK, StagesOK, JobsOK, Unspilled, ClaimsOK, SameEntries(nodes, nodes'),
           Ever' = Ever, Waiting' \subseteq Waiting, Active' \subseteq Active
    PROVE  JobsOK' /\ Unspilled' /\ ClaimsOK'
<1>1. JobsOK'
  BY DEF JobsOK, JobOK, SameEntries
<1>2. Unspilled'
  BY DEF Unspilled
<1>3. EntriesOf(nodes') = EntriesOf(nodes)
  BY DEF EntriesOf, SameEntries
<1>4. ASSUME NEW j \in Active' PROVE j \in Active /\ Claim(j)' \subseteq Claim(j)
  <2>1. j \in Active /\ j \in ScanJobs
    BY <1>4, EverTyped DEF Active, Waiting, Working
  <2>2. ToSet(NamesOf(j)) \subseteq ToSet(Listing[j.dir])
    BY <2>1, NamesIs
  <2> QED BY <2>1, <2>2 DEF Claim
<1>5. ClaimsOK'
  <2>1. \A j, k \in Active' : j # k => Claim(j)' \intersect Claim(k)' = {}
    BY <1>4 DEF ClaimsOK
  <2>2. \A j \in Active' : Claim(j)' \intersect EntriesOf(nodes') = {}
    BY <1>3, <1>4 DEF ClaimsOK
  <2> QED BY <2>1, <2>2, Zenon DEF ClaimsOK
<1> QED
  BY <1>1, <1>2, <1>5

\* A step that leaves the arena and the candidates alone and makes no job.
LEMMA CalmKeeps ==
    ASSUME ScanInv, PoolOK', StagesOK', Calm, UNCHANGED <<nodes, outcome>>,
           Candidates' = Candidates, links' \subseteq LinkType,
           \A w \in Workers : pc'[w] = "done" => local'[w].links = {}
    PROVE  ScanInv'
<1>1. TypeOK /\ StagesOK
  BY DEF ScanInv, PoolOK
<1>2. Ever' = Ever /\ Waiting' \subseteq Waiting /\ Active' \subseteq Active
  BY <1>1, CalmShrinks
<1>3. ASSUME Scanning PROVE Scanning'
  <2>1. SameEntries(nodes, nodes')
    BY DEF SameEntries
  <2>2. JobsOK' /\ Unspilled' /\ ClaimsOK'
    BY <1>1, <1>2, <1>3, <2>1, JobsShrink DEF Scanning
  <2>3. TodoFresh'
    BY <1>3 DEF Scanning, TodoFresh, Calm
  <2>4. ArenaOK'
    BY <1>3 DEF Scanning, ArenaOK
  <2> QED BY <2>2, <2>3, <2>4 DEF Scanning
<1>4. outcome.kind # "completed" => Scanning'
  BY <1>3 DEF ScanInv
<1>5. OutcomeOK'
  BY DEF ScanInv, OutcomeOK, LinksCountedOnce, Sized, Arena
<1>6. LinksOK'
  BY DEF ScanInv, LinksOK
<1> QED
  BY <1>4, <1>5, <1>6 DEF ScanInv

\* What a step of the loop of worker w does to the jobs.
LEMMA LoopMoves ==
    ASSUME TypeOK, NEW w \in Workers, LoopStep(w)
    PROVE  /\ \A v \in Workers \ {w} : pc'[v] = pc[v] /\ job'[v] = job[v] /\ pushing'[v] = pushing[v]
           /\ pc[w] \notin EndedPC \union {"process"} /\ pc'[w] # "done"
           /\ pc[w] \in {"enqueue", "wake"} =>
                    pc'[w] \in {"wake", "process"} /\ job'[w] = job[w]
           /\ job'[w] = job[w] \/ job'[w] \in injector
           /\ pushing'[w] \in {pushing[w], NoJob}
           /\ \A j \in injector' : j \in injector \/ j = pushing[w]
           /\ pushed' = pushed
<1> USE DEF TypeOK, Go, schedVars, EndedPC
<1>1. CASE Top(w) \/ FindNothing(w) \/ QuietCheck(w) \/ Park(w) \/ Woken(w)
  BY <1>1 DEF Top, FindNothing, QuietCheck, Park, Woken, ConsumePermit, UnregisterIdle
<1>2. CASE FindJob(w)
  BY <1>2 DEF FindJob, Take
<1>3. CASE Register(w) \/ Claimed(w) \/ Leave(w)
  BY <1>3 DEF Register, Claimed, Leave, RegisterIdle, UnregisterIdle
<1>4. CASE Enqueue(w)
  BY <1>4 DEF Enqueue, Publish
<1>5. CASE Wake(w)
  BY <1>5 DEF Wake, WakeOne
<1>6. CASE Drain(w)
  BY <1>6 DEF Drain, WakeAll
<1> QED
  BY <1>1, <1>2, <1>3, <1>4, <1>5, <1>6 DEF LoopStep

\* The loop of a worker: a job is taken, published or waited for.
LEMMA LoopKeeps ==
    ASSUME ScanInv, NEW w \in Workers, LoopStep(w), UNCHANGED scanVars
    PROVE  ScanInv'
<1>1. PoolOK /\ TypeOK /\ StagesOK
  BY DEF ScanInv, PoolOK
<1>2. /\ \A v \in Workers \ {w} : pc'[v] = pc[v] /\ job'[v] = job[v] /\ pushing'[v] = pushing[v]
      /\ pc[w] \notin EndedPC \union {"process"} /\ pc'[w] # "done"
      /\ pc[w] \in {"enqueue", "wake"} => pc'[w] \in {"wake", "process"} /\ job'[w] = job[w]
      /\ job'[w] = job[w] \/ job'[w] \in injector
      /\ pushing'[w] \in {pushing[w], NoJob}
      /\ \A j \in injector' : j \in injector \/ j = pushing[w]
      /\ pushed' = pushed
  BY <1>1, LoopMoves
<1>3. UNCHANGED <<stage, todo, batch, local, nodes, links, outcome>>
  BY DEF scanVars
<1>4. PoolOK'
  BY <1>1, <1>2, <1>3, LoopIsPool, NothingSent, PoolKept
<1>5. stage[w] # "start" => pc[w] \in {"enqueue", "wake"}
  BY <1>1, <1>2 DEF StagesOK, EndedPC
<1>6. Calm
  BY <1>2, <1>3, <1>5 DEF Calm
<1>7. StagesOK'
  BY <1>1, <1>2, <1>3, <1>5 DEF StagesOK
<1>8. Candidates' = Candidates /\ links' \subseteq LinkType
  BY <1>3 DEF Candidates, ScanInv, LinksOK
<1>9. \A v \in Workers : pc'[v] = "done" => local'[v].links = {}
  BY <1>2, <1>3 DEF ScanInv, LinksOK
<1> QED
  BY <1>3, <1>4, <1>6, <1>7, <1>8, <1>9, CalmKeeps

\* A panic and a wakeup for no reason.
LEMMA PanicAndWakeKeep ==
    ASSUME ScanInv, NEW w \in Workers, PanicInJob(w) \/ WakeUnasked(w)
    PROVE  ScanInv'
<1>1. PoolOK /\ TypeOK /\ StagesOK
  BY DEF ScanInv, PoolOK
<1>2. UNCHANGED <<stage, todo, batch, local, nodes, links, outcome, injector, job, pushing, pushed>>
  BY DEF PanicInJob, WakeUnasked, Panic, SpuriousWake, schedVars, scanVars
<1>3. /\ \A v \in Workers \ {w} : pc'[v] = pc[v]
      /\ \/ pc[w] = "process" /\ pc'[w] = "panicked"
         \/ pc[w] = "park" /\ pc'[w] = "woken"
  BY <1>1 DEF PanicInJob, WakeUnasked, Panic, SpuriousWake, Go, TypeOK
<1>4. PoolOK'
  BY <1>1, <1>2, <1>3, OthersArePool, NothingSent, PoolKept DEF EndedPC, PanicInJob, WakeUnasked
<1>5. Calm
  BY <1>2 DEF Calm
<1>6. StagesOK'
  BY <1>1, <1>2, <1>3 DEF StagesOK
<1>7. Candidates' = Candidates /\ links' \subseteq LinkType
  BY <1>2 DEF Candidates, ScanInv, LinksOK
<1>8. \A v \in Workers : pc'[v] = "done" => local'[v].links = {}
  BY <1>2, <1>3 DEF ScanInv, LinksOK
<1> QED
  BY <1>2, <1>4, <1>5, <1>6, <1>7, <1>8, CalmKeeps

\* Cancelling, joining and standing still touch no job.
LEMMA OutsideKeeps ==
    ASSUME ScanInv, CancelScan \/ JoinPool \/ UNCHANGED vars
    PROVE  ScanInv'
<1>1. PoolOK /\ TypeOK /\ StagesOK
  BY DEF ScanInv, PoolOK
<1>2. UNCHANGED <<stage, todo, batch, local, nodes, links, outcome, injector, job, pushing,
                  pushed, pc>>
  BY DEF CancelScan, JoinPool, Cancel, Join, schedVars, scanVars, threadVars, vars
<1>3. PoolOK'
  <2>1. PICK w : w \in Workers
    BY ScanPoolAssumption
  <2>2. CASE outcome.kind = "none"
    <3>1. Pool!PoolNext \/ UNCHANGED threadVars
      BY <2>1, OthersArePool DEF CancelScan, JoinPool, vars
    <3> QED BY <1>1, <1>2, <2>2, <3>1, PoolKept
  <2>3. CASE outcome.kind # "none" /\ CancelScan
    <3>1. Pool!IInv => Pool!IInv'
      BY <2>1, <2>3, OthersArePool, PoolSteps DEF CancelScan
    <3>2. UNCHANGED <<pool, panicMsg, pc, outcome>> /\ TypeOK'
      BY <1>1, <2>3 DEF CancelScan, Cancel, TypeOK, schedVars, scanVars
    <3> QED BY <1>1, <3>1, <3>2 DEF PoolOK
  <2>4. CASE outcome.kind # "none" /\ JoinPool
    BY <1>1, <2>4 DEF PoolOK, JoinPool, Join
  <2>5. CASE UNCHANGED vars
    <3>1. UNCHANGED threadVars /\ outcome' = outcome
      BY <2>5 DEF vars, scanVars
    <3>2. UNCHANGED Pool!poolVars
      BY <3>1, Zenon DEF threadVars, Pool!poolVars, Pool!schedVars
    <3>3. Pool!IInv => Pool!IInv'
      <4>1. Pool!IInv /\ [Pool!PoolNext]_(Pool!poolVars) => Pool!IInv'
        BY PoolAssumptions, Pool!PoolNextIInv
      <4> QED BY <3>2, <4>1
    <3>4. TypeOK'
      BY <1>1, <3>1 DEF TypeOK, threadVars
    <3> QED BY <1>1, <3>1, <3>3, <3>4 DEF PoolOK, threadVars
  <2> QED BY <2>2, <2>3, <2>4, <2>5
<1>4. Calm
  BY <1>2 DEF Calm
<1>5. StagesOK'
  BY <1>1, <1>2 DEF StagesOK
<1>6. Candidates' = Candidates /\ links' \subseteq LinkType
  BY <1>2 DEF Candidates, ScanInv, LinksOK
<1>7. \A v \in Workers : pc'[v] = "done" => local'[v].links = {}
  BY <1>2 DEF ScanInv, LinksOK
<1> QED
  BY <1>2, <1>3, <1>4, <1>5, <1>6, <1>7, CalmKeeps

\* The batch of a job is one of its names.
LEMMA BatchTyped ==
    ASSUME NEW j, j \in ScanJobs, NEW failed, failed \in StatFailures(j, NamesOf(j))
    PROVE  [names |-> NamesOf(j), failed |-> failed]
                \in [names : Seq(Entries), failed : SUBSET Entries]
<1>1. NamesOf(j) \in Seq(Entries)
  BY NamesIs
<1>2. ToSet(NamesOf(j)) \subseteq Entries
  BY <1>1 DEF ToSet
<1>3. failed \subseteq ToSet(NamesOf(j))
  BY Zenon DEF StatFailures
<1> QED
  BY <1>1, <1>2, <1>3

\* A worker that processes holds a job, and the scan is a pool.
LEMMA Busy ==
    ASSUME ScanInv, NEW w \in Workers, pc[w] = "process"
    PROVE  /\ PoolOK /\ TypeOK /\ StagesOK /\ JobsDistinct /\ PcMatchesJob
           /\ outcome.kind = "none" /\ Pool!IInv
           /\ job[w] \in ScanJobs /\ job[w] \in pushed /\ job[w] \in Ever
           /\ Scanning
<1>1. PoolOK /\ TypeOK /\ StagesOK
  BY DEF ScanInv, PoolOK
<1>2. outcome.kind = "none" /\ Pool!IInv
  BY <1>1, NothingSent DEF EndedPC
<1>3. JobsDistinct /\ PcMatchesJob
  BY <1>2, PoolSays
<1>4. job[w] # NoJob
  BY <1>3 DEF PcMatchesJob, HoldingPC
<1>5. job[w] \in ScanJobs
  BY <1>1, <1>4 DEF TypeOK
<1>6. job[w] \in pushed
  BY <1>3, <1>4 DEF JobsDistinct, Outstanding, Held
<1> QED
  BY <1>1, <1>2, <1>3, <1>5, <1>6 DEF ScanInv, Ever

\* A metadata job begins, or a directory job that is dropped.
LEMMA StartKeeps ==
    ASSUME ScanInv, NEW w \in Workers, StartMeta(w) \/ (StartDir(w) /\ cancelled)
    PROVE  ScanInv'
<1>1. pc[w] = "process" /\ stage[w] = "start"
  BY DEF StartMeta, StartDir, Processing
<1>2. /\ PoolOK /\ TypeOK /\ StagesOK /\ outcome.kind = "none" /\ job[w] \in ScanJobs
  BY <1>1, Busy
<1>3. UNCHANGED threadVars /\ UNCHANGED <<todo, local, nodes, links, outcome>>
  BY DEF StartMeta, StartDir
<1>4. UNCHANGED <<injector, job, pushing, pushed, pc>>
  BY <1>3 DEF threadVars
<1>5. \/ stage' = [stage EXCEPT ![w] = "end"] /\ batch' = batch
      \/ \E failed \in StatFailures(job[w], NamesOf(job[w])) :
            /\ batch' = [batch EXCEPT ![w] = [names |-> NamesOf(job[w]), failed |-> failed]]
            /\ stage' = [stage EXCEPT ![w] = "listed"]
  BY DEF StartMeta, StartDir, Enter
<1>6. PoolOK'
  BY <1>2, <1>3, PoolKept
<1>7. Calm
  BY <1>1, <1>2, <1>3, <1>4, <1>5 DEF Calm, StagesOK
<1>8. StagesOK'
  <2>1. CASE stage' = [stage EXCEPT ![w] = "end"] /\ batch' = batch
    BY <1>1, <1>2, <1>3, <1>4, <2>1 DEF StagesOK
  <2>2. ASSUME NEW failed \in StatFailures(job[w], NamesOf(job[w])),
               batch' = [batch EXCEPT ![w] = [names |-> NamesOf(job[w]), failed |-> failed]],
               stage' = [stage EXCEPT ![w] = "listed"]
        PROVE  StagesOK'
    <3> DEFINE b == [names |-> NamesOf(job[w]), failed |-> failed]
    <3>1. b \in [names : Seq(Entries), failed : SUBSET Entries] /\ b.names = NamesOf(job[w])
      BY <1>2, BatchTyped
    <3>2. batch' = [batch EXCEPT ![w] = b]
      BY <2>2
    <3> HIDE DEF b
    <3> QED BY <1>1, <1>2, <1>3, <1>4, <2>2, <3>1, <3>2 DEF StagesOK
  <2> QED BY <1>5, <2>1, <2>2
<1>9. Candidates' = Candidates /\ links' \subseteq LinkType
  BY <1>3 DEF Candidates, ScanInv, LinksOK
<1>10. \A v \in Workers : pc'[v] = "done" => local'[v].links = {}
  BY <1>3, <1>4 DEF ScanInv, LinksOK
<1> QED
  BY <1>3, <1>6, <1>7, <1>8, <1>9, <1>10, CalmKeeps

\* The cancel flag is looked at before the insertion.
LEMMA CheckInsertKeeps ==
    ASSUME ScanInv, NEW w \in Workers, CheckInsert(w)
    PROVE  ScanInv'
<1>1. pc[w] = "process" /\ stage[w] = "listed" /\ todo[w] = <<>>
  BY DEF CheckInsert, Processing
<1>2. /\ PoolOK /\ TypeOK /\ StagesOK /\ outcome.kind = "none"
  BY <1>1, Busy
<1>3. UNCHANGED threadVars /\ UNCHANGED <<todo, batch, local, nodes, links, outcome>>
  BY DEF CheckInsert
<1>4. UNCHANGED <<injector, job, pushing, pushed, pc>>
  BY <1>3 DEF threadVars
<1>5. \E x \in {"end", "insert"} : stage' = [stage EXCEPT ![w] = x]
  BY DEF CheckInsert, Enter
<1>6. PoolOK'
  BY <1>2, <1>3, PoolKept
<1>7. Calm
  BY <1>1, <1>2, <1>3, <1>4, <1>5 DEF Calm, StagesOK
<1>8. StagesOK'
  BY <1>1, <1>2, <1>3, <1>4, <1>5 DEF StagesOK
<1>9. Candidates' = Candidates /\ links' \subseteq LinkType
  BY <1>3 DEF Candidates, ScanInv, LinksOK
<1>10. \A v \in Workers : pc'[v] = "done" => local'[v].links = {}
  BY <1>3, <1>4 DEF ScanInv, LinksOK
<1> QED
  BY <1>3, <1>6, <1>7, <1>8, <1>9, <1>10, CalmKeeps

\* A job ends.
LEMMA FinishJobKeeps ==
    ASSUME ScanInv, NEW w \in Workers, FinishJob(w)
    PROVE  ScanInv'
<1>1. pc[w] = "process" /\ stage[w] \in {"end", "queue"}
  BY DEF FinishJob, CompleteJob
<1>2. /\ PoolOK /\ TypeOK /\ StagesOK /\ outcome.kind = "none"
  BY <1>1, Busy
<1>3. todo[w] = <<>>
  BY <1>1, <1>2 DEF FinishJob, StagesOK
<1>4. UNCHANGED <<todo, local, nodes, links, outcome, injector, pushing, pushed>>
  BY DEF FinishJob, CompleteJob, LowerPending
<1>5. /\ stage' = [stage EXCEPT ![w] = "start"] /\ batch' = [batch EXCEPT ![w] = NoBatch]
      /\ job' = [job EXCEPT ![w] = NoJob]
      /\ \E x \in {"drain", "drainLast"} : pc' = [pc EXCEPT ![w] = x]
  BY DEF FinishJob, CompleteJob, Enter, Go
<1>6. PoolOK'
  BY <1>2, <1>4, OthersArePool, PoolKept DEF FinishJob
<1>7. Calm
  BY <1>1, <1>2, <1>4, <1>5 DEF Calm, StagesOK, TypeOK
<1>8. StagesOK'
  <2>1. NoBatch \in [names : Seq(Entries), failed : SUBSET Entries]
    BY DEF NoBatch
  <2>2. batch' \in [Workers -> [names : Seq(Entries), failed : SUBSET Entries]]
    BY <1>2, <1>5, <2>1 DEF StagesOK
  <2>3. \A v \in Workers \ {w} : batch'[v] = batch[v] /\ job'[v] = job[v] /\ pc'[v] = pc[v]
    BY <1>2, <1>5 DEF StagesOK, TypeOK
  <2> QED BY <1>2, <1>3, <1>4, <1>5, <2>2, <2>3 DEF StagesOK
<1>9. Candidates' = Candidates /\ links' \subseteq LinkType
  BY <1>4 DEF Candidates, ScanInv, LinksOK
<1>10. \A v \in Workers : pc'[v] = "done" => local'[v].links = {}
  BY <1>2, <1>4, <1>5 DEF ScanInv, LinksOK, TypeOK
<1> QED
  BY <1>4, <1>6, <1>7, <1>8, <1>9, <1>10, CalmKeeps

\* A worker state after a flush.
LEMMA FlushedTyped ==
    ASSUME NEW st, st \in StateType
    PROVE  Flushed(st) \in StateType /\ Flushed(st).links = {}
<1> DEFINE a == [st EXCEPT !.counts = NoCounts]
           b == [a EXCEPT !.links = {}]
<1>1. NoCounts \in [files : Nat, dirs : Nat, bytes : Nat, errors : Nat]
  BY DEF NoCounts
<1>2. a \in StateType
  BY <1>1 DEF StateType
<1>3. Flushed(st) = [b EXCEPT !.since = 0]
  BY DEF Flushed
<1> HIDE DEF a
<1>4. b \in StateType /\ b.links = {}
  BY <1>2 DEF StateType
<1> HIDE DEF b
<1> QED
  BY <1>3, <1>4 DEF StateType

\* A worker's last flush.
LEMMA LastFlushKeeps ==
    ASSUME ScanInv, NEW w \in Workers, FlushAndEnd(w)
    PROVE  ScanInv'
<1>1. pc[w] = "flush"
  BY DEF FlushAndEnd, Flush
<1>2. PoolOK /\ TypeOK /\ StagesOK /\ outcome.kind = "none"
  <2>1. PoolOK
    BY DEF ScanInv
  <2> QED BY <1>1, <2>1, NothingSent DEF ScanInv, PoolOK, EndedPC
<1>3. UNCHANGED <<stage, todo, batch, nodes, outcome, injector, job, pushing, pushed>>
  BY DEF FlushAndEnd, Flush, schedVars
<1>4. /\ pc' = [pc EXCEPT ![w] = "done"]
      /\ links' = links \union local[w].links
      /\ local' = [local EXCEPT ![w] = Flushed(local[w])]
  BY DEF FlushAndEnd, Flush, Go
<1>5. PoolOK'
  BY <1>2, <1>3, OthersArePool, PoolKept DEF FlushAndEnd
<1>6. Calm
  BY <1>3 DEF Calm
<1>7. Flushed(local[w]) \in StateType /\ Flushed(local[w]).links = {} /\ local[w].links \subseteq LinkType
  BY <1>2, FlushedTyped DEF StagesOK, StateType
<1>8. StagesOK'
  <2>1. local' \in [Workers -> StateType]
    BY <1>2, <1>4, <1>7 DEF StagesOK
  <2>2. stage[w] = "start"
    BY <1>1, <1>2 DEF StagesOK
  <2> QED BY <1>2, <1>3, <1>4, <2>1, <2>2 DEF StagesOK, TypeOK
<1>9. /\ \A v \in Workers \ {w} : local'[v] = local[v]
      /\ local'[w].links = {}
  BY <1>2, <1>4, <1>7 DEF StagesOK
<1>10. Candidates' = Candidates
  BY <1>4, <1>9 DEF Candidates
<1>11. links' \subseteq LinkType
  BY <1>4, <1>7 DEF ScanInv, LinksOK
<1>12. \A v \in Workers : pc'[v] = "done" => local'[v].links = {}
  BY <1>2, <1>4, <1>9 DEF ScanInv, LinksOK, TypeOK
<1> QED
  BY <1>3, <1>5, <1>6, <1>8, <1>10, <1>11, <1>12, CalmKeeps

\* The head of a sequence without repetitions is not in its tail.
LEMMA HeadAndTail ==
    ASSUME NEW T, NEW s, s \in Seq(T), s # <<>>, NoRepeat(s)
    PROVE  /\ Tail(s) \in Seq(T) /\ NoRepeat(Tail(s))
           /\ Head(s) \in ToSet(s) /\ Head(s) \in T
           /\ ToSet(Tail(s)) = ToSet(s) \ {Head(s)}
<1> DEFINE n == Len(s)
           t == Tail(s)
<1>1. n \in Nat /\ n >= 1 /\ DOMAIN s = 1..n /\ \A i \in 1..n : s[i] \in T
  OBVIOUS
<1>2. /\ t \in Seq(T) /\ Len(t) = n - 1 /\ DOMAIN t = 1..(n - 1)
      /\ \A i \in 1..(n - 1) : t[i] = s[i + 1]
  BY <1>1
<1>3. Head(s) = s[1]
  OBVIOUS
<1> HIDE DEF t, n
<1>4. NoRepeat(t)
  <2>1. \A i, k \in 1..n : i # k => s[i] # s[k]
    BY <1>1 DEF NoRepeat
  <2>2. ASSUME NEW i \in 1..(n - 1), NEW k \in 1..(n - 1), i # k PROVE t[i] # t[k]
    <3>1. i + 1 \in 1..n /\ k + 1 \in 1..n /\ i + 1 # k + 1
      BY <1>1, <2>2
    <3> QED BY <1>2, <2>1, <3>1
  <2> QED BY <1>2, <2>2 DEF NoRepeat
<1>5. ToSet(t) = ToSet(s) \ {s[1]}
  <2>1. \A x : x \in ToSet(s) <=> \E i \in 1..n : s[i] = x
    BY <1>1, Zenon DEF ToSet
  <2>2. \A x : x \in ToSet(t) <=> \E i \in 1..(n - 1) : t[i] = x
    BY <1>2, Zenon DEF ToSet
  <2>3. \A i \in 2..n : s[i] # s[1] /\ i - 1 \in 1..(n - 1) /\ t[i - 1] = s[i]
    BY <1>1, <1>2 DEF NoRepeat
  <2>4. ASSUME NEW x \in ToSet(t) PROVE x \in ToSet(s) /\ x # s[1]
    <3>1. PICK i \in 1..(n - 1) : t[i] = x
      BY <2>2
    <3>2. i + 1 \in 2..n /\ i + 1 \in 1..n /\ s[i + 1] = x
      BY <1>1, <1>2, <3>1
    <3> QED BY <2>1, <2>3, <3>2
  <2>5. ASSUME NEW x \in ToSet(s), x # s[1] PROVE x \in ToSet(t)
    <3>1. PICK i \in 1..n : s[i] = x
      BY <2>1
    <3>2. i \in 2..n
      BY <1>1, <2>5, <3>1
    <3> QED BY <2>2, <2>3, <3>1, <3>2
  <2> QED BY <2>4, <2>5
<1>6. s[1] \in ToSet(s) /\ s[1] \in T
  BY <1>1 DEF ToSet
<1> QED
  BY <1>2, <1>3, <1>4, <1>5, <1>6 DEF t

\* A job that goes from the list of its worker into the pool still waits.
LEMMA PushedJobs ==
    ASSUME TypeOK, StagesOK, NEW w \in Workers, NEW h, h \in ToSet(todo[w]), pushing[w] = NoJob,
           ToSet(Tail(todo[w])) = ToSet(todo[w]) \ {h},
           todo' = [todo EXCEPT ![w] = Tail(todo[w])],
           pushed' = pushed \union {h}, pushing' = [pushing EXCEPT ![w] = h],
           UNCHANGED <<injector, job, stage>>
    PROVE  Ever' = Ever /\ Waiting' = Waiting /\ Active' = Active
<1>1. /\ \A v \in Workers \ {w} : todo'[v] = todo[v] /\ pushing'[v] = pushing[v]
      /\ todo'[w] = Tail(todo[w]) /\ pushing'[w] = h
  BY DEF StagesOK, TypeOK
<1>2. Todo' \subseteq Todo /\ Todo \subseteq Todo' \union {h} /\ h \in Todo
  <2>1. \A v \in Workers : ToSet(todo'[v]) \subseteq ToSet(todo[v])
    BY <1>1
  <2>2. \A v \in Workers : ToSet(todo[v]) \subseteq ToSet(todo'[v]) \union {h}
    BY <1>1
  <2> QED BY <2>1, <2>2 DEF Todo
<1>3. Ever' = Ever /\ NoJob \notin Ever
  BY <1>2, EverTyped DEF Ever
<1>4. ASSUME NEW k \in Waiting' PROVE k \in Waiting
  <2>1. k \in Ever
    BY <1>3 DEF Waiting
  <2>2. CASE k \in injector \/ k \in Todo' \/ k = h
    BY <1>2, <2>1, <2>2 DEF Waiting
  <2>3. CASE \E v \in Workers \ {w} : pushing'[v] = k
    BY <1>1, <2>1, <2>3 DEF Waiting
  <2>4. CASE InStage(k, {"start"})'
    BY <2>1, <2>4 DEF Waiting, InStage
  <2>5. \/ k \in injector' \/ k \in Todo'
        \/ \E v \in Workers : pushing'[v] = k
        \/ InStage(k, {"start"})'
    BY DEF Waiting
  <2> QED BY <1>1, <2>2, <2>3, <2>4, <2>5
<1>5. ASSUME NEW k \in Waiting PROVE k \in Waiting'
  <2>1. k \in Ever' /\ k # NoJob
    BY <1>3 DEF Waiting
  <2>2. CASE k \in injector \/ k \in Todo' \/ k = h
    BY <1>1, <2>1, <2>2 DEF Waiting
  <2>3. CASE \E v \in Workers \ {w} : pushing[v] = k
    BY <1>1, <2>1, <2>3 DEF Waiting
  <2>4. CASE InStage(k, {"start"})
    BY <2>1, <2>4 DEF Waiting, InStage
  <2>5. \/ k \in injector \/ k \in Todo
        \/ \E v \in Workers : pushing[v] = k
        \/ InStage(k, {"start"})
    BY DEF Waiting
  <2> QED BY <1>2, <2>1, <2>2, <2>3, <2>4, <2>5
<1>6. Working' = Working
  BY <1>3 DEF Working, InStage
<1> QED
  BY <1>3, <1>4, <1>5, <1>6 DEF Active

\* A made job is pushed.
LEMMA PushKeeps ==
    ASSUME ScanInv, NEW w \in Workers, PushNext(w)
    PROVE  ScanInv'
<1> DEFINE h == Head(todo[w])
<1>1. pc[w] = "process" /\ stage[w] \in {"listed", "queue"} /\ todo[w] # <<>>
  BY DEF PushNext
<1>2. /\ PoolOK /\ TypeOK /\ StagesOK /\ outcome.kind = "none" /\ Scanning
      /\ pushing \in [Workers -> ScanJobs \union {NoJob}]
  BY <1>1, Busy, PoolSays
<1>3. todo[w] \in Seq(ScanJobs) /\ NoRepeat(todo[w]) /\ ToSet(todo[w]) \intersect pushed = {}
  BY <1>2 DEF StagesOK, Scanning, TodoFresh
<1>4. /\ Tail(todo[w]) \in Seq(ScanJobs) /\ NoRepeat(Tail(todo[w]))
      /\ h \in ToSet(todo[w]) /\ h \in ScanJobs
      /\ ToSet(Tail(todo[w])) = ToSet(todo[w]) \ {h}
  BY <1>1, <1>3, HeadAndTail
<1>5. h \notin pushed /\ Announce(w, h)
  BY <1>3, <1>4 DEF PushNext
<1>6. UNCHANGED <<stage, batch, local, nodes, links, outcome>>
  BY DEF PushNext
<1>7. /\ todo' = [todo EXCEPT ![w] = Tail(todo[w])]
      /\ pushed' = pushed \union {h} /\ pushing' = [pushing EXCEPT ![w] = h]
      /\ pc' = [pc EXCEPT ![w] = "enqueue"]
      /\ UNCHANGED <<injector, job>>
  BY <1>5 DEF PushNext, Announce, RaisePending, Go
<1> HIDE DEF h
<1>8. PoolOK'
  BY <1>2, <1>4, <1>5, <1>6, OthersArePool, PoolKept
<1>9. /\ \A v \in Workers \ {w} : todo'[v] = todo[v] /\ pushing'[v] = pushing[v] /\ pc'[v] = pc[v]
      /\ todo'[w] = Tail(todo[w]) /\ pushing'[w] = h /\ pc'[w] = "enqueue"
  BY <1>2, <1>7 DEF StagesOK, TypeOK
<1>10. StagesOK'
  <2>1. todo' \in [Workers -> Seq(ScanJobs)]
    BY <1>2, <1>4, <1>7 DEF StagesOK
  <2> QED BY <1>1, <1>2, <1>6, <1>7, <1>9, <2>1 DEF StagesOK
<1>11. pushing[w] = NoJob
  BY <1>1, Busy DEF PcMatchesJob
<1>12. Ever' = Ever /\ Waiting' = Waiting /\ Active' = Active
  BY <1>2, <1>4, <1>6, <1>7, <1>11, PushedJobs
<1>14. JobsOK' /\ Unspilled' /\ ClaimsOK'
  <2>1. SameEntries(nodes, nodes')
    BY <1>6 DEF SameEntries
  <2> QED BY <1>2, <1>12, <2>1, JobsShrink DEF Scanning
<1>15. TodoFresh'
  <2> SUFFICES ASSUME NEW v \in Workers
               PROVE  /\ ToSet(todo[v])' \intersect pushed' = {}
                      /\ NoRepeat(todo[v])'
                      /\ \A u \in Workers \ {v} : ToSet(todo[u])' \intersect ToSet(todo[v])' = {}
    BY DEF TodoFresh
  <2>1. \A u \in Workers : ToSet(todo'[u]) \subseteq ToSet(todo[u])
    BY <1>4, <1>9
  <2>2. TodoFresh
    BY <1>2 DEF Scanning
  <2>3. h \notin ToSet(todo'[v])
    BY <1>4, <1>9, <2>2 DEF TodoFresh
  <2>4. NoRepeat(todo'[v])
    BY <1>4, <1>9, <2>2 DEF TodoFresh
  <2>5. ToSet(todo'[v]) \intersect (pushed \union {h}) = {}
    BY <2>1, <2>2, <2>3 DEF TodoFresh
  <2>6. \A u \in Workers \ {v} : ToSet(todo'[u]) \intersect ToSet(todo'[v]) = {}
    BY <2>1, <2>2 DEF TodoFresh
  <2> QED BY <1>7, <2>4, <2>5, <2>6
<1>16. Scanning'
  BY <1>2, <1>6, <1>14, <1>15 DEF Scanning, ArenaOK
<1>17. OutcomeOK' /\ LinksOK'
  BY <1>2, <1>6, <1>9 DEF ScanInv, OutcomeOK, LinksOK, Candidates, LinksCountedOnce, Sized, Arena
<1> QED
  BY <1>8, <1>10, <1>16, <1>17 DEF ScanInv

-----------------------------------------------------------------------------
(* The arena: a directory that cannot be read.                             *)

\* A function on 1..n is a sequence.
LEMMA FunctionIsSeq ==
    ASSUME NEW S, NEW n, n \in Nat, NEW r, r = [i \in 1..n |-> r[i]], \A i \in 1..n : r[i] \in S
    PROVE  r \in Seq(S) /\ Len(r) = n /\ DOMAIN r = 1..n
  OBVIOUS

Below == Entries \union {RootDir}

\* The same tree, whatever the nodes add up to.
SameTree(t, u) ==
    /\ DOMAIN u = DOMAIN t
    /\ \A i \in DOMAIN t :
        /\ u[i].entry = t[i].entry /\ u[i].parent = t[i].parent /\ u[i].kind = t[i].kind
        /\ u[i].children = t[i].children
        /\ "tombstoned" \in u[i].flags => "tombstoned" \in t[i].flags

\* What mirrors the file system is the tree.
LEMMA MirrorsSame ==
    ASSUME NEW t, Mirrors(t), NEW u, IsArena(u, Below), SameTree(t, u)
    PROVE  Mirrors(u)
<1>1. DOMAIN t = 1..Len(t) /\ Len(t) \in Nat /\ t # <<>> /\ IsArena(t, Below)
  BY ArenaFacts DEF Mirrors, Below
<1>2. 1 \in DOMAIN t
  <2>1. t \in Seq(NodeType(Below))
    BY <1>1 DEF IsArena
  <2> QED BY <1>1, <2>1
<1>3. u # <<>>
  BY <1>2 DEF SameTree
<1>4. \A i \in DOMAIN t \ {Root} : t[i].parent \in DOMAIN t
  <2>1. \A i \in 1..Len(t) : t[i].parent \in 0..(i - 1) /\ (i # Root => t[i].parent # 0)
    BY <1>1, ArenaFacts
  <2> QED BY <1>1, <2>1
<1>5. u[Root].entry = RootDir /\ u[Root].kind = "dir"
  BY <1>2 DEF Mirrors, SameTree, Root
<1>6. \A i, k \in DOMAIN u : i # k => u[i].entry # u[k].entry
  BY DEF Mirrors, SameTree
<1>7. ASSUME NEW i \in DOMAIN u \ {Root}
      PROVE  /\ u[i].entry \in Entries /\ u[i].kind = Kind[u[i].entry]
             /\ u[u[i].parent].kind = "dir"
             /\ u[i].entry \in ToSet(Listing[u[u[i].parent].entry])
             /\ Device[u[u[i].parent].entry] = Device[RootDir]
  BY <1>4 DEF Mirrors, SameTree
<1>8. ASSUME NEW i \in DOMAIN u
      PROVE  /\ u[i].children = {c \in DOMAIN u : u[c].parent = i}
             /\ "tombstoned" \notin u[i].flags
  BY DEF Mirrors, SameTree
<1> QED
  BY <1>3, <1>5, <1>6, <1>7, <1>8 DEF Mirrors, Below

\* A node that could not be read is flagged and nothing else.
LEMMA FlagNode ==
    ASSUME ArenaOK, NEW n, n \in DOMAIN nodes,
           nodes' = [nodes EXCEPT ![n].flags = @ \union {"unreadable"}]
    PROVE  /\ ArenaOK' /\ SameEntries(nodes, nodes')
           /\ LinksOf(nodes') = LinksOf(nodes)
<1>1. /\ IsArena(nodes, Below) /\ IsFresh(nodes, Below) /\ Mirrors(nodes)
      /\ \A i \in DOMAIN nodes \ {Root} : nodes[i].own = OwnBytes(nodes[i].entry)
  BY DEF ArenaOK, Mirrors, Below
<1>2. /\ Len(nodes) \in Nat /\ DOMAIN nodes = 1..Len(nodes)
      /\ nodes \in Seq(NodeType(Below)) /\ IsTree(nodes, Len(nodes))
      /\ \A i \in DOMAIN nodes \ {Root} : nodes[i].parent # 0
      /\ \A i \in DOMAIN nodes : nodes[i] \in NodeType(Below)
  BY <1>1, ArenaFacts DEF IsArena
<1> DEFINE x == nodes[n]
           F == x.flags \union {"unreadable"}
           y == [x EXCEPT !.flags = F]
<1>3. /\ y \in NodeType(Below) /\ y.entry = x.entry /\ y.parent = x.parent /\ y.kind = x.kind
      /\ y.own = x.own /\ y.agg = x.agg /\ y.files = x.files /\ y.dirs = x.dirs
      /\ y.children = x.children /\ y.flags = x.flags \union {"unreadable"}
  <2>1. x \in NodeType(Below)
    BY <1>2
  <2>2. F \in SUBSET {"boundary", "unreadable", "shared", "tombstoned"}
    BY <2>1 DEF NodeType
  <2> HIDE DEF x, F
  <2>3. /\ y \in NodeType(Below) /\ y.entry = x.entry /\ y.parent = x.parent /\ y.kind = x.kind
        /\ y.own = x.own /\ y.agg = x.agg /\ y.files = x.files /\ y.dirs = x.dirs
        /\ y.children = x.children /\ y.flags = F
    BY <2>1, <2>2 DEF NodeType
  <2> QED BY <2>3 DEF F
<1>4. nodes' = [nodes EXCEPT ![n] = y]
  OBVIOUS
<1> HIDE DEF y
<1>5. DOMAIN nodes' = DOMAIN nodes /\ \A i \in DOMAIN nodes : nodes'[i] = IF i = n THEN y ELSE nodes[i]
  BY <1>4
<1>6. nodes' \in Seq(NodeType(Below)) /\ Len(nodes') = Len(nodes)
  <2>1. n \in 1..Len(nodes)
    BY <1>2
  <2>2. nodes \in Seq(NodeType(Below)) /\ y \in NodeType(Below)
    BY <1>2, <1>3
  <2>3. /\ [nodes EXCEPT ![n] = y] \in Seq(NodeType(Below))
        /\ Len([nodes EXCEPT ![n] = y]) = Len(nodes)
    BY <2>1, <2>2
  <2> QED BY <1>4, <2>3, Zenon
<1>7. \A i \in DOMAIN nodes :
        /\ nodes'[i].entry = nodes[i].entry /\ nodes'[i].parent = nodes[i].parent
        /\ nodes'[i].kind = nodes[i].kind /\ nodes'[i].own = nodes[i].own
        /\ nodes'[i].agg = nodes[i].agg /\ nodes'[i].files = nodes[i].files
        /\ nodes'[i].dirs = nodes[i].dirs /\ nodes'[i].children = nodes[i].children
        /\ "tombstoned" \in nodes'[i].flags => "tombstoned" \in nodes[i].flags
  BY <1>3, <1>5
<1>8. IsArena(nodes', Below)
  BY <1>2, <1>5, <1>6, <1>7 DEF IsArena, IsTree
<1>9. Mirrors(nodes')
  <2>1. SameTree(nodes, nodes')
    BY <1>5, <1>7 DEF SameTree
  <2> QED BY <1>1, <1>8, <2>1, MirrorsSame
<1>10. IsFresh(nodes', Below)
  <2>1. nodes' # <<>>
    BY <1>9 DEF Mirrors
  <2> QED BY <1>1, <1>5, <1>7, <1>8, <2>1 DEF IsFresh
<1>11. ArenaOK'
  BY <1>1, <1>5, <1>7, <1>9, <1>10 DEF ArenaOK, Below
<1>12. SameEntries(nodes, nodes')
  BY <1>5, <1>7 DEF SameEntries
<1>13. LinksOf(nodes') = LinksOf(nodes)
  BY <1>5, <1>7 DEF LinksOf
<1> QED
  BY <1>11, <1>12, <1>13

\* A directory cannot be read.
LEMMA UnreadableKeeps ==
    ASSUME ScanInv, NEW w \in Workers, StartDir(w), ~cancelled, job[w].dir \in Flaky,
           stage'[w] = "end"
    PROVE  ScanInv'
<1>1. pc[w] = "process" /\ stage[w] = "start"
  BY DEF StartDir, Processing
<1>2. /\ PoolOK /\ TypeOK /\ StagesOK /\ outcome.kind = "none" /\ job[w] \in ScanJobs
      /\ job[w] \in Ever /\ Scanning
  BY <1>1, Busy
<1>3. UNCHANGED threadVars /\ UNCHANGED <<links, outcome>>
  BY DEF StartDir
<1>4. UNCHANGED <<injector, job, pushing, pushed, pc>>
  BY <1>3 DEF threadVars
<1>5. /\ local' = [local EXCEPT ![w].counts.errors = @ + 1]
      /\ nodes' = [nodes EXCEPT ![job[w].node].flags = @ \union {"unreadable"}]
      /\ stage' = [stage EXCEPT ![w] = "end"]
      /\ UNCHANGED <<todo, batch>>
  <2>1. w \in DOMAIN stage
    BY <1>2 DEF StagesOK
  <2> QED BY <2>1 DEF StartDir, Enter
<1>6. PoolOK'
  BY <1>2, <1>3, PoolKept
<1>7. Calm
  BY <1>1, <1>2, <1>3, <1>4, <1>5 DEF Calm, StagesOK
<1>8. local' \in [Workers -> StateType] /\ \A v \in Workers : local'[v].links = local[v].links
  <2> DEFINE st == local[w]
             c == [st.counts EXCEPT !.errors = @ + 1]
             u == [st EXCEPT !.counts = c]
  <2>1. st \in StateType
    BY <1>2 DEF StagesOK
  <2>2. c \in [files : Nat, dirs : Nat, bytes : Nat, errors : Nat]
    BY <2>1 DEF StateType
  <2>3. local' = [local EXCEPT ![w] = u]
    BY <1>5
  <2> HIDE DEF c
  <2>4. u \in StateType /\ u.links = st.links
    BY <2>1, <2>2 DEF StateType
  <2> HIDE DEF u
  <2> QED BY <1>2, <2>3, <2>4 DEF StagesOK
<1>9. StagesOK'
  BY <1>1, <1>2, <1>4, <1>5, <1>8 DEF StagesOK
<1>10. job[w].node \in DOMAIN nodes /\ ArenaOK
  BY <1>2 DEF Scanning, JobsOK, JobOK
<1>11. ArenaOK' /\ SameEntries(nodes, nodes') /\ LinksOf(nodes') = LinksOf(nodes)
  BY <1>5, <1>10, FlagNode
<1>12. Ever' = Ever /\ Waiting' \subseteq Waiting /\ Active' \subseteq Active
  BY <1>2, <1>7, CalmShrinks
<1>13. JobsOK' /\ Unspilled' /\ ClaimsOK'
  BY <1>2, <1>11, <1>12, JobsShrink DEF Scanning
<1>14. TodoFresh'
  BY <1>2, <1>4, <1>5 DEF Scanning, TodoFresh
<1>15. Scanning'
  BY <1>11, <1>13, <1>14 DEF Scanning
<1>16. LinksOK'
  BY <1>2, <1>3, <1>4, <1>8, <1>11 DEF ScanInv, LinksOK, Candidates
<1> QED
  BY <1>2, <1>3, <1>6, <1>9, <1>15, <1>16 DEF ScanInv, OutcomeOK

-----------------------------------------------------------------------------
(* A directory is listed.                                                  *)

\* The jobs while worker w lists its directory: its tail is spilled, its prefix
\* is worked on.
Listed(w, j, sp) ==
    /\ todo[w] = <<>> /\ stage[w] = "start" /\ job[w] = j /\ j.kind = "dir"
    /\ j \in ScanJobs /\ j \in pushed /\ j \in Waiting
    /\ todo'[w] = sp /\ stage'[w] = "listed"
    /\ \A v \in Workers \ {w} : todo'[v] = todo[v] /\ stage'[v] = stage[v]
    /\ UNCHANGED <<injector, job, pushing, pushed>>

\* What becomes of the sets of jobs.
LEMMA ListedJobs ==
    ASSUME TypeOK, StagesOK, JobsDistinct, TodoFresh, Unspilled,
           NEW w \in Workers, NEW j, NEW sp, Listed(w, j, sp),
           \A k \in ToSet(sp) : k.kind = "meta" /\ k.node = j.node
    PROVE  /\ Ever' = Ever \union ToSet(sp) /\ Ever \intersect ToSet(sp) = {}
           /\ Waiting' = (Waiting \ {j}) \union ToSet(sp)
           /\ Active' = Active \union ToSet(sp)
           /\ j \in Ever
<1>0. ToSet(todo[w]) = {}
  BY DEF Listed, ToSet
<1>1. Todo' = Todo \union ToSet(sp) /\ Ever' = Ever \union ToSet(sp)
  <2>1. \A v \in Workers \ {w} : ToSet(todo'[v]) = ToSet(todo[v])
    BY DEF Listed
  <2>2. ToSet(todo'[w]) = ToSet(sp)
    BY DEF Listed
  <2>3. Todo' = Todo \union ToSet(sp)
    BY <1>0, <2>1, <2>2 DEF Todo
  <2> QED BY <2>3 DEF Ever, Listed
<1>2. j \in Ever /\ Ever \intersect ToSet(sp) = {}
  BY DEF Unspilled, Ever, Listed
<1>3. j \notin injector /\ j \notin Todo /\ j # NoJob
      /\ (\A v \in Workers : pushing[v] # j) /\ (\A v \in Workers \ {w} : job[v] # j)
  <2>1. job[w] = j /\ j # NoJob
    BY ScanPoolAssumption DEF Listed
  <2>2. j \notin Todo
    BY DEF TodoFresh, Todo, Listed
  <2> QED BY <2>1, <2>2 DEF JobsDistinct
<1>4. ASSUME NEW k \in Waiting', k \notin ToSet(sp) PROVE k \in Waiting \ {j}
  <2>1. k \in Ever
    BY <1>1, <1>4 DEF Waiting
  <2>2. \/ k \in injector \union Todo'
        \/ \E v \in Workers : pushing[v] = k
        \/ \E v \in Workers : job[v] = k /\ stage'[v] = "start"
    BY <1>4 DEF Waiting, InStage, Listed
  <2>3. \/ k \in injector \union Todo
        \/ \E v \in Workers : pushing[v] = k
        \/ \E v \in Workers \ {w} : job[v] = k /\ stage[v] = "start"
    BY <1>1, <1>4, <2>2 DEF Listed
  <2>4. k # j
    BY <1>3, <2>3
  <2>5. k \in Waiting
    BY <2>1, <2>3 DEF Waiting, InStage
  <2> QED BY <2>4, <2>5
<1>5. ASSUME NEW k \in Working', k \notin ToSet(sp) PROVE k \in Active
  <2>1. k \in Ever
    BY <1>1, <1>5 DEF Working
  <2>2. PICK v \in Workers : job[v] = k /\ stage'[v] \in {"listed", "insert"}
    BY <1>5 DEF Working, InStage, Listed
  <2>3. CASE v = w
    BY <2>2, <2>3 DEF Listed, Active
  <2>4. CASE v # w
    BY <2>1, <2>2, <2>4 DEF Listed, Active, Working, InStage
  <2> QED BY <2>3, <2>4
<1>6. ASSUME NEW k \in Waiting \ {j} PROVE k \in Waiting'
  <2>1. k \in Ever'
    BY <1>1 DEF Waiting
  <2>2. CASE k \in injector \/ k \in Todo \/ \E v \in Workers : pushing[v] = k
    BY <1>1, <2>1, <2>2 DEF Waiting, Listed
  <2>3. ASSUME NEW v \in Workers, job[v] = k, stage[v] = "start" PROVE k \in Waiting'
    <3>1. v # w
      BY <1>6, <2>3 DEF Listed
    <3> QED BY <2>1, <2>3, <3>1 DEF Waiting, InStage, Listed
  <2> QED BY <2>2, <2>3 DEF Waiting, InStage
<1>7. ToSet(sp) \subseteq Waiting'
  <2>1. ToSet(sp) \subseteq Todo'
    BY DEF Todo, Listed
  <2> QED BY <1>1, <2>1 DEF Waiting
<1>8. ASSUME NEW k \in Working \union {j} PROVE k \in Working'
  <2>1. k \in Ever'
    BY <1>1, <1>2 DEF Working
  <2>2. CASE k = j
    BY <2>1, <2>2 DEF Working, InStage, Listed
  <2>3. ASSUME NEW v \in Workers, job[v] = k, stage[v] \in {"listed", "insert"} PROVE k \in Working'
    <3>1. v # w
      BY <2>3 DEF Listed
    <3> QED BY <2>1, <2>3, <3>1 DEF Working, InStage, Listed
  <2> QED BY <2>2, <2>3 DEF Working, InStage
<1> QED
  BY <1>1, <1>2, <1>4, <1>5, <1>6, <1>7, <1>8 DEF Active

\* The claim of the directory is shared out among its chunks and its prefix.
LEMMA ListedClaims ==
    ASSUME TypeOK, StagesOK, JobsDistinct, Scanning, nodes' = nodes,
           NEW w \in Workers, NEW j, Listed(w, j, SpillJobs(j))
    PROVE  JobsOK' /\ TodoFresh' /\ Unspilled' /\ ClaimsOK'
<1> DEFINE sp == SpillJobs(j)
<1>1. JobsOK /\ TodoFresh /\ Unspilled /\ ClaimsOK
  BY DEF Scanning
<1>2. j \in ScanJobs /\ j \in pushed /\ j \in Ever /\ j.kind = "dir" /\ j \in Waiting
      /\ todo[w] = <<>>
  BY DEF Listed, Ever
<1>3. j.from = 0 /\ JobOK(j, nodes)
  BY <1>1, <1>2 DEF JobsOK, JobOK
<1>4. /\ sp \in Seq(ScanJobs) /\ NoRepeat(sp)
      /\ \A k \in ToSet(sp) :
           /\ k.kind = "meta" /\ k.dir = j.dir /\ k.node = j.node
           /\ ToSet(NamesOf(j)) \intersect ToSet(NamesOf(k)) = {}
      /\ \A k, m \in ToSet(sp) : k # m => ToSet(NamesOf(k)) \intersect ToSet(NamesOf(m)) = {}
  BY <1>2, <1>3, SpillIs
<1>5. /\ Ever' = Ever \union ToSet(sp) /\ Ever \intersect ToSet(sp) = {}
      /\ Waiting' \subseteq (Waiting \ {j}) \union ToSet(sp)
      /\ Active' \subseteq Active \union ToSet(sp)
  BY <1>1, <1>4, ListedJobs
<1>6. /\ todo'[w] = sp /\ pushed' = pushed
      /\ \A v \in Workers \ {w} : todo'[v] = todo[v]
  BY DEF Listed
<1>7. Ever \subseteq ScanJobs /\ ToSet(sp) \subseteq ScanJobs
  BY <1>4, EverTyped DEF ToSet
<1> HIDE DEF sp
<1>8. JobsOK'
  <2>1. \A k \in Ever : JobOK(k, nodes)
    BY <1>1 DEF JobsOK
  <2>2. \A k \in ToSet(sp) : JobOK(k, nodes)
    BY <1>3, <1>4 DEF JobOK
  <2> QED BY <1>5, <2>1, <2>2 DEF JobsOK
<1>9. TodoFresh'
  <2>1. \A v \in Workers : ToSet(todo[v]) \subseteq Ever
    BY DEF Ever, Todo
  <2>2. ASSUME NEW v \in Workers
        PROVE  /\ ToSet(todo'[v]) \intersect pushed = {}
               /\ NoRepeat(todo'[v])
               /\ \A u \in Workers \ {v} : ToSet(todo'[u]) \intersect ToSet(todo'[v]) = {}
    <3>1. pushed \intersect ToSet(sp) = {}
      BY <1>5 DEF Ever
    <3>2. \A u \in Workers : ToSet(todo[u]) \intersect ToSet(sp) = {}
      BY <1>5, <2>1
    <3>3. CASE v = w
      BY <1>4, <1>6, <3>1, <3>2, <3>3
    <3>4. CASE v # w
      BY <1>1, <1>6, <3>2, <3>4 DEF TodoFresh
    <3> QED BY <3>3, <3>4
  <2> QED BY <1>6, <2>2 DEF TodoFresh
<1>10. Unspilled'
  <2> SUFFICES ASSUME NEW k \in Waiting', k.kind = "dir", NEW m \in Ever', m.kind = "meta"
               PROVE  m.node # k.node
    BY DEF Unspilled
  <2>1. k \in Waiting /\ k # j /\ k \in Ever
    BY <1>4, <1>5 DEF Waiting
  <2>2. CASE m \in Ever
    BY <1>1, <2>1, <2>2 DEF Unspilled
  <2>3. CASE m \in ToSet(sp)
    <3>1. m.node = j.node
      BY <1>4, <2>3
    <3>2. k.dir = nodes[k.node].entry /\ k.from = 0 /\ j.dir = nodes[j.node].entry
      BY <1>1, <1>3, <2>1 DEF JobsOK, JobOK
    <3>3. k.node = j.node => k = j
      <4>1. k \in ScanJobs
        BY <1>7, <2>1
      <4> QED BY <1>2, <1>3, <3>2, <4>1 DEF ScanJobs
    <3> QED BY <2>1, <3>1, <3>3
  <2> QED BY <1>5, <2>2, <2>3
<1>11. Claim(j) = ToSet(Listing[j.dir])
  BY <1>2 DEF Claim
<1>12. ASSUME NEW k \in Active', k \notin ToSet(sp)
       PROVE  /\ k \in Active /\ Claim(k)' \subseteq Claim(k)
              /\ k = j => Claim(k)' = ToSet(NamesOf(j))
  <2>1. k \in Active /\ k \in ScanJobs
    BY <1>5, <1>7, <1>12 DEF Active, Waiting, Working
  <2>2. ToSet(NamesOf(k)) \subseteq ToSet(Listing[k.dir])
    BY <2>1, NamesIs
  <2>3. k \in Waiting' => k \in Waiting
    BY <1>5, <1>12
  <2>4. k = j => k \notin Waiting'
    BY <1>5, <1>12
  <2> QED BY <2>1, <2>2, <2>3, <2>4 DEF Claim
<1>13. ASSUME NEW k \in ToSet(sp)
       PROVE  Claim(k)' = ToSet(NamesOf(k)) /\ Claim(k)' \subseteq Claim(j)
  <2>1. k.kind = "meta" /\ k.dir = j.dir
    BY <1>4
  <2>2. Claim(k)' = ToSet(NamesOf(k))
    BY <2>1 DEF Claim
  <2>3. ToSet(NamesOf(k)) \subseteq ToSet(Listing[k.dir])
    BY <1>7, NamesIs
  <2> QED BY <1>11, <2>1, <2>2, <2>3
<1>14. j \in Active
  BY <1>2 DEF Active
<1>15. ASSUME NEW k \in Active', k \notin ToSet(sp), NEW m \in ToSet(sp)
       PROVE  Claim(k)' \intersect Claim(m)' = {}
  <2>1. CASE k = j
    <3>1. ToSet(NamesOf(j)) \intersect ToSet(NamesOf(m)) = {}
      BY <1>4
    <3> QED BY <1>12, <1>13, <1>15, <2>1, <3>1
  <2>2. CASE k # j
    <3>1. Claim(k) \intersect Claim(j) = {}
      BY <1>1, <1>12, <1>14, <1>15, <2>2 DEF ClaimsOK
    <3> QED BY <1>12, <1>13, <1>15, <3>1
  <2> QED BY <2>1, <2>2
<1>16. ASSUME NEW k \in Active', NEW m \in Active', k # m
       PROVE  Claim(k)' \intersect Claim(m)' = {}
  <2>1. CASE k \in ToSet(sp) /\ m \in ToSet(sp)
    BY <1>4, <1>13, <1>16, <2>1
  <2>2. CASE k \in ToSet(sp) /\ m \notin ToSet(sp)
    BY <1>15, <2>2
  <2>3. CASE k \notin ToSet(sp) /\ m \in ToSet(sp)
    BY <1>15, <2>3
  <2>4. CASE k \notin ToSet(sp) /\ m \notin ToSet(sp)
    <3>1. Claim(k) \intersect Claim(m) = {}
      BY <1>1, <1>12, <1>16, <2>4 DEF ClaimsOK
    <3> QED BY <1>12, <2>4, <3>1
  <2> QED BY <2>1, <2>2, <2>3, <2>4
<1>17. ASSUME NEW k \in Active' PROVE Claim(k)' \intersect EntriesOf(nodes') = {}
  <2>1. nodes' = nodes /\ \A m \in Active : Claim(m) \intersect EntriesOf(nodes) = {}
    BY <1>1 DEF ClaimsOK
  <2> QED BY <1>12, <1>13, <1>14, <1>17, <2>1
<1>18. ClaimsOK'
  BY <1>16, <1>17, Zenon DEF ClaimsOK
<1> QED
  BY <1>8, <1>9, <1>10, <1>18

\* A directory is listed: its tail is to be pushed, its prefix to be inserted.
LEMMA ListKeeps ==
    ASSUME ScanInv, NEW w \in Workers, StartDir(w), ~cancelled, stage'[w] # "end"
    PROVE  ScanInv'
<1> DEFINE j == job[w]
<1>1. pc[w] = "process" /\ stage[w] = "start" /\ j.kind = "dir"
  BY DEF StartDir, Processing
<1>2. /\ PoolOK /\ TypeOK /\ StagesOK /\ outcome.kind = "none" /\ j \in ScanJobs
      /\ j \in pushed /\ j \in Ever /\ Scanning /\ JobsDistinct
  BY <1>1, Busy
<1>3. UNCHANGED threadVars /\ UNCHANGED <<links, outcome>>
  BY DEF StartDir
<1>4. UNCHANGED <<injector, job, pushing, pushed, pc>>
  BY <1>3 DEF threadVars
<1>5. PICK failed \in StatFailures(j, NamesOf(j)) :
        /\ batch' = [batch EXCEPT ![w] = [names |-> NamesOf(j), failed |-> failed]]
        /\ todo' = [todo EXCEPT ![w] = SpillJobs(j)]
        /\ stage' = [stage EXCEPT ![w] = "listed"]
        /\ UNCHANGED <<local, nodes>>
  <2>1. w \in DOMAIN stage
    BY <1>2 DEF StagesOK
  <2> QED BY <2>1 DEF StartDir, Enter
<1>6. PoolOK'
  BY <1>2, <1>3, PoolKept
<1>7. j.from = 0 /\ j \in Waiting
  BY <1>1, <1>2 DEF Scanning, JobsOK, JobOK, Waiting, InStage
<1>8. SpillJobs(j) \in Seq(ScanJobs)
  BY <1>1, <1>2, <1>7, SpillIs
<1>9. Listed(w, j, SpillJobs(j))
  BY <1>1, <1>2, <1>4, <1>5, <1>7 DEF Listed, StagesOK
<1>10. StagesOK'
  <2> DEFINE b == [names |-> NamesOf(j), failed |-> failed]
  <2>1. b \in [names : Seq(Entries), failed : SUBSET Entries] /\ b.names = NamesOf(j)
    BY <1>2, BatchTyped
  <2>2. batch' = [batch EXCEPT ![w] = b]
    BY <1>5
  <2> HIDE DEF b
  <2>3. /\ batch' \in [Workers -> [names : Seq(Entries), failed : SUBSET Entries]]
        /\ batch'[w].names = NamesOf(j) /\ \A v \in Workers \ {w} : batch'[v] = batch[v]
    BY <1>2, <2>1, <2>2 DEF StagesOK
  <2>4. /\ todo' \in [Workers -> Seq(ScanJobs)]
        /\ \A v \in Workers \ {w} : todo'[v] = todo[v]
    BY <1>2, <1>5, <1>8 DEF StagesOK
  <2> QED BY <1>1, <1>2, <1>4, <1>5, <2>3, <2>4 DEF StagesOK
<1>11. Scanning'
  <2>1. JobsOK' /\ TodoFresh' /\ Unspilled' /\ ClaimsOK'
    BY <1>2, <1>5, <1>9, ListedClaims
  <2> QED BY <1>2, <1>5, <2>1 DEF Scanning, ArenaOK
<1>12. LinksOK'
  BY <1>2, <1>3, <1>4, <1>5 DEF ScanInv, LinksOK, Candidates
<1> QED
  BY <1>2, <1>3, <1>6, <1>10, <1>11, <1>12 DEF ScanInv, OutcomeOK

-----------------------------------------------------------------------------
(* A batch is inserted.                                                    *)

\* The node of a new entry.
LEMMA NewNodeIs ==
    ASSUME NEW e, e \in Entries, NEW j, j \in ScanJobs
    PROVE  /\ NewNode(e, j) \in NodeType(Below)
           /\ NewNode(e, j).entry = e /\ NewNode(e, j).parent = j.node
           /\ NewNode(e, j).kind = Kind[e]
           /\ NewNode(e, j).own = OwnBytes(e) /\ NewNode(e, j).agg = OwnBytes(e)
           /\ NewNode(e, j).files = (IF Kind[e] = "file" THEN 1 ELSE 0)
           /\ NewNode(e, j).dirs = (IF Kind[e] = "dir" THEN 1 ELSE 0)
           /\ NewNode(e, j).children = {} /\ "tombstoned" \notin NewNode(e, j).flags
<1> DEFINE o == OwnBytes(e)
           F == IF IsBoundary(e, j.dir) THEN {"boundary"} ELSE {}
<1>1. Kind[e] \in {"dir", "file", "symlink", "other"} /\ j.node \in Nat
  BY FileSystemAssumption, FS_CardinalityType DEF ScanJobs
<1>2. o \in Nat
  BY FileSystemAssumption DEF OwnBytes
<1>3. F \in SUBSET {"boundary", "unreadable", "shared", "tombstoned"} /\ "tombstoned" \notin F
  OBVIOUS
<1>4. NewNode(e, j) = Node(e, j.node, Kind[e], o, F)
  BY Zenon DEF NewNode
<1> HIDE DEF o, F
<1>5. e \in Below
  BY DEF Below
<1> QED
  BY <1>1, <1>2, <1>3, <1>4, <1>5 DEF Node, NodeType, o

\* The new nodes follow the old ones, in the order of the batch.
NewIds(r) == (Len(nodes) + 1)..(Len(nodes) + Len(r))

\* The arena after the insertion of the entries r by job j.
Grown(j, r) ==
    [nodes EXCEPT ![j.node].children = @ \union NewIds(r)]
        \o [k \in DOMAIN r |-> NewNode(r[k], j)]

\* What the nodes are then.
GrownNodes(j, r, u) ==
    /\ DOMAIN u = 1..(Len(nodes) + Len(r)) /\ Len(u) = Len(nodes) + Len(r)
    /\ u \in Seq(NodeType(Below))
    /\ \A i \in 1..Len(nodes) :
        /\ u[i].entry = nodes[i].entry /\ u[i].parent = nodes[i].parent
        /\ u[i].kind = nodes[i].kind /\ u[i].own = nodes[i].own /\ u[i].agg = nodes[i].agg
        /\ u[i].files = nodes[i].files /\ u[i].dirs = nodes[i].dirs
        /\ u[i].flags = nodes[i].flags
        /\ u[i].children = IF i = j.node THEN nodes[i].children \union NewIds(r)
                                         ELSE nodes[i].children
    /\ \A i \in NewIds(r) : u[i] = NewNode(r[i - Len(nodes)], j)

\* A batch of entries, appended below its directory, gives an arena.
LEMMA GrownIs ==
    ASSUME nodes \in Seq(NodeType(Below)), NEW j, j \in ScanJobs, j.node \in DOMAIN nodes,
           NEW r, r \in Seq(Entries)
    PROVE  GrownNodes(j, r, Grown(j, r))
<1> DEFINE n == Len(nodes)
           m == Len(r)
           p == j.node
           x == nodes[p]
           C == x.children \union NewIds(r)
           y == [x EXCEPT !.children = C]
           a == [nodes EXCEPT ![p] = y]
           d == [k \in DOMAIN r |-> NewNode(r[k], j)]
           u == a \o d
<1>1. /\ n \in Nat /\ DOMAIN nodes = 1..n /\ p \in 1..n
      /\ \A i \in 1..n : nodes[i] \in NodeType(Below)
      /\ m \in Nat /\ DOMAIN r = 1..m /\ \A k \in 1..m : r[k] \in Entries
  OBVIOUS
<1>2. NewIds(r) \subseteq Nat /\ \A i : i \in NewIds(r) <=> i \in Int /\ n + 1 <= i /\ i <= n + m
  BY <1>1 DEF NewIds
<1>3. /\ y \in NodeType(Below) /\ y.entry = x.entry /\ y.parent = x.parent /\ y.kind = x.kind
      /\ y.own = x.own /\ y.agg = x.agg /\ y.files = x.files /\ y.dirs = x.dirs
      /\ y.flags = x.flags /\ y.children = C
  <2>1. x \in NodeType(Below)
    BY <1>1
  <2>2. C \in SUBSET Nat
    <3>1. x.children \subseteq Nat
      BY <2>1 DEF NodeType
    <3> QED BY <1>2, <3>1
  <2> HIDE DEF x, C
  <2> QED BY <2>1, <2>2 DEF NodeType
<1> HIDE DEF y
<1>4. /\ a \in Seq(NodeType(Below)) /\ Len(a) = n
      /\ \A i \in 1..n : a[i] = IF i = p THEN y ELSE nodes[i]
  BY <1>1, <1>3
<1>5. /\ d \in Seq(NodeType(Below)) /\ Len(d) = m
      /\ \A k \in 1..m : d[k] = NewNode(r[k], j)
  <2>1. \A k \in 1..m : d[k] = NewNode(r[k], j) /\ d[k] \in NodeType(Below)
    BY <1>1, NewNodeIs
  <2>2. d = [k \in 1..m |-> d[k]]
    BY <1>1
  <2> HIDE DEF d
  <2> QED BY <1>1, <2>1, <2>2, FunctionIsSeq
<1> HIDE DEF a, d
<1>6. /\ u \in Seq(NodeType(Below)) /\ Len(u) = n + m /\ DOMAIN u = 1..(n + m)
      /\ \A i \in 1..n : u[i] = a[i]
      /\ \A i \in (n + 1)..(n + m) : u[i] = d[i - n]
  <2> HIDE DEF n, m
  <2> QED BY <1>1, <1>4, <1>5
<1>7. \A i \in NewIds(r) : u[i] = NewNode(r[i - n], j)
  <2> SUFFICES ASSUME NEW i \in NewIds(r) PROVE u[i] = NewNode(r[i - n], j)
    OBVIOUS
  <2>1. i \in (n + 1)..(n + m) /\ i - n \in 1..m
    BY <1>1, <1>2
  <2> HIDE DEF u, n, m
  <2> QED BY <1>5, <1>6, <2>1
<1>8. Grown(j, r) = u
  BY Zenon DEF Grown, a, d, y
<1> HIDE DEF u
<1>9. GrownNodes(j, r, u)
  <2>1. \A i \in 1..n : u[i] = IF i = p THEN y ELSE nodes[i]
    BY <1>4, <1>6
  <2>2. /\ DOMAIN u = 1..(Len(nodes) + Len(r)) /\ Len(u) = Len(nodes) + Len(r)
        /\ u \in Seq(NodeType(Below))
    BY <1>6
  <2>3. ASSUME NEW i \in 1..n
        PROVE  /\ u[i].entry = nodes[i].entry /\ u[i].parent = nodes[i].parent
               /\ u[i].kind = nodes[i].kind /\ u[i].own = nodes[i].own /\ u[i].agg = nodes[i].agg
               /\ u[i].files = nodes[i].files /\ u[i].dirs = nodes[i].dirs
               /\ u[i].flags = nodes[i].flags
               /\ u[i].children = IF i = j.node THEN nodes[i].children \union NewIds(r)
                                                ELSE nodes[i].children
    BY <1>3, <2>1
  <2> QED BY <1>7, <2>2, <2>3 DEF GrownNodes
<1> QED
  BY <1>8, <1>9

\* An arena that mirrors the file system has a node for every entry at most.
LEMMA MirrorsSmall ==
    ASSUME NEW t, Mirrors(t)
    PROVE  /\ Len(t) \in Nat /\ Len(t) <= Cardinality(Entries) + 1
           /\ Cardinality(EntriesOf(t)) = Len(t)
<1> DEFINE n == Len(t)
           f == [i \in 1..n |-> t[i].entry]
<1>1. n \in Nat /\ DOMAIN t = 1..n /\ \A i \in 1..n : t[i].entry \in Below
  BY ArenaFacts DEF Mirrors, Below
<1>2. f \in [1..n -> EntriesOf(t)] /\ \A i, k \in 1..n : i # k => f[i] # f[k]
  BY <1>1 DEF EntriesOf, Mirrors
<1>3. f \in Surjection(1..n, EntriesOf(t)) /\ f \in Injection(1..n, EntriesOf(t))
  <2>1. \A x \in EntriesOf(t) : \E i \in 1..n : f[i] = x
    BY <1>1 DEF EntriesOf
  <2> HIDE DEF f
  <2> QED BY <1>2, <2>1, Zenon DEF Surjection, Injection, IsInjective
<1>4. IsFiniteSet(1..n) /\ Cardinality(1..n) = n
  BY <1>1, FS_Interval
<1>5. IsFiniteSet(EntriesOf(t)) /\ Cardinality(EntriesOf(t)) = n
  <2> HIDE DEF f
  <2> QED BY <1>3, <1>4, FS_Surjection
<1>6. EntriesOf(t) \subseteq Below
  BY <1>1 DEF EntriesOf
<1>7. IsFiniteSet(Below) /\ Cardinality(Below) <= Cardinality(Entries) + 1
      /\ Cardinality(Entries) \in Nat /\ Cardinality(Below) \in Nat
  <2>1. IsFiniteSet(Entries) /\ Cardinality(Entries) \in Nat
    BY FileSystemAssumption, FS_CardinalityType
  <2>2. /\ IsFiniteSet(Below)
        /\ Cardinality(Below) = IF RootDir \in Entries THEN Cardinality(Entries)
                                                     ELSE Cardinality(Entries) + 1
    BY <2>1, FS_AddElement DEF Below
  <2> QED BY <2>1, <2>2
<1>8. Cardinality(EntriesOf(t)) <= Cardinality(Below)
  BY <1>6, <1>7, FS_Subset
<1> QED
  BY <1>1, <1>5, <1>7, <1>8

\* The arena that has grown by entries which their directory lists and nobody
\* had inserted.
LEMMA GrownArena ==
    ASSUME ArenaOK, NEW j, j \in ScanJobs, JobOK(j, nodes),
           NEW r, r \in Seq(Entries), NoRepeat(r),
           ToSet(r) \intersect EntriesOf(nodes) = {}, ToSet(r) \subseteq ToSet(Listing[j.dir]),
           nodes' = Grown(j, r)
    PROVE  ArenaOK'
<1> DEFINE n == Len(nodes)
           m == Len(r)
           p == j.node
<1>1. /\ IsArena(nodes, Below) /\ IsFresh(nodes, Below) /\ Mirrors(nodes)
      /\ \A i \in DOMAIN nodes \ {Root} : nodes[i].own = OwnBytes(nodes[i].entry)
  BY DEF ArenaOK, Mirrors, Below
<1>2. /\ n \in Nat /\ DOMAIN nodes = 1..n
      /\ nodes \in Seq(NodeType(Below)) /\ IsTree(nodes, n) /\ n >= 1
      /\ \A i \in 1..n : i # Root => nodes[i].parent # 0
      /\ \A i \in 1..n : nodes[i].parent \in 0..(i - 1)
  <2>1. nodes \in Seq(NodeType(Below)) /\ nodes # <<>>
    BY <1>1 DEF IsArena, Mirrors
  <2>2. n \in Nat /\ n >= 1
    BY <2>1
  <2> QED BY <1>1, <2>1, <2>2, ArenaFacts
<1>3. p \in 1..n /\ nodes[p].entry = j.dir /\ nodes[p].kind = "dir" /\ Device[j.dir] = Device[RootDir]
  BY <1>2 DEF JobOK
<1>4. m \in Nat /\ DOMAIN r = 1..m /\ \A k \in 1..m : r[k] \in Entries /\ r[k] \in ToSet(r)
  BY DEF ToSet
<1> DEFINE u == nodes'
<1>5. GrownNodes(j, r, u)
  BY <1>2, <1>3, GrownIs
<1> HIDE DEF u
<1>6. /\ DOMAIN u = 1..(n + m) /\ Len(u) = n + m /\ u \in Seq(NodeType(Below))
      /\ \A i \in 1..n :
            /\ u[i].entry = nodes[i].entry /\ u[i].parent = nodes[i].parent
            /\ u[i].kind = nodes[i].kind /\ u[i].own = nodes[i].own /\ u[i].agg = nodes[i].agg
            /\ u[i].files = nodes[i].files /\ u[i].dirs = nodes[i].dirs
            /\ u[i].flags = nodes[i].flags
  BY <1>5, Zenon DEF GrownNodes
<1>18. \A i \in 1..n :
          u[i].children = IF i = p THEN nodes[i].children \union NewIds(r) ELSE nodes[i].children
  BY <1>5, Zenon DEF GrownNodes
<1>19. /\ \A i, k \in 1..n : i # k => nodes[i].entry # nodes[k].entry
       /\ nodes[1].entry = RootDir /\ nodes[1].kind = "dir"
       /\ \A i \in 1..n : i # 1 =>
            /\ nodes[i].entry \in Entries /\ nodes[i].kind = Kind[nodes[i].entry]
            /\ nodes[nodes[i].parent].kind = "dir"
            /\ nodes[i].entry \in ToSet(Listing[nodes[nodes[i].parent].entry])
            /\ Device[nodes[nodes[i].parent].entry] = Device[RootDir]
            /\ nodes[i].own = OwnBytes(nodes[i].entry)
  BY <1>1, <1>2 DEF Mirrors, Root
<1>20. \A i \in 1..n :
            /\ nodes[i].children = {c \in 1..n : nodes[c].parent = i}
            /\ "tombstoned" \notin nodes[i].flags
  BY <1>1, <1>2 DEF Mirrors
<1>21. \A i \in 1..n :
            /\ nodes[i].agg = nodes[i].own
            /\ nodes[i].files = IF nodes[i].kind = "file" THEN 1 ELSE 0
            /\ nodes[i].dirs = IF nodes[i].kind = "dir" /\ i # 1 THEN 1 ELSE 0
  BY <1>1, <1>2 DEF IsFresh, Root
<1>7. \A i : i \in NewIds(r) <=> i \in 1..(n + m) /\ ~(i \in 1..n)
  BY <1>2, <1>4 DEF NewIds
<1>8. ASSUME NEW i \in NewIds(r)
      PROVE  /\ i - n \in 1..m /\ u[i].entry = r[i - n] /\ u[i].parent = p
             /\ u[i].kind = Kind[r[i - n]]
             /\ u[i].own = OwnBytes(r[i - n]) /\ u[i].agg = u[i].own
             /\ u[i].files = (IF u[i].kind = "file" THEN 1 ELSE 0)
             /\ u[i].dirs = (IF u[i].kind = "dir" THEN 1 ELSE 0)
             /\ u[i].children = {} /\ "tombstoned" \notin u[i].flags
  <2>1. i - n \in 1..m
    BY <1>2, <1>4 DEF NewIds
  <2>2. u[i] = NewNode(r[i - n], j) /\ r[i - n] \in Entries
    BY <1>4, <1>5, <2>1 DEF GrownNodes
  <2> QED BY <2>1, <2>2, NewNodeIs
<1> HIDE DEF n, m, p
<1>9. IsArena(u, Below)
  <2>1. \A i \in 1..(n + m) : u[i].parent \in 0..(i - 1) /\ (i # Root => u[i].parent # 0)
    <3> SUFFICES ASSUME NEW i \in 1..(n + m)
                 PROVE  u[i].parent \in 0..(i - 1) /\ (i # Root => u[i].parent # 0)
      OBVIOUS
    <3>1. CASE i \in 1..n
      BY <1>2, <1>6, <3>1
    <3>2. CASE i \in NewIds(r)
      BY <1>2, <1>3, <1>4, <1>7, <1>8, <3>2
    <3> QED BY <1>7, <3>1, <3>2
  <2>2. n + m \in Nat
    BY <1>2, <1>4
  <2> QED BY <1>6, <2>1, <2>2 DEF IsArena, IsTree
<1>10. \A i, k \in 1..(n + m) : i # k => u[i].entry # u[k].entry
  <2>1. \A i, k \in 1..n : i # k => u[i].entry # u[k].entry
    BY <1>6, <1>19
  <2>2. ASSUME NEW i \in NewIds(r), NEW k \in NewIds(r), i # k PROVE u[i].entry # u[k].entry
    <3>1. i - n # k - n
      BY <1>2, <1>4, <1>7, <2>2
    <3> QED BY <1>4, <1>8, <3>1 DEF NoRepeat
  <2>3. ASSUME NEW i \in 1..n, NEW k \in NewIds(r) PROVE u[i].entry # u[k].entry
    <3>1. u[i].entry \in EntriesOf(nodes)
      BY <1>2, <1>6 DEF EntriesOf
    <3>2. u[k].entry \in ToSet(r)
      BY <1>4, <1>8
    <3> QED BY <3>1, <3>2
  <2> QED BY <1>7, <2>1, <2>2, <2>3
<1>11. ASSUME NEW i \in DOMAIN u \ {Root}
       PROVE  /\ u[i].entry \in Entries /\ u[i].kind = Kind[u[i].entry]
              /\ u[u[i].parent].kind = "dir"
              /\ u[i].entry \in ToSet(Listing[u[u[i].parent].entry])
              /\ Device[u[u[i].parent].entry] = Device[RootDir]
              /\ u[i].own = OwnBytes(u[i].entry)
  <2>1. CASE i \in 1..n
    <3>1. nodes[i].parent \in 1..n
      BY <1>2, <1>11, <2>1
    <3>2. i # 1
      BY <1>11 DEF Root
    <3> QED BY <1>6, <1>19, <2>1, <3>1, <3>2
  <2>2. CASE i \in NewIds(r)
    BY <1>3, <1>4, <1>6, <1>8, <2>2
  <2> QED BY <1>6, <1>7, <1>11, <2>1, <2>2
<1>12. ASSUME NEW i \in DOMAIN u
       PROVE  /\ u[i].children = {c \in DOMAIN u : u[c].parent = i}
              /\ "tombstoned" \notin u[i].flags
  <2>1. \A c \in 1..n : u[c].parent = nodes[c].parent /\ nodes[c].parent \in 0..n
    BY <1>2, <1>6
  <2>2. CASE i \in 1..n
    <3>1. nodes[i].children = {c \in 1..n : nodes[c].parent = i} /\ "tombstoned" \notin nodes[i].flags
      BY <1>20, <2>2
    <3>2. CASE i = p
      <4>1. u[i].children = {c \in 1..n : nodes[c].parent = i} \union NewIds(r)
        BY <1>18, <2>2, <3>1, <3>2
      <4>2. \A c \in NewIds(r) : u[c].parent = i
        BY <1>8, <3>2
      <4>3. {c \in DOMAIN u : u[c].parent = i} = {c \in 1..n : nodes[c].parent = i} \union NewIds(r)
        <5>1. \A c \in DOMAIN u : c \in 1..n \/ c \in NewIds(r)
          BY <1>6, <1>7
        <5>2. \A c : c \in 1..n \/ c \in NewIds(r) => c \in DOMAIN u
          BY <1>2, <1>4, <1>6, <1>7
        <5>3. \A c \in 1..n : u[c].parent = nodes[c].parent
          BY <2>1
        <5> QED BY <4>2, <5>1, <5>2, <5>3, Zenon
      <4> QED BY <1>6, <2>2, <3>1, <4>1, <4>3
    <3>3. CASE i # p
      <4>1. u[i].children = {c \in 1..n : nodes[c].parent = i}
        BY <1>18, <2>2, <3>1, <3>3
      <4>2. \A c \in NewIds(r) : u[c].parent # i
        BY <1>8, <3>3
      <4>3. {c \in DOMAIN u : u[c].parent = i} = {c \in 1..n : nodes[c].parent = i}
        <5>1. \A c \in DOMAIN u : c \in 1..n \/ c \in NewIds(r)
          BY <1>6, <1>7
        <5>2. \A c : c \in 1..n => c \in DOMAIN u
          BY <1>2, <1>4, <1>6
        <5>3. \A c \in 1..n : u[c].parent = nodes[c].parent
          BY <2>1
        <5> QED BY <4>2, <5>1, <5>2, <5>3, Zenon
      <4> QED BY <1>6, <2>2, <3>1, <4>1, <4>3
    <3> QED BY <3>2, <3>3
  <2>3. CASE i \in NewIds(r)
    <3>1. ~(i \in 0..n)
      BY <1>2, <1>4, <2>3 DEF NewIds, n, m
    <3>2. \A c \in DOMAIN u : u[c].parent # i
      BY <1>3, <1>6, <1>7, <1>8, <2>1, <3>1
    <3> QED BY <1>8, <2>3, <3>2
  <2> QED BY <1>6, <1>7, <1>12, <2>2, <2>3
<1>13. 1 \in 1..n /\ u[Root].entry = RootDir /\ u[Root].kind = "dir" /\ u # <<>>
  <2>1. 1 \in 1..n /\ 1 \in 1..(n + m)
    BY <1>2, <1>4
  <2>2. u # <<>>
    BY <1>6, <2>1
  <2> QED BY <1>6, <1>19, <2>1, <2>2 DEF Root
<1>14. Mirrors(u)
  BY <1>6, <1>9, <1>10, <1>11, <1>12, <1>13 DEF Mirrors, Below
<1>15. IsFresh(u, Below)
  <2>1. ASSUME NEW i \in DOMAIN u
        PROVE  /\ u[i].agg = u[i].own
               /\ u[i].files = IF u[i].kind = "file" THEN 1 ELSE 0
               /\ u[i].dirs = IF u[i].kind = "dir" /\ i # Root THEN 1 ELSE 0
    <3>1. CASE i \in 1..n
      BY <1>6, <1>21, <3>1 DEF Root
    <3>2. CASE i \in NewIds(r)
      BY <1>7, <1>8, <1>13, <3>2 DEF Root
    <3> QED BY <1>6, <1>7, <2>1, <3>1, <3>2
  <2> QED BY <1>9, <1>12, <1>13, <2>1 DEF IsFresh
<1>16. \A i \in DOMAIN u \ {Root} : u[i].own = OwnBytes(u[i].entry)
  BY <1>11
<1>17. u = nodes'
  BY DEF u
<1> QED
  BY <1>14, <1>15, <1>16, <1>17 DEF ArenaOK, Below

\* The ids of a batch are the positions its nodes get.
LEMMA IdsAre ==
    ASSUME NEW b, NEW r, r = Statted(b), r \in Seq(Entries), NoRepeat(r), Len(nodes) \in Nat
    PROVE  /\ {IdOf(e, b) : e \in ToSet(r)} = NewIds(r)
           /\ \A e \in ToSet(r) : IdOf(e, b) \in NewIds(r) /\ r[IdOf(e, b) - Len(nodes)] = e
<1> DEFINE pos(e) == CHOOSE k \in DOMAIN r : r[k] = e
<1>1. Len(r) \in Nat /\ DOMAIN r = 1..Len(r)
  OBVIOUS
<1>2. \A e : IdOf(e, b) = Len(nodes) + pos(e)
  BY DEF IdOf
<1>3. \A e \in ToSet(r) : pos(e) \in DOMAIN r /\ r[pos(e)] = e
  BY Zenon DEF ToSet
<1>4. \A k \in DOMAIN r : r[k] \in ToSet(r)
  BY Zenon DEF ToSet
<1> HIDE DEF pos
<1>5. ASSUME NEW e \in ToSet(r) PROVE IdOf(e, b) \in NewIds(r) /\ r[IdOf(e, b) - Len(nodes)] = e
  <2>1. pos(e) \in 1..Len(r)
    BY <1>1, <1>3
  <2>2. (Len(nodes) + pos(e)) - Len(nodes) = pos(e) /\ Len(nodes) + pos(e) \in NewIds(r)
    BY <1>1, <2>1 DEF NewIds
  <2> QED BY <1>2, <1>3, <2>2
<1>6. ASSUME NEW i \in NewIds(r) PROVE \E e \in ToSet(r) : IdOf(e, b) = i
  <2>1. i - Len(nodes) \in DOMAIN r
    BY <1>1 DEF NewIds
  <2>2. pos(r[i - Len(nodes)]) = i - Len(nodes)
    BY <1>3, <1>4, <2>1 DEF NoRepeat
  <2>3. IdOf(r[i - Len(nodes)], b) = i
    BY <1>2, <2>2 DEF NewIds
  <2> QED BY <1>4, <2>1, <2>3
<1> QED
  BY <1>5, <1>6

\* The directories of a batch that are walked, and their jobs.
WalkOf(r, j) == Keep(r, {e \in Entries : Kind[e] = "dir" /\ ~IsBoundary(e, j.dir)})
JobsFor(r, j, b) ==
    [k \in DOMAIN WalkOf(r, j) |-> DirJob(WalkOf(r, j)[k], IdOf(WalkOf(r, j)[k], b))]

\* The jobs a batch gives rise to: one for each new directory to descend into.
LEMMA JobsForIs ==
    ASSUME NEW b, NEW r, r = Statted(b), r \in Seq(Entries), NoRepeat(r), Len(nodes) \in Nat,
           Len(nodes) + Len(r) <= Cardinality(Entries) + 1,
           NEW j, j \in ScanJobs
    PROVE  /\ JobsFor(r, j, b) \in Seq(ScanJobs) /\ NoRepeat(JobsFor(r, j, b))
           /\ \A x \in ToSet(JobsFor(r, j, b)) :
                /\ x.kind = "dir" /\ x.from = 0 /\ x.node \in NewIds(r) /\ r[x.node - Len(nodes)] = x.dir
                /\ x.dir \in ToSet(r) /\ Kind[x.dir] = "dir" /\ Device[x.dir] = Device[j.dir]
           /\ \A x, y \in ToSet(JobsFor(r, j, b)) : x # y => x.dir # y.dir
<1> DEFINE S == {e \in Entries : Kind[e] = "dir" /\ ~IsBoundary(e, j.dir)}
           walk == WalkOf(r, j)
           D(k) == DirJob(walk[k], IdOf(walk[k], b))
           nt == JobsFor(r, j, b)
<1>1. /\ walk \in Seq(Entries) /\ NoRepeat(walk) /\ ToSet(walk) = ToSet(r) \intersect S
  <2>1. walk = Keep(r, S)
    BY Zenon DEF WalkOf
  <2> HIDE DEF walk, S
  <2> QED BY <2>1, KeepIs
<1>2. Len(walk) \in Nat /\ DOMAIN walk = 1..Len(walk) /\ \A k \in DOMAIN walk : walk[k] \in ToSet(walk)
  BY <1>1 DEF ToSet
<1>3. \A e \in ToSet(walk) : e \in ToSet(r) /\ e \in Entries /\ Kind[e] = "dir"
                               /\ Device[e] = Device[j.dir]
  BY <1>1 DEF IsBoundary, EffectiveStay
<1>4. nt = [k \in 1..Len(walk) |-> D(k)]
  BY <1>2, Zenon DEF JobsFor
<1> HIDE DEF walk, nt, S
<1>5. ASSUME NEW k \in 1..Len(walk)
      PROVE  /\ D(k) \in ScanJobs /\ D(k).kind = "dir" /\ D(k).from = 0 /\ D(k).dir = walk[k]
             /\ D(k).node \in NewIds(r) /\ r[D(k).node - Len(nodes)] = walk[k]
  <2> DEFINE e == walk[k]
             i == IdOf(e, b)
  <2>1. e \in ToSet(r) /\ e \in Dirs
    BY <1>2, <1>3 DEF Dirs
  <2>2. i \in NewIds(r) /\ r[i - Len(nodes)] = e
    BY <2>1, IdsAre
  <2>3. i \in 1..(Cardinality(Entries) + 1) /\ Cardinality(Entries) \in Nat
    <3>1. Cardinality(Entries) \in Nat /\ Len(r) \in Nat
      BY FileSystemAssumption, FS_CardinalityType
    <3> HIDE DEF i
    <3> QED BY <2>2, <3>1 DEF NewIds
  <2> HIDE DEF e, i
  <2>4. DirJob(e, i) \in ScanJobs
    BY <2>1, <2>3 DEF DirJob, ScanJobs
  <2>5. DirJob(e, i).kind = "dir" /\ DirJob(e, i).from = 0 /\ DirJob(e, i).dir = e /\ DirJob(e, i).node = i
    BY DEF DirJob
  <2> QED BY <2>2, <2>4, <2>5 DEF e, i
<1> HIDE DEF D
<1>6. nt \in Seq(ScanJobs) /\ Len(nt) = Len(walk) /\ DOMAIN nt = 1..Len(walk)
      /\ \A k \in 1..Len(walk) : nt[k] = D(k)
  BY <1>2, <1>4, <1>5
<1>7. \A k, m \in 1..Len(walk) : k # m => D(k).dir # D(m).dir
  BY <1>1, <1>2, <1>5 DEF NoRepeat
<1>8. NoRepeat(nt)
  BY <1>6, <1>7 DEF NoRepeat
<1>9. \A x \in ToSet(nt) : \E k \in 1..Len(walk) : x = D(k)
  BY <1>6 DEF ToSet
<1>10. \A x \in ToSet(nt) :
            /\ x.kind = "dir" /\ x.from = 0 /\ x.node \in NewIds(r) /\ r[x.node - Len(nodes)] = x.dir
            /\ x.dir \in ToSet(r) /\ Kind[x.dir] = "dir" /\ Device[x.dir] = Device[j.dir]
  <2> SUFFICES ASSUME NEW x \in ToSet(nt)
               PROVE  /\ x.kind = "dir" /\ x.from = 0 /\ x.node \in NewIds(r)
                      /\ r[x.node - Len(nodes)] = x.dir
                      /\ x.dir \in ToSet(r) /\ Kind[x.dir] = "dir" /\ Device[x.dir] = Device[j.dir]
    OBVIOUS
  <2>1. PICK k \in 1..Len(walk) : x = D(k)
    BY <1>9
  <2>2. x.dir = walk[k] /\ walk[k] \in ToSet(walk)
    BY <1>2, <1>5, <2>1
  <2> QED BY <1>3, <1>5, <2>1, <2>2
<1>11. \A x, y \in ToSet(nt) : x # y => x.dir # y.dir
  <2> SUFFICES ASSUME NEW x \in ToSet(nt), NEW y \in ToSet(nt), x # y PROVE x.dir # y.dir
    OBVIOUS
  <2>1. PICK k \in 1..Len(walk) : x = D(k)
    BY <1>9
  <2>2. PICK m \in 1..Len(walk) : y = D(m)
    BY <1>9
  <2> QED BY <1>7, <2>1, <2>2
<1> QED
  BY <1>6, <1>8, <1>10, <1>11 DEF nt

\* The jobs while worker w inserts the batch of job j and lists the jobs nt.
Inserted(w, j, nt) ==
    /\ todo[w] = <<>> /\ stage[w] = "insert" /\ job[w] = j
    /\ j \in ScanJobs /\ j \in pushed
    /\ todo'[w] = nt /\ stage'[w] = "queue"
    /\ \A v \in Workers \ {w} : todo'[v] = todo[v] /\ stage'[v] = stage[v]
    /\ UNCHANGED <<injector, job, pushing, pushed>>

\* What becomes of the sets of jobs: j is done, and the new ones wait.
LEMMA InsertedJobs ==
    ASSUME TypeOK, StagesOK, JobsDistinct, JobsOK, TodoFresh,
           NEW w \in Workers, NEW j, NEW nt, Inserted(w, j, nt),
           \A k \in ToSet(nt) : k.node \notin DOMAIN nodes
    PROVE  /\ Ever' = Ever \union ToSet(nt) /\ Ever \intersect ToSet(nt) = {}
           /\ Waiting' = Waiting \union ToSet(nt)
           /\ Active' = (Active \ {j}) \union ToSet(nt)
           /\ j \in Ever /\ j \in Active /\ j \notin Waiting
<1>0. ToSet(todo[w]) = {}
  BY DEF Inserted, ToSet
<1>1. Todo' = Todo \union ToSet(nt) /\ Ever' = Ever \union ToSet(nt)
  <2>1. \A v \in Workers \ {w} : ToSet(todo'[v]) = ToSet(todo[v])
    BY DEF Inserted
  <2>2. ToSet(todo'[w]) = ToSet(nt)
    BY DEF Inserted
  <2>3. Todo' = Todo \union ToSet(nt)
    BY <1>0, <2>1, <2>2 DEF Todo
  <2> QED BY <2>3 DEF Ever, Inserted
<1>2. Ever \intersect ToSet(nt) = {}
  BY DEF JobsOK, JobOK
<1>3. j \in Ever /\ j \in Active
  BY DEF Ever, Active, Working, InStage, Inserted
<1>4. /\ j \notin injector /\ j \notin Todo /\ j # NoJob
      /\ (\A v \in Workers : pushing[v] # j) /\ (\A v \in Workers \ {w} : job[v] # j)
  <2>1. job[w] = j /\ j # NoJob
    BY ScanPoolAssumption DEF Inserted
  <2>2. j \notin Todo
    BY DEF TodoFresh, Todo, Inserted
  <2> QED BY <2>1, <2>2 DEF JobsDistinct
<1>5. ASSUME NEW k \in Waiting', k \notin ToSet(nt) PROVE k \in Waiting \ {j}
  <2>1. k \in Ever
    BY <1>1, <1>5 DEF Waiting
  <2>2. \/ k \in injector \union Todo'
        \/ \E v \in Workers : pushing[v] = k
        \/ \E v \in Workers : job[v] = k /\ stage'[v] = "start"
    BY <1>5 DEF Waiting, InStage, Inserted
  <2>3. \/ k \in injector \union Todo
        \/ \E v \in Workers : pushing[v] = k
        \/ \E v \in Workers \ {w} : job[v] = k /\ stage[v] = "start"
    BY <1>1, <1>5, <2>2 DEF Inserted
  <2>4. k # j
    BY <1>4, <2>3
  <2>5. k \in Waiting
    BY <2>1, <2>3 DEF Waiting, InStage
  <2> QED BY <2>4, <2>5
<1>6. ASSUME NEW k \in Working', k \notin ToSet(nt) PROVE k \in Active \ {j}
  <2>1. k \in Ever
    BY <1>1, <1>6 DEF Working
  <2>2. PICK v \in Workers : job[v] = k /\ stage'[v] \in {"listed", "insert"}
    BY <1>6 DEF Working, InStage, Inserted
  <2>3. v # w
    BY <2>2 DEF Inserted
  <2> QED BY <1>4, <2>1, <2>2, <2>3 DEF Inserted, Active, Working, InStage
<1>7. j \notin Waiting
  <2>1. stage[w] # "start"
    BY DEF Inserted
  <2> QED BY <1>4, <2>1 DEF Waiting, InStage
<1>8. ASSUME NEW k \in Waiting PROVE k \in Waiting'
  <2>1. k \in Ever'
    BY <1>1 DEF Waiting
  <2>2. CASE k \in injector \/ k \in Todo \/ \E v \in Workers : pushing[v] = k
    BY <1>1, <2>1, <2>2 DEF Waiting, Inserted
  <2>3. ASSUME NEW v \in Workers, job[v] = k, stage[v] = "start" PROVE k \in Waiting'
    <3>1. v # w
      BY <2>3 DEF Inserted
    <3> QED BY <2>1, <2>3, <3>1 DEF Waiting, InStage, Inserted
  <2> QED BY <2>2, <2>3 DEF Waiting, InStage
<1>9. ToSet(nt) \subseteq Waiting'
  <2>1. ToSet(nt) \subseteq Todo'
    BY DEF Todo, Inserted
  <2> QED BY <1>1, <2>1 DEF Waiting
<1>10. ASSUME NEW k \in Working, k # j PROVE k \in Working'
  <2>1. k \in Ever'
    BY <1>1 DEF Working
  <2>2. PICK v \in Workers : job[v] = k /\ stage[v] \in {"listed", "insert"}
    BY DEF Working, InStage
  <2>3. v # w
    BY <1>10, <2>2 DEF Inserted
  <2> QED BY <2>1, <2>2, <2>3 DEF Working, InStage, Inserted
<1> QED
  BY <1>1, <1>2, <1>3, <1>5, <1>6, <1>7, <1>8, <1>9, <1>10 DEF Active

\* The jobs a batch leaves behind: one for each directory among its entries.
NewJobs(j, r, nt) ==
    /\ nt \in Seq(ScanJobs) /\ NoRepeat(nt)
    /\ \A x \in ToSet(nt) :
         /\ x.kind = "dir" /\ x.from = 0 /\ x.node \in NewIds(r) /\ r[x.node - Len(nodes)] = x.dir
         /\ x.dir \in ToSet(r) /\ Kind[x.dir] = "dir" /\ Device[x.dir] = Device[j.dir]
    /\ \A x, y \in ToSet(nt) : x # y => x.dir # y.dir

\* The entries of the grown arena, and the parents of its nodes.
LEMMA GrownEntries ==
    ASSUME ArenaOK, NEW j, j \in ScanJobs, j.node \in DOMAIN nodes,
           NEW r, r \in Seq(Entries), NEW u, GrownNodes(j, r, u)
    PROVE  /\ EntriesOf(u) = EntriesOf(nodes) \union ToSet(r)
           /\ \A i \in DOMAIN u : u[i].parent = 0 \/ u[i].parent \in DOMAIN nodes
           /\ \A i \in DOMAIN nodes :
                i \in DOMAIN u /\ u[i].entry = nodes[i].entry /\ u[i].kind = nodes[i].kind
<1> DEFINE n == Len(nodes)
           m == Len(r)
<1>1. /\ n \in Nat /\ DOMAIN nodes = 1..n /\ \A i \in 1..n : nodes[i].parent \in 0..(i - 1)
  BY ArenaFacts DEF ArenaOK, Mirrors
<1>2. m \in Nat /\ DOMAIN r = 1..m /\ \A k \in 1..m : r[k] \in Entries
  OBVIOUS
<1>3. /\ DOMAIN u = 1..(n + m)
      /\ \A i \in 1..n : u[i].entry = nodes[i].entry /\ u[i].parent = nodes[i].parent
                            /\ u[i].kind = nodes[i].kind
      /\ \A i \in NewIds(r) : u[i] = NewNode(r[i - n], j)
  BY Zenon DEF GrownNodes
<1>4. \A i : i \in NewIds(r) <=> i \in 1..(n + m) /\ ~(i \in 1..n)
  BY <1>1, <1>2 DEF NewIds
<1>5. ASSUME NEW i \in NewIds(r) PROVE i - n \in 1..m /\ u[i].entry = r[i - n] /\ u[i].parent = j.node
  <2>1. i - n \in 1..m
    BY <1>1, <1>2 DEF NewIds
  <2> QED BY <1>2, <1>3, <2>1, NewNodeIs
<1>6. ASSUME NEW k \in 1..m PROVE k + n \in NewIds(r) /\ (k + n) - n = k
  BY <1>1, <1>2 DEF NewIds
<1>a. \A i \in 1..n : i \in 1..(n + m)
  BY <1>1, <1>2
<1> HIDE DEF n, m
<1>7. ASSUME NEW x \in EntriesOf(u) PROVE x \in EntriesOf(nodes) \union ToSet(r)
  <2>1. PICK i \in 1..(n + m) : x = u[i].entry
    BY <1>3 DEF EntriesOf
  <2>2. CASE i \in 1..n
    BY <1>1, <1>3, <2>1, <2>2 DEF EntriesOf
  <2>3. CASE i \in NewIds(r)
    BY <1>2, <1>5, <2>1, <2>3 DEF ToSet
  <2> QED BY <1>4, <2>1, <2>2, <2>3
<1>8. ASSUME NEW x \in EntriesOf(nodes) PROVE x \in EntriesOf(u)
  <2>1. PICK i \in 1..n : x = nodes[i].entry
    BY <1>1 DEF EntriesOf
  <2> QED BY <1>3, <1>a, <2>1 DEF EntriesOf
<1>9. ASSUME NEW x \in ToSet(r) PROVE x \in EntriesOf(u)
  <2>1. PICK k \in 1..m : x = r[k]
    BY <1>2 DEF ToSet
  <2>2. u[k + n].entry = x /\ k + n \in DOMAIN u
    BY <1>3, <1>4, <1>5, <1>6, <2>1
  <2> QED BY <2>2 DEF EntriesOf
<1>10. EntriesOf(u) = EntriesOf(nodes) \union ToSet(r)
  BY <1>7, <1>8, <1>9
<1>11. ASSUME NEW i \in DOMAIN u PROVE u[i].parent = 0 \/ u[i].parent \in DOMAIN nodes
  <2>1. CASE i \in 1..n
    BY <1>1, <1>3, <2>1
  <2>2. CASE i \in NewIds(r)
    BY <1>5, <2>2
  <2> QED BY <1>3, <1>4, <2>1, <2>2
<1> QED
  BY <1>1, <1>3, <1>a, <1>10, <1>11

\* What a new directory lists is in no node yet.
LEMMA NewListings ==
    ASSUME ArenaOK, ArenaOK', NEW j, j \in ScanJobs, j.node \in DOMAIN nodes,
           NEW r, r \in Seq(Entries), GrownNodes(j, r, nodes'),
           ToSet(r) \intersect EntriesOf(nodes) = {},
           NEW d, d \in Dirs, d \in ToSet(r)
    PROVE  ToSet(Listing[d]) \intersect EntriesOf(nodes') = {}
<1> SUFFICES ASSUME NEW e \in ToSet(Listing[d]), e \in EntriesOf(nodes') PROVE FALSE
  OBVIOUS
<1>1. e \in Entries /\ e # RootDir
  <2>1. \A i \in DOMAIN Listing[d] : Listing[d][i] \in Entries
    BY ListingIs
  <2> QED BY <2>1, ScannerAssumption DEF ToSet
<1>2. PICK i \in DOMAIN nodes' : nodes'[i].entry = e
  BY DEF EntriesOf
<1>3. Mirrors(nodes')
  BY DEF ArenaOK
<1>4. i # Root /\ i # 1
  BY <1>1, <1>2, <1>3 DEF Mirrors, Root
<1> DEFINE p == nodes'[i].parent
<1>5. p \in DOMAIN nodes /\ p \in DOMAIN nodes' /\ nodes'[p].entry = nodes[p].entry
  <2>1. p # 0
    BY <1>2, <1>3, <1>4 DEF Mirrors, IsArena
  <2> QED BY <1>2, <2>1, GrownEntries
<1>6. nodes'[p].kind = "dir" /\ e \in ToSet(Listing[nodes'[p].entry])
  BY <1>2, <1>3, <1>4 DEF Mirrors
<1>7. nodes'[p].entry \in Dirs
  <2>1. CASE p = Root
    BY <1>3, <2>1 DEF Mirrors, Dirs
  <2>2. CASE p # Root
    BY <1>3, <1>5, <1>6, <2>2 DEF Mirrors, Dirs
  <2> QED BY <2>1, <2>2
<1>8. nodes[p].entry \in EntriesOf(nodes)
  BY <1>5 DEF EntriesOf
<1>9. nodes'[p].entry # d
  BY <1>5, <1>8
<1> QED
  BY <1>6, <1>7, <1>9, FileSystemAssumption

\* The new directories claim what they list, which nobody else does.
LEMMA InsertedClaims ==
    ASSUME TypeOK, StagesOK, JobsDistinct, Scanning, ArenaOK',
           NEW w \in Workers, NEW j, NEW nt, Inserted(w, j, nt),
           NEW r, r \in Seq(Entries), NewJobs(j, r, nt), GrownNodes(j, r, nodes'),
           ToSet(r) \subseteq ToSet(NamesOf(j))
    PROVE  JobsOK' /\ TodoFresh' /\ Unspilled' /\ ClaimsOK'
<1> DEFINE n == Len(nodes)
<1>1. JobsOK /\ TodoFresh /\ Unspilled /\ ClaimsOK /\ ArenaOK
  BY DEF Scanning
<1>2. n \in Nat /\ DOMAIN nodes = 1..n
  BY <1>1, ArenaFacts DEF ArenaOK, Mirrors
<1>3. \A i \in NewIds(r) : i \in DOMAIN nodes' /\ i \notin DOMAIN nodes
  <2>1. DOMAIN nodes' = 1..(n + Len(r))
    BY Zenon DEF GrownNodes
  <2>2. Len(r) \in Nat
    OBVIOUS
  <2> HIDE DEF n
  <2>3. \A i : i \in NewIds(r) => i \in 1..(n + Len(r)) /\ i \notin 1..n
    BY <1>2, <2>2 DEF NewIds, n
  <2> QED BY <1>2, <2>1, <2>3
<1>4. /\ nt \in Seq(ScanJobs) /\ NoRepeat(nt) /\ ToSet(nt) \subseteq ScanJobs
      /\ \A x \in ToSet(nt) :
           /\ x.kind = "dir" /\ x.from = 0 /\ x.node \in NewIds(r) /\ r[x.node - n] = x.dir
           /\ x.dir \in ToSet(r) /\ Kind[x.dir] = "dir" /\ Device[x.dir] = Device[j.dir]
           /\ x.dir \in Dirs
      /\ \A x, y \in ToSet(nt) : x # y => x.dir # y.dir
  <2>1. nt \in Seq(ScanJobs)
    BY DEF NewJobs
  <2>2. ToSet(nt) \subseteq ScanJobs
    BY <2>1 DEF ToSet
  <2>3. \A x \in ScanJobs : x.dir \in Dirs
    BY DEF ScanJobs
  <2> QED BY <2>2, <2>3 DEF NewJobs
<1>5. /\ Ever' = Ever \union ToSet(nt) /\ Ever \intersect ToSet(nt) = {}
      /\ Waiting' \subseteq Waiting \union ToSet(nt)
      /\ Active' \subseteq (Active \ {j}) \union ToSet(nt)
      /\ j \in Ever /\ j \in Active
  BY <1>1, <1>3, <1>4, InsertedJobs
<1>6. /\ todo'[w] = nt /\ pushed' = pushed /\ todo[w] = <<>> /\ j \in ScanJobs
      /\ \A v \in Workers \ {w} : todo'[v] = todo[v]
  BY DEF Inserted
<1>7. Ever \subseteq ScanJobs
  BY EverTyped
<1>8. JobOK(j, nodes) /\ j.node \in DOMAIN nodes
  BY <1>1, <1>5 DEF JobsOK, JobOK
<1>9. /\ EntriesOf(nodes') = EntriesOf(nodes) \union ToSet(r)
      /\ \A i \in DOMAIN nodes :
            i \in DOMAIN nodes' /\ nodes'[i].entry = nodes[i].entry /\ nodes'[i].kind = nodes[i].kind
  BY <1>1, <1>6, <1>8, GrownEntries
<1>10. JobsOK'
  <2>1. ASSUME NEW k \in Ever PROVE JobOK(k, nodes')
    BY <1>1, <1>9 DEF JobsOK, JobOK
  <2>2. ASSUME NEW k \in ToSet(nt) PROVE JobOK(k, nodes')
    <3>1. nodes'[k.node] = NewNode(r[k.node - n], j)
      BY <1>4, Zenon DEF GrownNodes
    <3>2. k.dir \in Entries
      BY <1>4 DEF ToSet
    <3>3. nodes'[k.node].entry = k.dir /\ nodes'[k.node].kind = "dir"
      BY <1>4, <1>6, <3>1, <3>2, NewNodeIs
    <3>4. Device[k.dir] = Device[RootDir]
      BY <1>4, <1>8 DEF JobOK
    <3> QED BY <1>3, <1>4, <3>3, <3>4 DEF JobOK
  <2> QED BY <1>5, <2>1, <2>2 DEF JobsOK
<1>11. TodoFresh'
  <2>1. \A v \in Workers : ToSet(todo[v]) \subseteq Ever
    BY DEF Ever, Todo
  <2>2. ASSUME NEW v \in Workers
        PROVE  /\ ToSet(todo'[v]) \intersect pushed = {}
               /\ NoRepeat(todo'[v])
               /\ \A u \in Workers \ {v} : ToSet(todo'[u]) \intersect ToSet(todo'[v]) = {}
    <3>1. pushed \intersect ToSet(nt) = {}
      BY <1>5 DEF Ever
    <3>2. \A u \in Workers : ToSet(todo[u]) \intersect ToSet(nt) = {}
      BY <1>5, <2>1
    <3>3. CASE v = w
      BY <1>4, <1>6, <3>1, <3>2, <3>3
    <3>4. CASE v # w
      BY <1>1, <1>6, <3>2, <3>4 DEF TodoFresh
    <3> QED BY <3>3, <3>4
  <2> QED BY <1>6, <2>2 DEF TodoFresh
<1>12. Unspilled'
  <2> SUFFICES ASSUME NEW k \in Waiting', k.kind = "dir", NEW m \in Ever', m.kind = "meta"
               PROVE  m.node # k.node
    BY DEF Unspilled
  <2>1. m \in Ever
    BY <1>4, <1>5
  <2>2. CASE k \in Waiting
    BY <1>1, <2>1, <2>2 DEF Unspilled
  <2>3. CASE k \in ToSet(nt)
    <3>1. m.node \in DOMAIN nodes
      BY <1>1, <2>1 DEF JobsOK, JobOK
    <3> QED BY <1>3, <1>4, <2>3, <3>1
  <2> QED BY <1>5, <2>2, <2>3
<1>13. ASSUME NEW k \in Active', k \notin ToSet(nt)
       PROVE  /\ k \in Active /\ k # j /\ Claim(k)' \subseteq Claim(k)
              /\ Claim(k) \subseteq ToSet(Listing[k.dir])
              /\ k.dir \in EntriesOf(nodes) /\ k.dir \in Dirs
  <2>1. k \in Active /\ k # j /\ k \in Ever /\ k \in ScanJobs
    BY <1>5, <1>7, <1>13 DEF Active, Waiting, Working
  <2>2. ToSet(NamesOf(k)) \subseteq ToSet(Listing[k.dir])
    BY <2>1, NamesIs
  <2>3. k \in Waiting' => k \in Waiting
    BY <1>5, <1>13
  <2>4. k.dir \in EntriesOf(nodes)
    BY <1>1, <2>1 DEF JobsOK, JobOK, EntriesOf
  <2>5. k.dir \in Dirs
    BY <2>1 DEF ScanJobs
  <2> QED BY <2>1, <2>2, <2>3, <2>4, <2>5 DEF Claim
<1>14. ToSet(NamesOf(j)) \subseteq Claim(j)
  <2>1. ToSet(NamesOf(j)) \subseteq ToSet(Listing[j.dir])
    BY <1>6, NamesIs
  <2> QED BY <2>1 DEF Claim
<1>15. ToSet(r) \intersect EntriesOf(nodes) = {}
  BY <1>1, <1>5, <1>14 DEF ClaimsOK
<1>16. ASSUME NEW k \in ToSet(nt)
       PROVE  Claim(k)' \subseteq ToSet(Listing[k.dir]) /\ k.dir \notin EntriesOf(nodes)
  <2>1. ToSet(NamesOf(k)) \subseteq ToSet(Listing[k.dir])
    BY <1>4, NamesIs
  <2> QED BY <1>4, <1>15, <2>1 DEF Claim
<1>17. ASSUME NEW k \in Active', k \notin ToSet(nt), NEW m \in ToSet(nt)
       PROVE  Claim(k)' \intersect Claim(m)' = {}
  <2>1. k.dir # m.dir /\ k.dir \in Dirs /\ m.dir \in Dirs
    BY <1>4, <1>13, <1>16, <1>17
  <2>2. ToSet(Listing[k.dir]) \intersect ToSet(Listing[m.dir]) = {}
    BY <2>1, FileSystemAssumption
  <2>3. Claim(k)' \subseteq ToSet(Listing[k.dir]) /\ Claim(m)' \subseteq ToSet(Listing[m.dir])
    BY <1>13, <1>16, <1>17
  <2> QED BY <2>2, <2>3
<1>18. ASSUME NEW k \in Active', NEW m \in Active', k # m
       PROVE  Claim(k)' \intersect Claim(m)' = {}
  <2>1. CASE k \in ToSet(nt) /\ m \in ToSet(nt)
    <3>1. ToSet(Listing[k.dir]) \intersect ToSet(Listing[m.dir]) = {}
      BY <1>4, <1>18, <2>1, FileSystemAssumption
    <3>2. Claim(k)' \subseteq ToSet(Listing[k.dir]) /\ Claim(m)' \subseteq ToSet(Listing[m.dir])
      BY <1>16, <2>1
    <3> QED BY <3>1, <3>2
  <2>2. CASE k \in ToSet(nt) /\ m \notin ToSet(nt)
    BY <1>17, <2>2
  <2>3. CASE k \notin ToSet(nt) /\ m \in ToSet(nt)
    BY <1>17, <2>3
  <2>4. CASE k \notin ToSet(nt) /\ m \notin ToSet(nt)
    <3>1. Claim(k) \intersect Claim(m) = {}
      BY <1>1, <1>13, <1>18, <2>4 DEF ClaimsOK
    <3> QED BY <1>13, <2>4, <3>1
  <2> QED BY <2>1, <2>2, <2>3, <2>4
<1>19. ASSUME NEW k \in Active' PROVE Claim(k)' \intersect EntriesOf(nodes') = {}
  <2>1. CASE k \in ToSet(nt)
    <3>1. k.dir \in Dirs /\ k.dir \in ToSet(r)
      BY <1>4, <2>1
    <3>2. ToSet(Listing[k.dir]) \intersect EntriesOf(nodes') = {}
      BY <1>1, <1>6, <1>8, <1>15, <3>1, NewListings
    <3>3. Claim(k)' \subseteq ToSet(Listing[k.dir])
      BY <1>16, <2>1
    <3> QED BY <3>2, <3>3
  <2>2. CASE k \notin ToSet(nt)
    <3>1. k \in Active /\ k # j /\ Claim(k)' \subseteq Claim(k)
      BY <1>13, <2>2
    <3>2. Claim(k) \intersect EntriesOf(nodes) = {} /\ Claim(k) \intersect Claim(j) = {}
      BY <1>1, <1>5, <3>1 DEF ClaimsOK
    <3>3. ToSet(r) \subseteq Claim(j)
      BY <1>14
    <3> QED BY <1>9, <3>1, <3>2, <3>3
  <2> QED BY <2>1, <2>2
<1>20. ClaimsOK'
  BY <1>18, <1>19, Zenon DEF ClaimsOK
<1> QED
  BY <1>10, <1>11, <1>12, <1>20

\* The hard-link candidates of a batch, and the worker state after it.
LinksFor(r, b) ==
    {[node |-> IdOf(e, b), id |-> Identity(e)] :
        e \in {x \in ToSet(r) : x \in MultiLink /\ Kind[x] = "file"}}
AfterBatch(s, r, b) ==
    [counts |-> Plus(s.counts, CountsOf(r, b.failed)), links |-> s.links \union LinksFor(r, b),
     since |-> s.since + Len(r)]

\* The parts of an insertion.
LEMMA InsertIs ==
    ASSUME NEW w, Insert(w), NEW r, r = Statted(batch[w]), NEW st,
           st = AfterBatch(local[w], r, batch[w])
    PROVE  /\ pc[w] = "process" /\ stage[w] = "insert"
           /\ nodes' = [nodes EXCEPT ![job[w].node].children =
                            @ \union {IdOf(e, batch[w]) : e \in ToSet(r)}]
                       \o [k \in DOMAIN r |-> NewNode(r[k], job[w])]
           /\ \/ local' = [local EXCEPT ![w] = Flushed(st)] /\ links' = links \union st.links
              \/ local' = [local EXCEPT ![w] = st] /\ links' = links
           /\ todo' = [todo EXCEPT ![w] = JobsFor(r, job[w], batch[w])]
           /\ batch' = [batch EXCEPT ![w] = NoBatch]
           /\ stage' = [stage EXCEPT ![w] = "queue"]
           /\ UNCHANGED <<threadVars, outcome>>
<1>1. pc[w] = "process" /\ stage[w] = "insert" /\ stage' = [stage EXCEPT ![w] = "queue"]
      /\ UNCHANGED <<threadVars, outcome>>
  BY Zenon DEF Insert, Processing, Enter
<1>2. nodes' = [nodes EXCEPT ![job[w].node].children =
                            @ \union {IdOf(e, batch[w]) : e \in ToSet(r)}]
                       \o [k \in DOMAIN r |-> NewNode(r[k], job[w])]
  BY Zenon DEF Insert
<1>3. batch' = [batch EXCEPT ![w] = NoBatch]
  BY Zenon DEF Insert
<1>4. todo' = [todo EXCEPT ![w] = JobsFor(r, job[w], batch[w])]
  BY Zenon DEF Insert, JobsFor, WalkOf
<1>5. /\ local' = [local EXCEPT ![w] = IF st.since >= FlushEvery THEN Flushed(st) ELSE st]
      /\ links' = IF st.since >= FlushEvery THEN links \union st.links ELSE links
  BY Zenon DEF Insert, AfterBatch, LinksFor
<1> QED
  BY <1>1, <1>2, <1>3, <1>4, <1>5

CountType == [files : Nat, dirs : Nat, bytes : Nat, errors : Nat]

\* Counters add up to counters.
LEMMA PlusTyped ==
    ASSUME NEW a, a \in CountType, NEW c, c \in CountType
    PROVE  Plus(a, c) \in CountType
<1>1. Plus(a, c) = [files |-> a.files + c.files, dirs |-> a.dirs + c.dirs,
                    bytes |-> a.bytes + c.bytes, errors |-> a.errors + c.errors]
  BY DEF Plus, NoCounts
<1>2. /\ a.files \in Nat /\ a.dirs \in Nat /\ a.bytes \in Nat /\ a.errors \in Nat
      /\ c.files \in Nat /\ c.dirs \in Nat /\ c.bytes \in Nat /\ c.errors \in Nat
  BY DEF CountType
<1> QED
  BY <1>1, <1>2 DEF CountType

\* What a batch adds to the counters.
LEMMA CountsTyped ==
    ASSUME NEW r, r \in Seq(Entries), NEW failed, failed \subseteq Entries
    PROVE  CountsOf(r, failed) \in CountType
<1> DEFINE files == {e \in ToSet(r) : Kind[e] = "file"}
           dirs == {e \in ToSet(r) : Kind[e] = "dir"}
<1>1. ToSet(r) \subseteq Entries
  BY DEF ToSet
<1>2. IsFiniteSet(ToSet(r)) /\ IsFiniteSet(files) /\ IsFiniteSet(dirs) /\ IsFiniteSet(failed)
  <2>1. files \subseteq Entries /\ dirs \subseteq Entries
    BY <1>1
  <2> QED BY <1>1, <2>1, FileSystemAssumption, FS_Subset
<1>3. Cardinality(files) \in Nat /\ Cardinality(dirs) \in Nat /\ Cardinality(failed) \in Nat
  BY <1>2, FS_CardinalityType
<1>4. SumFunctionOnSet(Bytes, ToSet(r)) \in Nat
  <2>1. \A e \in ToSet(r) : Bytes[e] \in Nat
    BY <1>1, FileSystemAssumption
  <2> QED BY <1>2, <2>1, SumType
<1> QED
  BY <1>3, <1>4 DEF CountsOf, CountType

\* The candidates of a batch are those of its nodes.
LEMMA GrownLinks ==
    ASSUME ArenaOK, ArenaOK', NEW j, j \in ScanJobs, j.node \in DOMAIN nodes,
           NEW b, NEW r, r = Statted(b), r \in Seq(Entries), NoRepeat(r),
           GrownNodes(j, r, nodes')
    PROVE  /\ LinksOf(nodes') = LinksOf(nodes) \union LinksFor(r, b)
           /\ LinksFor(r, b) \subseteq LinkType
<1> DEFINE n == Len(nodes)
           m == Len(r)
           Multi(e) == e \in MultiLink /\ Kind[e] = "file"
<1>1. n \in Nat /\ DOMAIN nodes = 1..n
  BY ArenaFacts DEF ArenaOK, Mirrors
<1>2. m \in Nat /\ DOMAIN r = 1..m /\ \A k \in 1..m : r[k] \in Entries /\ r[k] \in ToSet(r)
  BY DEF ToSet
<1>3. /\ DOMAIN nodes' = 1..(n + m)
      /\ \A i \in 1..n : nodes'[i].entry = nodes[i].entry /\ nodes'[i].kind = nodes[i].kind
      /\ \A i \in NewIds(r) : nodes'[i] = NewNode(r[i - n], j)
  BY Zenon DEF GrownNodes
<1>4. \A i : i \in 1..(n + m) <=> i \in 1..n \/ i \in NewIds(r)
  BY <1>1, <1>2 DEF NewIds
<1>5. \A i \in NewIds(r) : i - n \in 1..m
  BY <1>1, <1>2 DEF NewIds
<1>6. /\ {IdOf(e, b) : e \in ToSet(r)} = NewIds(r)
      /\ \A e \in ToSet(r) : IdOf(e, b) \in NewIds(r) /\ r[IdOf(e, b) - n] = e
  BY <1>1, IdsAre
<1>7. ASSUME NEW i \in NewIds(r)
      PROVE  /\ nodes'[i].entry = r[i - n] /\ nodes'[i].kind = Kind[r[i - n]]
             /\ r[i - n] \in ToSet(r) /\ IdOf(r[i - n], b) = i
  <2>1. r[i - n] \in Entries /\ r[i - n] \in ToSet(r)
    BY <1>2, <1>5
  <2>2. PICK e \in ToSet(r) : IdOf(e, b) = i
    BY <1>6
  <2>3. r[i - n] = e
    BY <1>6, <2>2
  <2> QED BY <1>3, <2>1, <2>2, <2>3, NewNodeIs
<1> HIDE DEF n, m
<1>8. ASSUME NEW x \in LinksOf(nodes') PROVE x \in LinksOf(nodes) \union LinksFor(r, b)
  <2>1. PICK i \in 1..(n + m) : /\ x = [node |-> i, id |-> Identity(nodes'[i].entry)]
                                /\ nodes'[i].kind = "file" /\ nodes'[i].entry \in MultiLink
    BY <1>3 DEF LinksOf
  <2>2. CASE i \in 1..n
    BY <1>1, <1>3, <2>1, <2>2 DEF LinksOf
  <2>3. CASE i \in NewIds(r)
    BY <1>7, <2>1, <2>3 DEF LinksFor
  <2> QED BY <1>4, <2>1, <2>2, <2>3
<1>9. ASSUME NEW x \in LinksOf(nodes) PROVE x \in LinksOf(nodes')
  <2>1. PICK i \in 1..n : /\ x = [node |-> i, id |-> Identity(nodes[i].entry)]
                          /\ nodes[i].kind = "file" /\ nodes[i].entry \in MultiLink
    BY <1>1 DEF LinksOf
  <2> QED BY <1>3, <1>4, <2>1 DEF LinksOf
<1>10. ASSUME NEW x \in LinksFor(r, b) PROVE x \in LinksOf(nodes') /\ x \in LinkType
  <2>1. PICK e \in ToSet(r) : /\ x = [node |-> IdOf(e, b), id |-> Identity(e)]
                              /\ e \in MultiLink /\ Kind[e] = "file"
    BY DEF LinksFor
  <2> DEFINE i == IdOf(e, b)
  <2>2. i \in NewIds(r) /\ r[i - n] = e
    BY <1>6, <2>1
  <2>3. nodes'[i].entry = e /\ nodes'[i].kind = "file" /\ i \in DOMAIN nodes'
    BY <1>3, <1>4, <1>7, <2>1, <2>2
  <2>4. e \in Entries
    BY FileSystemAssumption, <2>1
  <2>5. i \in 1..(Cardinality(Entries) + 1)
    <3>1. Mirrors(nodes')
      BY DEF ArenaOK
    <3>2. Len(nodes') \in Nat /\ Len(nodes') <= Cardinality(Entries) + 1
      BY <3>1, MirrorsSmall
    <3>3. DOMAIN nodes' = 1..Len(nodes')
      BY <3>1, ArenaFacts DEF Mirrors
    <3>4. Cardinality(Entries) \in Nat
      BY FileSystemAssumption, FS_CardinalityType
    <3> HIDE DEF i
    <3> QED BY <2>3, <3>2, <3>3, <3>4
  <2> HIDE DEF i
  <2>6. x = [node |-> i, id |-> Identity(e)]
    BY <2>1 DEF i
  <2> QED BY <2>1, <2>3, <2>4, <2>5, <2>6 DEF LinksOf, LinkType
<1> QED
  BY <1>8, <1>9, <1>10

\* The worker state after a batch.
LEMMA AfterBatchTyped ==
    ASSUME NEW s, s \in StateType, NEW b, b.failed \subseteq Entries, NEW r, r \in Seq(Entries),
           LinksFor(r, b) \subseteq LinkType
    PROVE  /\ AfterBatch(s, r, b) \in StateType
           /\ AfterBatch(s, r, b).links = s.links \union LinksFor(r, b)
<1> DEFINE c == Plus(s.counts, CountsOf(r, b.failed))
           l == s.links \union LinksFor(r, b)
           t == s.since + Len(r)
<1>1. c \in CountType
  <2>1. s.counts \in CountType
    BY DEF StateType, CountType
  <2> QED BY <2>1, CountsTyped, PlusTyped
<1>2. l \subseteq LinkType /\ t \in Nat
  BY DEF StateType
<1>3. AfterBatch(s, r, b) = [counts |-> c, links |-> l, since |-> t]
  BY Zenon DEF AfterBatch
<1> HIDE DEF c, l, t
<1>4. AfterBatch(s, r, b) \in StateType /\ AfterBatch(s, r, b).links = l
  BY <1>1, <1>2, <1>3 DEF StateType, CountType
<1> QED
  BY <1>4 DEF l

\* A batch is inserted: its entries become nodes of their directory, its
\* directories jobs.
LEMMA InsertKeeps ==
    ASSUME ScanInv, NEW w \in Workers, Insert(w)
    PROVE  ScanInv'
<1> DEFINE j == job[w]
           b == batch[w]
           r == Statted(b)
           st == AfterBatch(local[w], r, b)
           nt == JobsFor(r, j, b)
<1>1. /\ pc[w] = "process" /\ stage[w] = "insert"
      /\ nodes' = [nodes EXCEPT ![j.node].children = @ \union {IdOf(e, b) : e \in ToSet(r)}]
                  \o [k \in DOMAIN r |-> NewNode(r[k], j)]
      /\ \/ local' = [local EXCEPT ![w] = Flushed(st)] /\ links' = links \union st.links
         \/ local' = [local EXCEPT ![w] = st] /\ links' = links
      /\ todo' = [todo EXCEPT ![w] = nt]
      /\ batch' = [batch EXCEPT ![w] = NoBatch]
      /\ stage' = [stage EXCEPT ![w] = "queue"]
      /\ UNCHANGED <<threadVars, outcome>>
  BY InsertIs
<1>2. /\ PoolOK /\ TypeOK /\ StagesOK /\ outcome.kind = "none" /\ j \in ScanJobs
      /\ j \in pushed /\ j \in Ever /\ Scanning /\ JobsDistinct
  BY <1>1, Busy
<1>3. UNCHANGED <<injector, job, pushing, pushed, pc>>
  BY <1>1 DEF threadVars
<1>4. PoolOK'
  BY <1>1, <1>2, PoolKept
<1>5. /\ b.names = NamesOf(j) /\ b.failed \subseteq Entries /\ todo[w] = <<>>
      /\ local[w] \in StateType
  BY <1>1, <1>2 DEF StagesOK
<1>6. r \in Seq(Entries) /\ NoRepeat(r) /\ ToSet(r) \subseteq ToSet(NamesOf(j))
  <2>1. NamesOf(j) \in Seq(Entries) /\ NoRepeat(NamesOf(j))
    BY <1>2, NamesIs
  <2>2. r = Keep(NamesOf(j), Entries \ b.failed)
    BY <1>5 DEF Statted
  <2> HIDE DEF r, b, j
  <2> QED BY <2>1, <2>2, KeepIs
<1>7. JobOK(j, nodes) /\ j.node \in DOMAIN nodes /\ ArenaOK /\ ClaimsOK
  BY <1>2 DEF Scanning, JobsOK, JobOK
<1>8. ToSet(r) \intersect EntriesOf(nodes) = {} /\ ToSet(r) \subseteq ToSet(Listing[j.dir])
  <2>1. ToSet(NamesOf(j)) \subseteq ToSet(Listing[j.dir])
    BY <1>2, NamesIs
  <2>2. j \in Active
    BY <1>1, <1>2 DEF Active, Working, InStage
  <2>3. ToSet(NamesOf(j)) \subseteq Claim(j)
    BY <2>1 DEF Claim
  <2>4. Claim(j) \intersect EntriesOf(nodes) = {}
    BY <1>7, <2>2 DEF ClaimsOK
  <2> QED BY <1>6, <2>1, <2>3, <2>4
<1>9. nodes \in Seq(NodeType(Below)) /\ Len(nodes) \in Nat
  BY <1>7 DEF ArenaOK, Mirrors, IsArena, Below
<1>10. nodes' = Grown(j, r)
  <2>1. {IdOf(e, b) : e \in ToSet(r)} = NewIds(r)
    BY <1>6, <1>9, IdsAre
  <2> QED BY <1>1, <2>1, Zenon DEF Grown
<1>11. GrownNodes(j, r, nodes')
  BY <1>2, <1>6, <1>7, <1>9, <1>10, GrownIs
<1>12. ArenaOK'
  BY <1>2, <1>6, <1>7, <1>8, <1>10, GrownArena
<1>13. Len(nodes) + Len(r) <= Cardinality(Entries) + 1
  <2>1. Len(nodes') = Len(nodes) + Len(r)
    BY <1>11, Zenon DEF GrownNodes
  <2> QED BY <1>12, <2>1, MirrorsSmall DEF ArenaOK
<1>14. NewJobs(j, r, nt)
  <2>1. /\ nt \in Seq(ScanJobs) /\ NoRepeat(nt)
        /\ \A x \in ToSet(nt) :
             /\ x.kind = "dir" /\ x.from = 0 /\ x.node \in NewIds(r)
             /\ r[x.node - Len(nodes)] = x.dir
             /\ x.dir \in ToSet(r) /\ Kind[x.dir] = "dir" /\ Device[x.dir] = Device[j.dir]
        /\ \A x, y \in ToSet(nt) : x # y => x.dir # y.dir
    BY <1>2, <1>6, <1>9, <1>13, JobsForIs
  <2> QED BY <2>1, Zenon DEF NewJobs
<1> HIDE DEF nt, r, st, b
<1>15. Inserted(w, j, nt)
  BY <1>1, <1>2, <1>3, <1>5 DEF Inserted, StagesOK
<1>16. Scanning'
  <2>1. JobsOK' /\ TodoFresh' /\ Unspilled' /\ ClaimsOK'
    BY <1>2, <1>6, <1>11, <1>12, <1>14, <1>15, InsertedClaims
  <2> QED BY <1>12, <2>1 DEF Scanning
<1> DEFINE L == LinksFor(r, b)
<1>17. LinksOf(nodes') = LinksOf(nodes) \union L /\ L \subseteq LinkType
  BY <1>2, <1>6, <1>7, <1>11, <1>12, GrownLinks DEF r
<1>18. st \in StateType /\ st.links = local[w].links \union L
  BY <1>5, <1>6, <1>17, AfterBatchTyped DEF st
<1>19. Flushed(st) \in StateType /\ Flushed(st).links = {} /\ st.links \subseteq LinkType
  BY <1>18, FlushedTyped DEF StateType
<1> HIDE DEF L
<1>20. /\ local' \in [Workers -> StateType]
       /\ \A v \in Workers \ {w} : local'[v] = local[v]
       /\ \/ local'[w].links = {} /\ links' = links \union local[w].links \union L
          \/ local'[w].links = local[w].links \union L /\ links' = links
  <2>1. local \in [Workers -> StateType]
    BY <1>2 DEF StagesOK
  <2>2. CASE local' = [local EXCEPT ![w] = Flushed(st)] /\ links' = links \union st.links
    BY <1>18, <1>19, <2>1, <2>2
  <2>3. CASE local' = [local EXCEPT ![w] = st] /\ links' = links
    BY <1>18, <1>19, <2>1, <2>3
  <2> QED BY <1>1, <2>2, <2>3
<1>21. StagesOK'
  <2>1. NoBatch \in [names : Seq(Entries), failed : SUBSET Entries]
    BY DEF NoBatch
  <2>2. batch' \in [Workers -> [names : Seq(Entries), failed : SUBSET Entries]]
        /\ \A v \in Workers \ {w} : batch'[v] = batch[v]
    BY <1>1, <1>2, <2>1 DEF StagesOK
  <2>3. nt \in Seq(ScanJobs)
    BY <1>14, Zenon DEF NewJobs
  <2>4. todo' \in [Workers -> Seq(ScanJobs)] /\ \A v \in Workers \ {w} : todo'[v] = todo[v]
    BY <1>1, <1>2, <2>3 DEF StagesOK
  <2> QED BY <1>1, <1>2, <1>3, <1>20, <2>2, <2>4 DEF StagesOK
<1>22. Candidates' = Candidates \union L
  <2>1. ASSUME NEW x \in Candidates' PROVE x \in Candidates \union L
    BY <1>20, <2>1 DEF Candidates
  <2>2. ASSUME NEW x \in Candidates \union L PROVE x \in Candidates'
    <3>1. CASE x \in links \/ x \in L \/ x \in local[w].links
      BY <1>20, <3>1 DEF Candidates
    <3>2. ASSUME NEW v \in Workers \ {w}, x \in local[v].links PROVE x \in Candidates'
      BY <1>20, <3>2 DEF Candidates
    <3> QED BY <2>2, <3>1, <3>2 DEF Candidates
  <2> QED BY <2>1, <2>2
<1>23. LinksOK'
  <2>1. Candidates = LinksOf(nodes) /\ links \subseteq LinkType
    BY <1>2 DEF ScanInv, LinksOK
  <2>2. local[w].links \subseteq LinkType
    BY <1>5 DEF StateType
  <2>3. links' \subseteq LinkType
    BY <1>17, <1>20, <2>1, <2>2
  <2>4. \A v \in Workers : pc'[v] = "done" => local'[v].links = {}
    BY <1>1, <1>3, <1>20 DEF ScanInv, LinksOK
  <2> QED BY <1>17, <1>22, <2>1, <2>3, <2>4 DEF LinksOK
<1> QED
  BY <1>1, <1>2, <1>4, <1>16, <1>21, <1>23 DEF ScanInv, OutcomeOK

-----------------------------------------------------------------------------
(* The outcome is sent.                                                    *)

\* The nodes that give up their bytes: an earlier node has the same inode.
Later(t) == {i \in DOMAIN t :
    /\ t[i].kind = "file" /\ t[i].entry \in MultiLink
    /\ \E k \in DOMAIN t : /\ t[k].kind = "file" /\ t[k].entry \in MultiLink
                            /\ Identity(t[k].entry) = Identity(t[i].entry) /\ k < i}

\* They are the ones reconcile_hardlinks finds among the candidates.
LEMMA SharedAre ==
    ASSUME NEW t, NEW L, L = LinksOf(t)
    PROVE  {a.node : a \in {c \in L : \E b \in L : SeenAt(b, c)}} = Later(t)
<1> DEFINE S == {a.node : a \in {c \in L : \E b \in L : SeenAt(b, c)}}
           C(i) == [node |-> i, id |-> Identity(t[i].entry)]
           M == {n \in DOMAIN t : t[n].kind = "file" /\ t[n].entry \in MultiLink}
<1>1. L = {C(i) : i \in M}
  BY DEF LinksOf
<1>2. \A i : C(i).node = i /\ C(i).id = Identity(t[i].entry)
  OBVIOUS
<1> HIDE DEF C
<1>3. ASSUME NEW x \in S PROVE x \in Later(t)
  <2>1. PICK a \in L, b \in L : x = a.node /\ SeenAt(b, a)
    BY <1>3
  <2>2. PICK i \in M : a = C(i)
    BY <1>1, <2>1
  <2>3. PICK k \in M : b = C(k)
    BY <1>1, <2>1
  <2>4. x = i /\ Identity(t[k].entry) = Identity(t[i].entry) /\ k < i
    BY <1>2, <2>1, <2>2, <2>3, Zenon DEF SeenAt
  <2> QED BY <2>4 DEF Later
<1>4. ASSUME NEW i \in Later(t) PROVE i \in S
  <2>1. PICK k \in M : Identity(t[k].entry) = Identity(t[i].entry) /\ k < i
    BY DEF Later
  <2>2. i \in M
    BY DEF Later
  <2>3. C(i) \in L /\ C(k) \in L /\ SeenAt(C(k), C(i)) /\ C(i).node = i
    <3>1. C(i) \in L /\ C(k) \in L
      BY <1>1, <2>2
    <3>2. SeenAt(C(k), C(i))
      BY <1>2, <2>1, Zenon DEF SeenAt
    <3> QED BY <1>2, <3>1, <3>2
  <2> QED BY <2>3
<1> QED
  BY <1>3, <1>4

\* The arena with the bytes of the nodes S given up.
GivenUp(t, S) ==
    [i \in DOMAIN t |-> IF i \in S
                        THEN [t[i] EXCEPT !.flags = @ \union {"shared"}, !.own = 0, !.agg = 0]
                        ELSE t[i]]

\* Flags that differ in "shared" at most.
SameButShared(F, G) == G \ {"shared"} = F \ {"shared"}

\* Nodes whose bytes another link carries: the tree is the same.
LEMMA GivenUpIs ==
    ASSUME ArenaOK, NEW S
    PROVE  /\ IsFresh(GivenUp(nodes, S), Below) /\ SameTree(nodes, GivenUp(nodes, S))
           /\ \A i \in DOMAIN nodes :
                /\ GivenUp(nodes, S)[i].own = IF i \in S THEN 0 ELSE nodes[i].own
                /\ SameButShared(nodes[i].flags, GivenUp(nodes, S)[i].flags)
<1> DEFINE n == Len(nodes)
           g(x) == [x EXCEPT !.flags = @ \union {"shared"}, !.own = 0, !.agg = 0]
           u == GivenUp(nodes, S)
<1>1. IsArena(nodes, Below) /\ IsFresh(nodes, Below) /\ nodes # <<>>
  BY DEF ArenaOK, Mirrors, Below
<1>2. /\ n \in Nat /\ DOMAIN nodes = 1..n /\ IsTree(nodes, n)
      /\ \A i \in 1..n : nodes[i] \in NodeType(Below)
      /\ \A i \in 1..n : i # Root => nodes[i].parent # 0
  BY <1>1, ArenaFacts
<1>3. ASSUME NEW x, x \in NodeType(Below)
      PROVE  /\ g(x) \in NodeType(Below) /\ g(x).entry = x.entry /\ g(x).parent = x.parent
             /\ g(x).kind = x.kind /\ g(x).own = 0 /\ g(x).agg = 0 /\ g(x).files = x.files
             /\ g(x).dirs = x.dirs /\ g(x).children = x.children
             /\ "tombstoned" \in g(x).flags => "tombstoned" \in x.flags
             /\ SameButShared(x.flags, g(x).flags)
  <2> DEFINE F == x.flags \union {"shared"}
             a == [x EXCEPT !.flags = F]
             b == [a EXCEPT !.own = 0]
             c == [b EXCEPT !.agg = 0]
  <2>1. F \in SUBSET {"boundary", "unreadable", "shared", "tombstoned"}
    BY <1>3 DEF NodeType
  <2>2. ("tombstoned" \in F => "tombstoned" \in x.flags) /\ SameButShared(x.flags, F)
    BY DEF SameButShared
  <2>3. g(x) = c
    OBVIOUS
  <2> HIDE DEF F, g
  <2>4. /\ a \in NodeType(Below) /\ a.entry = x.entry /\ a.parent = x.parent /\ a.kind = x.kind
        /\ a.files = x.files /\ a.dirs = x.dirs /\ a.children = x.children /\ a.flags = F
    BY <1>3, <2>1 DEF NodeType
  <2> HIDE DEF a
  <2>5. /\ b \in NodeType(Below) /\ b.entry = a.entry /\ b.parent = a.parent /\ b.kind = a.kind
        /\ b.files = a.files /\ b.dirs = a.dirs /\ b.children = a.children /\ b.flags = a.flags
        /\ b.own = 0
    BY <2>4 DEF NodeType
  <2> HIDE DEF b
  <2>6. /\ c \in NodeType(Below) /\ c.entry = b.entry /\ c.parent = b.parent /\ c.kind = b.kind
        /\ c.files = b.files /\ c.dirs = b.dirs /\ c.children = b.children /\ c.flags = b.flags
        /\ c.own = 0 /\ c.agg = 0
    BY <2>5 DEF NodeType
  <2> HIDE DEF c
  <2> QED BY <2>2, <2>3, <2>4, <2>5, <2>6
<1>4. u = [i \in DOMAIN nodes |-> IF i \in S THEN g(nodes[i]) ELSE nodes[i]]
  BY DEF GivenUp
<1> HIDE DEF g, u
<1>5. DOMAIN u = 1..n /\ u = [i \in 1..n |-> u[i]]
      /\ \A i \in 1..n : u[i] = IF i \in S THEN g(nodes[i]) ELSE nodes[i]
  BY <1>2, <1>4
<1>6. \A i \in 1..n :
        /\ u[i] \in NodeType(Below) /\ u[i].entry = nodes[i].entry
        /\ u[i].parent = nodes[i].parent /\ u[i].kind = nodes[i].kind
        /\ u[i].files = nodes[i].files /\ u[i].dirs = nodes[i].dirs
        /\ u[i].children = nodes[i].children
        /\ "tombstoned" \in u[i].flags => "tombstoned" \in nodes[i].flags
        /\ u[i].own = (IF i \in S THEN 0 ELSE nodes[i].own)
        /\ u[i].agg = (IF i \in S THEN 0 ELSE nodes[i].agg)
        /\ SameButShared(nodes[i].flags, u[i].flags)
  <2>1. \A F : SameButShared(F, F)
    BY DEF SameButShared
  <2> QED BY <1>2, <1>3, <1>5, <2>1
<1>7. u \in Seq(NodeType(Below)) /\ Len(u) = n
  <2> HIDE DEF n
  <2> QED BY <1>2, <1>5, <1>6, FunctionIsSeq
<1>8. IsArena(u, Below)
  BY <1>2, <1>5, <1>6, <1>7 DEF IsArena, IsTree
<1>9. u # <<>>
  <2>1. n # 0
    BY <1>1
  <2> QED BY <1>7, <2>1
<1>10. IsFresh(u, Below)
  BY <1>1, <1>2, <1>5, <1>6, <1>8, <1>9 DEF IsFresh
<1>11. SameTree(nodes, u)
  BY <1>2, <1>5, <1>6 DEF SameTree
<1> QED
  BY <1>2, <1>6, <1>10, <1>11 DEF u

\* The finished model mirrors the file system, is aggregated, and counts the
\* bytes of an inode once.
LEMMA FinishedIs ==
    ASSUME ArenaOK, NEW L, L = LinksOf(nodes), NEW v, v = FinishModel(nodes, L)
    PROVE  /\ Mirrors(v) /\ AggregatesExact(v) /\ DOMAIN v = DOMAIN nodes
           /\ \A i \in DOMAIN nodes :
                /\ v[i].entry = nodes[i].entry /\ v[i].kind = nodes[i].kind
                /\ v[i].own = IF i \in Later(nodes) THEN 0 ELSE nodes[i].own
                /\ SameButShared(nodes[i].flags, v[i].flags)
<1> DEFINE u == GivenUp(nodes, Later(nodes))
<1>1. ReconcileHardlinks(nodes, L) = u
  <2>1. {a.node : a \in {c \in L : \E b \in L : SeenAt(b, c)}} = Later(nodes)
    BY SharedAre
  <2> QED BY <2>1, Zenon DEF ReconcileHardlinks, GivenUp
<1>2. v = Aggregate(u)
  BY <1>1 DEF FinishModel
<1>3. /\ IsFresh(u, Below) /\ SameTree(nodes, u)
      /\ \A i \in DOMAIN nodes :
            /\ u[i].own = IF i \in Later(nodes) THEN 0 ELSE nodes[i].own
            /\ SameButShared(nodes[i].flags, u[i].flags)
  BY GivenUpIs
<1> HIDE DEF u
<1>4. IsArena(v, Below) /\ SameNodes(u, v) /\ AggregatesExact(v)
  BY <1>2, <1>3, AggregateExact
<1>5. SameTree(nodes, v)
  BY <1>3, <1>4 DEF SameTree, SameNodes
<1>6. Mirrors(v)
  BY <1>4, <1>5, MirrorsSame DEF ArenaOK
<1> QED
  BY <1>3, <1>4, <1>5, <1>6 DEF SameTree, SameNodes

\* The thread that joins the pool sends the model, or the message of a panic.
LEMMA DeliverKeeps ==
    ASSUME ScanInv, Deliver
    PROVE  ScanInv'
<1>1. pool = "joined" /\ outcome.kind = "none" /\ PoolOK /\ StagesOK /\ Scanning
      /\ TypeOK /\ Pool!IInv
  BY DEF Deliver, DeliverFailure, DeliverModel, ScanInv, PoolOK
<1>2. PanicRecorded /\ JoinedIsOver
  BY <1>1, PoolSays
<1>3. UNCHANGED <<injector, pending, idle, permits, pc, job, pushing, raced, pushed, cancelled,
                  pool, stage, todo, batch, local, live, links>>
  BY DEF Deliver, DeliverFailure, DeliverModel, threadVars
<1>4. StagesOK'
  BY <1>1, <1>3 DEF StagesOK
<1>5. \A w \in Workers : pc[w] \in EndedPC
  BY <1>1, <1>2 DEF JoinedIsOver
<1>6. CASE DeliverFailure
  <2>1. nodes' = nodes /\ panicMsg' = "none" /\ outcome'.kind = "failed"
    BY <1>6 DEF DeliverFailure
  <2>2. TypeOK'
    BY <1>1, <1>3, <2>1 DEF TypeOK
  <2>3. PoolOK'
    BY <1>1, <1>3, <1>5, <2>1, <2>2 DEF PoolOK
  <2>4. Ever' = Ever /\ Waiting' = Waiting /\ Active' = Active
    <3>1. Ever' = Ever
      BY <1>3 DEF Ever, Todo
    <3>2. Waiting' = Waiting
      BY <1>3, <3>1 DEF Waiting, InStage, Todo
    <3>3. Working' = Working
      BY <1>3, <3>1 DEF Working, InStage
    <3> QED BY <3>1, <3>2, <3>3 DEF Active
  <2>5. JobsOK' /\ Unspilled' /\ ClaimsOK'
    <3>1. SameEntries(nodes, nodes')
      BY <2>1 DEF SameEntries
    <3> QED BY <1>1, <2>4, <3>1, JobsShrink DEF Scanning
  <2>6. Scanning'
    BY <1>1, <1>3, <2>1, <2>5 DEF Scanning, ArenaOK, TodoFresh
  <2>7. LinksOK'
    BY <1>1, <1>3, <2>1 DEF ScanInv, LinksOK, Candidates
  <2> QED BY <1>4, <2>1, <2>3, <2>6, <2>7 DEF ScanInv, OutcomeOK
<1>7. CASE DeliverModel
  <2> DEFINE v == FinishModel(nodes, links)
  <2>1. /\ outcome' = [kind |-> "completed", cancelled |-> WasCancelled, nodes |-> v]
        /\ nodes' = <<>> /\ panicMsg = "none" /\ UNCHANGED threadVars
    BY <1>7 DEF DeliverModel
  <2>2. outcome'.kind = "completed" /\ outcome'.nodes = v
    BY <2>1
  <2>3. PoolOK'
    <3>1. TypeOK'
      BY <1>1, <2>1 DEF TypeOK, threadVars
    <3>2. UNCHANGED Pool!poolVars
      BY <2>1, Zenon DEF threadVars, Pool!poolVars, Pool!schedVars
    <3>3. Pool!IInv'
      <4>1. Pool!IInv /\ [Pool!PoolNext]_(Pool!poolVars) => Pool!IInv'
        BY PoolAssumptions, Pool!PoolNextIInv
      <4> QED BY <1>1, <3>2, <4>1
    <3> QED BY <1>1, <1>3, <1>5, <2>1, <2>2, <3>1, <3>3 DEF PoolOK, threadVars
  <2>4. links = LinksOf(nodes)
    <3>1. \A w \in Workers : pc[w] = "done"
      BY <1>2, <1>5, <2>1 DEF PanicRecorded, EndedPC
    <3>2. Candidates = links
      BY <3>1 DEF Candidates, ScanInv, LinksOK
    <3> QED BY <1>1, <3>2 DEF ScanInv, LinksOK
  <2>5. /\ Mirrors(v) /\ AggregatesExact(v) /\ DOMAIN v = DOMAIN nodes
        /\ \A i \in DOMAIN nodes :
             /\ v[i].entry = nodes[i].entry /\ v[i].kind = nodes[i].kind
             /\ v[i].own = IF i \in Later(nodes) THEN 0 ELSE nodes[i].own
    BY <1>1, <2>4, FinishedIs DEF Scanning
  <2> HIDE DEF v
  <2>6. Arena' = v
    BY <2>2 DEF Arena
  <2>7. LinksCountedOnce'
    <3> DEFINE multi == {ix \in DOMAIN v : v[ix].kind = "file" /\ v[ix].entry \in MultiLink}
               same(a, b) == Identity(v[a].entry) = Identity(v[b].entry)
    <3>1. ASSUME NEW ix \in multi
          PROVE  v[ix].own = IF \E b \in multi : same(b, ix) /\ b < ix
                             THEN 0 ELSE Bytes[v[ix].entry]
      <4>1. ix \in DOMAIN nodes /\ nodes[ix].kind = "file" /\ ix # Root
        BY <1>1, <2>5 DEF Scanning, ArenaOK, Mirrors
      <4>2. nodes[ix].own = Bytes[nodes[ix].entry]
        BY <1>1, <4>1 DEF Scanning, ArenaOK, Mirrors, OwnBytes
      <4>3. ix \in Later(nodes) <=> \E b \in multi : same(b, ix) /\ b < ix
        BY <2>5, <4>1 DEF Later
      <4> QED BY <2>5, <4>1, <4>2, <4>3
    <3> HIDE DEF v
    <3> QED BY <2>6, <3>1, Zenon DEF LinksCountedOnce
  <2>8. OutcomeOK'
    <3>1. ASSUME NEW ix \in DOMAIN v \ {Root}
          PROVE  v[ix].own = OwnBytes(v[ix].entry) \/ (v[ix].entry \in MultiLink /\ v[ix].own = 0)
      <4>1. ix \in DOMAIN nodes \ {Root} /\ nodes[ix].own = OwnBytes(nodes[ix].entry)
        BY <1>1, <2>5 DEF Scanning, ArenaOK
      <4>2. ix \in Later(nodes) => nodes[ix].entry \in MultiLink
        BY DEF Later
      <4> QED BY <2>5, <4>1, <4>2
    <3>2. Sized'
      BY <2>2, <2>6, <3>1 DEF Sized
    <3> QED BY <2>1, <2>2, <2>5, <2>7, <3>2 DEF OutcomeOK
  <2>9. LinksOK'
    BY <1>3, <2>2 DEF ScanInv, LinksOK
  <2> QED BY <1>4, <2>2, <2>3, <2>8, <2>9 DEF ScanInv
<1> QED
  BY <1>6, <1>7 DEF Deliver

-----------------------------------------------------------------------------
(* The invariant holds from the start, and says what the runs check.       *)

\* The arena of one node that the scan starts with.
LEMMA RootArena ==
    ASSUME nodes = <<RootNode(RootDir)>>
    PROVE  /\ ArenaOK /\ DOMAIN nodes = {1} /\ nodes[1].entry = RootDir /\ nodes[1].kind = "dir"
           /\ nodes[1].flags = {}
<1> DEFINE x == RootNode(RootDir)
<1>1. /\ x \in NodeType(Below) /\ x.entry = RootDir /\ x.parent = 0 /\ x.kind = "dir"
      /\ x.own = 0 /\ x.agg = 0 /\ x.files = 0 /\ x.dirs = 0 /\ x.children = {} /\ x.flags = {}
  <2> DEFINE y == Node(RootDir, 0, "dir", 0, {})
  <2>1. /\ y \in NodeType(Below) /\ y.entry = RootDir /\ y.parent = 0 /\ y.kind = "dir"
        /\ y.own = 0 /\ y.agg = 0 /\ y.files = 0 /\ y.children = {} /\ y.flags = {}
    BY DEF Node, NodeType, Below
  <2>2. x = [y EXCEPT !.dirs = 0]
    BY DEF RootNode
  <2> HIDE DEF x, y
  <2> QED BY <2>1, <2>2 DEF NodeType
<1>0. nodes = <<x>>
  OBVIOUS
<1> HIDE DEF x
<1>2. nodes \in Seq(NodeType(Below)) /\ Len(nodes) = 1 /\ DOMAIN nodes = 1..1 /\ nodes[1] = x
  BY <1>0, <1>1
<1>3. DOMAIN nodes = {1} /\ Root = 1 /\ nodes # <<>>
  BY <1>2 DEF Root
<1>4. IsArena(nodes, Below)
  BY <1>1, <1>2, <1>3 DEF IsArena, IsTree
<1>5. IsFresh(nodes, Below)
  BY <1>1, <1>2, <1>3, <1>4 DEF IsFresh
<1>6. Mirrors(nodes)
  BY <1>1, <1>2, <1>3, <1>4 DEF Mirrors, Below
<1> QED
  BY <1>1, <1>2, <1>3, <1>5, <1>6 DEF ArenaOK, Below

\* The invariant holds when the scan starts.
LEMMA ScanStarts == Init => ScanInv
<1> SUFFICES ASSUME Init PROVE ScanInv
  OBVIOUS
<1> DEFINE r == DirJob(RootDir, 1)
<1>1. /\ PoolInit /\ outcome.kind = "none" /\ nodes = <<RootNode(RootDir)>>
      /\ stage = [w \in Workers |-> "start"] /\ todo = [w \in Workers |-> <<>>]
      /\ batch = [w \in Workers |-> NoBatch] /\ local = [w \in Workers |-> NoState]
      /\ links = {}
  BY DEF Init
<1>2. /\ injector = {r} /\ pushed = {r} /\ job = [w \in Workers |-> NoJob]
      /\ pushing = [w \in Workers |-> NoJob] /\ pc = [w \in Workers |-> "top"]
  BY <1>1, Zenon DEF PoolInit, NewScheduler
<1>3. PoolOK
  BY <1>1, PoolStarts, PoolSays DEF PoolOK
<1>4. StagesOK
  <2>1. NoBatch \in [names : Seq(Entries), failed : SUBSET Entries]
    BY DEF NoBatch
  <2>2. NoState \in StateType
    BY DEF NoState, NoCounts, StateType
  <2> QED BY <1>1, <2>1, <2>2 DEF StagesOK
<1>5. /\ r \in ScanJobs /\ r.kind = "dir" /\ r.dir = RootDir /\ r.node = 1 /\ r.from = 0
  BY PoolAssumptions DEF DirJob
<1> HIDE DEF r
<1>6. Todo = {} /\ Ever = {r}
  BY <1>1, <1>2 DEF Todo, Ever, ToSet
<1>7. ArenaOK /\ DOMAIN nodes = {1} /\ nodes[1].entry = RootDir /\ nodes[1].kind = "dir"
  BY <1>1, RootArena
<1>8. JobsOK
  BY <1>5, <1>6, <1>7 DEF JobsOK, JobOK
<1>9. TodoFresh
  BY <1>1 DEF TodoFresh, ToSet, NoRepeat
<1>10. Unspilled
  BY <1>5, <1>6 DEF Unspilled
<1>11. ClaimsOK
  <2>1. Active \subseteq {r}
    BY <1>6 DEF Active, Waiting, Working
  <2>2. EntriesOf(nodes) = {RootDir}
    BY <1>7 DEF EntriesOf
  <2>3. ToSet(NamesOf(r)) \subseteq ToSet(Listing[r.dir])
    BY <1>5, NamesIs
  <2>4. RootDir \notin ToSet(Listing[r.dir])
    <3>1. \A i \in DOMAIN Listing[r.dir] : Listing[r.dir][i] \in Entries
      BY <1>5, ListingIs DEF ScanJobs
    <3> QED BY <3>1, ScannerAssumption DEF ToSet
  <2>5. Claim(r) \intersect EntriesOf(nodes) = {}
    BY <2>2, <2>3, <2>4 DEF Claim
  <2> QED BY <2>1, <2>5 DEF ClaimsOK
<1>12. LinksOK
  <2>1. LinksOf(nodes) = {}
    BY <1>7 DEF LinksOf
  <2>2. \A w \in Workers : local[w].links = {}
    BY <1>1 DEF NoState
  <2> QED BY <1>1, <2>1, <2>2 DEF LinksOK, Candidates
<1> QED
  BY <1>1, <1>3, <1>4, <1>7, <1>8, <1>9, <1>10, <1>11, <1>12 DEF ScanInv, Scanning, OutcomeOK

\* Every step of the scan keeps the invariant.
LEMMA ScanSteps == ScanInv /\ [Next]_vars => ScanInv'
<1> SUFFICES ASSUME ScanInv, [Next]_vars PROVE ScanInv'
  OBVIOUS
<1>1. ASSUME NEW w \in Workers, Step(w) PROVE ScanInv'
  <2>1. CASE StartDir(w) /\ cancelled
    BY <2>1, StartKeeps
  <2>2. CASE StartDir(w) /\ ~cancelled
    <3>1. stage'[w] = "end" => job[w].dir \in Flaky
      <4>1. w \in DOMAIN stage
        BY DEF ScanInv, StagesOK
      <4> QED BY <2>2, <4>1 DEF StartDir, Enter
    <3> QED BY <2>2, <3>1, ListKeeps, UnreadableKeeps
  <2>3. CASE StartMeta(w)
    BY <2>3, StartKeeps
  <2>4. CASE PushNext(w)
    BY <2>4, PushKeeps
  <2>5. CASE CheckInsert(w)
    BY <2>5, CheckInsertKeeps
  <2>6. CASE Insert(w)
    BY <2>6, InsertKeeps
  <2>7. CASE FinishJob(w)
    BY <2>7, FinishJobKeeps
  <2>8. CASE FlushAndEnd(w)
    BY <2>8, LastFlushKeeps
  <2>9. CASE LoopStep(w) /\ UNCHANGED scanVars
    BY <2>9, LoopKeeps
  <2> QED BY <1>1, <2>1, <2>2, <2>3, <2>4, <2>5, <2>6, <2>7, <2>8, <2>9, Zenon DEF Step, JobStep
<1>2. ASSUME NEW w \in Workers, PanicInJob(w) \/ WakeUnasked(w) PROVE ScanInv'
  BY <1>2, PanicAndWakeKeep
<1>3. CASE CancelScan \/ JoinPool \/ Delivered \/ UNCHANGED vars
  BY <1>3, OutsideKeeps, Zenon DEF Delivered
<1>4. CASE Deliver
  BY <1>4, DeliverKeeps
<1> QED
  BY <1>1, <1>2, <1>3, <1>4, Zenon DEF Next

\* The arena, wherever it is, mirrors the file system.
LEMMA ArenaMirrors == ScanInv => Mirrors(Arena)
  BY DEF ScanInv, Scanning, ArenaOK, OutcomeOK, Arena

\* What the invariant says of the properties the runs check.
LEMMA ScanInvSays ==
    ASSUME ScanInv
    PROVE  /\ ScanTypeOK /\ NoSilentLoss /\ TreeFaithful /\ EntryOnce /\ StaysOnDevice
           /\ OutcomeAggregated /\ LinksCountedOnce
<1>1. ScanTypeOK
  <2>1. TypeOK /\ outcome.kind \in {"none", "failed", "completed"} /\ StagesOK
    BY DEF ScanInv, PoolOK
  <2>2. ASSUME NEW w \in Workers
        PROVE  ToSet(todo[w]) \subseteq ScanJobs /\ ToSet(batch[w].names) \subseteq Entries
    <3>1. todo[w] \in Seq(ScanJobs) /\ batch[w].names \in Seq(Entries)
      BY <2>1 DEF StagesOK
    <3> QED BY <3>1 DEF ToSet
  <2>3. \A ix \in DOMAIN nodes : nodes[ix].parent \in 0..Len(nodes)
    <3>1. CASE outcome.kind = "completed"
      BY <3>1 DEF ScanInv, OutcomeOK
    <3>2. CASE outcome.kind # "completed"
      <4>1. IsArena(nodes, Entries \union {RootDir})
        BY <3>2 DEF ScanInv, Scanning, ArenaOK, Mirrors
      <4>2. Len(nodes) \in Nat /\ DOMAIN nodes = 1..Len(nodes)
            /\ \A i \in 1..Len(nodes) : nodes[i].parent \in 0..(i - 1)
        BY <4>1, ArenaFacts
      <4> QED BY <4>2
    <3> QED BY <3>1, <3>2
  <2>4. links \subseteq [node : 1..(Cardinality(Entries) + 1), id : {Identity(e) : e \in Entries}]
    BY DEF ScanInv, LinksOK, LinkType
  <2> QED BY <2>1, <2>2, <2>3, <2>4 DEF ScanTypeOK, StagesOK
<1>2. NoSilentLoss
  <2> SUFFICES ASSUME outcome.kind = "completed", NEW w \in Workers PROVE pc[w] # "panicked"
    BY DEF NoSilentLoss
  <2>1. Pool!IInv /\ panicMsg = "none"
    BY DEF ScanInv, PoolOK
  <2> QED BY <2>1, PoolSays DEF PanicRecorded
<1>3. Mirrors(Arena)
  BY ArenaMirrors
<1> DEFINE t == Arena
<1>4. DOMAIN t = 1..Len(t) /\ Len(t) \in Nat
      /\ \A i \in 1..Len(t) : t[i].parent \in 0..(i - 1) /\ (i # Root => t[i].parent # 0)
  BY <1>3, ArenaFacts DEF Mirrors
<1>9. Sized
  <2>1. CASE outcome.kind = "completed"
    BY <2>1 DEF ScanInv, OutcomeOK
  <2>2. CASE outcome.kind # "completed"
    BY <2>2 DEF ScanInv, Scanning, ArenaOK, Sized, Arena
  <2> QED BY <2>1, <2>2
<1>5. TreeFaithful
  <2> SUFFICES ASSUME NEW ix \in DOMAIN t \ {Root}
               PROVE  /\ t[ix].parent \in 1..(ix - 1)
                      /\ t[ix].kind = Kind[t[ix].entry]
                      /\ t[t[ix].parent].kind = "dir"
                      /\ t[ix].entry \in ToSet(Listing[t[t[ix].parent].entry])
                      /\ ix \in t[t[ix].parent].children
    BY <1>9 DEF TreeFaithful
  <2> HIDE DEF t
  <2>1. t[ix].parent \in 1..(ix - 1) /\ t[ix].parent \in DOMAIN t
    BY <1>4
  <2>2. ix \in t[t[ix].parent].children
    BY <1>3, <2>1 DEF Mirrors, t
  <2> QED BY <1>3, <2>1, <2>2 DEF Mirrors, t
<1>6. EntryOnce
  <2>1. Found = EntriesOf(Arena)
    BY DEF Found, EntriesOf
  <2> QED BY <1>3, <2>1, MirrorsSmall DEF EntryOnce
<1>7. StaysOnDevice
  BY <1>3 DEF StaysOnDevice, Mirrors
<1>8. OutcomeAggregated /\ LinksCountedOnce
  BY DEF ScanInv, OutcomeOK, OutcomeAggregated, LinksCountedOnce
<1> QED
  BY <1>1, <1>2, <1>5, <1>6, <1>7, <1>8

\* The invariant of a scan: whatever the workers, the file system and the limits,
\* the arena mirrors what the file system lists, no two jobs are to insert the
\* same entry, and the hard-link candidates are those of the arena.
THEOREM ScanInvariant == Spec => []ScanInv
<1>1. Init => ScanInv
  BY ScanStarts
<1>2. ScanInv /\ [Next]_vars => ScanInv'
  BY ScanSteps
<1> QED
  BY <1>1, <1>2, PTL DEF Spec

\* Every reachable state of a scan has the types the code declares.
THEOREM ScanTypes == Spec => []ScanTypeOK
<1>1. ScanInv => ScanTypeOK
  BY ScanInvSays
<1> QED
  BY <1>1, ScanInvariant, PTL

\* Whoever inserts an entry, and in whatever order, it becomes a child of the
\* node of the directory that lists it, with the kind and the bytes it has there;
\* only a file with several links may be without its bytes in the outcome.
THEOREM TreeIsFaithful == Spec => []TreeFaithful
<1>1. ScanInv => TreeFaithful
  BY ScanInvSays
<1> QED
  BY <1>1, ScanInvariant, PTL

\* No entry is inserted twice, however many workers share a directory.
THEOREM EntriesOnce == Spec => []EntryOnce
<1>1. ScanInv => EntryOnce
  BY ScanInvSays
<1> QED
  BY <1>1, ScanInvariant, PTL

\* Nothing below a mount point is walked.
THEOREM DeviceKept == Spec => []StaysOnDevice
<1>1. ScanInv => StaysOnDevice
  BY ScanInvSays
<1> QED
  BY <1>1, ScanInvariant, PTL

\* What is sent as a completed scan is exactly aggregated.
THEOREM OutcomeIsAggregated == Spec => []OutcomeAggregated
<1>1. ScanInv => OutcomeAggregated
  BY ScanInvSays
<1> QED
  BY <1>1, ScanInvariant, PTL

\* An inode with several links contributes its bytes at its first node only.
THEOREM LinksOnce == Spec => []LinksCountedOnce
<1>1. ScanInv => LinksCountedOnce
  BY ScanInvSays
<1> QED
  BY <1>1, ScanInvariant, PTL

\* A panic is never hidden behind a completed outcome.
THEOREM NothingLost == Spec => []NoSilentLoss
<1>1. ScanInv => NoSilentLoss
  BY ScanInvSays
<1> QED
  BY <1>1, ScanInvariant, PTL

-----------------------------------------------------------------------------
(* The second half of the invariant: what is in the arena, claimed or      *)
(* counted is everything that was listed.                                  *)

\* The directories of an arena, those that could not be read, those that were
\* or are to be walked, and what the latter list.
DirsOf(t) == {i \in DOMAIN t : t[i].kind = "dir"}
UnreadOf(t) == {i \in DirsOf(t) : "unreadable" \in t[i].flags}
WalkedOf(t) == {i \in DirsOf(t) \ UnreadOf(t) : "boundary" \notin t[i].flags}
ListedOf(t) == UNION {ToSet(Listing[t[i].entry]) : i \in WalkedOf(t)}

\* What the jobs still have to insert, and what nobody will insert any more.
Owed == UNION {Claim(j) : j \in Active}
Missing == ListedOf(nodes) \ (EntriesOf(nodes) \union Owed)

\* The entries that may be missing: they or their directory can fail.
Lost == {e \in Entries : e \in Flaky \/ \E d \in Dirs \intersect Flaky : e \in ToSet(Listing[d])}

\* A counter, flushed or not.
Tally(f) == live[f] + SumFunction([w \in Workers |-> local[w].counts[f]])

FileEntries(E) == {e \in E \ {RootDir} : Kind[e] = "file"}
DirEntries(E) == {e \in E \ {RootDir} : Kind[e] = "dir"}

\* The counters are those of the arena, and all flushed when a worker is done.
CountsOK ==
    /\ live \in CountType
    /\ Tally("files") = Cardinality(FileEntries(EntriesOf(Arena)))
    /\ Tally("dirs") = Cardinality(DirEntries(EntriesOf(Arena))) + 1
    /\ Tally("bytes") = SumFunctionOnSet(Bytes, EntriesOf(Arena) \ {RootDir})
    /\ \A w \in Workers : pc[w] = "done" => local[w] = NoState

\* A directory is a boundary exactly when it lies on another device, and only
\* one that can fail is unreadable.
FlagsOK(t) ==
    \A i \in DirsOf(t) :
        /\ "boundary" \in t[i].flags <=> Device[t[i].entry] # Device[RootDir]
        /\ "unreadable" \in t[i].flags => t[i].entry \in Flaky

\* A directory with jobs to run could be read.
ReadableOK == \A j \in Active : "unreadable" \notin nodes[j.node].flags

\* The failures of a batch are among its names, and can fail.
BatchesOK ==
    \A w \in Workers :
        stage[w] \in {"listed", "insert"} =>
            batch[w].failed \subseteq ToSet(NamesOf(job[w])) \intersect Lost

\* No job was dropped or abandoned.
Unhurt == ~cancelled /\ \A w \in Workers : pc[w] # "panicked"

\* Then what nobody will insert could not be read, and was counted as an error.
Lossless ==
    /\ Missing \subseteq Lost
    /\ Tally("errors") = Cardinality(UnreadOf(nodes)) + Cardinality(Missing)

\* The same of what was sent.
SentOK ==
    LET t == outcome.nodes
        missing == ListedOf(t) \ EntriesOf(t)
    IN  /\ missing \subseteq Lost
        /\ live.errors = Cardinality(UnreadOf(t)) + Cardinality(missing)

WholeInv ==
    /\ CountsOK
    /\ FlagsOK(Arena)
    /\ outcome.kind # "completed" => ReadableOK /\ BatchesOK
    /\ outcome.kind = "none" /\ Unhurt => Lossless
    /\ Completed => SentOK

\* Nothing that waits or is worked on drops out, and no directory is listed.
Steady ==
    /\ \A j \in injector : j \in injector' \/ \E v \in Workers : job'[v] = j /\ stage'[v] = "start"
    /\ \A v \in Workers :
        /\ pushing'[v] = pushing[v] \/ pushing[v] = NoJob \/ pushing[v] \in injector'
        /\ job[v] # NoJob /\ stage[v] = "start" =>
                /\ job'[v] = job[v]
                /\ stage'[v] = "start" \/ (job[v].kind = "meta" /\ stage'[v] = "listed")
        /\ job[v] # NoJob /\ stage[v] \in {"listed", "insert"} =>
                job'[v] = job[v] /\ stage'[v] \in {"listed", "insert"}

\* Then the same is owed.
LEMMA SteadyOwes ==
    ASSUME TypeOK, StagesOK, Calm, Steady
    PROVE  Active' = Active /\ Owed' = Owed
<1>1. Ever' = Ever /\ Todo' = Todo /\ Waiting' \subseteq Waiting /\ Active' \subseteq Active
      /\ NoJob \notin Ever
  BY CalmShrinks, EverTyped DEF Calm, Todo
<1>2. ASSUME NEW k \in Waiting PROVE k \in Active' /\ (k.kind = "dir" => k \in Waiting')
  <2>1. k \in Ever' /\ k # NoJob
    BY <1>1 DEF Waiting
  <2>2. CASE k \in injector
    BY <2>1, <2>2 DEF Steady, Waiting, Active, InStage
  <2>3. CASE k \in Todo
    BY <1>1, <2>1, <2>3 DEF Waiting, Active
  <2>4. ASSUME NEW v \in Workers, pushing[v] = k PROVE k \in Waiting'
    BY <2>1, <2>4 DEF Steady, Waiting
  <2>5. ASSUME NEW v \in Workers, job[v] = k, stage[v] = "start"
        PROVE  k \in Active' /\ (k.kind = "dir" => k \in Waiting')
    <3>1. CASE stage'[v] = "start"
      BY <2>1, <2>5, <3>1 DEF Steady, Waiting, Active, InStage
    <3>2. CASE k.kind = "meta" /\ stage'[v] = "listed"
      BY <2>1, <2>5, <3>2 DEF Steady, Working, Active, InStage
    <3> QED BY <2>1, <2>5, <3>1, <3>2 DEF Steady
  <2> QED BY <2>2, <2>3, <2>4, <2>5 DEF Waiting, Active, InStage
<1>3. ASSUME NEW k \in Working PROVE k \in Active'
  <2>1. k \in Ever' /\ k # NoJob
    BY <1>1 DEF Working
  <2>2. PICK v \in Workers : job[v] = k /\ stage[v] \in {"listed", "insert"}
    BY DEF Working, InStage
  <2> QED BY <2>1, <2>2 DEF Steady, Working, Active, InStage
<1>4. Active' = Active
  BY <1>1, <1>2, <1>3 DEF Active
<1>5. ASSUME NEW k \in Active PROVE Claim(k)' = Claim(k)
  <2>1. k.kind = "dir" => (k \in Waiting' <=> k \in Waiting)
    BY <1>1, <1>2
  <2> QED BY <2>1 DEF Claim
<1>6. Owed' = Owed
  BY <1>4, <1>5 DEF Owed
<1> QED
  BY <1>4, <1>6

-----------------------------------------------------------------------------
(* Counters.                                                               *)

\* A sum whose function changes at one place.
LEMMA SumMoves ==
    ASSUME NEW S, IsFiniteSet(S), NEW g, NEW h, DOMAIN g = S, DOMAIN h = S, NEW w, w \in S,
           \A v \in S : g[v] \in Nat /\ h[v] \in Nat,
           \A v \in S \ {w} : h[v] = g[v]
    PROVE  /\ SumFunction(g) \in Nat /\ SumFunction(h) \in Nat
           /\ SumFunction(h) + g[w] = SumFunction(g) + h[w]
<1>1. SumFunction(g) = SumFunctionOnSet(g, S) /\ SumFunction(h) = SumFunctionOnSet(h, S)
  BY Zenon DEF SumFunction
<1>2. IsFiniteSet(S \ {w}) /\ \A v \in S : g[v] \in Int /\ h[v] \in Int
  BY FS_RemoveElement
<1>3. SumFunctionOnSet(g, S \ {w}) = SumFunctionOnSet(h, S \ {w})
  BY <1>2, SumCong
<1>4. /\ SumFunctionOnSet(g, S) = g[w] + SumFunctionOnSet(g, S \ {w})
      /\ SumFunctionOnSet(h, S) = h[w] + SumFunctionOnSet(h, S \ {w})
  BY <1>2, SumRemove
<1>5. SumFunctionOnSet(g, S) \in Nat /\ SumFunctionOnSet(h, S) \in Nat
      /\ SumFunctionOnSet(g, S \ {w}) \in Nat
  BY <1>2, SumType
<1> QED
  BY <1>1, <1>3, <1>4, <1>5

\* A sum of zeros.
LEMMA SumZero ==
    ASSUME NEW S, IsFiniteSet(S), NEW g, DOMAIN g = S, \A v \in S : g[v] = 0
    PROVE  SumFunction(g) = 0
<1> DEFINE P == {T \in SUBSET S : SumFunctionOnSet(g, T) = 0}
<1>1. ASSUME NEW T \in SUBSET S, \A U \in SUBSET T : U # T => U \in P PROVE T \in P
  <2>1. CASE T = {}
    BY <2>1, SumEmpty
  <2>2. CASE T # {}
    <3>1. PICK x \in T : TRUE
      BY <2>2
    <3>2. T \ {x} \in P
      BY <1>1, <3>1
    <3>3. IsFiniteSet(T)
      BY FS_Subset
    <3>4. SumFunctionOnSet(g, T) = g[x] + SumFunctionOnSet(g, T \ {x})
      BY <3>1, <3>3, SumRemove
    <3> QED BY <3>1, <3>2, <3>4
  <2> QED BY <2>1, <2>2
<1>2. \A T \in SUBSET S : T \in P
  <2> HIDE DEF P
  <2> QED BY <1>1, SubsetInduction
<1>3. S \in P
  BY <1>2
<1> QED
  BY <1>3, Zenon DEF SumFunction

Fields == {"files", "dirs", "bytes", "errors"}

\* The fields of a counter.
LEMMA FieldsOf ==
    /\ DOMAIN NoCounts = Fields
    /\ \A c \in CountType, f \in Fields : c[f] \in Nat
    /\ \A f \in Fields : NoCounts[f] = 0
    /\ NoCounts \in CountType
<1>1. DOMAIN NoCounts = Fields /\ (\A f \in Fields : NoCounts[f] = 0) /\ NoCounts \in CountType
  BY DEF NoCounts, Fields, CountType
<1>2. ASSUME NEW c \in CountType, NEW f \in Fields PROVE c[f] \in Nat
  <2>1. c["files"] \in Nat /\ c["dirs"] \in Nat /\ c["bytes"] \in Nat /\ c["errors"] \in Nat
    BY DEF CountType
  <2> QED BY <2>1 DEF Fields
<1> QED
  BY <1>1, <1>2

\* The shared and the local counters of worker w count c more together.
Adds(w, c) ==
    /\ live' \in CountType
    /\ local' \in [Workers -> StateType]
    /\ \A v \in Workers \ {w} : local'[v] = local[v]
    /\ \A f \in Fields : live'[f] + local'[w].counts[f] = live[f] + local[w].counts[f] + c[f]

\* Then so do the tallies.
LEMMA TallyAdds ==
    ASSUME live \in CountType, local \in [Workers -> StateType], NEW w \in Workers,
           NEW c, c \in CountType, Adds(w, c), NEW f \in Fields
    PROVE  Tally(f) \in Nat /\ Tally(f)' = Tally(f) + c[f]
<1> DEFINE g == [v \in Workers |-> local[v].counts[f]]
           h == [v \in Workers |-> local'[v].counts[f]]
<1>1. \A st \in StateType : st.counts[f] \in Nat
  BY FieldsOf DEF StateType, CountType
<1>2. \A v \in Workers : g[v] \in Nat /\ h[v] \in Nat
  BY <1>1 DEF Adds
<1>3. DOMAIN g = Workers /\ DOMAIN h = Workers /\ \A v \in Workers \ {w} : h[v] = g[v]
  BY DEF Adds
<1>4. g[w] = local[w].counts[f] /\ h[w] = local'[w].counts[f]
  OBVIOUS
<1>5. Tally(f) = live[f] + SumFunction(g) /\ Tally(f)' = live'[f] + SumFunction(h)
  BY Zenon DEF Tally
<1> HIDE DEF g, h
<1>6. /\ SumFunction(g) \in Nat /\ SumFunction(h) \in Nat
      /\ SumFunction(h) + g[w] = SumFunction(g) + h[w]
  BY <1>2, <1>3, ScanPoolAssumption, SumMoves
<1>7. live[f] \in Nat /\ live'[f] \in Nat /\ c[f] \in Nat
  BY FieldsOf DEF Adds
<1>8. live'[f] + h[w] = live[f] + g[w] + c[f]
  BY <1>4 DEF Adds
<1> DEFINE x == SumFunction(g)
           y == SumFunction(h)
           a == live[f]
           b == live'[f]
           z == c[f]
           i == g[w]
           j == h[w]
<1>9. /\ a \in Nat /\ b \in Nat /\ x \in Nat /\ y \in Nat /\ z \in Nat /\ i \in Nat /\ j \in Nat
      /\ y + i = x + j /\ b + j = a + i + z
      /\ Tally(f) = a + x /\ Tally(f)' = b + y
  BY <1>2, <1>5, <1>6, <1>7, <1>8
<1> HIDE DEF x, y, a, b, z, i, j
<1>10. Tally(f) \in Nat /\ Tally(f)' = Tally(f) + z
  BY <1>9
<1> QED
  BY <1>10, Zenon DEF z

\* A worker that is done counts nothing.
LEMMA NoStateIs == NoState \in StateType /\ NoState.links = {} /\ NoState.counts = NoCounts
  BY DEF NoState, NoCounts, StateType

\* What a flush leaves of a worker state.
LEMMA FlushedIs ==
    ASSUME NEW st, st \in StateType
    PROVE  Flushed(st) = NoState
<1> DEFINE a == [st EXCEPT !.counts = NoCounts]
           b == [a EXCEPT !.links = {}]
<1>1. a = [counts |-> NoCounts, links |-> st.links, since |-> st.since]
  BY DEF StateType
<1>2. Flushed(st) = [b EXCEPT !.since = 0]
  BY DEF Flushed
<1> HIDE DEF a
<1>3. b = [counts |-> NoCounts, links |-> {}, since |-> st.since]
  BY <1>1
<1> HIDE DEF b
<1> QED
  BY <1>2, <1>3 DEF NoState

-----------------------------------------------------------------------------
(* Steps that leave the arena alone.                                       *)

\* A step that leaves the arena and what is owed alone, unless it hurts the scan.
LEMMA StillKeeps ==
    ASSUME WholeInv, nodes' = nodes, outcome' = outcome,
           ReadableOK => ReadableOK',
           Unhurt' => Unhurt,
           Unhurt' /\ outcome.kind = "none" => Owed' = Owed,
           outcome.kind # "none" => live' = live,
           live' \in CountType, \A f \in Fields : Tally(f)' = Tally(f),
           \A w \in Workers : pc'[w] = "done" => local'[w] = NoState,
           BatchesOK => BatchesOK'
    PROVE  WholeInv'
<1>1. Arena' = Arena
  BY DEF Arena
<1>2. CountsOK'
  <2>1. "files" \in Fields /\ "dirs" \in Fields /\ "bytes" \in Fields
    BY DEF Fields
  <2>2. /\ Tally("files")' = Tally("files") /\ Tally("dirs")' = Tally("dirs")
        /\ Tally("bytes")' = Tally("bytes")
    BY <2>1
  <2> QED BY <1>1, <2>2 DEF WholeInv, CountsOK
<1>3. FlagsOK(Arena')
  BY <1>1 DEF WholeInv
<1>4. outcome'.kind # "completed" => ReadableOK' /\ BatchesOK'
  BY DEF WholeInv
<1>5. outcome'.kind = "none" /\ Unhurt' => Lossless'
  <2> SUFFICES ASSUME outcome'.kind = "none", Unhurt' PROVE Lossless'
    OBVIOUS
  <2>1. Lossless /\ Missing' = Missing
    BY DEF WholeInv, Missing
  <2>2. Tally("errors")' = Tally("errors")
    BY DEF Fields
  <2> QED BY <2>1, <2>2 DEF Lossless
<1>6. Completed' => SentOK'
  <2> SUFFICES ASSUME Completed' PROVE SentOK'
    OBVIOUS
  <2>1. Completed /\ outcome.kind # "none"
    BY DEF Completed
  <2> QED BY <2>1 DEF WholeInv, SentOK
<1> QED
  BY <1>2, <1>3, <1>4, <1>5, <1>6 DEF WholeInv, FlagsOK, DirsOf

\* The same when no job is made.
LEMMA SteadyKeeps ==
    ASSUME WholeInv, nodes' = nodes, outcome' = outcome,
           Active' \subseteq Active,
           Unhurt' => Unhurt,
           Unhurt' /\ outcome.kind = "none" => Owed' = Owed,
           outcome.kind # "none" => live' = live,
           live' \in CountType, \A f \in Fields : Tally(f)' = Tally(f),
           \A w \in Workers : pc'[w] = "done" => local'[w] = NoState,
           BatchesOK => BatchesOK'
    PROVE  WholeInv'
<1>1. ReadableOK => ReadableOK'
  BY DEF ReadableOK
<1> QED
  BY <1>1, StillKeeps

\* The counters stay when nobody counts.
LEMMA TallyStays ==
    ASSUME WholeInv, live' = live, local' = local
    PROVE  live' \in CountType /\ \A f \in Fields : Tally(f)' = Tally(f)
  BY DEF WholeInv, CountsOK, Tally

\* A job taken is one that was queued, by a worker without one; a job pushed
\* is queued.
LEMMA LoopTakes ==
    ASSUME TypeOK, PcMatchesJob, NEW w \in Workers, LoopStep(w)
    PROVE  /\ job'[w] = job[w] \/ job[w] = NoJob
           /\ pushing'[w] = pushing[w] \/ pushing[w] \in injector'
           /\ \A k \in injector : k \in injector' \/ k = job'[w]
           /\ pc'[w] # "panicked"
           /\ cancelled' = cancelled
<1> USE DEF TypeOK, Go, schedVars
<1>1. CASE Top(w) \/ FindNothing(w) \/ QuietCheck(w) \/ Park(w) \/ Woken(w)
  BY <1>1 DEF Top, FindNothing, QuietCheck, Park, Woken, ConsumePermit, UnregisterIdle
<1>2. CASE FindJob(w)
  <2>1. job[w] = NoJob
    BY <1>2 DEF FindJob, PcMatchesJob, HoldingPC
  <2> QED BY <1>2, <2>1 DEF FindJob, Take
<1>3. CASE Register(w) \/ Claimed(w) \/ Leave(w)
  BY <1>3 DEF Register, Claimed, Leave, RegisterIdle, UnregisterIdle
<1>4. CASE Enqueue(w)
  BY <1>4 DEF Enqueue, Publish
<1>5. CASE Wake(w)
  BY <1>5 DEF Wake, WakeOne
<1>6. CASE Drain(w)
  BY <1>6 DEF Drain, WakeAll
<1> QED
  BY <1>1, <1>2, <1>3, <1>4, <1>5, <1>6 DEF LoopStep

\* The loop of a worker.
LEMMA LoopKeepsWhole ==
    ASSUME ScanInv, WholeInv, NEW w \in Workers, LoopStep(w), UNCHANGED scanVars
    PROVE  WholeInv'
<1>1. PoolOK /\ TypeOK /\ StagesOK
  BY DEF ScanInv, PoolOK
<1>2. /\ \A v \in Workers \ {w} : pc'[v] = pc[v] /\ job'[v] = job[v] /\ pushing'[v] = pushing[v]
      /\ pc[w] \notin EndedPC \union {"process"} /\ pc'[w] # "done"
      /\ pc[w] \in {"enqueue", "wake"} => pc'[w] \in {"wake", "process"} /\ job'[w] = job[w]
      /\ job'[w] = job[w] \/ job'[w] \in injector
      /\ pushing'[w] \in {pushing[w], NoJob}
      /\ \A j \in injector' : j \in injector \/ j = pushing[w]
      /\ pushed' = pushed
  BY <1>1, LoopMoves
<1>3. UNCHANGED <<stage, todo, batch, local, nodes, live, links, outcome>>
  BY DEF scanVars
<1>4. outcome.kind = "none" /\ Pool!IInv
  BY <1>1, <1>2, NothingSent
<1>5. PcMatchesJob
  BY <1>4, PoolSays
<1>6. stage[w] # "start" => pc[w] \in {"enqueue", "wake"}
  BY <1>1, <1>2 DEF StagesOK, EndedPC
<1>7. Calm
  BY <1>2, <1>3, <1>6 DEF Calm
<1>8. /\ job'[w] = job[w] \/ job[w] = NoJob
      /\ pushing'[w] = pushing[w] \/ pushing[w] \in injector'
      /\ \A k \in injector : k \in injector' \/ k = job'[w]
      /\ cancelled' = cancelled
  BY <1>1, <1>5, LoopTakes
<1>9. Steady
  <2>1. \A k \in injector : k \in injector' \/ (job'[w] = k /\ stage'[w] = "start")
    <3>1. CASE job'[w] = job[w]
      BY <1>1, <1>4, <1>8, <3>1, PoolSays DEF JobsDistinct
    <3>2. CASE job'[w] # job[w]
      BY <1>2, <1>3, <1>6, <1>8, <3>2
    <3> QED BY <3>1, <3>2
  <2> QED BY <1>2, <1>3, <1>8, <2>1 DEF Steady
<1>10. Active' = Active /\ Owed' = Owed
  BY <1>1, <1>7, <1>9, SteadyOwes
<1>11. BatchesOK => BatchesOK'
  <2>1. \A v \in Workers : stage[v] # "start" => job'[v] = job[v]
    BY <1>2, <1>6
  <2> QED BY <1>3, <2>1 DEF BatchesOK
<1>12. Unhurt' => Unhurt
  BY <1>2, <1>8 DEF Unhurt, EndedPC
<1>13. \A v \in Workers : pc'[v] = "done" => local'[v] = NoState
  BY <1>2, <1>3 DEF WholeInv, CountsOK
<1> QED
  BY <1>3, <1>4, <1>10, <1>11, <1>12, <1>13, SteadyKeeps, TallyStays

\* A panic, a wakeup for no reason, a cancellation, the end of the pool.
LEMMA OutsideKeepsWhole ==
    ASSUME ScanInv, WholeInv,
           \/ \E w \in Workers : PanicInJob(w) \/ WakeUnasked(w)
           \/ CancelScan \/ JoinPool \/ UNCHANGED vars
    PROVE  WholeInv'
<1>1. TypeOK /\ StagesOK
  BY DEF ScanInv, PoolOK
<1>2. UNCHANGED <<stage, todo, batch, local, nodes, live, links, outcome, injector, job, pushing,
                  pushed>>
  BY DEF PanicInJob, WakeUnasked, Panic, SpuriousWake, CancelScan, JoinPool, Cancel, Join,
         schedVars, scanVars, threadVars, vars
<1>3. /\ \A v \in Workers : pc[v] = "panicked" => pc'[v] = "panicked"
      /\ \A v \in Workers : pc'[v] = "done" => pc[v] = "done"
      /\ cancelled => cancelled'
  <2>1. ASSUME NEW w \in Workers, PanicInJob(w) \/ WakeUnasked(w)
        PROVE  cancelled' = cancelled /\ \E x \in {"panicked", "woken"} : pc' = [pc EXCEPT ![w] = x]
                                      /\ pc[w] \in {"process", "park"}
    BY <2>1 DEF PanicInJob, WakeUnasked, Panic, SpuriousWake, Go
  <2>2. CASE \E w \in Workers : PanicInJob(w) \/ WakeUnasked(w)
    BY <1>1, <2>1, <2>2 DEF TypeOK
  <2>3. CASE CancelScan \/ JoinPool \/ UNCHANGED vars
    BY <2>3 DEF CancelScan, JoinPool, Cancel, Join, vars, threadVars
  <2> QED BY <2>2, <2>3
<1>4. Calm /\ Steady
  BY <1>2 DEF Calm, Steady
<1>5. Active' = Active /\ Owed' = Owed
  BY <1>1, <1>4, SteadyOwes
<1>6. BatchesOK => BatchesOK'
  BY <1>2 DEF BatchesOK
<1>7. Unhurt' => Unhurt
  BY <1>3 DEF Unhurt
<1>8. \A v \in Workers : pc'[v] = "done" => local'[v] = NoState
  BY <1>2, <1>3 DEF WholeInv, CountsOK
<1> QED
  BY <1>2, <1>5, <1>6, <1>7, <1>8, SteadyKeeps, TallyStays

\* What fails in a batch is among its names, and can fail.
LEMMA FailuresAre ==
    ASSUME NEW j, j \in ScanJobs, NEW failed, failed \in StatFailures(j, NamesOf(j))
    PROVE  failed \subseteq ToSet(NamesOf(j)) \intersect Lost
<1>1. NamesOf(j) \in Seq(Entries) /\ ToSet(NamesOf(j)) \subseteq ToSet(Listing[j.dir])
  BY NamesIs
<1>2. ToSet(NamesOf(j)) \subseteq Entries /\ j.dir \in Dirs
  BY <1>1 DEF ToSet, ScanJobs
<1>3. failed \subseteq ToSet(NamesOf(j))
  BY Zenon DEF StatFailures
<1>4. failed \subseteq Flaky \/ j.dir \in Flaky
  BY Zenon DEF StatFailures
<1> QED
  BY <1>1, <1>2, <1>3, <1>4 DEF Lost

\* A job begins: a metadata job, or a directory job that is dropped.
LEMMA StartKeepsWhole ==
    ASSUME ScanInv, WholeInv, NEW w \in Workers, StartMeta(w) \/ (StartDir(w) /\ cancelled)
    PROVE  WholeInv'
<1>1. pc[w] = "process" /\ stage[w] = "start"
  BY DEF StartMeta, StartDir, Processing
<1>2. /\ TypeOK /\ StagesOK /\ outcome.kind = "none" /\ job[w] \in ScanJobs
  BY <1>1, Busy
<1>3. UNCHANGED threadVars /\ UNCHANGED <<todo, local, nodes, live, links, outcome>>
  BY DEF StartMeta, StartDir
<1>4. UNCHANGED <<injector, job, pushing, pushed, pc, cancelled>>
  BY <1>3 DEF threadVars
<1>5. \/ cancelled /\ stage' = [stage EXCEPT ![w] = "end"] /\ batch' = batch
      \/ /\ job[w].kind = "meta"
         /\ \E failed \in StatFailures(job[w], NamesOf(job[w])) :
              batch' = [batch EXCEPT ![w] = [names |-> NamesOf(job[w]), failed |-> failed]]
         /\ stage' = [stage EXCEPT ![w] = "listed"]
  BY DEF StartMeta, StartDir, Enter
<1>6. Calm
  BY <1>1, <1>2, <1>3, <1>4, <1>5 DEF Calm, StagesOK
<1>7. Active' \subseteq Active
  BY <1>2, <1>6, CalmShrinks
<1>8. Unhurt' => Owed' = Owed
  <2> SUFFICES ASSUME ~cancelled PROVE Owed' = Owed
    BY <1>4 DEF Unhurt
  <2>1. job[w].kind = "meta" /\ stage' = [stage EXCEPT ![w] = "listed"]
    BY <1>5
  <2>2. Steady
    BY <1>1, <1>2, <1>4, <2>1 DEF Steady, StagesOK
  <2> QED BY <1>2, <1>6, <2>2, SteadyOwes
<1>9. BatchesOK => BatchesOK'
  <2> SUFFICES ASSUME BatchesOK, NEW v \in Workers, stage'[v] \in {"listed", "insert"}
               PROVE  batch'[v].failed \subseteq ToSet(NamesOf(job[v])) \intersect Lost
    BY <1>4 DEF BatchesOK
  <2>1. CASE v # w
    BY <1>2, <1>5, <2>1 DEF BatchesOK, StagesOK
  <2>2. CASE v = w
    <3>1. PICK failed \in StatFailures(job[w], NamesOf(job[w])) :
            batch' = [batch EXCEPT ![w] = [names |-> NamesOf(job[w]), failed |-> failed]]
      BY <1>2, <1>5, <2>2 DEF StagesOK
    <3>2. batch'[w].failed = failed
      BY <1>2, <3>1 DEF StagesOK
    <3> QED BY <1>2, <2>2, <3>2, FailuresAre
  <2> QED BY <2>1, <2>2
<1>10. Unhurt' => Unhurt
  BY <1>4 DEF Unhurt
<1>11. \A v \in Workers : pc'[v] = "done" => local'[v] = NoState
  BY <1>3, <1>4 DEF WholeInv, CountsOK
<1> QED
  BY <1>2, <1>3, <1>7, <1>8, <1>9, <1>10, <1>11, SteadyKeeps, TallyStays

\* The cancel flag is looked at before the insertion.
LEMMA CheckKeepsWhole ==
    ASSUME ScanInv, WholeInv, NEW w \in Workers, CheckInsert(w)
    PROVE  WholeInv'
<1>1. pc[w] = "process" /\ stage[w] = "listed"
  BY DEF CheckInsert, Processing
<1>2. /\ TypeOK /\ StagesOK /\ outcome.kind = "none"
  BY <1>1, Busy
<1>3. UNCHANGED threadVars /\ UNCHANGED <<todo, batch, local, nodes, live, links, outcome>>
  BY DEF CheckInsert
<1>4. UNCHANGED <<injector, job, pushing, pushed, pc, cancelled>>
  BY <1>3 DEF threadVars
<1>5. \/ cancelled /\ stage' = [stage EXCEPT ![w] = "end"]
      \/ ~cancelled /\ stage' = [stage EXCEPT ![w] = "insert"]
  BY DEF CheckInsert, Enter
<1>6. Calm
  BY <1>1, <1>2, <1>3, <1>4, <1>5 DEF Calm, StagesOK
<1>7. Active' \subseteq Active
  BY <1>2, <1>6, CalmShrinks
<1>8. Unhurt' => Owed' = Owed
  <2> SUFFICES ASSUME ~cancelled PROVE Owed' = Owed
    BY <1>4 DEF Unhurt
  <2>1. stage' = [stage EXCEPT ![w] = "insert"]
    BY <1>5
  <2>2. Steady
    BY <1>1, <1>2, <1>4, <2>1 DEF Steady, StagesOK
  <2> QED BY <1>2, <1>6, <2>2, SteadyOwes
<1>9. BatchesOK => BatchesOK'
  BY <1>1, <1>2, <1>3, <1>4, <1>5 DEF BatchesOK, StagesOK
<1>10. Unhurt' => Unhurt
  BY <1>4 DEF Unhurt
<1>11. \A v \in Workers : pc'[v] = "done" => local'[v] = NoState
  BY <1>3, <1>4 DEF WholeInv, CountsOK
<1> QED
  BY <1>2, <1>3, <1>7, <1>8, <1>9, <1>10, <1>11, SteadyKeeps, TallyStays

\* A job ends.
LEMMA FinishKeepsWhole ==
    ASSUME ScanInv, WholeInv, NEW w \in Workers, FinishJob(w)
    PROVE  WholeInv'
<1>1. pc[w] = "process" /\ stage[w] \in {"end", "queue"}
  BY DEF FinishJob, CompleteJob
<1>2. /\ TypeOK /\ StagesOK /\ outcome.kind = "none"
  BY <1>1, Busy
<1>3. UNCHANGED <<todo, local, nodes, live, links, outcome, injector, pushing, pushed, cancelled>>
  BY DEF FinishJob, CompleteJob, LowerPending
<1>4. /\ stage' = [stage EXCEPT ![w] = "start"] /\ batch' = [batch EXCEPT ![w] = NoBatch]
      /\ job' = [job EXCEPT ![w] = NoJob]
      /\ \E x \in {"drain", "drainLast"} : pc' = [pc EXCEPT ![w] = x]
  BY DEF FinishJob, CompleteJob, Enter, Go
<1>5. Calm /\ Steady
  BY <1>1, <1>2, <1>3, <1>4 DEF Calm, Steady, StagesOK, TypeOK
<1>6. Active' = Active /\ Owed' = Owed
  BY <1>2, <1>5, SteadyOwes
<1>7. BatchesOK => BatchesOK'
  BY <1>2, <1>4 DEF BatchesOK, StagesOK, TypeOK
<1>8. Unhurt' => Unhurt
  BY <1>1, <1>2, <1>3, <1>4 DEF Unhurt, TypeOK
<1>9. \A v \in Workers : pc'[v] = "done" => local'[v] = NoState
  BY <1>2, <1>3, <1>4 DEF WholeInv, CountsOK, TypeOK
<1> QED
  BY <1>2, <1>3, <1>6, <1>7, <1>8, <1>9, SteadyKeeps, TallyStays

\* The fields of two counters add up one by one.
LEMMA PlusIs == \A a, b, f : f \in Fields => Plus(a, b)[f] = a[f] + b[f]
  BY FieldsOf DEF Plus

\* A worker's last flush moves its counters to the shared ones.
LEMMA LastFlushKeepsWhole ==
    ASSUME ScanInv, WholeInv, NEW w \in Workers, FlushAndEnd(w)
    PROVE  WholeInv'
<1>1. pc[w] = "flush"
  BY DEF FlushAndEnd, Flush
<1>2. TypeOK /\ StagesOK /\ outcome.kind = "none"
  <2>1. PoolOK
    BY DEF ScanInv
  <2> QED BY <1>1, <2>1, NothingSent DEF ScanInv, PoolOK, EndedPC
<1>3. UNCHANGED <<stage, todo, batch, nodes, outcome, injector, job, pushing, pushed, cancelled>>
  BY DEF FlushAndEnd, Flush, schedVars
<1>4. /\ pc' = [pc EXCEPT ![w] = "done"]
      /\ live' = Plus(live, local[w].counts)
      /\ local' = [local EXCEPT ![w] = Flushed(local[w])]
  BY DEF FlushAndEnd, Flush, Go
<1>5. Calm /\ Steady
  BY <1>3 DEF Calm, Steady
<1>6. Active' = Active /\ Owed' = Owed
  BY <1>2, <1>5, SteadyOwes
<1>7. BatchesOK => BatchesOK'
  BY <1>3 DEF BatchesOK
<1>8. Unhurt' => Unhurt
  BY <1>1, <1>2, <1>3, <1>4 DEF Unhurt, TypeOK
<1>9. /\ local \in [Workers -> StateType] /\ local[w] \in StateType
      /\ local[w].counts \in CountType /\ live \in CountType
  BY <1>2 DEF StagesOK, StateType, CountType, WholeInv, CountsOK
<1>10. /\ local'[w] = NoState /\ local' \in [Workers -> StateType]
       /\ \A v \in Workers \ {w} : local'[v] = local[v]
  BY <1>4, <1>9, FlushedIs, NoStateIs
<1>11. Adds(w, NoCounts)
  <2>1. live' \in CountType
    BY <1>4, <1>9, PlusTyped
  <2>2. ASSUME NEW f \in Fields
        PROVE  live'[f] + local'[w].counts[f] = live[f] + local[w].counts[f] + NoCounts[f]
    <3>1. live'[f] = live[f] + local[w].counts[f]
      BY <1>4, PlusIs
    <3>2. NoCounts[f] = 0 /\ local'[w].counts[f] = 0
      BY <1>10, FieldsOf, NoStateIs
    <3>3. live[f] \in Nat /\ local[w].counts[f] \in Nat
      BY <1>9, FieldsOf
    <3> QED BY <3>1, <3>2, <3>3
  <2> QED BY <1>10, <2>1, <2>2 DEF Adds
<1>12. live' \in CountType /\ \A f \in Fields : Tally(f)' = Tally(f)
  <2>1. live' \in CountType
    BY <1>11 DEF Adds
  <2>2. ASSUME NEW f \in Fields PROVE Tally(f)' = Tally(f)
    <3>1. Tally(f) \in Nat /\ Tally(f)' = Tally(f) + NoCounts[f]
      BY <1>9, <1>11, FieldsOf, TallyAdds
    <3> QED BY <3>1, FieldsOf
  <2> QED BY <2>1, <2>2
<1>13. \A v \in Workers : pc'[v] = "done" => local'[v] = NoState
  BY <1>2, <1>4, <1>10 DEF WholeInv, CountsOK, TypeOK
<1> QED
  BY <1>2, <1>3, <1>6, <1>7, <1>8, <1>12, <1>13, SteadyKeeps

\* A made job is pushed.
LEMMA PushKeepsWhole ==
    ASSUME ScanInv, WholeInv, NEW w \in Workers, PushNext(w)
    PROVE  WholeInv'
<1> DEFINE h == Head(todo[w])
<1>1. pc[w] = "process" /\ todo[w] # <<>>
  BY DEF PushNext
<1>2. /\ TypeOK /\ StagesOK /\ outcome.kind = "none" /\ Scanning /\ pushing[w] = NoJob
  BY <1>1, Busy DEF PcMatchesJob
<1>3. todo[w] \in Seq(ScanJobs) /\ NoRepeat(todo[w])
  BY <1>2 DEF StagesOK, Scanning, TodoFresh
<1>4. h \in ToSet(todo[w]) /\ ToSet(Tail(todo[w])) = ToSet(todo[w]) \ {h}
  BY <1>1, <1>3, HeadAndTail
<1>5. UNCHANGED <<stage, batch, local, nodes, live, links, outcome>>
  BY DEF PushNext
<1>6. /\ todo' = [todo EXCEPT ![w] = Tail(todo[w])]
      /\ pushed' = pushed \union {h} /\ pushing' = [pushing EXCEPT ![w] = h]
      /\ pc' = [pc EXCEPT ![w] = "enqueue"]
      /\ UNCHANGED <<injector, job, cancelled>>
  BY DEF PushNext, Announce, RaisePending, Go
<1> HIDE DEF h
<1>7. Waiting' = Waiting /\ Active' = Active
  BY <1>2, <1>4, <1>5, <1>6, PushedJobs
<1>8. Owed' = Owed
  BY <1>7 DEF Owed, Claim
<1>9. BatchesOK => BatchesOK'
  BY <1>5, <1>6 DEF BatchesOK
<1>10. Unhurt' => Unhurt
  BY <1>1, <1>2, <1>6 DEF Unhurt, TypeOK
<1>11. \A v \in Workers : pc'[v] = "done" => local'[v] = NoState
  BY <1>2, <1>5, <1>6 DEF WholeInv, CountsOK, TypeOK
<1> QED
  BY <1>2, <1>5, <1>7, <1>8, <1>9, <1>10, <1>11, SteadyKeeps, TallyStays

-----------------------------------------------------------------------------
(* A directory that cannot be read, or is listed.                          *)

\* A directory of an arena is one of the file system, listed by itself alone.
LEMMA DirsAre ==
    ASSUME NEW t, Mirrors(t)
    PROVE  /\ IsFiniteSet(DirsOf(t)) /\ IsFiniteSet(UnreadOf(t)) /\ IsFiniteSet(WalkedOf(t))
           /\ \A i \in DirsOf(t) : t[i].entry \in Dirs /\ t[i].entry \in EntriesOf(t)
           /\ \A i, k \in DirsOf(t) :
                i # k => ToSet(Listing[t[i].entry]) \intersect ToSet(Listing[t[k].entry]) = {}
           /\ ListedOf(t) \subseteq Entries
<1>1. Len(t) \in Nat /\ DOMAIN t = 1..Len(t)
  BY ArenaFacts DEF Mirrors
<1>2. IsFiniteSet(1..Len(t))
  BY <1>1, FS_Interval
<1>3. DirsOf(t) \subseteq 1..Len(t) /\ UnreadOf(t) \subseteq 1..Len(t) /\ WalkedOf(t) \subseteq DirsOf(t)
  BY <1>1 DEF DirsOf, UnreadOf, WalkedOf
<1>4. \A i \in DirsOf(t) : t[i].entry \in Dirs /\ t[i].entry \in EntriesOf(t)
  BY DEF DirsOf, Mirrors, Dirs, EntriesOf
<1>5. \A i, k \in DirsOf(t) : i # k => t[i].entry # t[k].entry
  BY DEF DirsOf, Mirrors
<1>6. \A i \in DirsOf(t) : ToSet(Listing[t[i].entry]) \subseteq Entries
  BY <1>4, ListingIs DEF ToSet
<1>7. ListedOf(t) \subseteq Entries
  BY <1>3, <1>6 DEF ListedOf
<1> QED
  BY <1>2, <1>3, <1>4, <1>5, <1>7, FS_Subset, FileSystemAssumption

\* A walked directory turns out unreadable: what it lists is no longer listed.
LEMMA UnreadableFlags ==
    ASSUME ArenaOK, NEW n, n \in WalkedOf(nodes),
           nodes' = [nodes EXCEPT ![n].flags = @ \union {"unreadable"}]
    PROVE  /\ DirsOf(nodes') = DirsOf(nodes) /\ EntriesOf(nodes') = EntriesOf(nodes)
           /\ \A i \in DOMAIN nodes :
                /\ nodes'[i].entry = nodes[i].entry
                /\ nodes'[i].flags = IF i = n THEN nodes[i].flags \union {"unreadable"} ELSE nodes[i].flags
           /\ UnreadOf(nodes') = UnreadOf(nodes) \union {n} /\ n \notin UnreadOf(nodes)
           /\ ListedOf(nodes') = ListedOf(nodes) \ ToSet(Listing[nodes[n].entry])
           /\ ToSet(Listing[nodes[n].entry]) \subseteq ListedOf(nodes)
<1>1. n \in DOMAIN nodes /\ n \in DirsOf(nodes) /\ Mirrors(nodes)
  BY DEF WalkedOf, DirsOf, ArenaOK
<1>2. nodes[n] \in NodeType(Below)
  BY <1>1, ArenaFacts DEF Mirrors, Below
<1>3. SameEntries(nodes, nodes')
  BY <1>1, FlagNode
<1>4. \A i \in DOMAIN nodes :
        nodes'[i].flags = IF i = n THEN nodes[i].flags \union {"unreadable"} ELSE nodes[i].flags
  BY <1>1, <1>2 DEF NodeType
<1>5. DirsOf(nodes') = DirsOf(nodes) /\ EntriesOf(nodes') = EntriesOf(nodes)
  BY <1>3 DEF DirsOf, EntriesOf, SameEntries
<1>6. UnreadOf(nodes') = UnreadOf(nodes) \union {n} /\ n \notin UnreadOf(nodes)
  BY <1>1, <1>4, <1>5 DEF UnreadOf, WalkedOf, DirsOf
<1>7. WalkedOf(nodes') = WalkedOf(nodes) \ {n}
  <2>1. \A i \in DirsOf(nodes) : "boundary" \in nodes'[i].flags <=> "boundary" \in nodes[i].flags
    BY <1>4 DEF DirsOf
  <2> QED BY <1>5, <1>6, <2>1 DEF WalkedOf
<1> DEFINE C(i) == ToSet(Listing[nodes[i].entry])
<1>8. \A i \in WalkedOf(nodes) : ToSet(Listing[nodes'[i].entry]) = C(i)
  BY <1>3 DEF SameEntries, WalkedOf, DirsOf
<1>9. ListedOf(nodes') = UNION {C(i) : i \in WalkedOf(nodes) \ {n}}
  BY <1>7, <1>8 DEF ListedOf
<1>10. \A i \in WalkedOf(nodes) \ {n} : C(i) \intersect C(n) = {}
  BY <1>1, DirsAre DEF WalkedOf
<1>11. ListedOf(nodes) = UNION {C(i) : i \in WalkedOf(nodes)}
  BY DEF ListedOf
<1> HIDE DEF C
<1>12. ListedOf(nodes') = ListedOf(nodes) \ C(n) /\ C(n) \subseteq ListedOf(nodes)
  BY <1>9, <1>10, <1>11
<1> QED
  BY <1>3, <1>4, <1>5, <1>6, <1>12 DEF C, SameEntries

\* A job that has not begun is given up.
LEMMA DroppedJobs ==
    ASSUME TypeOK, StagesOK, JobsDistinct, TodoFresh,
           NEW w \in Workers, NEW j, job[w] = j, j \in ScanJobs, j \in pushed, stage[w] = "start",
           stage' = [stage EXCEPT ![w] = "end"],
           UNCHANGED <<injector, todo, job, pushing, pushed>>
    PROVE  Ever' = Ever /\ Waiting' = Waiting \ {j} /\ Active' = Active \ {j} /\ j \in Waiting
<1>1. Ever' = Ever /\ Todo' = Todo /\ j \in Ever /\ j \in Waiting
  BY DEF Ever, Todo, Waiting, InStage
<1>2. /\ j \notin injector /\ j \notin Todo /\ j # NoJob
      /\ (\A v \in Workers : pushing[v] # j) /\ (\A v \in Workers \ {w} : job[v] # j)
  <2>1. j # NoJob
    BY ScanPoolAssumption
  <2>2. j \notin Todo
    BY DEF TodoFresh, Todo
  <2> QED BY <2>1, <2>2 DEF JobsDistinct
<1>3. stage'[w] = "end" /\ \A v \in Workers \ {w} : stage'[v] = stage[v]
  BY DEF StagesOK
<1>4. j \notin Waiting' /\ j \notin Working'
  BY <1>1, <1>2, <1>3 DEF Waiting, Working, InStage
<1>5. ASSUME NEW k \in Ever, k # j
      PROVE  (k \in Waiting' <=> k \in Waiting) /\ (k \in Working' <=> k \in Working)
  <2>1. job[w] # k
    BY <1>5
  <2>2. \A S : InStage(k, S)' <=> InStage(k, S)
    BY <1>3, <2>1 DEF InStage
  <2>3. k \in Waiting' <=> k \in Waiting
    BY <1>1, <2>2 DEF Waiting
  <2>4. k \in Working' <=> k \in Working
    BY <1>1, <2>2 DEF Working
  <2> QED BY <2>3, <2>4
<1>6. Waiting \subseteq Ever /\ Working \subseteq Ever /\ Waiting' \subseteq Ever /\ Working' \subseteq Ever
  BY <1>1 DEF Waiting, Working
<1>7. j \notin Working
  BY <1>2 DEF Working, InStage
<1> QED
  BY <1>1, <1>4, <1>5, <1>6, <1>7 DEF Active

\* A waiting directory has its node for itself.
LEMMA DirAlone ==
    ASSUME TypeOK, StagesOK, Scanning, NEW j, j \in Waiting, j.kind = "dir",
           NEW k, k \in Active, k # j
    PROVE  k.node # j.node
<1>1. JobsOK /\ Unspilled
  BY DEF Scanning
<1>2. j \in Ever /\ k \in Ever /\ j \in ScanJobs /\ k \in ScanJobs
  BY EverTyped DEF Waiting, Active, Working
<1>3. CASE k.kind = "meta"
  BY <1>1, <1>2, <1>3 DEF Unspilled
<1>4. CASE k.kind = "dir"
  <2> SUFFICES ASSUME k.node = j.node PROVE FALSE
    OBVIOUS
  <2>1. k.dir = nodes[k.node].entry /\ k.from = 0 /\ j.dir = nodes[j.node].entry /\ j.from = 0
    BY <1>1, <1>2, <1>4 DEF JobsOK, JobOK
  <2>2. k = j
    BY <1>2, <1>4, <2>1 DEF ScanJobs
  <2> QED BY <2>2
<1> QED
  BY <1>2, <1>3, <1>4 DEF ScanJobs

\* The node of a job is walked.
LEMMA JobsWalked ==
    ASSUME Scanning, FlagsOK(nodes), ReadableOK, NEW j, j \in Active
    PROVE  j.node \in WalkedOf(nodes) /\ nodes[j.node].entry = j.dir
<1>1. j \in Ever
  BY DEF Active, Waiting, Working
<1>2. JobOK(j, nodes)
  BY <1>1 DEF Scanning, JobsOK
<1> QED
  BY <1>2 DEF JobOK, FlagsOK, ReadableOK, WalkedOf, UnreadOf, DirsOf

OneError == [files |-> 0, dirs |-> 0, bytes |-> 0, errors |-> 1]

\* A worker counts an error.
LEMMA ErrorAdds ==
    ASSUME live \in CountType, local \in [Workers -> StateType], NEW w \in Workers,
           local' = [local EXCEPT ![w].counts.errors = @ + 1], live' = live
    PROVE  Adds(w, OneError) /\ OneError \in CountType
<1> DEFINE st == local[w]
           c == [st.counts EXCEPT !.errors = @ + 1]
           u == [st EXCEPT !.counts = c]
<1>1. st \in StateType /\ st.counts \in CountType
  BY DEF StateType, CountType
<1>2. c \in CountType /\ \A f \in Fields : c[f] = st.counts[f] + OneError[f]
  <2>1. c \in CountType
    BY <1>1 DEF CountType
  <2>2. /\ c["files"] = st.counts["files"] + 0 /\ c["dirs"] = st.counts["dirs"] + 0
        /\ c["bytes"] = st.counts["bytes"] + 0 /\ c["errors"] = st.counts["errors"] + 1
    BY <1>1 DEF CountType
  <2>3. /\ OneError["files"] = 0 /\ OneError["dirs"] = 0 /\ OneError["bytes"] = 0
        /\ OneError["errors"] = 1
    BY DEF OneError
  <2> HIDE DEF c
  <2> QED BY <2>1, <2>2, <2>3 DEF Fields
<1>3. local' = [local EXCEPT ![w] = u]
  OBVIOUS
<1> HIDE DEF c
<1>4. u \in StateType /\ u.counts = c
  BY <1>1, <1>2 DEF StateType, CountType
<1> HIDE DEF u
<1>5. /\ local' \in [Workers -> StateType] /\ local'[w] = u
      /\ \A v \in Workers \ {w} : local'[v] = local[v]
  BY <1>3, <1>4
<1>6. ASSUME NEW f \in Fields
      PROVE  live'[f] + local'[w].counts[f] = live[f] + local[w].counts[f] + OneError[f]
  <2>1. live[f] \in Nat /\ st.counts[f] \in Nat /\ OneError[f] \in Nat
    BY <1>1, FieldsOf DEF OneError, CountType
  <2>2. local'[w].counts[f] = st.counts[f] + OneError[f]
    BY <1>2, <1>4, <1>5
  <2> QED BY <2>1, <2>2
<1>7. OneError \in CountType
  BY DEF OneError, CountType
<1> QED
  BY <1>5, <1>6, <1>7 DEF Adds

\* The arena while nothing is sent.
LEMMA ArenaIsNodes ==
    ASSUME outcome.kind = "none", outcome' = outcome
    PROVE  Arena = nodes /\ Arena' = nodes' /\ ~Completed /\ ~Completed'
  BY DEF Arena, Completed

\* A directory that cannot be read is flagged and counted as an error.
LEMMA UnreadableKeepsWhole ==
    ASSUME ScanInv, WholeInv, NEW w \in Workers, StartDir(w), ~cancelled, job[w].dir \in Flaky,
           stage'[w] = "end"
    PROVE  WholeInv'
<1> DEFINE j == job[w]
           n == j.node
<1>1. pc[w] = "process" /\ stage[w] = "start" /\ j.kind = "dir"
  BY DEF StartDir, Processing
<1>2. /\ TypeOK /\ StagesOK /\ outcome.kind = "none" /\ j \in ScanJobs /\ j \in pushed
      /\ j \in Ever /\ Scanning /\ JobsDistinct
  BY <1>1, Busy
<1>3. UNCHANGED <<live, outcome, injector, job, pushing, pushed, pc, cancelled>>
  BY DEF StartDir, threadVars
<1>4. /\ local' = [local EXCEPT ![w].counts.errors = @ + 1]
      /\ nodes' = [nodes EXCEPT ![n].flags = @ \union {"unreadable"}]
      /\ stage' = [stage EXCEPT ![w] = "end"]
      /\ UNCHANGED <<todo, batch>>
  <2>1. w \in DOMAIN stage
    BY <1>2 DEF StagesOK
  <2> QED BY <2>1 DEF StartDir, Enter
<1>5. ArenaOK /\ TodoFresh /\ JobsOK /\ ClaimsOK /\ Mirrors(nodes)
  BY <1>2 DEF Scanning, ArenaOK
<1>6. Ever' = Ever /\ Waiting' = Waiting \ {j} /\ Active' = Active \ {j} /\ j \in Waiting
  BY <1>1, <1>2, <1>3, <1>4, <1>5, DroppedJobs
<1>7. Arena = nodes /\ Arena' = nodes' /\ ~Completed'
  BY <1>2, <1>3, ArenaIsNodes
<1>8. FlagsOK(nodes) /\ ReadableOK /\ BatchesOK
  BY <1>2, <1>7 DEF WholeInv
<1>9. n \in WalkedOf(nodes) /\ nodes[n].entry = j.dir
  BY <1>2, <1>6, <1>8, JobsWalked DEF Active
<1> HIDE DEF n
<1>10. /\ DirsOf(nodes') = DirsOf(nodes) /\ EntriesOf(nodes') = EntriesOf(nodes)
       /\ \A i \in DOMAIN nodes :
            /\ nodes'[i].entry = nodes[i].entry
            /\ nodes'[i].flags = IF i = n THEN nodes[i].flags \union {"unreadable"} ELSE nodes[i].flags
       /\ UnreadOf(nodes') = UnreadOf(nodes) \union {n} /\ n \notin UnreadOf(nodes)
       /\ ListedOf(nodes') = ListedOf(nodes) \ ToSet(Listing[j.dir])
       /\ ToSet(Listing[j.dir]) \subseteq ListedOf(nodes)
  BY <1>4, <1>5, <1>9, UnreadableFlags
<1>11. /\ local \in [Workers -> StateType] /\ live \in CountType
  BY <1>2 DEF StagesOK, WholeInv, CountsOK
<1>12. Adds(w, OneError) /\ OneError \in CountType
  BY <1>3, <1>4, <1>11, ErrorAdds
<1>13. \A f \in Fields : Tally(f) \in Nat /\ Tally(f)' = Tally(f) + OneError[f]
  BY <1>11, <1>12, TallyAdds
<1>14. /\ Tally("files")' = Tally("files") /\ Tally("dirs")' = Tally("dirs")
       /\ Tally("bytes")' = Tally("bytes") /\ Tally("errors")' = Tally("errors") + 1
  <2>1. /\ "files" \in Fields /\ "dirs" \in Fields /\ "bytes" \in Fields /\ "errors" \in Fields
        /\ OneError["files"] = 0 /\ OneError["dirs"] = 0 /\ OneError["bytes"] = 0
        /\ OneError["errors"] = 1
    BY DEF Fields, OneError
  <2>2. \A f \in Fields : Tally(f) \in Nat
    BY <1>13
  <2> QED BY <1>13, <2>1, <2>2
<1>15. CountsOK'
  <2>1. CountsOK
    BY DEF WholeInv
  <2>2. \A v \in Workers : pc'[v] = "done" => local'[v] = NoState
    BY <1>1, <1>3, <1>12, <2>1 DEF CountsOK, Adds
  <2>3. EntriesOf(Arena') = EntriesOf(Arena)
    BY <1>7, <1>10
  <2> QED BY <1>3, <1>14, <2>1, <2>2, <2>3 DEF CountsOK
<1>16. FlagsOK(nodes')
  <2>1. nodes[n].entry \in Flaky
    BY <1>9
  <2>2. ASSUME NEW i \in DirsOf(nodes')
        PROVE  /\ "boundary" \in nodes'[i].flags <=> Device[nodes'[i].entry] # Device[RootDir]
               /\ "unreadable" \in nodes'[i].flags => nodes'[i].entry \in Flaky
    <3>1. i \in DirsOf(nodes) /\ i \in DOMAIN nodes
      BY <1>10, <2>2 DEF DirsOf
    <3>2. /\ "boundary" \in nodes[i].flags <=> Device[nodes[i].entry] # Device[RootDir]
          /\ "unreadable" \in nodes[i].flags => nodes[i].entry \in Flaky
      BY <1>8, <3>1 DEF FlagsOK
    <3>3. CASE i = n
      <4>1. nodes'[i].flags = nodes[i].flags \union {"unreadable"} /\ nodes'[i].entry = nodes[i].entry
        BY <1>10, <3>1, <3>3
      <4>2. nodes'[i].entry \in Flaky
        BY <2>1, <3>3, <4>1
      <4>3. "boundary" \in nodes'[i].flags <=> "boundary" \in nodes[i].flags
        BY <4>1
      <4> QED BY <3>2, <4>1, <4>2, <4>3
    <3>4. CASE i # n
      BY <1>10, <3>1, <3>2, <3>4
    <3> QED BY <3>3, <3>4
  <2> QED BY <2>2 DEF FlagsOK
<1>17. ReadableOK'
  <2> SUFFICES ASSUME NEW k \in Active \ {j} PROVE "unreadable" \notin nodes'[k.node].flags
    BY <1>6 DEF ReadableOK
  <2>1. k.node # n
    BY <1>1, <1>2, <1>6, DirAlone DEF n
  <2>2. k.node \in DOMAIN nodes
    BY <1>2, <1>8, JobsWalked DEF WalkedOf, DirsOf
  <2> QED BY <1>8, <1>10, <2>1, <2>2 DEF ReadableOK
<1>18. BatchesOK'
  BY <1>1, <1>2, <1>3, <1>4, <1>8 DEF BatchesOK, StagesOK
<1>19. Unhurt' => Unhurt
  BY <1>3 DEF Unhurt
<1>20. Claim(j) = ToSet(Listing[j.dir])
  BY <1>1, <1>6 DEF Claim
<1>21. Owed' = Owed \ Claim(j) /\ Claim(j) \subseteq Owed
  <2>1. \A k \in Active \ {j} : Claim(k)' = Claim(k)
    BY <1>6 DEF Claim
  <2>2. Owed' = UNION {Claim(k) : k \in Active \ {j}}
    BY <1>6, <2>1 DEF Owed
  <2>3. j \in Active /\ \A k \in Active \ {j} : Claim(k) \intersect Claim(j) = {}
    BY <1>5, <1>6 DEF ClaimsOK, Active
  <2>4. Owed = UNION {Claim(k) : k \in Active}
    BY DEF Owed
  <2> QED BY <2>2, <2>3, <2>4
<1>22. Missing' = Missing
  BY <1>10, <1>20, <1>21 DEF Missing
<1>23. Unhurt' => Lossless'
  <2> SUFFICES ASSUME Unhurt' PROVE Lossless'
    OBVIOUS
  <2>1. Lossless
    BY <1>2, <1>19 DEF WholeInv
  <2>2. IsFiniteSet(UnreadOf(nodes))
    BY <1>5, DirsAre
  <2>3. Cardinality(UnreadOf(nodes')) = Cardinality(UnreadOf(nodes)) + 1
    BY <1>10, <2>2, FS_AddElement
  <2>4. Cardinality(UnreadOf(nodes)) \in Nat
    BY <2>2, FS_CardinalityType
  <2>5. Cardinality(Missing) \in Nat
    <3>1. Missing \subseteq Entries
      BY <1>5, DirsAre DEF Missing
    <3> QED BY <3>1, FileSystemAssumption, FS_Subset, FS_CardinalityType
  <2>6. Tally("errors") = Cardinality(UnreadOf(nodes)) + Cardinality(Missing) /\ Missing \subseteq Lost
    BY <2>1 DEF Lossless
  <2>7. Tally("errors")' = Cardinality(UnreadOf(nodes')) + Cardinality(Missing)
    BY <1>14, <2>3, <2>4, <2>5, <2>6
  <2> QED BY <1>22, <2>6, <2>7 DEF Lossless
<1> QED
  BY <1>7, <1>15, <1>16, <1>17, <1>18, <1>23 DEF WholeInv

\* A number is less than what dividing and multiplying again gives, and once more.
LEMMA DivisionAbove == \A a \in Nat, c \in Nat \ {0} : a < (a \div c) * c + c
  OBVIOUS

\* The chunks of a listing and its prefix leave nothing out.
LEMMA SpillCovers ==
    ASSUME NEW j, j \in ScanJobs, j.kind = "dir", j.from = 0
    PROVE  ToSet(Listing[j.dir]) =
              ToSet(NamesOf(j)) \union UNION {ToSet(NamesOf(k)) : k \in ToSet(SpillJobs(j))}
<1> DEFINE l == Listing[j.dir]
           n == Len(l)
           a == n - InlineLimit + Chunk - 1
           N == IF n <= InlineLimit THEN 0 ELSE a \div Chunk
           J(k) == MetaJob(j.dir, j.node, InlineLimit + (k - 1) * Chunk)
           r == SpillJobs(j)
<1>1. /\ j.dir \in Dirs /\ n \in Nat /\ DOMAIN l = 1..n
  BY ListingIs DEF ScanJobs
<1>2. InlineLimit \in Nat \ {0} /\ Chunk \in Nat \ {0}
  BY ScannerAssumption
<1>3. r = [k \in 1..N |-> J(k)]
  BY Zenon DEF SpillJobs
<1>4. r \in Seq(ScanJobs) /\ \A k \in ToSet(r) : k \in ScanJobs /\ k.dir = j.dir
  <2>1. r \in Seq(ScanJobs) /\ \A k \in ToSet(r) : k.dir = j.dir
    BY SpillIs
  <2> HIDE DEF r
  <2> QED BY <2>1 DEF ToSet
<1>5. \A i : i \in ToSet(l) <=> \E p \in 1..n : l[p] = i
  BY <1>1, Zenon DEF ToSet
<1> HIDE DEF r, l, n
<1>6. ASSUME NEW p \in 1..n, p <= InlineLimit PROVE l[p] \in ToSet(NamesOf(j))
  <2>1. p \in Positions(j)
    BY <1>1, <1>2, <1>6 DEF Positions, SizeOf, l
  <2> QED BY <2>1, NamesIs DEF l
<1>7. ASSUME NEW p \in 1..n, ~(p <= InlineLimit) PROVE \E k \in ToSet(r) : l[p] \in ToSet(NamesOf(k))
  <2> DEFINE b == p - InlineLimit - 1
             q == b \div Chunk
             qc == q * Chunk
             nc == N * Chunk
  <2>1. a \in Nat /\ b \in Nat /\ b + Chunk <= a /\ N = a \div Chunk
    BY <1>1, <1>2, <1>7
  <2> HIDE DEF N, a, b
  <2>2. q \in Nat /\ qc <= b /\ b < qc + Chunk /\ N \in Nat /\ nc <= a /\ a < nc + Chunk
    BY <1>2, <2>1, DivisionBelow, DivisionAbove
  <2> HIDE DEF q
  <2>3. qc \in Nat /\ nc \in Nat
    BY <1>2, <2>2, ProductNat
  <2>4. N < q => nc + Chunk <= qc
    BY <1>2, <2>2, MultiplesApart
  <2>5. N = q => nc = qc
    OBVIOUS
  <2> HIDE DEF qc, nc
  <2>6. q + 1 \in 1..N /\ (q + 1) - 1 = q
    <3>1. q < N
      <4>1. ~(N < q) /\ N # q
        BY <1>2, <2>1, <2>2, <2>3, <2>4, <2>5
      <4> QED BY <2>2, <4>1
    <3> QED BY <2>2, <3>1
  <2> DEFINE k == J(q + 1)
  <2>7. k = r[q + 1] /\ q + 1 \in DOMAIN r
    BY <1>3, <2>6
  <2>8. k \in ToSet(r)
    BY <2>7 DEF ToSet
  <2>9. k.kind = "meta" /\ k.from = InlineLimit + qc
    BY <2>6 DEF MetaJob, qc
  <2>10. k \in ScanJobs /\ k.dir = j.dir
    BY <1>4, <2>8
  <2> HIDE DEF k
  <2>11. p \in Positions(k)
    <3>1. InlineLimit + qc < p /\ p <= InlineLimit + qc + Chunk
      BY <1>1, <1>2, <2>1, <2>2, <2>3 DEF b
    <3> QED BY <1>1, <2>9, <2>10, <3>1 DEF Positions, SizeOf, l
  <2>12. l[p] \in ToSet(NamesOf(k))
    BY <2>10, <2>11, NamesIs DEF l
  <2> QED BY <2>8, <2>12
<1>8. ToSet(NamesOf(j)) \subseteq ToSet(l) /\ \A k \in ToSet(r) : ToSet(NamesOf(k)) \subseteq ToSet(l)
  BY <1>4, NamesIs DEF l
<1>9. \A x \in ToSet(l) : x \in ToSet(NamesOf(j)) \/ \E k \in ToSet(r) : x \in ToSet(NamesOf(k))
  BY <1>5, <1>6, <1>7
<1>10. ToSet(l) = ToSet(NamesOf(j)) \union UNION {ToSet(NamesOf(k)) : k \in ToSet(r)}
  BY <1>8, <1>9
<1> QED
  BY <1>10 DEF l, r

\* What was owed by the directory is owed by its chunks and its prefix.
LEMMA ListedOwes ==
    ASSUME TypeOK, StagesOK, JobsDistinct, Scanning,
           NEW w \in Workers, NEW j, Listed(w, j, SpillJobs(j))
    PROVE  /\ Owed' = Owed
           /\ \A k \in Active' : \E m \in Active : k.node = m.node
<1> DEFINE sp == SpillJobs(j)
<1>1. j \in ScanJobs /\ j \in Ever /\ j.kind = "dir" /\ j \in Waiting /\ j \in Active
  BY DEF Listed, Ever, Active
<1>2. j.from = 0 /\ TodoFresh /\ Unspilled
  BY <1>1 DEF Scanning, JobsOK, JobOK
<1>3. \A k \in ToSet(sp) : k.kind = "meta" /\ k.node = j.node
  BY <1>1, <1>2, SpillIs
<1>4. /\ Ever' = Ever \union ToSet(sp) /\ Ever \intersect ToSet(sp) = {}
      /\ Waiting' = (Waiting \ {j}) \union ToSet(sp)
      /\ Active' = Active \union ToSet(sp)
  BY <1>2, <1>3, ListedJobs
<1>5. ToSet(Listing[j.dir]) = ToSet(NamesOf(j)) \union UNION {ToSet(NamesOf(k)) : k \in ToSet(sp)}
  BY <1>1, <1>2, SpillCovers
<1> HIDE DEF sp
<1>6. Claim(j) = ToSet(Listing[j.dir]) /\ Claim(j)' = ToSet(NamesOf(j))
  BY <1>1, <1>4 DEF Claim
<1>7. \A k \in ToSet(sp) : Claim(k)' = ToSet(NamesOf(k))
  BY <1>3 DEF Claim
<1>8. \A k \in Active \ {j} : Claim(k)' = Claim(k)
  <2>1. \A k \in Active : k \in Ever
    BY DEF Active, Waiting, Working
  <2>2. \A k \in Active \ {j} : k \in Waiting' <=> k \in Waiting
    BY <1>4, <2>1
  <2> QED BY <2>2 DEF Claim
<1>9. ASSUME NEW x PROVE x \in Owed' <=> x \in Owed
  <2>1. x \in Owed <=> (x \in Claim(j) \/ \E k \in Active \ {j} : x \in Claim(k))
    BY <1>1 DEF Owed
  <2>2. x \in Owed' <=> \E k \in Active' : x \in Claim(k)'
    BY DEF Owed
  <2>3. x \in Owed' <=> \/ x \in Claim(j)' \/ (\E k \in Active \ {j} : x \in Claim(k)')
                        \/ \E k \in ToSet(sp) : x \in Claim(k)'
    BY <1>1, <1>4, <2>2
  <2>4. x \in Claim(j) <=> x \in Claim(j)' \/ \E k \in ToSet(sp) : x \in Claim(k)'
    BY <1>5, <1>6, <1>7
  <2>5. (\E k \in Active \ {j} : x \in Claim(k)') <=> (\E k \in Active \ {j} : x \in Claim(k))
    BY <1>8
  <2> QED BY <2>1, <2>3, <2>4, <2>5
<1>10. Owed' = Owed
  BY <1>9
<1>11. \A k \in Active' : \E m \in Active : k.node = m.node
  BY <1>1, <1>3, <1>4
<1> QED
  BY <1>10, <1>11

\* A directory is listed.
LEMMA ListKeepsWhole ==
    ASSUME ScanInv, WholeInv, NEW w \in Workers, StartDir(w), ~cancelled, stage'[w] # "end"
    PROVE  WholeInv'
<1> DEFINE j == job[w]
<1>1. pc[w] = "process" /\ stage[w] = "start" /\ j.kind = "dir"
  BY DEF StartDir, Processing
<1>2. /\ TypeOK /\ StagesOK /\ outcome.kind = "none" /\ j \in ScanJobs
      /\ j \in pushed /\ j \in Ever /\ Scanning /\ JobsDistinct
  BY <1>1, Busy
<1>3. UNCHANGED <<live, outcome, injector, job, pushing, pushed, pc, cancelled>>
  BY DEF StartDir, threadVars
<1>4. PICK failed \in StatFailures(j, NamesOf(j)) :
        /\ batch' = [batch EXCEPT ![w] = [names |-> NamesOf(j), failed |-> failed]]
        /\ todo' = [todo EXCEPT ![w] = SpillJobs(j)]
        /\ stage' = [stage EXCEPT ![w] = "listed"]
        /\ UNCHANGED <<local, nodes>>
  <2>1. w \in DOMAIN stage
    BY <1>2 DEF StagesOK
  <2> QED BY <2>1 DEF StartDir, Enter
<1>5. j \in Waiting
  BY <1>1, <1>2 DEF Waiting, InStage
<1>6. Listed(w, j, SpillJobs(j))
  BY <1>1, <1>2, <1>3, <1>4, <1>5 DEF Listed, StagesOK
<1>7. Owed' = Owed /\ \A k \in Active' : \E m \in Active : k.node = m.node
  BY <1>2, <1>6, ListedOwes
<1>8. ReadableOK => ReadableOK'
  BY <1>4, <1>7 DEF ReadableOK
<1>9. BatchesOK => BatchesOK'
  <2> SUFFICES ASSUME BatchesOK, NEW v \in Workers, stage'[v] \in {"listed", "insert"}
               PROVE  batch'[v].failed \subseteq ToSet(NamesOf(job[v])) \intersect Lost
    BY <1>3 DEF BatchesOK
  <2>1. CASE v # w
    BY <1>2, <1>4, <2>1 DEF BatchesOK, StagesOK
  <2>2. CASE v = w
    <3>1. batch'[w].failed = failed
      BY <1>2, <1>4 DEF StagesOK
    <3> QED BY <1>2, <2>2, <3>1, FailuresAre
  <2> QED BY <2>1, <2>2
<1>10. Unhurt' => Unhurt
  BY <1>3 DEF Unhurt
<1>11. \A v \in Workers : pc'[v] = "done" => local'[v] = NoState
  BY <1>3, <1>4 DEF WholeInv, CountsOK
<1> QED
  BY <1>2, <1>3, <1>4, <1>7, <1>8, <1>9, <1>10, <1>11, StillKeeps, TallyStays

-----------------------------------------------------------------------------
(* A batch is inserted.                                                    *)

\* What an insertion counts, flushed or not.
LEMMA InsertAdds ==
    ASSUME live \in CountType, local \in [Workers -> StateType], NEW w, w \in Workers, Insert(w),
           NEW r, r = Statted(batch[w]), r \in Seq(Entries), batch[w].failed \subseteq Entries,
           LinksFor(r, batch[w]) \subseteq LinkType,
           NEW c, c = CountsOf(r, batch[w].failed)
    PROVE  c \in CountType /\ Adds(w, c)
<1> DEFINE st == AfterBatch(local[w], r, batch[w])
<1>1. /\ local' = [local EXCEPT ![w] = IF st.since >= FlushEvery THEN Flushed(st) ELSE st]
      /\ live' = IF st.since >= FlushEvery THEN Plus(live, st.counts) ELSE live
  BY Zenon DEF Insert, AfterBatch, LinksFor
<1>2. c \in CountType /\ local[w] \in StateType /\ local[w].counts \in CountType
  BY CountsTyped DEF StateType, CountType
<1>3. st \in StateType /\ st.counts = Plus(local[w].counts, c)
  <2>1. st \in StateType
    BY <1>2, AfterBatchTyped
  <2>2. st.counts = Plus(local[w].counts, c)
    BY DEF AfterBatch
  <2> QED BY <2>1, <2>2
<1> HIDE DEF st
<1>4. \A f \in Fields : st.counts[f] = local[w].counts[f] + c[f]
  BY <1>3, PlusIs
<1>5. st.counts \in CountType
  BY <1>3 DEF StateType, CountType
<1>6. \A f \in Fields : live[f] \in Nat /\ local[w].counts[f] \in Nat /\ c[f] \in Nat
  BY <1>2, FieldsOf
<1>7. ASSUME st.since >= FlushEvery PROVE Adds(w, c)
  <2>1. local' = [local EXCEPT ![w] = NoState] /\ live' = Plus(live, st.counts)
    BY <1>1, <1>3, <1>7, FlushedIs
  <2>2. live' \in CountType /\ \A f \in Fields : live'[f] = live[f] + st.counts[f]
    BY <1>5, <2>1, PlusTyped, PlusIs
  <2>3. /\ local' \in [Workers -> StateType] /\ local'[w] = NoState
        /\ \A v \in Workers \ {w} : local'[v] = local[v]
    BY <2>1, NoStateIs
  <2>4. \A f \in Fields : local'[w].counts[f] = 0
    BY <2>3, NoStateIs, FieldsOf
  <2>5. ASSUME NEW f \in Fields
        PROVE  live'[f] + local'[w].counts[f] = live[f] + local[w].counts[f] + c[f]
    BY <1>4, <1>6, <2>2, <2>4
  <2> QED BY <2>2, <2>3, <2>5 DEF Adds
<1>8. ASSUME ~(st.since >= FlushEvery) PROVE Adds(w, c)
  <2>1. local' = [local EXCEPT ![w] = st] /\ live' = live
    BY <1>1, <1>8
  <2>2. /\ local' \in [Workers -> StateType] /\ local'[w] = st
        /\ \A v \in Workers \ {w} : local'[v] = local[v]
    BY <1>3, <2>1
  <2>3. ASSUME NEW f \in Fields
        PROVE  live'[f] + local'[w].counts[f] = live[f] + local[w].counts[f] + c[f]
    BY <1>4, <1>6, <2>1, <2>2
  <2> QED BY <2>1, <2>2, <2>3 DEF Adds
<1> QED
  BY <1>2, <1>7, <1>8

\* The new directories on the device of the scan.
NewDirs(r, j) == {e \in ToSet(r) : Kind[e] = "dir" /\ Device[e] = Device[j.dir]}

\* Each of them has its job.
LEMMA JobsForAll ==
    ASSUME NEW r, r \in Seq(Entries), NoRepeat(r), NEW j, NEW b
    PROVE  \A e \in NewDirs(r, j) : \E x \in ToSet(JobsFor(r, j, b)) : x.dir = e
<1> DEFINE S == {e \in Entries : Kind[e] = "dir" /\ ~IsBoundary(e, j.dir)}
           walk == WalkOf(r, j)
           nt == JobsFor(r, j, b)
<1>1. walk \in Seq(Entries) /\ ToSet(walk) = ToSet(r) \intersect S
  <2>1. walk = Keep(r, S)
    BY Zenon DEF WalkOf
  <2> HIDE DEF walk, S
  <2> QED BY <2>1, KeepIs
<1>2. ToSet(r) \subseteq Entries
  BY DEF ToSet
<1>3. NewDirs(r, j) \subseteq ToSet(walk)
  BY <1>1, <1>2 DEF NewDirs, IsBoundary
<1>4. nt = [k \in DOMAIN walk |-> DirJob(walk[k], IdOf(walk[k], b))]
  BY Zenon DEF JobsFor
<1> HIDE DEF walk, nt
<1>5. ASSUME NEW e \in NewDirs(r, j) PROVE \E x \in ToSet(nt) : x.dir = e
  <2>1. PICK k \in DOMAIN walk : walk[k] = e
    BY <1>3, Zenon DEF ToSet
  <2>2. nt[k] = DirJob(e, IdOf(e, b)) /\ k \in DOMAIN nt
    BY <1>4, <2>1
  <2>3. nt[k] \in ToSet(nt)
    BY <2>2, Zenon DEF ToSet
  <2>4. nt[k].dir = e
    BY <2>2 DEF DirJob
  <2> QED BY <2>3, <2>4
<1> QED
  BY <1>5 DEF nt

\* The flags of a new node.
LEMMA NewFlags ==
    ASSUME NEW e, NEW j
    PROVE  NewNode(e, j).flags = IF IsBoundary(e, j.dir) THEN {"boundary"} ELSE {}
  BY DEF NewNode, Node

\* The grown arena: nothing becomes unreadable, and what the new directories
\* list is listed.
LEMMA GrownListed ==
    ASSUME ArenaOK, FlagsOK(nodes), NEW j, j \in ScanJobs, JobOK(j, nodes),
           NEW r, r \in Seq(Entries), NEW u, GrownNodes(j, r, u)
    PROVE  /\ FlagsOK(u) /\ UnreadOf(u) = UnreadOf(nodes)
           /\ ListedOf(u) = ListedOf(nodes) \union UNION {ToSet(Listing[e]) : e \in NewDirs(r, j)}
           /\ \A i \in DOMAIN nodes : u[i].flags = nodes[i].flags
           /\ \A i \in NewIds(r) : "unreadable" \notin u[i].flags
<1> DEFINE n == Len(nodes)
           m == Len(r)
<1>1. n \in Nat /\ DOMAIN nodes = 1..n
  BY ArenaFacts DEF ArenaOK, Mirrors
<1>2. m \in Nat /\ DOMAIN r = 1..m /\ \A k \in 1..m : r[k] \in Entries /\ r[k] \in ToSet(r)
  BY DEF ToSet
<1>3. /\ DOMAIN u = 1..(n + m)
      /\ \A i \in 1..n : u[i].entry = nodes[i].entry /\ u[i].kind = nodes[i].kind
                            /\ u[i].flags = nodes[i].flags
      /\ \A i \in NewIds(r) : u[i] = NewNode(r[i - n], j)
  BY Zenon DEF GrownNodes
<1>4. \A i : i \in 1..(n + m) <=> i \in 1..n \/ i \in NewIds(r)
  BY <1>1, <1>2 DEF NewIds
<1>5. ASSUME NEW i \in NewIds(r)
      PROVE  /\ i - n \in 1..m /\ u[i].entry = r[i - n] /\ u[i].kind = Kind[r[i - n]]
             /\ r[i - n] \in ToSet(r)
             /\ u[i].flags = IF IsBoundary(r[i - n], j.dir) THEN {"boundary"} ELSE {}
  <2>1. i - n \in 1..m
    BY <1>1, <1>2 DEF NewIds
  <2> QED BY <1>2, <1>3, <2>1, NewNodeIs, NewFlags
<1>6. ASSUME NEW k \in 1..m PROVE k + n \in NewIds(r) /\ (k + n) - n = k
  BY <1>1, <1>2 DEF NewIds
<1>7. \A i \in NewIds(r) : i \notin 1..n
  BY <1>1, <1>2 DEF NewIds
<1> HIDE DEF n, m
<1>8. Device[j.dir] = Device[RootDir]
  BY DEF JobOK
<1>9. \A i : i \in DirsOf(u) <=>
          i \in DirsOf(nodes) \/ (i \in NewIds(r) /\ u[i].kind = "dir")
  BY <1>1, <1>3, <1>4 DEF DirsOf
<1>10. \A i \in DirsOf(nodes) : u[i].flags = nodes[i].flags /\ u[i].entry = nodes[i].entry
  BY <1>1, <1>3 DEF DirsOf
<1>11. ASSUME NEW i \in NewIds(r), u[i].kind = "dir"
       PROVE  /\ "unreadable" \notin u[i].flags
              /\ "boundary" \in u[i].flags <=> Device[u[i].entry] # Device[RootDir]
  <2>1. IsBoundary(r[i - n], j.dir) <=> Device[u[i].entry] # Device[RootDir]
    BY <1>5, <1>8, <1>11 DEF IsBoundary, EffectiveStay
  <2> QED BY <1>5, <2>1
<1>12. FlagsOK(u)
  <2>1. ASSUME NEW i \in DirsOf(u)
        PROVE  /\ "boundary" \in u[i].flags <=> Device[u[i].entry] # Device[RootDir]
               /\ "unreadable" \in u[i].flags => u[i].entry \in Flaky
    <3>1. CASE i \in DirsOf(nodes)
      BY <1>10, <3>1 DEF FlagsOK
    <3>2. CASE i \in NewIds(r) /\ u[i].kind = "dir"
      BY <1>11, <3>2
    <3> QED BY <1>9, <3>1, <3>2
  <2> QED BY <2>1 DEF FlagsOK
<1>13. UnreadOf(u) = UnreadOf(nodes)
  <2>1. \A i : i \in UnreadOf(u) <=> i \in DirsOf(u) /\ "unreadable" \in u[i].flags
    BY DEF UnreadOf
  <2>2. \A i : i \in UnreadOf(nodes) <=> i \in DirsOf(nodes) /\ "unreadable" \in nodes[i].flags
    BY DEF UnreadOf
  <2>3. \A i : i \in UnreadOf(u) <=> i \in UnreadOf(nodes)
    BY <1>9, <1>10, <1>11, <2>1, <2>2
  <2> QED BY <2>3
<1>14. \A i : i \in WalkedOf(u) <=>
          i \in WalkedOf(nodes) \/ (i \in NewIds(r) /\ u[i].kind = "dir" /\ u[i].entry \in NewDirs(r, j))
  <2>1. \A i : i \in WalkedOf(u) <=> i \in DirsOf(u) /\ "unreadable" \notin u[i].flags
                                        /\ "boundary" \notin u[i].flags
    BY DEF WalkedOf, UnreadOf
  <2>2. \A i : i \in WalkedOf(nodes) <=> i \in DirsOf(nodes) /\ "unreadable" \notin nodes[i].flags
                                        /\ "boundary" \notin nodes[i].flags
    BY DEF WalkedOf, UnreadOf
  <2>3. ASSUME NEW i \in NewIds(r), u[i].kind = "dir"
        PROVE  "boundary" \notin u[i].flags <=> u[i].entry \in NewDirs(r, j)
    BY <1>5, <1>8, <1>11, <2>3 DEF NewDirs
  <2>4. \A i \in NewIds(r) : i \notin DirsOf(nodes)
    BY <1>1, <1>7 DEF DirsOf
  <2> QED BY <1>9, <1>10, <1>11, <2>1, <2>2, <2>3, <2>4
<1>15. \A i \in WalkedOf(nodes) : u[i].entry = nodes[i].entry
  BY <1>10 DEF WalkedOf
<1>16. ASSUME NEW e \in NewDirs(r, j)
       PROVE  \E i \in NewIds(r) : u[i].kind = "dir" /\ u[i].entry = e
  <2>1. PICK k \in 1..m : r[k] = e
    BY <1>2 DEF NewDirs, ToSet
  <2>2. u[k + n].entry = e /\ u[k + n].kind = "dir" /\ k + n \in NewIds(r)
    BY <1>5, <1>6, <2>1 DEF NewDirs
  <2> QED BY <2>2
<1>17. ASSUME NEW x
       PROVE  x \in ListedOf(u) <=>
                x \in ListedOf(nodes) \/ \E e \in NewDirs(r, j) : x \in ToSet(Listing[e])
  <2>1. x \in ListedOf(u) <=> \E i \in WalkedOf(u) : x \in ToSet(Listing[u[i].entry])
    BY DEF ListedOf
  <2>2. x \in ListedOf(nodes) <=> \E i \in WalkedOf(nodes) : x \in ToSet(Listing[u[i].entry])
    BY <1>15 DEF ListedOf
  <2>3. (\E e \in NewDirs(r, j) : x \in ToSet(Listing[e])) <=>
        \E i \in NewIds(r) : u[i].kind = "dir" /\ u[i].entry \in NewDirs(r, j)
                                /\ x \in ToSet(Listing[u[i].entry])
    BY <1>16
  <2> QED BY <1>14, <2>1, <2>2, <2>3
<1>18. ListedOf(u) = ListedOf(nodes) \union UNION {ToSet(Listing[e]) : e \in NewDirs(r, j)}
  BY <1>17
<1>19. \A i \in NewIds(r) : "unreadable" \notin u[i].flags
  BY <1>5
<1> QED
  BY <1>1, <1>3, <1>12, <1>13, <1>18, <1>19

\* What is owed: the names of the batch no more, the new listings from now on.
LEMMA InsertOwes ==
    ASSUME TypeOK, StagesOK, JobsDistinct, Scanning, ArenaOK',
           NEW w \in Workers, NEW j, NEW nt, Inserted(w, j, nt),
           NEW r, r \in Seq(Entries), NewJobs(j, r, nt), GrownNodes(j, r, nodes'),
           \A e \in NewDirs(r, j) : \E x \in ToSet(nt) : x.dir = e
    PROVE  /\ Owed' = (Owed \ ToSet(NamesOf(j))) \union UNION {ToSet(Listing[e]) : e \in NewDirs(r, j)}
           /\ ToSet(NamesOf(j)) \subseteq Owed /\ j \in Active
           /\ Active' = (Active \ {j}) \union ToSet(nt)
<1> DEFINE n == Len(nodes)
           N == ToSet(NamesOf(j))
<1>1. JobsOK /\ TodoFresh /\ ClaimsOK /\ ArenaOK
  BY DEF Scanning
<1>2. n \in Nat /\ DOMAIN nodes = 1..n
  BY <1>1, ArenaFacts DEF ArenaOK, Mirrors
<1>3. /\ \A x \in ToSet(nt) : x.kind = "dir" /\ x.dir \in NewDirs(r, j)
      /\ \A x \in ToSet(nt) : x.node \notin DOMAIN nodes
  <2>1. \A i \in NewIds(r) : i \notin 1..n
    BY <1>2 DEF NewIds
  <2> QED BY <1>2, <2>1 DEF NewJobs, NewDirs
<1>4. /\ Ever' = Ever \union ToSet(nt) /\ Ever \intersect ToSet(nt) = {}
      /\ Waiting' = Waiting \union ToSet(nt)
      /\ Active' = (Active \ {j}) \union ToSet(nt)
      /\ j \in Ever /\ j \in Active /\ j \notin Waiting
  BY <1>1, <1>3, InsertedJobs
<1>5. Claim(j) = N
  BY <1>4 DEF Claim
<1>6. ASSUME NEW k \in Active \ {j}
      PROVE  k \in Active' /\ Claim(k)' = Claim(k) /\ Claim(k) \intersect N = {}
  <2>1. k \in Ever /\ k \notin ToSet(nt)
    BY <1>4 DEF Active, Waiting, Working
  <2>2. k \in Waiting' <=> k \in Waiting
    BY <1>4, <2>1
  <2>3. Claim(k)' = Claim(k)
    BY <2>2 DEF Claim
  <2>4. Claim(k) \intersect Claim(j) = {}
    BY <1>1, <1>4 DEF ClaimsOK
  <2> QED BY <1>4, <1>5, <2>3, <2>4
<1>7. ASSUME NEW k \in ToSet(nt)
      PROVE  k \in Active' /\ Claim(k)' = ToSet(Listing[k.dir])
  BY <1>3, <1>4 DEF Claim
<1>8. Owed = UNION {Claim(k) : k \in Active} /\ Owed' = UNION {Claim(k)' : k \in Active'}
  BY DEF Owed
<1>9. N \subseteq Owed
  BY <1>4, <1>5, <1>8
<1> DEFINE L == UNION {ToSet(Listing[e]) : e \in NewDirs(r, j)}
<1> HIDE DEF N
<1>10. ASSUME NEW x \in Owed' PROVE x \in (Owed \ N) \union L
  <2>1. PICK k \in Active' : x \in Claim(k)'
    BY <1>8
  <2>2. CASE k \in Active \ {j}
    BY <1>6, <1>8, <2>1, <2>2
  <2>3. CASE k \in ToSet(nt)
    BY <1>3, <1>7, <2>1, <2>3
  <2> QED BY <1>4, <2>2, <2>3
<1>11. ASSUME NEW x \in Owed \ N PROVE x \in Owed'
  <2>1. PICK k \in Active : x \in Claim(k)
    BY <1>8
  <2>2. k # j
    BY <1>5, <2>1
  <2> QED BY <1>6, <1>8, <2>1, <2>2
<1>12. ASSUME NEW x \in L PROVE x \in Owed'
  <2>1. PICK e \in NewDirs(r, j) : x \in ToSet(Listing[e])
    OBVIOUS
  <2>2. PICK k \in ToSet(nt) : k.dir = e
    BY <2>1
  <2> QED BY <1>7, <1>8, <2>1, <2>2
<1>13. Owed' = (Owed \ N) \union L
  BY <1>10, <1>11, <1>12
<1> QED
  BY <1>4, <1>9, <1>13 DEF N

\* What the new directories list was not listed before.
LEMMA NewlyListed ==
    ASSUME ArenaOK, NEW r, r \in Seq(Entries), ToSet(r) \intersect EntriesOf(nodes) = {}, NEW j
    PROVE  (UNION {ToSet(Listing[e]) : e \in NewDirs(r, j)}) \intersect ListedOf(nodes) = {}
<1> SUFFICES ASSUME NEW e \in NewDirs(r, j), NEW i \in WalkedOf(nodes)
             PROVE  ToSet(Listing[e]) \intersect ToSet(Listing[nodes[i].entry]) = {}
  BY DEF ListedOf
<1>1. i \in DirsOf(nodes)
  BY DEF WalkedOf
<1>2. nodes[i].entry \in Dirs /\ nodes[i].entry \in EntriesOf(nodes)
  BY <1>1, DirsAre DEF ArenaOK
<1>3. e \in ToSet(r) /\ Kind[e] = "dir"
  BY DEF NewDirs
<1>4. ToSet(r) \subseteq Entries
  BY DEF ToSet
<1>5. e \in Dirs /\ e # nodes[i].entry
  BY <1>2, <1>3, <1>4 DEF Dirs
<1> QED
  BY <1>2, <1>5, FileSystemAssumption

\* The counters c are what the entries G have and E did not.
Gain(E, G, c) ==
    /\ Cardinality(FileEntries(G)) = Cardinality(FileEntries(E)) + c["files"]
    /\ Cardinality(DirEntries(G)) = Cardinality(DirEntries(E)) + c["dirs"]
    /\ SumFunctionOnSet(Bytes, G \ {RootDir}) = SumFunctionOnSet(Bytes, E \ {RootDir}) + c["bytes"]
    /\ Cardinality(FileEntries(E)) \in Nat /\ Cardinality(DirEntries(E)) \in Nat
    /\ SumFunctionOnSet(Bytes, E \ {RootDir}) \in Nat

\* What is counted of a batch is what the arena gains.
LEMMA CountsGrow ==
    ASSUME NEW E, E \subseteq Entries \union {RootDir}, NEW r, r \in Seq(Entries),
           E \intersect ToSet(r) = {}, NEW failed
    PROVE  Gain(E, E \union ToSet(r), CountsOf(r, failed))
<1> DEFINE S == ToSet(r)
           files == {e \in S : Kind[e] = "file"}
           dirs == {e \in S : Kind[e] = "dir"}
           G == E \union ToSet(r)
           c == CountsOf(r, failed)
<1>1. S \subseteq Entries /\ RootDir \notin S
  BY ScannerAssumption DEF ToSet
<1>2. /\ c["files"] = Cardinality(files) /\ c["dirs"] = Cardinality(dirs)
      /\ c["bytes"] = SumFunctionOnSet(Bytes, S)
  BY DEF CountsOf
<1>3. E \intersect S = {} /\ G = E \union S
  OBVIOUS
<1> HIDE DEF S, c, G
<1>4. /\ IsFiniteSet(files) /\ IsFiniteSet(dirs) /\ IsFiniteSet(S)
      /\ IsFiniteSet(FileEntries(E)) /\ IsFiniteSet(DirEntries(E)) /\ IsFiniteSet(E \ {RootDir})
  <2>1. /\ files \subseteq Entries /\ dirs \subseteq Entries
        /\ FileEntries(E) \subseteq Entries /\ DirEntries(E) \subseteq Entries
        /\ E \ {RootDir} \subseteq Entries
    BY <1>1 DEF FileEntries, DirEntries
  <2> QED BY <1>1, <2>1, FileSystemAssumption, FS_Subset
<1>5. /\ FileEntries(G) = FileEntries(E) \union files /\ FileEntries(E) \intersect files = {}
      /\ DirEntries(G) = DirEntries(E) \union dirs /\ DirEntries(E) \intersect dirs = {}
      /\ G \ {RootDir} = (E \ {RootDir}) \union S /\ (E \ {RootDir}) \intersect S = {}
  BY <1>1, <1>3 DEF FileEntries, DirEntries
<1>6. \A x \in (E \ {RootDir}) \union S : Bytes[x] \in Nat
  BY <1>1, FileSystemAssumption
<1>7. SumFunctionOnSet(Bytes, G \ {RootDir}) =
        SumFunctionOnSet(Bytes, E \ {RootDir}) + SumFunctionOnSet(Bytes, S)
  <2>1. \A x \in (E \ {RootDir}) \union S : Bytes[x] \in Int
    BY <1>6
  <2>2. SumFunctionOnSet(Bytes, (E \ {RootDir}) \union S) =
        SumFunctionOnSet(Bytes, E \ {RootDir}) + SumFunctionOnSet(Bytes, S)
    BY <1>4, <1>5, <2>1, SumDisjoint
  <2> QED BY <1>5, <2>2
<1>8. SumFunctionOnSet(Bytes, E \ {RootDir}) \in Nat
  BY <1>4, <1>6, SumType
<1>9. /\ Cardinality(FileEntries(G)) = Cardinality(FileEntries(E)) + Cardinality(files)
      /\ Cardinality(DirEntries(G)) = Cardinality(DirEntries(E)) + Cardinality(dirs)
  <2> HIDE DEF files, dirs
  <2> QED BY <1>4, <1>5, CardJoin
<1>10. Cardinality(FileEntries(E)) \in Nat /\ Cardinality(DirEntries(E)) \in Nat
  BY <1>4, FS_CardinalityType
<1> QED
  <2>1. Gain(E, G, c)
    BY <1>2, <1>7, <1>8, <1>9, <1>10 DEF Gain
  <2> QED BY <2>1 DEF G, c

\* The batch of a job that inserts: names that nobody else has inserted.
LEMMA InsertFinds ==
    ASSUME ScanInv, NEW w \in Workers, Insert(w), NEW r, r = Statted(batch[w])
    PROVE  /\ r \in Seq(Entries) /\ NoRepeat(r) /\ ToSet(NamesOf(job[w])) \subseteq Entries
           /\ ToSet(r) = ToSet(NamesOf(job[w])) \ batch[w].failed
           /\ ToSet(NamesOf(job[w])) \subseteq ToSet(Listing[job[w].dir])
           /\ ToSet(NamesOf(job[w])) \intersect EntriesOf(nodes) = {}
           /\ GrownNodes(job[w], r, nodes')
<1> DEFINE j == job[w]
           b == batch[w]
           N == ToSet(NamesOf(j))
<1>1. /\ pc[w] = "process" /\ stage[w] = "insert"
      /\ nodes' = [nodes EXCEPT ![j.node].children = @ \union {IdOf(e, b) : e \in ToSet(r)}]
                  \o [k \in DOMAIN r |-> NewNode(r[k], j)]
  BY Zenon DEF Insert, Processing
<1>2. TypeOK /\ StagesOK /\ j \in ScanJobs /\ j \in Ever /\ Scanning
  BY <1>1, Busy
<1>3. b.names = NamesOf(j)
  BY <1>1, <1>2 DEF StagesOK
<1>4. r \in Seq(Entries) /\ NoRepeat(r) /\ ToSet(r) = N \ b.failed /\ N \subseteq Entries
  <2>1. NamesOf(j) \in Seq(Entries) /\ NoRepeat(NamesOf(j))
    BY <1>2, NamesIs
  <2>2. r = Keep(NamesOf(j), Entries \ b.failed)
    BY <1>3 DEF Statted
  <2>3. N \subseteq Entries
    BY <2>1 DEF ToSet
  <2> HIDE DEF b, j
  <2> QED BY <2>1, <2>2, <2>3, KeepIs
<1>5. JobOK(j, nodes) /\ j.node \in DOMAIN nodes /\ ArenaOK /\ ClaimsOK
  BY <1>2 DEF Scanning, JobsOK, JobOK
<1>6. N \subseteq ToSet(Listing[j.dir])
  BY <1>2, NamesIs
<1>7. N \intersect EntriesOf(nodes) = {}
  <2>1. j \in Active
    BY <1>1, <1>2 DEF Active, Working, InStage
  <2>2. N \subseteq Claim(j)
    BY <1>6 DEF Claim
  <2> QED BY <1>5, <2>1, <2>2 DEF ClaimsOK
<1>8. nodes \in Seq(NodeType(Below)) /\ Len(nodes) \in Nat
  BY <1>5 DEF ArenaOK, Mirrors, IsArena, Below
<1>9. nodes' = Grown(j, r)
  <2>1. {IdOf(e, b) : e \in ToSet(r)} = NewIds(r)
    BY <1>4, <1>8, IdsAre
  <2> QED BY <1>1, <2>1, Zenon DEF Grown
<1>10. GrownNodes(j, r, nodes')
  BY <1>2, <1>4, <1>5, <1>8, <1>9, GrownIs
<1> QED
  BY <1>4, <1>6, <1>7, <1>10

\* A batch is inserted: its failures are missing from then on, and counted.
LEMMA InsertKeepsWhole ==
    ASSUME ScanInv, ScanInv', WholeInv, NEW w \in Workers, Insert(w)
    PROVE  WholeInv'
<1> DEFINE j == job[w]
           b == batch[w]
           r == Statted(b)
           st == AfterBatch(local[w], r, b)
           nt == JobsFor(r, j, b)
           N == ToSet(NamesOf(j))
<1>1. /\ pc[w] = "process" /\ stage[w] = "insert"
      /\ nodes' = [nodes EXCEPT ![j.node].children = @ \union {IdOf(e, b) : e \in ToSet(r)}]
                  \o [k \in DOMAIN r |-> NewNode(r[k], j)]
      /\ \/ local' = [local EXCEPT ![w] = Flushed(st)] /\ links' = links \union st.links
         \/ local' = [local EXCEPT ![w] = st] /\ links' = links
      /\ todo' = [todo EXCEPT ![w] = nt]
      /\ batch' = [batch EXCEPT ![w] = NoBatch]
      /\ stage' = [stage EXCEPT ![w] = "queue"]
      /\ UNCHANGED <<threadVars, outcome>>
  BY InsertIs
<1>2. /\ PoolOK /\ TypeOK /\ StagesOK /\ outcome.kind = "none" /\ j \in ScanJobs
      /\ j \in pushed /\ j \in Ever /\ Scanning /\ JobsDistinct
  BY <1>1, Busy
<1>3. UNCHANGED <<injector, job, pushing, pushed, pc, cancelled, outcome>>
  BY <1>1 DEF threadVars
<1>4. /\ b.names = NamesOf(j) /\ b.failed \subseteq Entries /\ todo[w] = <<>>
      /\ local \in [Workers -> StateType] /\ live \in CountType
  BY <1>1, <1>2 DEF StagesOK, WholeInv, CountsOK
<1>5. Arena = nodes /\ Arena' = nodes' /\ ~Completed'
  BY <1>2, <1>3, ArenaIsNodes
<1>6. FlagsOK(nodes) /\ ReadableOK /\ BatchesOK /\ CountsOK
  BY <1>2, <1>5 DEF WholeInv
<1>7. b.failed \subseteq N \intersect Lost
  BY <1>1, <1>6 DEF BatchesOK
<1>8. /\ r \in Seq(Entries) /\ NoRepeat(r) /\ ToSet(r) = N \ b.failed /\ N \subseteq Entries
      /\ N \subseteq ToSet(Listing[j.dir]) /\ N \intersect EntriesOf(nodes) = {}
      /\ GrownNodes(j, r, nodes')
  BY InsertFinds
<1>9. JobOK(j, nodes) /\ j.node \in DOMAIN nodes /\ ArenaOK /\ ClaimsOK /\ ArenaOK'
  BY <1>2, <1>3 DEF Scanning, JobsOK, JobOK, ScanInv
<1>10. nodes \in Seq(NodeType(Below)) /\ Len(nodes) \in Nat
  BY <1>9 DEF ArenaOK, Mirrors, IsArena, Below
<1>11. Len(nodes) + Len(r) <= Cardinality(Entries) + 1
  <2>1. Len(nodes') = Len(nodes) + Len(r)
    BY <1>8, Zenon DEF GrownNodes
  <2> QED BY <1>9, <2>1, MirrorsSmall DEF ArenaOK
<1>12. NewJobs(j, r, nt) /\ \A e \in NewDirs(r, j) : \E x \in ToSet(nt) : x.dir = e
  <2>1. /\ nt \in Seq(ScanJobs) /\ NoRepeat(nt)
        /\ \A x \in ToSet(nt) :
             /\ x.kind = "dir" /\ x.from = 0 /\ x.node \in NewIds(r)
             /\ r[x.node - Len(nodes)] = x.dir
             /\ x.dir \in ToSet(r) /\ Kind[x.dir] = "dir" /\ Device[x.dir] = Device[j.dir]
        /\ \A x, y \in ToSet(nt) : x # y => x.dir # y.dir
    BY <1>2, <1>8, <1>10, <1>11, JobsForIs
  <2>2. NewJobs(j, r, nt)
    BY <2>1, Zenon DEF NewJobs
  <2> QED BY <1>8, <2>2, JobsForAll
<1>13. LinksFor(r, b) \subseteq LinkType
  BY <1>2, <1>8, <1>9, GrownLinks
<1>14. PICK c : c = CountsOf(r, b.failed)
  OBVIOUS
<1>15. c \in CountType /\ Adds(w, c)
  BY <1>4, <1>8, <1>13, <1>14, InsertAdds
<1> HIDE DEF nt, r, st, b
<1>16. Inserted(w, j, nt)
  BY <1>1, <1>2, <1>3, <1>4 DEF Inserted, StagesOK
<1> DEFINE L == UNION {ToSet(Listing[e]) : e \in NewDirs(r, j)}
<1>17. /\ Owed' = (Owed \ N) \union L /\ N \subseteq Owed /\ j \in Active
       /\ Active' = (Active \ {j}) \union ToSet(nt)
  BY <1>2, <1>8, <1>9, <1>12, <1>16, InsertOwes
<1>18. N \subseteq ListedOf(nodes)
  <2>1. j.node \in WalkedOf(nodes) /\ nodes[j.node].entry = j.dir
    BY <1>2, <1>17, <1>6, JobsWalked
  <2>2. ToSet(Listing[j.dir]) \subseteq ListedOf(nodes)
    BY <2>1 DEF ListedOf
  <2> QED BY <1>8, <2>2
<1>19. ToSet(r) \intersect EntriesOf(nodes) = {}
  BY <1>8
<1>20. /\ FlagsOK(nodes') /\ UnreadOf(nodes') = UnreadOf(nodes)
       /\ ListedOf(nodes') = ListedOf(nodes) \union L
       /\ \A i \in DOMAIN nodes : nodes'[i].flags = nodes[i].flags
       /\ \A i \in NewIds(r) : "unreadable" \notin nodes'[i].flags
  BY <1>2, <1>8, <1>9, <1>6, GrownListed
<1>21. L \intersect ListedOf(nodes) = {}
  BY <1>8, <1>9, <1>19, NewlyListed
<1>22. EntriesOf(nodes') = EntriesOf(nodes) \union ToSet(r)
  BY <1>2, <1>8, <1>9, GrownEntries
<1> DEFINE F == b.failed
<1>23. Missing' = Missing \union F /\ Missing \intersect F = {} /\ F \subseteq Lost
  <2>1. /\ Missing = ListedOf(nodes) \ (EntriesOf(nodes) \union Owed)
        /\ Missing' = ListedOf(nodes') \ (EntriesOf(nodes') \union Owed')
    BY DEF Missing
  <2>2. ToSet(r) = N \ F /\ F \subseteq N /\ F \subseteq Lost
    BY <1>8, <1>7
  <2> HIDE DEF F, N, L
  <2> QED BY <1>17, <1>8, <1>18, <1>20, <1>21, <1>22, <2>1, <2>2
<1>24. EntriesOf(nodes) \subseteq Entries \union {RootDir}
  BY <1>9 DEF ArenaOK, Mirrors, EntriesOf
<1> HIDE DEF F, N, L, j
<1>25. Gain(EntriesOf(nodes), EntriesOf(nodes'), c)
  <2>1. EntriesOf(nodes) \intersect ToSet(r) = {}
    BY <1>19
  <2>2. Gain(EntriesOf(nodes), EntriesOf(nodes) \union ToSet(r), CountsOf(r, b.failed))
    BY <1>8, <1>24, <2>1, CountsGrow
  <2> QED BY <1>14, <1>22, <2>2
<1>26. c["errors"] = Cardinality(F)
  BY <1>14 DEF CountsOf, F
<1>27. \A f \in Fields : Tally(f) \in Nat /\ Tally(f)' = Tally(f) + c[f] /\ c[f] \in Nat
  BY <1>4, <1>15, TallyAdds, FieldsOf
<1>28. /\ Tally("files")' = Tally("files") + c["files"] /\ Tally("dirs")' = Tally("dirs") + c["dirs"]
       /\ Tally("bytes")' = Tally("bytes") + c["bytes"]
       /\ Tally("errors")' = Tally("errors") + c["errors"]
       /\ c["files"] \in Nat /\ c["dirs"] \in Nat /\ c["bytes"] \in Nat /\ c["errors"] \in Nat
  <2>1. "files" \in Fields /\ "dirs" \in Fields /\ "bytes" \in Fields /\ "errors" \in Fields
    BY DEF Fields
  <2> QED BY <1>27, <2>1
<1>29. CountsOK'
  <2>1. \A v \in Workers : pc'[v] = "done" => local'[v] = NoState
    BY <1>1, <1>3, <1>15, <1>6 DEF CountsOK, Adds
  <2>2. live' \in CountType
    BY <1>15 DEF Adds
  <2>3. /\ Tally("files") = Cardinality(FileEntries(EntriesOf(nodes)))
        /\ Tally("dirs") = Cardinality(DirEntries(EntriesOf(nodes))) + 1
        /\ Tally("bytes") = SumFunctionOnSet(Bytes, EntriesOf(nodes) \ {RootDir})
    BY <1>5, <1>6 DEF CountsOK
  <2>4. /\ Tally("files")' = Cardinality(FileEntries(EntriesOf(nodes')))
        /\ Tally("dirs")' = Cardinality(DirEntries(EntriesOf(nodes'))) + 1
        /\ Tally("bytes")' = SumFunctionOnSet(Bytes, EntriesOf(nodes') \ {RootDir})
    BY <1>25, <1>28, <2>3 DEF Gain
  <2> QED BY <1>5, <2>1, <2>2, <2>4 DEF CountsOK
<1>30. ReadableOK'
  <2>1. ASSUME NEW k \in Active \ {j} PROVE "unreadable" \notin nodes'[k.node].flags
    <3>1. k.node \in WalkedOf(nodes)
      BY <1>2, <1>6, JobsWalked
    <3>2. k.node \in DOMAIN nodes
      BY <3>1 DEF WalkedOf, DirsOf
    <3> QED BY <1>20, <1>6, <3>2 DEF ReadableOK
  <2>2. ASSUME NEW k \in ToSet(nt) PROVE "unreadable" \notin nodes'[k.node].flags
    BY <1>12, <1>20 DEF NewJobs
  <2> QED BY <1>17, <2>1, <2>2 DEF ReadableOK
<1>31. BatchesOK'
  <2> SUFFICES ASSUME NEW v \in Workers, stage'[v] \in {"listed", "insert"}
               PROVE  batch'[v].failed \subseteq ToSet(NamesOf(job[v])) \intersect Lost
    BY <1>3 DEF BatchesOK
  <2>1. v # w /\ stage'[v] = stage[v] /\ batch'[v] = batch[v]
    BY <1>1, <1>2 DEF StagesOK
  <2> QED BY <1>6, <2>1 DEF BatchesOK
<1>32. Unhurt' => Lossless'
  <2> SUFFICES ASSUME Unhurt' PROVE Lossless'
    OBVIOUS
  <2>1. Unhurt
    BY <1>3 DEF Unhurt
  <2>2. Tally("errors") = Cardinality(UnreadOf(nodes)) + Cardinality(Missing) /\ Missing \subseteq Lost
    BY <1>2, <2>1 DEF WholeInv, Lossless
  <2>3. IsFiniteSet(Missing) /\ IsFiniteSet(F) /\ IsFiniteSet(UnreadOf(nodes))
    <3>1. IsFiniteSet(UnreadOf(nodes)) /\ Missing \subseteq Entries
      BY <1>9, DirsAre DEF Missing, ArenaOK
    <3>2. F \subseteq Entries
      BY <1>4 DEF F
    <3> QED BY <3>1, <3>2, FileSystemAssumption, FS_Subset
  <2>4. Cardinality(Missing \union F) = Cardinality(Missing) + Cardinality(F)
    BY <1>23, <2>3, CardJoin
  <2>5. Cardinality(Missing) \in Nat /\ Cardinality(F) \in Nat /\ Cardinality(UnreadOf(nodes)) \in Nat
    BY <2>3, FS_CardinalityType
  <2>6. Tally("errors")' = Cardinality(UnreadOf(nodes)) + Cardinality(Missing \union F)
    BY <1>26, <1>28, <2>2, <2>4, <2>5
  <2>7. Missing' \subseteq Lost
    BY <1>23, <2>2
  <2>8. Tally("errors")' = Cardinality(UnreadOf(nodes')) + Cardinality(Missing')
    BY <1>20, <1>23, <2>6
  <2> QED BY <2>7, <2>8 DEF Lossless
<1> QED
  BY <1>5, <1>20, <1>29, <1>30, <1>31, <1>32 DEF WholeInv

-----------------------------------------------------------------------------
(* The outcome is sent, and the scan starts.                               *)

\* Reconciling and aggregating leave what was listed and what was read.
LEMMA FinishedSame ==
    ASSUME NEW t, NEW v, DOMAIN v = DOMAIN t,
           \A i \in DOMAIN t : /\ v[i].entry = t[i].entry /\ v[i].kind = t[i].kind
                               /\ SameButShared(t[i].flags, v[i].flags)
    PROVE  /\ EntriesOf(v) = EntriesOf(t) /\ UnreadOf(v) = UnreadOf(t) /\ ListedOf(v) = ListedOf(t)
           /\ FlagsOK(t) => FlagsOK(v)
<1>1. EntriesOf(v) = EntriesOf(t) /\ DirsOf(v) = DirsOf(t)
  BY DEF EntriesOf, DirsOf
<1>2. \A i \in DirsOf(t) : /\ v[i].entry = t[i].entry
                           /\ "unreadable" \in v[i].flags <=> "unreadable" \in t[i].flags
                           /\ "boundary" \in v[i].flags <=> "boundary" \in t[i].flags
  <2>1. \A F, G, x : SameButShared(F, G) /\ x # "shared" => (x \in G <=> x \in F)
    BY DEF SameButShared
  <2>2. "unreadable" # "shared" /\ "boundary" # "shared"
    OBVIOUS
  <2> QED BY <2>1, <2>2 DEF DirsOf
<1>3. UnreadOf(v) = UnreadOf(t) /\ WalkedOf(v) = WalkedOf(t)
  BY <1>1, <1>2 DEF UnreadOf, WalkedOf
<1>4. \A i \in WalkedOf(t) : v[i].entry = t[i].entry
  BY <1>2 DEF WalkedOf
<1>5. ListedOf(v) = ListedOf(t)
  BY <1>3, <1>4 DEF ListedOf
<1>6. FlagsOK(t) => FlagsOK(v)
  BY <1>1, <1>2 DEF FlagsOK
<1> QED
  BY <1>1, <1>3, <1>5, <1>6

\* The pool ends without a panic and without a cancel only when every job was done.
LEMMA NothingLeft ==
    ASSUME ScanInv, pool = "joined", outcome.kind = "none", panicMsg = "none"
    PROVE  /\ \A w \in Workers : pc[w] = "done"
           /\ ~cancelled => Active = {}
<1>1. PoolOK /\ StagesOK /\ Pool!IInv
  BY DEF ScanInv, PoolOK
<1>2. PanicRecorded /\ JoinedIsOver /\ TypeOK
  BY <1>1, PoolSays
<1>3. \A w \in Workers : pc[w] = "done"
  BY <1>2 DEF PanicRecorded, JoinedIsOver, EndedPC
<1>4. NoEarlyExit
  BY <1>1, Zenon DEF Pool!IInv, Pool!NoEarlyExit, NoEarlyExit, Outstanding, Pool!Outstanding,
                     Held, Pool!Held
<1>5. ASSUME ~cancelled PROVE Active = {}
  <2>1. Outstanding = {}
    <3>1. PICK w \in Workers : TRUE
      BY ScanPoolAssumption
    <3> QED BY <1>3, <1>4, <1>5, <3>1 DEF NoEarlyExit
  <2>2. injector = {} /\ \A w \in Workers : job[w] = NoJob /\ pushing[w] = NoJob
    BY <2>1 DEF Outstanding, Held
  <2>3. \A w \in Workers : ToSet(todo[w]) = {}
    <3>1. \A w \in Workers : todo[w] = <<>>
      BY <1>1, <1>3 DEF StagesOK
    <3> QED BY <3>1 DEF ToSet
  <2>4. NoJob \notin Ever
    BY <1>1, <1>2, EverTyped, ScanPoolAssumption
  <2> QED BY <2>2, <2>3, <2>4 DEF Active, Waiting, Working, InStage, Todo
<1> QED
  BY <1>3, <1>5

\* The sent counters are those of the sent model, and nothing is owed any more.
LEMMA DeliverKeepsWhole ==
    ASSUME ScanInv, WholeInv, Deliver
    PROVE  WholeInv'
<1>1. pool = "joined" /\ outcome.kind = "none" /\ StagesOK /\ Scanning
  BY DEF Deliver, DeliverFailure, DeliverModel, ScanInv
<1>2. UNCHANGED <<injector, pc, job, pushing, pushed, cancelled, stage, todo, batch, local, live>>
  BY DEF Deliver, DeliverFailure, DeliverModel, threadVars
<1>3. Arena = nodes /\ ~Completed
  BY <1>1 DEF Arena, Completed
<1>4. CountsOK /\ FlagsOK(nodes) /\ ReadableOK /\ BatchesOK
  BY <1>1, <1>3 DEF WholeInv
<1>5. \A f \in Fields : Tally(f)' = Tally(f)
  BY <1>2 DEF Tally
<1>6. ASSUME EntriesOf(Arena') = EntriesOf(nodes) PROVE CountsOK'
  <2>1. "files" \in Fields /\ "dirs" \in Fields /\ "bytes" \in Fields
    BY DEF Fields
  <2>2. /\ Tally("files")' = Tally("files") /\ Tally("dirs")' = Tally("dirs")
        /\ Tally("bytes")' = Tally("bytes")
    BY <1>5, <2>1
  <2> QED BY <1>2, <1>3, <1>4, <1>6, <2>2 DEF CountsOK
<1>7. CASE DeliverFailure
  <2>1. nodes' = nodes /\ outcome'.kind = "failed"
    BY <1>7 DEF DeliverFailure
  <2>2. Arena' = nodes /\ ~Completed'
    BY <2>1 DEF Arena, Completed
  <2>3. Active' = Active
    <3>1. Ever' = Ever
      BY <1>2 DEF Ever, Todo
    <3>2. Waiting' = Waiting /\ Working' = Working
      BY <1>2, <3>1 DEF Waiting, Working, InStage, Todo
    <3> QED BY <3>2 DEF Active
  <2>4. ReadableOK' /\ BatchesOK'
    BY <1>2, <1>4, <2>1, <2>3 DEF ReadableOK, BatchesOK
  <2>5. CountsOK'
    BY <1>6, <2>2
  <2> QED BY <1>4, <2>1, <2>2, <2>4, <2>5 DEF WholeInv
<1>8. CASE DeliverModel
  <2> DEFINE v == FinishModel(nodes, links)
  <2>1. /\ outcome' = [kind |-> "completed", cancelled |-> WasCancelled, nodes |-> v]
        /\ panicMsg = "none"
    BY <1>8 DEF DeliverModel
  <2>2. outcome'.kind = "completed" /\ outcome'.nodes = v /\ outcome'.cancelled = cancelled
    BY <2>1 DEF WasCancelled
  <2>3. Arena' = v /\ (Completed' => ~cancelled)
    BY <2>2 DEF Arena, Completed
  <2>4. (\A w \in Workers : pc[w] = "done") /\ (~cancelled => Active = {})
    BY <1>1, <2>1, NothingLeft
  <2>5. links = LinksOf(nodes)
    <3>1. Candidates = links
      BY <2>4 DEF Candidates, ScanInv, LinksOK
    <3> QED BY <1>1, <3>1 DEF ScanInv, LinksOK
  <2> HIDE DEF v
  <2>6. /\ DOMAIN v = DOMAIN nodes
        /\ \A i \in DOMAIN nodes : /\ v[i].entry = nodes[i].entry /\ v[i].kind = nodes[i].kind
                                   /\ SameButShared(nodes[i].flags, v[i].flags)
    BY <1>1, <2>5, FinishedIs DEF Scanning, v
  <2>7. /\ EntriesOf(v) = EntriesOf(nodes) /\ UnreadOf(v) = UnreadOf(nodes)
        /\ ListedOf(v) = ListedOf(nodes) /\ FlagsOK(v)
    BY <1>4, <2>6, FinishedSame
  <2>8. CountsOK' /\ FlagsOK(Arena')
    BY <1>6, <2>3, <2>7
  <2>9. ASSUME Completed' PROVE SentOK'
    <3>1. ~cancelled /\ Active = {} /\ Unhurt
      BY <2>3, <2>4, <2>9 DEF Unhurt
    <3>2. Missing = ListedOf(nodes) \ EntriesOf(nodes)
      BY <3>1 DEF Missing, Owed
    <3>3. Missing \subseteq Lost /\ Tally("errors") = Cardinality(UnreadOf(nodes)) + Cardinality(Missing)
      BY <1>1, <3>1 DEF WholeInv, Lossless
    <3>4. Tally("errors") = live.errors
      <4> DEFINE g == [w \in Workers |-> local[w].counts["errors"]]
      <4>1. \A w \in Workers : local[w].counts["errors"] = 0
        <5>1. "errors" \in Fields
          BY DEF Fields
        <5> QED BY <1>4, <2>4, <5>1, NoStateIs, FieldsOf DEF CountsOK
      <4>2. DOMAIN g = Workers /\ \A w \in Workers : g[w] = 0
        BY <4>1
      <4> HIDE DEF g
      <4>3. SumFunction(g) = 0
        BY <4>2, ScanPoolAssumption, SumZero
      <4>4. live["errors"] \in Nat
        BY <1>4 DEF CountsOK, CountType
      <4> QED BY <4>3, <4>4 DEF Tally, g
    <3>5. /\ ListedOf(v) \ EntriesOf(v) \subseteq Lost
          /\ live'.errors = Cardinality(UnreadOf(v)) + Cardinality(ListedOf(v) \ EntriesOf(v))
      BY <1>2, <2>7, <3>2, <3>3, <3>4
    <3> QED BY <2>2, <3>5 DEF SentOK
  <2> QED BY <2>2, <2>8, <2>9 DEF WholeInv
<1> QED
  BY <1>7, <1>8 DEF Deliver

\* The scan starts with everything owed that the root lists.
LEMMA WholeStarts == Init => WholeInv
<1> SUFFICES ASSUME Init PROVE WholeInv
  OBVIOUS
<1> DEFINE r == DirJob(RootDir, 1)
<1>1. /\ PoolInit /\ outcome.kind = "none" /\ nodes = <<RootNode(RootDir)>>
      /\ stage = [w \in Workers |-> "start"] /\ todo = [w \in Workers |-> <<>>]
      /\ local = [w \in Workers |-> NoState] /\ live = [NoCounts EXCEPT !.dirs = 1]
  BY DEF Init
<1>2. /\ injector = {r} /\ pushed = {r} /\ pc = [w \in Workers |-> "top"]
  BY <1>1, Zenon DEF PoolInit, NewScheduler
<1>3. r.kind = "dir" /\ r.dir = RootDir /\ r.node = 1
  BY DEF DirJob
<1> HIDE DEF r
<1>4. Todo = {} /\ Ever = {r}
  BY <1>1, <1>2 DEF Todo, Ever, ToSet
<1>5. Waiting = {r} /\ Active = {r}
  BY <1>2, <1>4 DEF Waiting, Active, Working
<1>6. /\ ArenaOK /\ DOMAIN nodes = {1} /\ nodes[1].entry = RootDir /\ nodes[1].kind = "dir"
      /\ nodes[1].flags = {}
  BY <1>1, RootArena
<1>7. EntriesOf(nodes) = {RootDir} /\ DirsOf(nodes) = {1}
  BY <1>6 DEF EntriesOf, DirsOf
<1>8. UnreadOf(nodes) = {} /\ WalkedOf(nodes) = {1} /\ FlagsOK(nodes)
  BY <1>6, <1>7 DEF UnreadOf, WalkedOf, FlagsOK
<1>9. ListedOf(nodes) = ToSet(Listing[RootDir])
  BY <1>6, <1>8 DEF ListedOf
<1>10. Owed = ToSet(Listing[RootDir])
  BY <1>3, <1>5 DEF Owed, Claim
<1>11. Missing = {}
  BY <1>9, <1>10 DEF Missing
<1>12. Arena = nodes /\ ~Completed
  BY <1>1 DEF Arena, Completed
<1>13. \A f \in Fields : Tally(f) = live[f] /\ live[f] \in Nat
  <2> TAKE f \in Fields
  <2> DEFINE g == [w \in Workers |-> local[w].counts[f]]
  <2>1. DOMAIN g = Workers /\ \A w \in Workers : g[w] = 0
    BY <1>1, NoStateIs, FieldsOf
  <2> HIDE DEF g
  <2>2. SumFunction(g) = 0
    BY <2>1, ScanPoolAssumption, SumZero
  <2>3. live[f] \in Nat
    BY <1>1 DEF NoCounts, Fields
  <2> QED BY <2>2, <2>3 DEF Tally, g
<1>14. live \in CountType /\ live["files"] = 0 /\ live["dirs"] = 1 /\ live["bytes"] = 0
       /\ live["errors"] = 0
  BY <1>1 DEF NoCounts, CountType
<1>15. /\ Tally("files") = 0 /\ Tally("dirs") = 1 /\ Tally("bytes") = 0 /\ Tally("errors") = 0
  BY <1>13, <1>14 DEF Fields
<1>16. CountsOK
  <2>1. FileEntries({RootDir}) = {} /\ DirEntries({RootDir}) = {} /\ {RootDir} \ {RootDir} = {}
    BY DEF FileEntries, DirEntries
  <2>2. Cardinality({}) = 0 /\ SumFunctionOnSet(Bytes, {}) = 0
    BY FS_EmptySet, SumEmpty
  <2>3. SumFunctionOnSet(Bytes, {RootDir} \ {RootDir}) = 0
    BY <2>1, <2>2
  <2> QED BY <1>2, <1>7, <1>12, <1>14, <1>15, <2>1, <2>2, <2>3 DEF CountsOK
<1>17. ReadableOK /\ BatchesOK
  BY <1>1, <1>3, <1>5, <1>6 DEF ReadableOK, BatchesOK
<1>18. Lossless
  BY <1>8, <1>11, <1>15, FS_EmptySet DEF Lossless
<1> QED
  BY <1>8, <1>12, <1>16, <1>17, <1>18 DEF WholeInv

-----------------------------------------------------------------------------
(* The second half holds from the start, and what it says.                 *)

\* Every step of the scan keeps the second half of the invariant.
LEMMA WholeSteps == ScanInv /\ WholeInv /\ [Next]_vars => WholeInv'
<1> SUFFICES ASSUME ScanInv, WholeInv, [Next]_vars PROVE WholeInv'
  OBVIOUS
<1>1. ASSUME NEW w \in Workers, Step(w) PROVE WholeInv'
  <2>1. CASE StartDir(w) /\ cancelled
    BY <2>1, StartKeepsWhole
  <2>2. CASE StartDir(w) /\ ~cancelled
    <3>1. stage'[w] = "end" => job[w].dir \in Flaky
      <4>1. w \in DOMAIN stage
        BY DEF ScanInv, StagesOK
      <4> QED BY <2>2, <4>1 DEF StartDir, Enter
    <3> QED BY <2>2, <3>1, ListKeepsWhole, UnreadableKeepsWhole
  <2>3. CASE StartMeta(w)
    BY <2>3, StartKeepsWhole
  <2>4. CASE PushNext(w)
    BY <2>4, PushKeepsWhole
  <2>5. CASE CheckInsert(w)
    BY <2>5, CheckKeepsWhole
  <2>6. CASE Insert(w)
    <3>1. ScanInv'
      BY ScanSteps
    <3> QED BY <2>6, <3>1, InsertKeepsWhole
  <2>7. CASE FinishJob(w)
    BY <2>7, FinishKeepsWhole
  <2>8. CASE FlushAndEnd(w)
    BY <2>8, LastFlushKeepsWhole
  <2>9. CASE LoopStep(w) /\ UNCHANGED scanVars
    BY <2>9, LoopKeepsWhole
  <2> QED BY <1>1, <2>1, <2>2, <2>3, <2>4, <2>5, <2>6, <2>7, <2>8, <2>9, Zenon DEF Step, JobStep
<1>2. ASSUME NEW w \in Workers, PanicInJob(w) \/ WakeUnasked(w) PROVE WholeInv'
  BY <1>2, OutsideKeepsWhole
<1>3. CASE CancelScan \/ JoinPool \/ Delivered \/ UNCHANGED vars
  BY <1>3, OutsideKeepsWhole, Zenon DEF Delivered
<1>4. CASE Deliver
  BY <1>4, DeliverKeepsWhole
<1> QED
  BY <1>1, <1>2, <1>3, <1>4, Zenon DEF Next

\* What a function makes of a set of indices.
Imaged(h, S) == {h[x] : x \in S}

\* As many entries as indices.
LEMMA CardImage ==
    ASSUME NEW S, IsFiniteSet(S), NEW h, \A x, y \in S : x # y => h[x] # h[y]
    PROVE  IsFiniteSet(Imaged(h, S)) /\ Cardinality(Imaged(h, S)) = Cardinality(S)
<1> DEFINE f == [x \in S |-> h[x]]
           T == {h[x] : x \in S}
<1>1. f \in [S -> T] /\ \A x, y \in S : x # y => f[x] # f[y]
  OBVIOUS
<1>2. \A y \in T : \E x \in S : f[x] = y
  OBVIOUS
<1> HIDE DEF f, T
<1>3. f \in Surjection(S, T) /\ f \in Injection(S, T)
  BY <1>1, <1>2, Zenon DEF Surjection, Injection, IsInjective
<1>4. IsFiniteSet(T) /\ Cardinality(T) = Cardinality(S)
  BY <1>3, FS_Surjection
<1> QED
  BY <1>4 DEF T, Imaged

\* Sums along an injective renaming of the indices.
LEMMA SumImage ==
    ASSUME NEW S, IsFiniteSet(S), NEW g, NEW h, NEW f,
           \A x \in S : g[x] = f[h[x]] /\ g[x] \in Int,
           \A x, y \in S : x # y => h[x] # h[y]
    PROVE  SumFunctionOnSet(g, S) = SumFunctionOnSet(f, Imaged(h, S))
<1> DEFINE I(U) == Imaged(h, U)
           P == {U \in SUBSET S : SumFunctionOnSet(g, U) = SumFunctionOnSet(f, I(U))}
<1>1. ASSUME NEW T \in SUBSET S, \A U \in SUBSET T : U # T => U \in P PROVE T \in P
  <2>1. CASE T = {}
    <3>1. I(T) = {}
      BY <2>1 DEF Imaged
    <3> QED BY <2>1, <3>1, SumEmpty
  <2>2. CASE T # {}
    <3>1. PICK x \in T : TRUE
      BY <2>2
    <3>2. T \ {x} \in P
      BY <1>1, <3>1
    <3>3. IsFiniteSet(T) /\ IsFiniteSet(I(T))
      <4>1. IsFiniteSet(T)
        BY FS_Subset
      <4>2. \A y, z \in T : y # z => h[y] # h[z]
        OBVIOUS
      <4> QED BY <4>1, <4>2, CardImage
    <3>4. SumFunctionOnSet(g, T) = g[x] + SumFunctionOnSet(g, T \ {x})
      BY <3>1, <3>3, SumRemove
    <3>5. I(T \ {x}) = I(T) \ {h[x]} /\ h[x] \in I(T)
      BY <3>1 DEF Imaged
    <3>6. SumFunctionOnSet(f, I(T)) = f[h[x]] + SumFunctionOnSet(f, I(T) \ {h[x]})
      <4>1. \A y \in I(T) : f[y] \in Int
        BY DEF Imaged
      <4> QED BY <3>3, <3>5, <4>1, SumRemove
    <3>7. SumFunctionOnSet(g, T \ {x}) = SumFunctionOnSet(f, I(T) \ {h[x]})
      BY <3>2, <3>5
    <3> QED BY <3>1, <3>4, <3>6, <3>7
  <2> QED BY <2>1, <2>2
<1>2. \A T \in SUBSET S : T \in P
  <2> HIDE DEF P
  <2> QED BY <1>1, SubsetInduction
<1>3. S \in P
  BY <1>2
<1> QED
  BY <1>3

\* The nodes of an arena that mirrors the file system count its entries.
LEMMA NodesCount ==
    ASSUME NEW t, Mirrors(t)
    PROVE  /\ Cardinality({ix \in DOMAIN t : t[ix].kind = "file"}) = Cardinality(FileEntries(EntriesOf(t)))
           /\ Cardinality({ix \in DOMAIN t : t[ix].kind = "dir"}) = Cardinality(DirEntries(EntriesOf(t))) + 1
           /\ SumFunction([ix \in DOMAIN t \ {Root} |-> Bytes[t[ix].entry]]) =
                SumFunctionOnSet(Bytes, EntriesOf(t) \ {RootDir})
<1> DEFINE h == [ix \in DOMAIN t |-> t[ix].entry]
           files == {ix \in DOMAIN t : t[ix].kind = "file"}
           dirs == {ix \in DOMAIN t : t[ix].kind = "dir"}
           rest == DOMAIN t \ {Root}
<1>1. Len(t) \in Nat /\ DOMAIN t = 1..Len(t) /\ Root \in DOMAIN t
  <2>1. Len(t) \in Nat /\ DOMAIN t = 1..Len(t) /\ t # <<>>
    BY ArenaFacts DEF Mirrors
  <2>2. t \in Seq(NodeType(Below))
    BY DEF Mirrors, IsArena, Below
  <2> QED BY <2>1, <2>2 DEF Root
<1>2. IsFiniteSet(DOMAIN t)
  BY <1>1, FS_Interval
<1>3. IsFiniteSet(files) /\ IsFiniteSet(dirs) /\ IsFiniteSet(rest)
  BY <1>2, FS_Subset
<1>4. /\ \A i, k \in DOMAIN t : i # k => h[i] # h[k]
      /\ h[Root] = RootDir /\ t[Root].kind = "dir"
      /\ \A i \in rest : h[i] \in Entries /\ t[i].kind = Kind[h[i]] /\ h[i] # RootDir
  BY <1>1, ScannerAssumption DEF Mirrors
<1>5. EntriesOf(t) = {h[i] : i \in DOMAIN t}
  BY DEF EntriesOf
<1> HIDE DEF h
<1>6. Imaged(h, files) = FileEntries(EntriesOf(t))
  BY <1>1, <1>4, <1>5 DEF FileEntries, Imaged
<1>7. Imaged(h, dirs) = DirEntries(EntriesOf(t)) \union {RootDir}
  BY <1>1, <1>4, <1>5 DEF DirEntries, Imaged
<1>8. Imaged(h, rest) = EntriesOf(t) \ {RootDir}
  BY <1>1, <1>4, <1>5 DEF Imaged
<1>9. Cardinality(files) = Cardinality(FileEntries(EntriesOf(t)))
  <2>1. \A i, k \in files : i # k => h[i] # h[k]
    BY <1>4
  <2> HIDE DEF files
  <2> QED BY <1>3, <1>6, <2>1, CardImage
<1>10. Cardinality(dirs) = Cardinality(DirEntries(EntriesOf(t))) + 1
  <2>1. \A i, k \in dirs : i # k => h[i] # h[k]
    BY <1>4
  <2> HIDE DEF dirs
  <2>2. Cardinality(dirs) = Cardinality(DirEntries(EntriesOf(t)) \union {RootDir})
    BY <1>3, <1>7, <2>1, CardImage
  <2>3. IsFiniteSet(DirEntries(EntriesOf(t))) /\ RootDir \notin DirEntries(EntriesOf(t))
    <3>1. DirEntries(EntriesOf(t)) \subseteq Entries
      BY <1>1, <1>4, <1>5 DEF DirEntries
    <3> QED BY <3>1, FileSystemAssumption, ScannerAssumption, FS_Subset
  <2> QED BY <2>2, <2>3, FS_AddElement
<1>11. SumFunction([ix \in rest |-> Bytes[h[ix]]]) = SumFunctionOnSet(Bytes, EntriesOf(t) \ {RootDir})
  <2> DEFINE g == [ix \in rest |-> Bytes[h[ix]]]
  <2>1. \A i, k \in rest : i # k => h[i] # h[k]
    BY <1>4
  <2>2. \A i \in rest : g[i] = Bytes[h[i]] /\ g[i] \in Int
    BY <1>4, FileSystemAssumption
  <2>3. DOMAIN g = rest
    OBVIOUS
  <2> HIDE DEF g, rest
  <2>4. SumFunctionOnSet(g, rest) = SumFunctionOnSet(Bytes, Imaged(h, rest))
    BY <1>3, <2>1, <2>2, SumImage
  <2>5. SumFunction(g) = SumFunctionOnSet(g, rest)
    BY <2>3, Zenon DEF SumFunction
  <2> QED BY <1>8, <2>4, <2>5 DEF g
<1>12. [ix \in rest |-> Bytes[h[ix]]] = [ix \in DOMAIN t \ {Root} |-> Bytes[t[ix].entry]]
  BY DEF h
<1> QED
  BY <1>9, <1>10, <1>11, <1>12

\* The counters of a scan are those of its arena.
LEMMA CountsSay == ScanInv /\ WholeInv => CountersConserved
<1> SUFFICES ASSUME ScanInv, WholeInv, outcome.kind # "failed"
             PROVE  /\ Tally("files") = Cardinality({ix \in DOMAIN Arena : Arena[ix].kind = "file"})
                    /\ Tally("dirs") = Cardinality({ix \in DOMAIN Arena : Arena[ix].kind = "dir"})
                    /\ Tally("bytes") = SumFunction([ix \in DOMAIN Arena \ {Root} |-> Bytes[Arena[ix].entry]])
                    /\ pool = "joined" /\ panicMsg = "none" => \A w \in Workers : local[w] = NoState
  BY Zenon DEF CountersConserved, Tally
<1>1. Mirrors(Arena) /\ CountsOK
  BY ArenaMirrors DEF WholeInv
<1>2. ASSUME pool = "joined", panicMsg = "none", NEW w \in Workers PROVE local[w] = NoState
  <2>1. PanicRecorded /\ JoinedIsOver
    BY PoolSays DEF ScanInv, PoolOK
  <2>2. pc[w] = "done"
    BY <1>2, <2>1 DEF PanicRecorded, JoinedIsOver, EndedPC
  <2> QED BY <1>1, <2>2 DEF CountsOK
<1>3. /\ Cardinality({ix \in DOMAIN Arena : Arena[ix].kind = "file"})
            = Cardinality(FileEntries(EntriesOf(Arena)))
      /\ Cardinality({ix \in DOMAIN Arena : Arena[ix].kind = "dir"})
            = Cardinality(DirEntries(EntriesOf(Arena))) + 1
      /\ SumFunction([ix \in DOMAIN Arena \ {Root} |-> Bytes[Arena[ix].entry]]) =
           SumFunctionOnSet(Bytes, EntriesOf(Arena) \ {RootDir})
  BY <1>1, NodesCount
<1> QED
  BY <1>1, <1>2, <1>3 DEF CountsOK

\* A directory that could be read misses only what can fail itself: what other
\* directories list is not listed here.
LEMMA WalkedWhole ==
    ASSUME NEW t, Mirrors(t), ListedOf(t) \ EntriesOf(t) \subseteq Lost,
           NEW i, i \in WalkedOf(t), t[i].entry \notin Flaky
    PROVE  ToSet(Listing[t[i].entry]) \ Flaky \subseteq EntriesOf(t)
<1> DEFINE d == t[i].entry
<1> SUFFICES ASSUME NEW x \in ToSet(Listing[d]), x \notin Flaky, x \notin EntriesOf(t)
             PROVE  FALSE
  OBVIOUS
<1>1. x \in ListedOf(t)
  BY DEF ListedOf
<1>2. PICK c \in Dirs \intersect Flaky : x \in ToSet(Listing[c])
  BY <1>1 DEF Lost
<1>3. d \in Dirs /\ c # d
  BY <1>2, DirsAre DEF WalkedOf
<1> QED
  BY <1>2, <1>3, FileSystemAssumption

\* What is sent as a whole is whole.
LEMMA SentSays == ScanInv /\ WholeInv => CompletedIsWhole
<1> SUFFICES ASSUME ScanInv, WholeInv, Completed PROVE CompletedIsWhole
  BY DEF CompletedIsWhole
<1>1. Arena = outcome.nodes
  BY DEF Completed, Arena
<1>2. Mirrors(Arena) /\ FlagsOK(Arena) /\ SentOK
  BY ArenaMirrors DEF WholeInv
<1> DEFINE t == Arena
<1>3. Found = EntriesOf(t)
  BY DEF Found, EntriesOf
<1>4. /\ ListedOf(t) \ EntriesOf(t) \subseteq Lost
      /\ live.errors = Cardinality(UnreadOf(t)) + Cardinality(ListedOf(t) \ EntriesOf(t))
  BY <1>1, <1>2 DEF SentOK
<1>5. \A ix \in UnreadOf(t) : t[ix].entry \in Flaky
  BY <1>2 DEF FlagsOK, UnreadOf
<1>6. \A ix \in WalkedOf(t) :
        t[ix].entry \notin Flaky => ToSet(Listing[t[ix].entry]) \ Flaky \subseteq EntriesOf(t)
  BY <1>2, <1>4, WalkedWhole
<1> HIDE DEF t
<1>7. /\ \A ix \in UnreadOf(Arena) : Arena[ix].entry \in Flaky
      /\ live.errors = Cardinality(UnreadOf(Arena)) + Cardinality(ListedOf(Arena) \ Found)
      /\ \A ix \in WalkedOf(Arena) : Arena[ix].entry \notin Flaky =>
            ToSet(Listing[Arena[ix].entry]) \ Flaky \subseteq Found
  BY <1>3, <1>4, <1>5, <1>6 DEF t
<1> QED
  BY <1>7, Zenon DEF CompletedIsWhole, UnreadOf, WalkedOf, DirsOf, ListedOf

-----------------------------------------------------------------------------
(* The scan implements its contract.                                       *)

\* What changes neither the arena's entries, nor the flag, nor the outcome, is
\* nothing to the contract.
LEMMA ContractStutters ==
    ASSUME Found' = Found, cancelled' = cancelled, outcome' = outcome
    PROVE  UNCHANGED Contract!contractVars
  BY Zenon DEF Contract!contractVars

\* The steps that add no entry and send nothing.
LEMMA QuietSteps ==
    ASSUME ScanInv, WholeInv, [Next]_vars, ~CancelScan, ~Deliver,
           \A w \in Workers : ~Insert(w)
    PROVE  Found' = Found /\ cancelled' = cancelled /\ outcome' = outcome
<1>1. ASSUME nodes' = nodes, outcome' = outcome PROVE Found' = Found
  BY <1>1 DEF Found, Arena
<1>2. ASSUME NEW w \in Workers, Step(w)
      PROVE  Found' = Found /\ cancelled' = cancelled /\ outcome' = outcome
  <2>1. CASE StartDir(w) /\ ~cancelled /\ stage'[w] = "end"
    <3> DEFINE j == job[w]
    <3>1. pc[w] = "process" /\ stage[w] = "start" /\ j.kind = "dir"
      BY <2>1 DEF StartDir, Processing
    <3>2. TypeOK /\ StagesOK /\ outcome.kind = "none" /\ j \in ScanJobs /\ j \in Ever /\ Scanning
      BY <3>1, Busy
    <3>3. UNCHANGED <<outcome, cancelled>>
      BY <2>1 DEF StartDir, threadVars
    <3>4. nodes' = [nodes EXCEPT ![j.node].flags = @ \union {"unreadable"}]
      <4>1. w \in DOMAIN stage
        BY <3>2 DEF StagesOK
      <4> QED BY <2>1, <4>1 DEF StartDir, Enter
    <3>5. Arena = nodes /\ Arena' = nodes'
      BY <3>2, <3>3, ArenaIsNodes
    <3>6. j.node \in WalkedOf(nodes)
      <4>1. j \in Active
        BY <3>1, <3>2 DEF Active, Waiting, InStage
      <4>2. FlagsOK(nodes) /\ ReadableOK
        BY <3>2, <3>5 DEF WholeInv
      <4> QED BY <3>2, <4>1, <4>2, JobsWalked
    <3>7. EntriesOf(nodes') = EntriesOf(nodes)
      BY <3>2, <3>4, <3>6, UnreadableFlags DEF Scanning
    <3> QED BY <3>3, <3>5, <3>7 DEF Found, EntriesOf
  <2>2. CASE StartDir(w) /\ ~(~cancelled /\ stage'[w] = "end")
    <3>1. w \in DOMAIN stage
      BY DEF ScanInv, StagesOK
    <3>2. nodes' = nodes /\ outcome' = outcome /\ cancelled' = cancelled
      BY <2>2, <3>1 DEF StartDir, Enter, threadVars
    <3> QED BY <1>1, <3>2
  <2>3. CASE StartMeta(w) \/ CheckInsert(w)
    BY <1>1, <2>3 DEF StartMeta, CheckInsert, threadVars
  <2>4. CASE PushNext(w)
    BY <1>1, <2>4 DEF PushNext, Announce, RaisePending
  <2>5. CASE FinishJob(w)
    BY <1>1, <2>5 DEF FinishJob, CompleteJob
  <2>6. CASE FlushAndEnd(w)
    BY <1>1, <2>6 DEF FlushAndEnd, Flush
  <2>7. CASE LoopStep(w) /\ UNCHANGED scanVars
    <3>1. cancelled' = cancelled
      <4>1. PoolOK
        BY DEF ScanInv
      <4>2. outcome.kind = "none" /\ Pool!IInv
        <5>1. pc[w] \notin EndedPC \union {"process"}
          BY <2>7, <4>1, LoopMoves DEF PoolOK
        <5> QED BY <4>1, <5>1, NothingSent
      <4> QED BY <2>7, <4>2, PoolSays, LoopTakes
    <3> QED BY <1>1, <2>7, <3>1 DEF scanVars
  <2> QED BY <1>2, <2>1, <2>2, <2>3, <2>4, <2>5, <2>6, <2>7, Zenon DEF Step, JobStep
<1>3. ASSUME NEW w \in Workers, PanicInJob(w) \/ WakeUnasked(w)
      PROVE  Found' = Found /\ cancelled' = cancelled /\ outcome' = outcome
  BY <1>1, <1>3 DEF PanicInJob, WakeUnasked, Panic, SpuriousWake, scanVars
<1>4. CASE JoinPool \/ Delivered \/ UNCHANGED vars
  BY <1>1, <1>4 DEF JoinPool, Join, Delivered, vars, threadVars, scanVars
<1> QED
  BY <1>2, <1>3, <1>4, Zenon DEF Next

\* An insertion finds entries that one walked directory lists.
LEMMA InsertDiscovers ==
    ASSUME ScanInv, NEW w \in Workers, Insert(w)
    PROVE  Contract!Discover
<1> DEFINE j == job[w]
<1>1. pc[w] = "process" /\ stage[w] = "insert" /\ UNCHANGED <<threadVars, outcome>>
  BY Zenon DEF Insert, Processing
<1>2. outcome.kind = "none" /\ j \in ScanJobs /\ j \in Ever /\ Scanning /\ cancelled' = cancelled
      /\ outcome' = outcome
  BY <1>1, Busy DEF threadVars
<1>3. PICK r : r = Statted(batch[w])
  OBVIOUS
<1>4. /\ r \in Seq(Entries) /\ ToSet(r) \subseteq ToSet(Listing[j.dir]) /\ GrownNodes(j, r, nodes')
  BY <1>3, InsertFinds
<1>5. JobOK(j, nodes) /\ j.node \in DOMAIN nodes /\ ArenaOK
  BY <1>2 DEF Scanning, JobsOK, JobOK
<1>6. EntriesOf(nodes') = EntriesOf(nodes) \union ToSet(r)
  BY <1>2, <1>4, <1>5, GrownEntries
<1>7. Found = EntriesOf(nodes) /\ Found' = EntriesOf(nodes')
  <2>1. Arena = nodes /\ Arena' = nodes'
    BY <1>2, ArenaIsNodes
  <2> QED BY <2>1 DEF Found, EntriesOf
<1>8. j.dir \in Found /\ Contract!Walked(j.dir)
  <2>1. nodes[j.node].entry = j.dir /\ Device[j.dir] = Device[RootDir]
    BY <1>5 DEF JobOK
  <2>2. j.dir \in EntriesOf(nodes)
    BY <1>5, <2>1 DEF EntriesOf
  <2>3. j.dir = RootDir \/ Kind[j.dir] = "dir"
    BY <1>2 DEF ScanJobs, Dirs
  <2> QED BY <1>7, <2>1, <2>2, <2>3 DEF Contract!Walked
<1>9. Found' \ Found \subseteq Contract!Listed(j.dir)
  BY <1>4, <1>6, <1>7 DEF Contract!Listed, ToSet
<1>10. Found \subseteq Found'
  BY <1>6, <1>7
<1> QED
  BY <1>2, <1>8, <1>9, <1>10, Zenon DEF Contract!Discover

\* An arena that misses only what may be lost is whole.
LEMMA ArenaWhole ==
    ASSUME NEW t, Mirrors(t), FlagsOK(t), ListedOf(t) \ EntriesOf(t) \subseteq Lost,
           NEW d \in EntriesOf(t), Contract!Walked(d), d \notin Flaky
    PROVE  Contract!Listed(d) \ Flaky \subseteq EntriesOf(t)
<1>1. PICK i \in DOMAIN t : t[i].entry = d
  BY DEF EntriesOf
<1>2. t[i].kind = "dir"
  BY <1>1, ScannerAssumption DEF Mirrors, Contract!Walked
<1>3. i \in WalkedOf(t)
  BY <1>1, <1>2 DEF WalkedOf, UnreadOf, DirsOf, FlagsOK, Contract!Walked
<1>4. ToSet(Listing[t[i].entry]) \ Flaky \subseteq EntriesOf(t)
  BY <1>1, <1>3, WalkedWhole
<1> QED
  BY <1>1, <1>4 DEF Contract!Listed, ToSet

\* What is sent is what the contract allows.
LEMMA DeliverSends ==
    ASSUME ScanInv, ScanInv', WholeInv', Deliver
    PROVE  Contract!Send
<1>1. outcome.kind = "none" /\ cancelled' = cancelled /\ pool = "joined"
  BY DEF Deliver, DeliverFailure, DeliverModel, threadVars
<1>2. CASE DeliverFailure
  <2>1. outcome'.kind = "failed" /\ nodes' = nodes
    BY <1>2 DEF DeliverFailure
  <2>2. Found' = Found
    BY <1>1, <2>1 DEF Found, Arena
  <2> QED BY <1>1, <2>1, <2>2 DEF Contract!Send
<1>3. CASE DeliverModel
  <2> DEFINE v == outcome'.nodes
  <2>1. /\ outcome'.kind = "completed" /\ v = FinishModel(nodes, links)
        /\ outcome'.cancelled = cancelled /\ panicMsg = "none"
    BY <1>3 DEF DeliverModel, WasCancelled
  <2>2. Arena = nodes /\ Arena' = v
    BY <1>1, <2>1 DEF Arena
  <2> HIDE DEF v
  <2>3. EntriesOf(v) = EntriesOf(nodes)
    <3>1. \A w \in Workers : pc[w] = "done"
      BY <1>1, <2>1, NothingLeft
    <3>2. Candidates = links
      BY <3>1 DEF Candidates, ScanInv, LinksOK
    <3>3. links = LinksOf(nodes) /\ ArenaOK
      BY <1>1, <3>2 DEF ScanInv, LinksOK, Scanning
    <3>4. DOMAIN v = DOMAIN nodes /\ \A i \in DOMAIN nodes : v[i].entry = nodes[i].entry
      BY <2>1, <3>3, FinishedIs
    <3> QED BY <3>4 DEF EntriesOf
  <2>4. Found' = EntriesOf(v) /\ Found = EntriesOf(nodes)
    BY <2>2 DEF Found, EntriesOf
  <2>5. CASE cancelled
    BY <1>1, <2>1, <2>3, <2>4, <2>5 DEF Contract!Send
  <2>6. CASE ~cancelled
    <3>1. Completed'
      BY <2>1, <2>6 DEF Completed
    <3>2. Mirrors(v) /\ FlagsOK(v) /\ ListedOf(v) \ EntriesOf(v) \subseteq Lost
      <4>1. SentOK' /\ FlagsOK(Arena')
        BY <3>1 DEF WholeInv
      <4>2. Mirrors(v)
        BY <2>1 DEF ScanInv, OutcomeOK, v
      <4> QED BY <2>2, <4>1, <4>2 DEF SentOK, v
    <3>3. Contract!Whole
      <4>1. ASSUME NEW d \in Found, Contract!Walked(d), d \notin Flaky
            PROVE  Contract!Listed(d) \ Flaky \subseteq Found
        BY <2>3, <2>4, <3>2, <4>1, ArenaWhole
      <4> QED BY <4>1, Zenon DEF Contract!Whole
    <3> QED BY <1>1, <2>1, <2>3, <2>4, <2>6, <3>3 DEF Contract!Send
  <2> QED BY <2>5, <2>6
<1> QED
  BY <1>2, <1>3 DEF Deliver

\* Every step of the scan is a step of the contract, or none.
LEMMA ContractStep ==
    ScanInv /\ WholeInv /\ [Next]_vars => [Contract!Next]_(Contract!contractVars)
<1> SUFFICES ASSUME ScanInv, WholeInv, [Next]_vars
             PROVE  [Contract!Next]_(Contract!contractVars)
  OBVIOUS
<1>1. ASSUME NEW w \in Workers, Insert(w) PROVE Contract!Next
  BY <1>1, InsertDiscovers DEF Contract!Next
<1>2. CASE CancelScan
  <2>1. cancelled' = TRUE /\ nodes' = nodes /\ outcome' = outcome
    BY <1>2 DEF CancelScan, Cancel, scanVars
  <2>2. Found' = Found
    BY <2>1 DEF Found, Arena
  <2>3. Contract!Stop
    BY <2>1, <2>2, Zenon DEF Contract!Stop
  <2> QED BY <2>3 DEF Contract!Next
<1>3. CASE Deliver
  <2>1. ScanInv' /\ WholeInv'
    BY ScanSteps, WholeSteps
  <2> QED BY <1>3, <2>1, DeliverSends DEF Contract!Next
<1>4. CASE ~CancelScan /\ ~Deliver /\ \A w \in Workers : ~Insert(w)
  BY <1>4, QuietSteps, ContractStutters
<1> QED
  BY <1>1, <1>2, <1>3, <1>4

\* The second half of the invariant of a scan: the counters, flushed or not, are
\* those of the arena, and every listed entry is in it, claimed by a job, or
\* counted as an error, unless a job was dropped or abandoned.
THEOREM WholeInvariant == Spec => []WholeInv
<1>1. Init => ScanInv /\ WholeInv
  BY ScanStarts, WholeStarts
<1>2. ScanInv /\ WholeInv /\ [Next]_vars => ScanInv' /\ WholeInv'
  BY ScanSteps, WholeSteps
<1> QED
  BY <1>1, <1>2, PTL DEF Spec

\* No flush loses or doubles what a worker has counted, in any interleaving.
THEOREM CountersKept == Spec => []CountersConserved
<1>1. ScanInv /\ WholeInv => CountersConserved
  BY CountsSay
<1> QED
  BY <1>1, ScanInvariant, WholeInvariant, PTL

\* An outcome that does not say "cancelled" misses only what could not be read,
\* and its error counter says how much.
THEOREM OutcomeIsWhole == Spec => []CompletedIsWhole
<1>1. ScanInv /\ WholeInv => CompletedIsWhole
  BY SentSays
<1> QED
  BY <1>1, ScanInvariant, WholeInvariant, PTL

\* A scan keeps its contract: entries come from walked directories and stay, one
\* outcome is sent, and what is called whole is whole.
THEOREM ScanKeepsContract == Spec => ImplementsContract
<1>1. Init => Contract!Init
  <2> SUFFICES ASSUME Init PROVE Contract!Init
    OBVIOUS
  <2>1. outcome.kind = "none" /\ nodes = <<RootNode(RootDir)>> /\ PoolInit
    BY DEF Init
  <2>2. cancelled = FALSE
    BY <2>1, Zenon DEF PoolInit
  <2>3. DOMAIN nodes = {1} /\ nodes[1].entry = RootDir
    BY <2>1, RootArena
  <2>4. Found = {RootDir}
    BY <2>1, <2>3 DEF Found, Arena
  <2> QED BY <2>1, <2>2, <2>4 DEF Contract!Init
<1>2. ScanInv /\ WholeInv /\ [Next]_vars => [Contract!Next]_(Contract!contractVars)
  BY ContractStep
<1> QED
  BY <1>1, <1>2, ScanInvariant, WholeInvariant, PTL DEF Spec, ImplementsContract, Contract!Spec
===============================================================================
