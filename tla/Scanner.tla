------------------------------ MODULE Scanner ------------------------------
(***************************************************************************)
(* A scan from spawn_scan to its outcome (src/src/scan/scanner.rs): the    *)
(* worker pool of module WorkerPool, whose jobs now read a file system and *)
(* insert what they find into the shared arena of module ScanModel, the    *)
(* per-worker counters and their flushes, and the thread that joins the    *)
(* pool, reconciles hard links, aggregates and sends the outcome.          *)
(*                                                                         *)
(* The file system is a constant tree, but an entry of Flaky may refuse to *)
(* be opened or stat'ed at any call.  Paths, times and the throttled       *)
(* "current directory" are left out.                                       *)
(***************************************************************************)
EXTENDS ScanModel

CONSTANTS
    Workers, NoJob, CanPanic,   \* see WorkerPool
    RootDir,        \* the directory the scan starts from
    Entries,        \* every file-system entry below it
    Kind,           \* Entries -> {"dir", "file", "symlink", "other"}
    Listing,        \* directory -> the sequence readdir returns for it
    Bytes,          \* Entries -> st_size (or blocks)
    Device,         \* Entries and RootDir -> st_dev
    Inode,          \* Entries -> st_ino
    MultiLink,      \* the entries whose st_nlink is above 1
    Flaky,          \* entries and directories whose open or stat may fail
    InlineLimit,    \* ScannerBackend::inline_limit
    Chunk,          \* scheduler::CHUNK
    FlushEvery,     \* FLUSH_EVERY
    StayOnFilesystem    \* ScanOptions::stay_on_filesystem, as passed to spawn_scan

Dirs == {RootDir} \union {e \in Entries : Kind[e] = "dir"}

ASSUME ScannerAssumption ==
    /\ RootDir \notin Entries
    /\ Listing \in [Dirs -> Seq(Entries)]
    /\ InlineLimit \in Nat \ {0} /\ Chunk \in Nat \ {0} /\ FlushEvery \in Nat \ {0}
    /\ StayOnFilesystem \in BOOLEAN

\* The file system is a finite tree: every entry is listed by one directory, once.
ASSUME FileSystemAssumption ==
    /\ IsFiniteSet(Entries)
    /\ Kind \in [Entries -> {"dir", "file", "symlink", "other"}]
    /\ Bytes \in [Entries -> Nat]
    /\ MultiLink \subseteq Entries
    /\ \A d \in Dirs : \A i, k \in DOMAIN Listing[d] : i # k => Listing[d][i] # Listing[d][k]
    /\ \A c, d \in Dirs : c # d => ToSet(Listing[c]) \intersect ToSet(Listing[d]) = {}

\* DirJob and MetaJob: the directory, the arena position of its node, and for a
\* metadata chunk the offset of its first name in the listing.
ScanJobs == [kind : {"dir", "meta"}, dir : Dirs, node : 1..(Cardinality(Entries) + 1),
             from : 0..Cardinality(Entries)]
DirJob(d, node) == [kind |-> "dir", dir |-> d, node |-> node, from |-> 0]
MetaJob(d, node, from) == [kind |-> "meta", dir |-> d, node |-> node, from |-> from]

ASSUME ScanPoolAssumption ==
    /\ Workers # {} /\ IsFiniteSet(Workers) /\ CanPanic \in BOOLEAN /\ NoJob \notin ScanJobs

VARIABLES injector, pending, idle, permits, pc, job, pushing, raced, pushed,
          cancelled, panicMsg, pool

INSTANCE WorkerPool WITH Jobs <- ScanJobs, RootJob <- DirJob(RootDir, 1)

VARIABLES
    stage,      \* where each worker stands in process_job
    todo,       \* the jobs each worker has still to push
    batch,      \* the entries each worker is about to insert, and the failed stats
    local,      \* WorkerState: each worker's unflushed counters
    nodes,      \* Shared::model, the arena
    live,       \* the shared counters the UI polls
    links,      \* Shared::hardlinks
    outcome     \* what was sent on the channel

threadVars == <<injector, pending, idle, permits, pc, job, pushing, raced, pushed,
                cancelled, panicMsg, pool>>
scanVars == <<stage, todo, batch, local, nodes, live, links, outcome>>
vars == <<threadVars, scanVars>>

NoCounts == [files |-> 0, dirs |-> 0, bytes |-> 0, errors |-> 0]
NoState == [counts |-> NoCounts, links |-> {}, since |-> 0]
NoBatch == [names |-> <<>>, failed |-> {}]

Plus(a, b) == [f \in DOMAIN NoCounts |-> a[f] + b[f]]

Init ==
    /\ PoolInit
    /\ stage = [w \in Workers |-> "start"]
    /\ todo = [w \in Workers |-> <<>>]
    /\ batch = [w \in Workers |-> NoBatch]
    /\ local = [w \in Workers |-> NoState]
    /\ nodes = <<RootNode(RootDir)>>
    /\ live = [NoCounts EXCEPT !.dirs = 1]
    /\ links = {}
    /\ outcome = [kind |-> "none"]

-----------------------------------------------------------------------------
(* Helpers of process_dir and insert_batch.                                *)

Processing(w, s) == pc[w] = "process" /\ stage[w] = s
Enter(w, s) == stage' = [stage EXCEPT ![w] = s]

\* Variant: the chunks after the inline prefix start one name too late.
SpillJobsOffByOne(j) ==
    LET n == Len(Listing[j.dir])
        count == IF n <= InlineLimit THEN 0 ELSE (n - InlineLimit + Chunk - 1) \div Chunk
    IN  [k \in 1..count |-> MetaJob(j.dir, j.node, InlineLimit + 1 + (k - 1) * Chunk)]

\* The metadata jobs for everything past the inline prefix.
SpillJobs(j) ==
    LET n == Len(Listing[j.dir])
        count == IF n <= InlineLimit THEN 0 ELSE (n - InlineLimit + Chunk - 1) \div Chunk
    IN  [k \in 1..count |-> MetaJob(j.dir, j.node, InlineLimit + (k - 1) * Chunk)]

\* Variant: the inline batch keeps the names that were spilled.
NamesUntruncated(j) ==
    LET l == Listing[j.dir]
    IN  SubSeq(l, j.from + 1, IF j.kind = "dir" THEN Len(l) ELSE Min({Len(l), j.from + Chunk}))

\* The names a job is to insert: the inline prefix, or its chunk.
NamesOf(j) ==
    LET l == Listing[j.dir]
        size == IF j.kind = "dir" THEN InlineLimit ELSE Chunk
    IN  SubSeq(l, j.from + 1, Min({Len(l), j.from + size}))

\* Which names of a batch fail to stat.  A metadata job reopens the directory,
\* and if that fails so do all its names.
StatFailures(j, names) ==
    {failed \in SUBSET ToSet(names) :
        \/ failed \subseteq Flaky
        \/ j.kind = "meta" /\ j.dir \in Flaky /\ failed = ToSet(names)}

\* worker_loop runs with ScanOptions::default(), whatever spawn_scan was given.
EffectiveStay == TRUE

\* Variant: mount points are descended into.
NoBoundary(e, dir) == FALSE

IsBoundary(e, dir) == Kind[e] = "dir" /\ EffectiveStay /\ Device[e] # Device[dir]

\* Symlinks and special files contribute no bytes to the tree.
OwnBytes(e) == IF Kind[e] \in {"symlink", "other"} THEN 0 ELSE Bytes[e]

NewNode(e, j) ==
    Node(e, j.node, Kind[e], OwnBytes(e),
         IF IsBoundary(e, j.dir) THEN {"boundary"} ELSE {})

\* WorkerState::count over the entries that were stat'ed, and one error for each
\* that was not.
CountsOf(names, failed) ==
    [files  |-> Cardinality({e \in ToSet(names) : Kind[e] = "file"}),
     dirs   |-> Cardinality({e \in ToSet(names) : Kind[e] = "dir"}),
     bytes  |-> SumFunctionOnSet(Bytes, ToSet(names)),
     errors |-> Cardinality(failed)]

Identity(e) == <<Device[e], Inode[e]>>

\* The entries of a batch that become nodes, in order.
Statted(b) == Keep(b.names, Entries \ b.failed)

\* Variant: ids count the failed entries of the batch too.
IdByPosition(e, b) == Len(nodes) + (CHOOSE k \in DOMAIN b.names : b.names[k] = e)

\* The arena position an entry of the batch gets.
IdOf(e, b) == Len(nodes) + (CHOOSE k \in DOMAIN Statted(b) : Statted(b)[k] = e)

\* Variant: a flush leaves the local counters as they are.
FlushKeeps(st) == [st EXCEPT !.since = 0]

\* WorkerState after a flush.
Flushed(st) == [st EXCEPT !.counts = NoCounts, !.links = {}, !.since = 0]

-----------------------------------------------------------------------------
(* process_job, in the stages "start", "listed", "insert", "queue", "end". *)

\* A directory job begins: it is dropped if the scan is cancelled; its listing
\* may fail; otherwise its tail is spilled and its prefix becomes the batch.
StartDir(w) ==
    /\ Processing(w, "start")
    /\ job[w].kind = "dir"
    /\ \/ /\ cancelled
          /\ Enter(w, "end")
          /\ UNCHANGED <<todo, batch, local, nodes>>
       \/ /\ ~cancelled
          /\ job[w].dir \in Flaky
          /\ local' = [local EXCEPT ![w].counts.errors = @ + 1]
          /\ nodes' = [nodes EXCEPT ![job[w].node].flags = @ \union {"unreadable"}]
          /\ Enter(w, "end")
          /\ UNCHANGED <<todo, batch>>
       \/ /\ ~cancelled
          /\ \E failed \in StatFailures(job[w], NamesOf(job[w])) :
               batch' = [batch EXCEPT ![w] = [names |-> NamesOf(job[w]), failed |-> failed]]
          /\ todo' = [todo EXCEPT ![w] = SpillJobs(job[w])]
          /\ Enter(w, "listed")
          /\ UNCHANGED <<local, nodes>>
    /\ UNCHANGED <<threadVars, live, links, outcome>>

\* A metadata job begins: dropped if cancelled, else its names are stat'ed.
StartMeta(w) ==
    /\ Processing(w, "start")
    /\ job[w].kind = "meta"
    /\ \/ /\ cancelled
          /\ Enter(w, "end")
          /\ UNCHANGED batch
       \/ /\ ~cancelled
          /\ \E failed \in StatFailures(job[w], NamesOf(job[w])) :
               batch' = [batch EXCEPT ![w] = [names |-> NamesOf(job[w]), failed |-> failed]]
          /\ Enter(w, "listed")
    /\ UNCHANGED <<threadVars, todo, local, nodes, live, links, outcome>>

\* The next job of the worker's list goes through Scheduler::push.
PushNext(w) ==
    /\ pc[w] = "process"
    /\ stage[w] \in {"listed", "queue"}
    /\ todo[w] # <<>>
    /\ Announce(w, Head(todo[w]))
    /\ todo' = [todo EXCEPT ![w] = Tail(@)]
    /\ UNCHANGED <<stage, batch, local, nodes, live, links, outcome>>

\* insert_batch looks at the cancel flag once more before it takes the lock.
CheckInsert(w) ==
    /\ Processing(w, "listed")
    /\ todo[w] = <<>>
    /\ Enter(w, IF cancelled THEN "end" ELSE "insert")
    /\ UNCHANGED <<threadVars, todo, batch, local, nodes, live, links, outcome>>

\* The critical section of insert_batch, then the flush if it is due.  Ids are
\* handed out in batch order to the entries that could be stat'ed; directories
\* that are no mount boundary are listed for queueing.
Insert(w) ==
    /\ Processing(w, "insert")
    /\ LET j == job[w]
           b == batch[w]
           names == Statted(b)
           ids == {IdOf(e, b) : e \in ToSet(names)}
           multi == {e \in ToSet(names) : e \in MultiLink /\ Kind[e] = "file"}
           walk == Keep(names, {e \in Entries : Kind[e] = "dir" /\ ~IsBoundary(e, j.dir)})
           st == [counts |-> Plus(local[w].counts, CountsOf(names, b.failed)),
                  links |-> local[w].links
                            \union {[node |-> IdOf(e, b), id |-> Identity(e)] : e \in multi},
                  since |-> local[w].since + Len(names)]
           due == st.since >= FlushEvery
       IN  /\ nodes' = [nodes EXCEPT ![j.node].children = @ \union ids]
                       \o [k \in DOMAIN names |-> NewNode(names[k], j)]
           /\ local' = [local EXCEPT ![w] = IF due THEN Flushed(st) ELSE st]
           /\ live' = IF due THEN Plus(live, st.counts) ELSE live
           /\ links' = IF due THEN links \union st.links ELSE links
           /\ todo' = [todo EXCEPT ![w] = [k \in DOMAIN walk |-> DirJob(walk[k], IdOf(walk[k], b))]]
           /\ batch' = [batch EXCEPT ![w] = NoBatch]
    /\ Enter(w, "queue")
    /\ UNCHANGED <<threadVars, outcome>>

\* process_job returns and the worker completes its job.
FinishJob(w) ==
    /\ \/ stage[w] = "end"
       \/ stage[w] = "queue" /\ todo[w] = <<>>
    /\ CompleteJob(w)
    /\ Enter(w, "start")
    /\ batch' = [batch EXCEPT ![w] = NoBatch]
    /\ UNCHANGED <<todo, local, nodes, live, links, outcome>>

\* worker_loop ends with a last flush.
FlushAndEnd(w) ==
    /\ Flush(w)
    /\ live' = Plus(live, local[w].counts)
    /\ links' = links \union local[w].links
    /\ local' = [local EXCEPT ![w] = Flushed(@)]
    /\ UNCHANGED <<stage, todo, batch, nodes, outcome>>

-----------------------------------------------------------------------------
(* The scan thread after run_pool.                                         *)

\* Variant: any later link takes the bytes over.
LaterLink(b, a) == b.id = a.id /\ b.node > a.node

\* The inode of candidate a was already seen at candidate b.
SeenAt(b, a) == b.id = a.id /\ b.node < a.node

\* reconcile_hardlinks: the lowest node of each inode keeps the bytes.
ReconcileHardlinks(arena, cands) ==
    LET shared == {a.node : a \in {c \in cands : \E b \in cands : SeenAt(b, c)}}
    IN  [ix \in DOMAIN arena |->
            IF ix \in shared
            THEN [arena[ix] EXCEPT !.flags = @ \union {"shared"}, !.own = 0, !.agg = 0]
            ELSE arena[ix]]

\* Variant: hard links are reconciled after the aggregation.
AggregateFirst(arena, cands) == ReconcileHardlinks(Aggregate(arena), cands)

FinishModel(arena, cands) == Aggregate(ReconcileHardlinks(arena, cands))

\* Variant: the outcome does not look at the cancel flag.
NeverCancelled == FALSE

WasCancelled == cancelled

\* The message is taken out of the shared state and sent.
DeliverFailure ==
    /\ pool = "joined"
    /\ outcome.kind = "none"
    /\ panicMsg # "none"
    /\ outcome' = [kind |-> "failed", error |-> panicMsg]
    /\ panicMsg' = "none"
    /\ UNCHANGED <<injector, pending, idle, permits, pc, job, pushing, raced, pushed,
                   cancelled, pool, stage, todo, batch, local, nodes, live, links>>

\* The cancel flag is read once, the model is taken out of the shared state,
\* reconciled, aggregated and sent.
DeliverModel ==
    /\ pool = "joined"
    /\ outcome.kind = "none"
    /\ panicMsg = "none"
    /\ outcome' = [kind |-> "completed", cancelled |-> WasCancelled,
                   nodes |-> FinishModel(nodes, links)]
    /\ nodes' = <<>>
    /\ UNCHANGED <<threadVars, stage, todo, batch, local, live, links>>

-----------------------------------------------------------------------------
\* A panic abandons the job wherever it stands, with the lock released.
PanicInJob(w) == Panic(w) /\ UNCHANGED scanVars

WakeUnasked(w) == SpuriousWake(w) /\ UNCHANGED scanVars

JobStep(w) ==
    \/ StartDir(w) \/ StartMeta(w) \/ PushNext(w) \/ CheckInsert(w) \/ Insert(w)
    \/ FinishJob(w) \/ FlushAndEnd(w)

Step(w) == JobStep(w) \/ (LoopStep(w) /\ UNCHANGED scanVars)

CancelScan == Cancel /\ UNCHANGED scanVars
JoinPool == Join /\ UNCHANGED scanVars
Deliver == DeliverFailure \/ DeliverModel

Delivered == outcome.kind # "none" /\ UNCHANGED vars

Next ==
    \/ \E w \in Workers : Step(w) \/ PanicInJob(w) \/ WakeUnasked(w)
    \/ CancelScan
    \/ JoinPool
    \/ Deliver
    \/ Delivered

Spec == Init /\ [][Next]_vars

\* Every worker thread and the scan thread keep running; the user need not
\* cancel and nothing need panic.
Fairness ==
    /\ \A w \in Workers : WF_vars(Step(w))
    /\ WF_vars(JoinPool)
    /\ WF_vars(Deliver)

FairSpec == Spec /\ Fairness

-----------------------------------------------------------------------------
(* Properties.                                                             *)

\* The arena, wherever it is: shared during the scan, then in the outcome.
Arena == IF outcome.kind = "completed" THEN outcome.nodes ELSE nodes

Found == {Arena[ix].entry : ix \in DOMAIN Arena}

Completed == outcome.kind = "completed" /\ ~outcome.cancelled

\* The types of the scan's state: the pool's, the stages and lists of the
\* workers, parents and hard-link candidates inside the arena.
ScanTypeOK ==
    /\ TypeOK
    /\ stage \in [Workers -> {"start", "listed", "insert", "queue", "end"}]
    /\ \A w \in Workers : ToSet(todo[w]) \subseteq ScanJobs
    /\ \A w \in Workers : ToSet(batch[w].names) \subseteq Entries
    /\ \A ix \in DOMAIN nodes : nodes[ix].parent \in 0..Len(nodes)
    /\ links \subseteq [node : 1..(Cardinality(Entries) + 1), id : {Identity(e) : e \in Entries}]
    /\ outcome.kind \in {"none", "failed", "completed"}

\* Every node has the bytes of its entry, except that the reconciliation may have
\* taken them from one with several links.
Sized ==
    \A ix \in DOMAIN Arena \ {Root} :
        \/ Arena[ix].own = OwnBytes(Arena[ix].entry)
        \/ /\ outcome.kind = "completed" /\ Arena[ix].entry \in MultiLink
           /\ Arena[ix].own = 0

\* Whichever worker inserts a chunk, and in whatever order, a node comes after
\* its parent, its parent is the node of the very directory that lists it, and
\* kind and bytes are those of the entry it stands for, not of a neighbour.
TreeFaithful ==
    /\ Sized
    /\ \A ix \in DOMAIN Arena \ {Root} :
        LET p == Arena[ix].parent IN
        /\ p \in 1..(ix - 1)
        /\ Arena[ix].kind = Kind[Arena[ix].entry]
        /\ Arena[p].kind = "dir"
        /\ Arena[ix].entry \in ToSet(Listing[Arena[p].entry])
        /\ ix \in Arena[p].children

\* No entry is inserted twice, whichever chunk and worker brings it.
EntryOnce == Cardinality(Found) = Len(Arena)

\* Traversal never leaves the file system it started on: a mount point is
\* listed, nothing below it is.
StaysOnDevice ==
    \A ix \in DOMAIN Arena \ {Root} :
        Device[Arena[Arena[ix].parent].entry] = Device[RootDir]

\* Counters are neither lost nor doubled between the workers and the shared
\* snapshot: what was flushed and what is still local add up to the arena, and
\* when the pool is over without a panic nothing is left unflushed.
CountersConserved ==
    LET all(f) == live[f] + SumFunction([w \in Workers |-> local[w].counts[f]])
    IN  outcome.kind # "failed" =>
        /\ all("files") = Cardinality({ix \in DOMAIN Arena : Arena[ix].kind = "file"})
        /\ all("dirs") = Cardinality({ix \in DOMAIN Arena : Arena[ix].kind = "dir"})
        /\ all("bytes") = SumFunction([ix \in DOMAIN Arena \ {Root} |-> Bytes[Arena[ix].entry]])
        /\ pool = "joined" /\ panicMsg = "none" => \A w \in Workers : local[w] = NoState

\* An outcome that does not say "cancelled" is whole: of the directories that
\* were walked every listed entry is in the tree or was counted as an error,
\* and only what can fail is missing.
CompletedIsWhole ==
    Completed =>
        LET dirs == {ix \in DOMAIN Arena : Arena[ix].kind = "dir"}
            unread == {ix \in dirs : "unreadable" \in Arena[ix].flags}
            walked == {ix \in dirs \ unread : "boundary" \notin Arena[ix].flags}
            listed == UNION {ToSet(Listing[Arena[ix].entry]) : ix \in walked}
        IN  /\ \A ix \in unread : Arena[ix].entry \in Flaky
            /\ live.errors = Cardinality(unread) + Cardinality(listed \ Found)
            /\ \A ix \in walked : Arena[ix].entry \notin Flaky =>
                    ToSet(Listing[Arena[ix].entry]) \ Flaky \subseteq Found

\* Every inode with several links contributes its bytes exactly once, at its
\* lowest node, in cancelled scans as well.
LinksCountedOnce ==
    outcome.kind = "completed" =>
        LET multi == {ix \in DOMAIN Arena : Arena[ix].kind = "file" /\ Arena[ix].entry \in MultiLink}
            same(a, b) == Identity(Arena[a].entry) = Identity(Arena[b].entry)
        IN  \A ix \in multi :
                Arena[ix].own = IF \E b \in multi : same(b, ix) /\ b < ix
                                THEN 0 ELSE Bytes[Arena[ix].entry]

\* The reverse pass leaves every node with the sum of its subtree, although the
\* arena order is whatever the workers' interleaving made it.
OutcomeAggregated == outcome.kind = "completed" => AggregatesExact(outcome.nodes)

\* stay_on_filesystem = false asks for other file systems to be walked too
\* (options.rs:36): a mount point is then no boundary.
OptionHonoured ==
    \A ix \in DOMAIN Arena : "boundary" \in Arena[ix].flags => StayOnFilesystem

\* The scan keeps the contract of module ScanContract.
Contract == INSTANCE ScanContract WITH
    found <- Found,
    stop <- cancelled,
    result <- IF outcome.kind = "completed"
              THEN (IF outcome.cancelled THEN "partial" ELSE "whole")
              ELSE outcome.kind

ImplementsContract == Contract!Spec

\* A completed outcome never hides a lost worker: after a panic the outcome, if
\* there is one, is a failure, cancelled or not.
NoSilentLoss ==
    outcome.kind = "completed" => \A w \in Workers : pc[w] # "panicked"

\* Every scan delivers an outcome, cancelled or not, unless it loses a worker.
ScanDelivers == <>(outcome.kind # "none" \/ \E w \in Workers : pc[w] = "panicked")
=============================================================================
