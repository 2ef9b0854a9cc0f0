----------------------------- MODULE Duplicates -----------------------------
(***************************************************************************)
(* Duplicate files: the detection (src/src/duplicates/), which hashes in   *)
(* the background what a scan found, and the tab that shows its report,    *)
(* ticks files and removes them (src/src/ui/shell.rs, duplicate_table.rs). *)
(*                                                                         *)
(* A path holds an object (an inode with its content) or none.  A hash is  *)
(* what it reads: the ends of the content, or all of it, so that equal     *)
(* hashes mean equal bytes.  A scan is a snapshot of one directory of      *)
(* files; other programs replace objects, never write into one.  A removal *)
(* and the check before it are one step.                                   *)
(***************************************************************************)
EXTENDS Integers, Sequences, FiniteSets, FiniteSetsExt, SequencesExt

CONSTANTS
    Order,          \* the paths, in the order a scan finds them
    Objects,        \* the objects paths may hold
    First,          \* path -> the object it holds at first, NoObject for none
    NoObject,
    Content,        \* object -> its content
    Ends,           \* content -> what a partial hash reads of it
    Size,           \* content -> its size
    MinSize,        \* MIN_SIZE
    Platforms,      \* "unix", "windows"
    Unidentified,   \* on Windows, the paths whose identity cannot be read
    MaxScans, MaxDetections, MaxBatches, MaxChanges     \* bounds

Paths == ToSet(Order)

ASSUME DuplicatesAssumption ==
    /\ Order \in Seq(Paths) /\ IsInjective(Order)
    /\ NoObject \notin Objects
    /\ First \in [Paths -> Objects \union {NoObject}]
    /\ Platforms \subseteq {"unix", "windows"} /\ Unidentified \subseteq Paths
    /\ \A o \in Objects : /\ Content[o] \in DOMAIN Ends /\ Size[Content[o]] \in Nat
                          /\ Content[o] # "failed" /\ Ends[Content[o]] # "failed"
    /\ MinSize \in Nat \ {0}

VARIABLES
    platform,   \* what the program was built for
    disk,       \* path -> the object there
    changes,    \* number of changes by other programs
    scans,      \* number of scans finished
    model,      \* AppShell::model: per node path, object, size; <<>> for None
    scannedAt,  \* the value of changes when the model was scanned
    tab,        \* the Duplicates tab is active
    computing,  \* AppState::duplicates_computing
    report,     \* AppState::duplicates
    ticked,     \* DuplicatesDelegate::selected, with the path of the row ticked
    dialog,     \* the targets of the confirmation that is open, {} for none
    tasks,      \* the detections started
    batches,    \* the removals started
    astray,     \* history: an answer for an earlier model has landed
    status      \* "running" or "crashed"

env == <<platform, disk, changes>>
scanVars == <<scans, model, scannedAt>>
vars == <<env, scanVars, tab, computing, report, ticked, dialog, tasks, batches, astray, status>>

NoReport == [groups |-> {}, of |-> 0, clean |-> FALSE, basis |-> {}]

Init ==
    /\ platform \in Platforms
    /\ disk = First /\ changes = 0
    /\ scans = 0 /\ model = <<>> /\ scannedAt = 0
    /\ tab = FALSE /\ computing = FALSE /\ report = NoReport
    /\ ticked = {} /\ dialog = {}
    /\ tasks = <<>> /\ batches = <<>>
    /\ astray = FALSE /\ status = "running"

Running == status = "running"
Shown == model # <<>>

-----------------------------------------------------------------------------
(* The disk and the scan.                                                  *)

OtherProgram(p, o) ==
    /\ changes < MaxChanges
    /\ disk[p] # NoObject /\ o # disk[p]
    /\ \A q \in Paths : disk[q] # o \/ o = NoObject
    /\ changes' = changes + 1
    /\ disk' = [disk EXCEPT ![p] = o]
    /\ UNCHANGED <<platform, scanVars, tab, computing, report, ticked, dialog, tasks,
                   batches, astray, status>>

Identity(p, o) == IF platform = "windows" /\ p \in Unidentified THEN NoObject ELSE o

\* The elements of a sequence that are in S, in their order.
Keep(s, S) ==
    LET kept[k \in 0..Len(s)] ==
            IF k = 0 THEN <<>>
            ELSE IF s[k] \in S THEN Append(kept[k - 1], s[k]) ELSE kept[k - 1]
    IN  kept[Len(s)]

\* The nodes of a scan.  Of the links of one object only the first keeps its bytes
\* where link counts are read (reconcile_hardlinks); a bulk listing has none.
ScanOf ==
    LET found == Keep(Order, {p \in Paths : disk[p] # NoObject})
        repeats(k) == platform = "unix" /\ \E i \in 1..(k - 1) : disk[found[i]] = disk[found[k]]
    IN  [k \in DOMAIN found |->
            [node |-> k, path |-> found[k], object |-> disk[found[k]],
             identity |-> Identity(found[k], disk[found[k]]),
             size |-> IF repeats(k) THEN 0 ELSE Size[Content[disk[found[k]]]],
             gone |-> FALSE]]

-----------------------------------------------------------------------------
(* finder.rs and hashing.rs                                                *)

\* collect_candidates
CollectCandidates(nodes) ==
    {nodes[k] : k \in {i \in DOMAIN nodes : ~ nodes[i].gone /\ nodes[i].size >= MinSize}}

\* Variant: links of one object are all kept.
EveryLink(cands) == cands

\* One path per identity; unknown identities stay.  The walk is a stack: it comes
\* to the last file first.
OnePerIdentity(cands) ==
    {c \in cands : c.identity = NoObject
                   \/ \A d \in cands : d.identity = c.identity => d.node <= c.node}

\* Only sizes with more than one candidate are hashed at all.
SizeShared(cands) == {c \in cands : \E d \in cands \ {c} : d.size = c.size}

\* A read that meets the end of the file early fails, as one that finds no file.
PartialHash(c) ==
    LET o == disk[c.path] IN
    IF o = NoObject \/ Size[Content[o]] < c.size THEN "failed" ELSE Ends[Content[o]]

FullHash(c) == IF disk[c.path] = NoObject THEN "failed" ELSE Content[disk[c.path]]

HashOf(phase, c) == IF phase = "partial" THEN PartialHash(c) ELSE FullHash(c)

\* What is fully hashed: all of a size once two of its partial hashes agree.
Colliding(cands, hash) ==
    LET read == {c \in cands : hash[c.node] # "failed"} IN
    {c \in read : \E d, e \in read : d # e /\ d.size = c.size /\ e.size = c.size
                                     /\ hash[d.node] = hash[e.node]}

\* Keeping one identity preserves the content; every further one is waste.
Waste(size, identities) == size * (Cardinality(identities) - 1)

\* The groups of equal full hashes.  Members that share an identity, all the
\* unknown ones among them, count as links of one file, all but one marked.
\* (The mark goes by the order of the members; the node order stands for it.)
Groups(cands, hash) ==
    LET read == {c \in cands : hash[c.node] # "failed"}
        alike(c) == {d \in read : d.size = c.size /\ hash[d.node] = hash[c.node]}
        linked(c) == \E d \in alike(c) : d.identity = c.identity /\ d.node > c.node
        group(c) ==
            [size |-> c.size,
             files |-> {[node |-> d.node, path |-> d.path, object |-> d.object,
                         hardLinked |-> linked(d)] : d \in alike(c)},
             reclaimable |-> Waste(c.size, {d.identity : d \in alike(c)})]
    IN  {group(c) : c \in {d \in read : Cardinality(alike(d)) >= 2}}

-----------------------------------------------------------------------------
(* The detection in the background.                                        *)

\* ensure_duplicates: candidates are collected on the interface thread.
Ensure(arena, at) ==
    IF report # NoReport \/ computing \/ arena = <<>>
    THEN UNCHANGED <<computing, tasks>>
    ELSE LET found == CollectCandidates(arena)
             kept == OnePerIdentity(found) IN
         /\ Len(tasks) < MaxDetections
         /\ computing' = TRUE
         /\ tasks' = Append(tasks, [phase |-> "partial", of |-> at, basis |-> found,
                                    cands |-> kept, todo |-> SizeShared(kept),
                                    hash |-> [n \in {} |-> "failed"],
                                    changes |-> changes])

Recorded(hash, node, h) == [n \in DOMAIN hash \union {node} |-> IF n = node THEN h ELSE hash[n]]

\* The thread hashes its files one after the other, in both passes.
HashNext(t) ==
    /\ Running
    /\ tasks[t].phase \in {"partial", "full"} /\ tasks[t].todo # {}
    /\ \E c \in tasks[t].todo :
        /\ \A d \in tasks[t].todo : d.node <= c.node
        /\ tasks' = [tasks EXCEPT ![t] =
                        [tasks[t] EXCEPT
                            !.todo = @ \ {c},
                            !.hash = Recorded(@, c.node, HashOf(tasks[t].phase, c))]]
    /\ UNCHANGED <<env, scanVars, tab, computing, report, ticked, dialog, batches, astray, status>>

SecondPass(t) ==
    /\ Running
    /\ tasks[t].phase = "partial" /\ tasks[t].todo = {}
    /\ LET survivors == Colliding(SizeShared(tasks[t].cands), tasks[t].hash) IN
       tasks' = [tasks EXCEPT ![t] =
                    [tasks[t] EXCEPT !.phase = "full", !.cands = survivors, !.todo = survivors,
                              !.hash = [n \in {} |-> "failed"]]]
    /\ UNCHANGED <<env, scanVars, tab, computing, report, ticked, dialog, batches, astray, status>>

\* The callback stores what comes, whatever model is shown by then.
DetectionEnds(t) ==
    /\ Running
    /\ tasks[t].phase = "full" /\ tasks[t].todo = {}
    /\ tasks' = [tasks EXCEPT ![t].phase = "over"]
    /\ computing' = FALSE
    /\ report' = [groups |-> Groups(tasks[t].cands, tasks[t].hash), of |-> tasks[t].of,
                  clean |-> changes = tasks[t].changes
                            /\ \A c \in tasks[t].basis : disk[c.path] = c.object,
                  basis |-> tasks[t].basis]
    /\ astray' = (astray \/ tasks[t].of # scans)
    /\ UNCHANGED <<env, scanVars, tab, ticked, dialog, batches, status>>

-----------------------------------------------------------------------------
(* Scans and the tab.                                                      *)

\* Variant: the selection survives the scan.
StartScanKeepingTicks ==
    /\ Running /\ (Shown \/ scans = 0)
    /\ scans < MaxScans
    /\ model' = <<>>
    /\ scans' = scans + 1
    /\ tab' = FALSE
    /\ computing' = FALSE /\ report' = NoReport
    /\ UNCHANGED <<env, scannedAt, ticked, dialog, tasks, batches, astray, status>>

\* start_scan resets AppState and the selection, finish_scan lands on the new
\* model; a scan that fails leaves none.
StartScan ==
    /\ Running /\ (Shown \/ scans = 0)
    /\ scans < MaxScans
    /\ model' = <<>>
    /\ scans' = scans + 1
    /\ tab' = FALSE
    /\ computing' = FALSE /\ report' = NoReport /\ ticked' = {}
    /\ UNCHANGED <<env, scannedAt, dialog, tasks, batches, astray, status>>

FinishScan ==
    /\ Running /\ ~ Shown /\ scans > 0
    /\ model' = ScanOf
    /\ scannedAt' = changes
    /\ \/ tab /\ Ensure(ScanOf, scans)
       \/ ~ tab /\ UNCHANGED <<computing, tasks>>
    /\ UNCHANGED <<env, scans, tab, report, ticked, dialog, batches, astray, status>>

\* While a dialog is open it covers the window.
Free == Running /\ dialog = {}

ToggleTab ==
    /\ Free
    /\ tab' = ~ tab
    /\ \/ ~ tab /\ Ensure(model, scans)
       \/ tab /\ UNCHANGED <<computing, tasks>>
    /\ UNCHANGED <<env, scanVars, report, ticked, dialog, batches, astray, status>>

\* The button of the tab that has neither a report nor a detection.
FindAgain ==
    /\ Free /\ tab /\ Shown /\ report = NoReport /\ ~ computing
    /\ Ensure(model, scans)
    /\ UNCHANGED <<env, scanVars, tab, report, ticked, dialog, batches, astray, status>>

Files == UNION {g.files : g \in report.groups}
Selected == {r.node : r \in ticked}
Row(f) == [node |-> f.node, path |-> f.path]

\* toggle_dup_select and toggle_dup_group: the rows of some files are ticked or
\* their nodes unticked.
Toggle(files, checked) ==
    /\ Free /\ tab /\ files # {}
    /\ ticked' = IF checked THEN ticked \union {Row(f) : f \in files}
                 ELSE {r \in ticked : \A f \in files : r.node # f.node}
    /\ ticked' # ticked
    /\ UNCHANGED <<env, scanVars, tab, computing, report, dialog, tasks, batches, astray, status>>

-----------------------------------------------------------------------------
(* Removing what is ticked.                                                *)

\* The identity a target is verified against; only Unix reads one here.
Now(p) == IF platform = "unix" THEN disk[p] ELSE NoObject

\* collect_dup_targets, when the dialog opens.
OpenDialog ==
    /\ Free /\ tab /\ Shown
    /\ Len(batches) < MaxBatches
    /\ LET picked == {f \in Files : f.node \in Selected /\ ~ f.hardLinked
                                     /\ disk[f.path] # NoObject} IN
       IF picked \subseteq {f \in picked : f.node \in DOMAIN model}
       THEN /\ picked # {}
            /\ dialog' = {[node |-> f.node, path |-> f.path, identity |-> Now(f.path),
                           of |-> scans, ticked |-> Row(f) \in ticked] : f \in picked}
            /\ UNCHANGED status
       ELSE /\ status' = "crashed"
            /\ UNCHANGED dialog
    /\ UNCHANGED <<env, scanVars, tab, computing, report, ticked, tasks, batches, astray>>

CancelDialog ==
    /\ Running /\ dialog # {}
    /\ dialog' = {}
    /\ UNCHANGED <<env, scanVars, tab, computing, report, ticked, tasks, batches, astray, status>>

\* batch_remove_duplicates: one target per identity goes to the background.
Accept ==
    /\ Running /\ dialog # {}
    /\ LET kept == {t \in dialog : \A u \in dialog : u.identity = t.identity => t.node <= u.node} IN
       batches' = Append(batches, [todo |-> kept, removed |-> {}, failed |-> {},
                                   skipped |-> dialog \ kept, over |-> FALSE])
    /\ dialog' = {}
    /\ UNCHANGED <<env, scanVars, tab, computing, report, ticked, tasks, astray, status>>

\* verify_identity: elsewhere than on Unix the path has an identity, or none can
\* be read, and neither equals the one of the target.
Verified(t) == platform = "unix" /\ disk[t.path] # NoObject /\ disk[t.path] = t.identity

RemoveNext(b) ==
    /\ Running /\ batches[b].todo # {}
    /\ \E t \in batches[b].todo :
        \/ /\ ~ Verified(t)
           /\ batches' = [batches EXCEPT
                  ![b] = [batches[b] EXCEPT !.todo = @ \ {t}, !.skipped = @ \union {t}]]
           /\ UNCHANGED disk
        \/ /\ Verified(t)
           /\ batches' = [batches EXCEPT
                  ![b] = [batches[b] EXCEPT !.todo = @ \ {t}, !.removed = @ \union {t}]]
           /\ disk' = [disk EXCEPT ![t.path] = NoObject]
        \/ /\ Verified(t)
           /\ batches' = [batches EXCEPT
                  ![b] = [batches[b] EXCEPT !.todo = @ \ {t}, !.failed = @ \union {t}]]
           /\ UNCHANGED disk
    /\ UNCHANGED <<platform, changes, scanVars, tab, computing, report, ticked, dialog,
                   tasks, astray, status>>

\* Variant: only the first removed target reaches the tree.
ApplyFirst(nodes, gone) ==
    [k \in DOMAIN nodes |-> [nodes[k] EXCEPT !.gone = @ \/ (k \in gone /\ \A i \in gone : k <= i)]]

\* apply_deletion_and_refresh of every removed target.
ApplyDeletions(nodes, gone) ==
    [k \in DOMAIN nodes |-> [nodes[k] EXCEPT !.gone = @ \/ k \in gone]]

\* The callback of the batch.  With no model there is nothing to update; a node
\* outside the arena panics.
BatchEnds(b) ==
    /\ Running /\ batches[b].todo = {} /\ ~ batches[b].over
    /\ LET gone == {t.node : t \in batches[b].removed} IN
       IF Shown /\ ~ gone \subseteq DOMAIN model
       THEN status' = "crashed" /\ UNCHANGED model
       ELSE model' = ApplyDeletions(model, gone) /\ UNCHANGED status
    /\ batches' = [batches EXCEPT ![b].over = TRUE]
    /\ report' = NoReport
    /\ computing' = FALSE
    /\ ticked' = {}
    /\ astray' = (astray \/ \E t \in batches[b].removed : t.of # scans)
    /\ UNCHANGED <<env, scans, scannedAt, tab, dialog, tasks>>

Next ==
    \/ \E p \in Paths, o \in Objects \union {NoObject} : OtherProgram(p, o)
    \/ StartScan \/ FinishScan \/ ToggleTab \/ FindAgain
    \/ \E t \in DOMAIN tasks : HashNext(t) \/ SecondPass(t) \/ DetectionEnds(t)
    \/ \E f \in Files, checked \in BOOLEAN : Toggle({f}, checked)
    \/ \E g \in report.groups, checked \in BOOLEAN : Toggle(g.files, checked)
    \/ OpenDialog \/ CancelDialog \/ Accept
    \/ \E b \in DOMAIN batches : RemoveNext(b) \/ BatchEnds(b)

Spec == Init /\ [][Next]_vars

-----------------------------------------------------------------------------
(* What the duplicates tab promises.                                       *)

\* Objects of one content are duplicates; a link of an object is not.
SameContent(basis) ==
    LET objects == {c.object : c \in basis}
        class(o) == {x \in objects : Content[x] = Content[o]}
    IN  {class(o) : o \in {x \in objects : Cardinality(class(x)) >= 2}}

KnownApart(basis) ==
    \A c, d \in basis : c # d /\ c.identity = NoObject =>
        d.identity # NoObject /\ d.object # c.object

\* A report on files nobody touched since they were collected is what comparing
\* all of them byte by byte would give: one group per content with at least two
\* objects, each object in it by one path, no link counted as waste ("files
\* sharing one inode collapse", finder.rs:6), provided at most one identity
\* is unknown, and of a file without further links.
GroupsExact ==
    (report.clean /\ KnownApart(report.basis)) =>
        /\ {{f.object : f \in g.files} : g \in report.groups} = SameContent(report.basis)
        /\ \A g \in report.groups :
            /\ Cardinality({f.object : f \in g.files}) = Cardinality(g.files)
            /\ g.reclaimable = g.size * (Cardinality(g.files) - 1)
            /\ \A f \in g.files : ~ f.hardLinked

\* What a batch removes was ticked by the user in a row that showed its path, as
\* long as no answer for an earlier model has landed: the ids of the selection
\* outlive the reports and the scans they were taken from.
OnlyTicked ==
    ~ astray => \A b \in DOMAIN batches : \A t \in batches[b].removed : t.ticked

\* Under the same premise, with nothing else changing the disk and no batch
\* under way, a node is tombstoned exactly when its file is gone.
TreeAgrees ==
    (Shown /\ ~ astray /\ scannedAt = changes /\ \A b \in DOMAIN batches : batches[b].over) =>
        \A k \in DOMAIN model : model[k].gone <=> disk[model[k].path] = NoObject

\* Violated: unknown identities "stay: dropping them could merge unrelated files"
\* (finder.rs:93), and the last pass merges them.
UnknownStayApart ==
    report.clean => \A g \in report.groups :
        g.reclaimable >= g.size * (Cardinality({f.object : f \in g.files}) - 1)

\* Violated: "one background pass over every ticked duplicate" (shell.rs:621) and
\* "skip silently but report below" (shell.rs:642): a batch that skipped targets
\* and failed none reports a success.
SkippedIsReported ==
    \A b \in DOMAIN batches : batches[b].over /\ batches[b].skipped # {} => batches[b].failed # {}

\* Violated: what is removed was ticked, whatever answers land.
TickedByUser == \A b \in DOMAIN batches : \A t \in batches[b].removed : t.ticked
=============================================================================
