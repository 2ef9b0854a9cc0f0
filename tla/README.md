# rymd in TLA+

rymd (`src/src/`) is a disk-space analyser: it scans a directory with a pool of
worker threads into an arena tree, shows the tree as a table and a treemap,
deletes things after a confirmation, finds duplicate files and updates itself.
On Windows it can read a whole NTFS volume from its master file table instead.
This directory holds TLA+ modules translated from that code, TLC configurations
that check them on small instances, and TLAPS proofs about them. `PROJECT.json`
maps every definition to the source lines it stands for, and lists the runs,
the hazards, the findings, and for every property a variant of the code that
breaks it.

```
tlc -config WorkerPool_safety.cfg MCWorkerPool.tla      # any run of PROJECT.json
tlapm WorkerPool_proofs.tla                             # any module of proofs
```

## The system

Paths are relative to `src/src/`.

| Component | State | Operations | Speaks with |
|---|---|---|---|
| Job scheduler `scan/scheduler.rs` | `injector`, `pending`, `idle` | `push`, `find`, `complete`, `register_idle`, `unregister_idle`, `is_quiet` | called by the workers |
| Worker pool `scan/scanner.rs` 363-491 | a program counter and a job per thread, cancel flag, panic message | `worker_loop`, `run_pool`, `CancelHandle::cancel` | scheduler; scan jobs |
| Scan jobs and outcome `scan/scanner.rs` | shared arena, live counters, hard-link candidates; per-worker counters | `process_job`, `process_dir`, `insert_batch`, `flush`, `reconcile_hardlinks`, the scan thread | backend (listing, stat), arena, one-shot channel to the shell |
| Scan model `model/scan_model.rs` | the arena of nodes | `aggregate`, `apply_deletion`, `adjust_ancestors` | filled by the scan, then owned by the shell |
| Backends `scan/platform/` | none | `enumerate`, `stat_names` | the file system |
| NTFS file table `scan/platform/mft.rs` | the extent map, the parser's next record, carry and entries | query of the extents, chunked reads, `consume_record`, `build_model` | Windows and the raw volume; tried first by the scan thread |
| Shell `ui/shell.rs`, `state.rs` | model, `AppState` (current directory, selection, history, filter), scan job, treemap cache, dialogs | scan, navigate, delete, clear, search, duplicates | every other part, through callbacks on the interface thread |
| File-system actions `actions/fs_ops.rs` | none | `verify_unchanged`, `trash`, `delete_permanently`, `clear_directory` | run on background threads for the shell |
| Search `search.rs` | an index of names; in the shell the active query, the results and a generation | `build`, `find`, `refine`, `run_search` | built and asked by the shell in the background |
| Duplicates `duplicates/`, `ui/duplicate_table.rs` | the report, the ticked rows | `collect_candidates`, `detect`, hashing; tick, confirm, `batch_remove_duplicates` | runs in the background over the model |
| Updater `update/`, `ui/update_ui.rs` | `UpdateState`, the open dialog, the downloaded file | check, download, verify, cancel, retry | GitHub; installer |
| Installer `update/installer.rs` | the executable, its staged successor and its parked predecessor | `install`, roll back, `clean_stale_backup` | the file system at restart; other Rymd processes |
| Treemap, views | geometry and painting | | draw the shell's state |

The hard behaviours, and what makes each component correct:

* **Scheduler and pool.** Any number of threads push jobs to each other and
  decide on their own that nothing is left. `push`, `complete` and the idle
  protocol are several steps each and interleave freely; a steal may fail
  although the queue holds work (`Steal::Retry` is not retried); `park` may
  return for no reason; the user cancels at any moment; a worker may panic.
  Correct means: the pending count is exactly the number of outstanding jobs,
  nobody leaves while one is outstanding, no wakeup is lost, and the pool ends.
* **Scan jobs.** Workers insert batches of one directory in any order into an
  arena where a position is an id; entries disappear and directories refuse to
  open; cancellation is read in four places. Correct means: every entry below
  the root becomes one node under the right parent exactly once or is counted
  as an error, counters are neither lost nor doubled by the flushes, an outcome
  that does not say "cancelled" holds the whole tree, the bytes of an inode are
  counted once, and an outcome always arrives.
* **Scan model.** After any sequence of deletions, repeated, nested or stale,
  the aggregates are the sums over what is left.
* **Shell.** Handlers run one at a time, but scans, deletions, searches and
  duplicate runs come back later, with ids of a model that may have been
  replaced. Correct means: ids are used only in the arena they come from, the
  place shown exists, what is tombstoned is really gone, every view agrees.
* **Search.** Index builds and full passes come back in any order, while the
  user types and rescans. Correct means: once nothing is under way, the results
  are what a full search of the shown tree for the text in the field gives.
* **Duplicates.** Files are hashed one after the other while other programs
  replace them; reports, ticks and removals outlive the scans they come from.
  Correct means: the report is what comparing all files byte by byte would give,
  only what the user ticked is removed, and the tree shows what is left.
* **Updater and installer.** A transfer may be short, altered or cancelled; the
  file waits on the disk for a restart; installing is half a dozen file
  operations, each of which may fail or be the last one; several Rymd processes
  share the installation. Correct means: nothing runs but what the user agreed
  to, there is always an executable, and the flow never gets stuck.
* **NTFS reader.** The table is fragmented, the answers of Windows overlap
  and end within an extent, chunks split records, and NTFS goes on writing. Correct means: every
  record is read once, in its place and in one piece, and the tree is one.

## Modules

```
JobLedger <--implements-- WorkerPool --EXTENDS--> Scheduler
                              ^
                              | INSTANCE
ScanContract <--implements-- Scanner --EXTENDS--> ScanModel <--EXTENDS-- ModelDeletions
                                                      ^
                                                      +------EXTENDS-- Shell

Mft --EXTENDS--> MftRecords      Updater --EXTENDS--> Releases      Search      Duplicates
```

`Shell`, `Search`, `Duplicates` and `Updater` are four views of one interface
thread. They share the handlers `start_scan` and `finish_scan`, of which each
keeps what its own state reacts to, and are not composed: no other handler of
one touches the state of another, but for `apply_deletion_and_refresh`, which is
in both `Shell` and `Duplicates`. `Mft` comes before `Scanner`: when it fails,
the traversal starts.

* **Scheduler**: `Scheduler` of the code, one operator per atomic step. The
  three steps of `push` are `RaisePending`, `Publish`, `WakeOne`; the two of
  `complete` are `LowerPending` and `WakeAll`. `permits` holds the unpark token
  of each thread, with the semantics of `std::thread::park`. The queue and the
  idle list are sets, because no property depends on the order in which they
  serve. The local deques of the workers are left out: the code pushes nothing
  into them.
* **WorkerPool**: `worker_loop`, one action per step another thread can observe;
  `pc` is the line a worker stands at. `raced` makes `find` return nothing only
  when the injector is empty or another worker took a job during the steal. A
  job pushes any number of fresh jobs, one at a time, and ends. `Join` is the end
  of `run_pool` with its stall check. `Panic` is `catch_unwind` around
  `worker_loop`: the job stays counted and nobody is woken.
* **JobLedger**: what the pool promises, without workers: work comes only from
  work, and the pool is over when none is left, unless it was cancelled or
  damaged.
* **ScanModel**: the arena as a sequence of records (NodeId k is position k+1,
  0 is "no parent"), `Aggregate`, `ApplyDeletion`, `AdjustAncestors`. The code
  keeps a logical and an allocated byte count and treats both alike; one stands
  for the pair. Child lists are sets.
* **ModelDeletions**: arbitrary sequences of deletions on arbitrary small trees.
* **Scanner**: the pool of WorkerPool (by INSTANCE, with the job type of the
  code) with jobs that read a constant directory tree. `stage` is the position
  in `process_job`: the listing and its split into an inline prefix and chunks
  (`StartDir`), the pushes (`PushNext`), the second look at the cancel flag
  (`CheckInsert`), the critical section (`Insert`), the jobs for the
  subdirectories (`PushNext` again). Entries of `Flaky` may refuse to open or to
  be stat'ed, at each call anew. `DeliverFailure` and `DeliverModel` are the
  scan thread after the join.
* **ScanContract**: what the shell may rely on, with no threads: a scan runs,
  may be cancelled or fail, and ends once with a failure or with a tree that is
  complete unless it says it was cancelled.
* **Shell**: `AppShell` with the arena operations of ScanModel. The handlers are
  actions, one at a time on the interface thread: `OpenFolder`, `Rescan`,
  `FinishScan`; `NavigateTo`, `GoParent`, `GoBack`, `GoForward`; `SetFilter`,
  `ClearEscape`, `Render`; `Confirm`, `CancelDialog`, `Accept`. Between them
  `ScanEnds` takes a snapshot of the disk, `Perform` is `actions/fs_ops.rs` on a
  background thread, `Callback` its return on whatever model is there by then,
  and `OtherProgram` removes or replaces an object. The disk holds an identity
  per path; the arena records the identity a scan saw. `status` tells a panic
  and an endless loop from a running program. The folder picker is a window of
  its own, so a scan may start while a dialog is open. Left out: the selection
  (a selected node is one a click could reach), the metric (it is kept and reset
  exactly as the filter is), and the creation of new objects by other programs.
* **Search**: `SearchIndex` over names that are sequences of letters, each with
  its lower case; `Memmem` is the scan of the code, `RunSearch` its three
  branches. `passes` and `builds` are the background tasks; a pass carries its
  generation, a build carries nothing. `mixed` records that an index of an earlier
  model than the latest has landed, whether the latest is shown or still being
  scanned, and `hurried` that a query was refined from answers to another one;
  the properties name them as premises, and three configurations drop a premise
  each.
* **Duplicates**: a path holds an object with its content or none; a hash is what
  it reads. `HashNext` hashes one file, so that other programs come in between.
  `Unidentified` are the paths whose identity Windows does not tell. `ticked`
  keeps, next to the node the code keeps, the path the user saw in the row.
  A removal and the check before it are one step (`verify_identity` and the call
  right after it).
* **Releases**: which release, artifact and digest come out of a listing, and
  which file out of a transfer. A version is a number, a file the build it holds.
* **Updater**: `process[p]` is one Rymd: its `UpdateState`, its dialog, its
  download and, while `install_update` runs, the next file operation (`step`).
  `Swap`, `Park` and `PutBack` are renames; `Follow` takes the images of running
  processes and open copies along, which is what decides on Windows whether a
  file can be replaced. `Stop` is a crash or a closed window, at any moment.
  `Alter` damages or removes a downloaded file. Left out: dismissed versions,
  progress, and the temporary directory that stays behind.
* **MftRecords**: a record is a list of attributes, with a `fault` where the code
  would stop or skip; `ExtractEntry`, the run lists and extent maps, and the
  hierarchy as a breadth-first list.
* **Mft**: a sector knows the record and the part it is, and the update sequence
  number it was written with. `Ask` is one call for the extents of the table
  with what becomes of its `Answer`, which may begin before the cluster asked for,
  repeat what an earlier one said, and begin and end within an extent;
  `Read` is one chunk with what the parser makes of it, `UseRunList` the way without
  Windows' help. `Rewrite` is NTFS at work. The first read of record 0 is part of
  `UseRunList`.
* **MCWorkerPool, MCScanner, MCModelDeletions, MCShell, MCSearch, MCDuplicates,
  MCUpdater, MCMft**: the instances for TLC.
* **WorkerPool_proofs, ScanModel_proofs, Scanner_proofs, Shell_proofs,
  Search_proofs, Duplicates_proofs, Updater_proofs, Mft_proofs**: the proofs, each
  about the module of its name; those about ModelDeletions end Shell_proofs.

## Runs

| Run | What it shows | Instance |
|---|---|---|
| `WorkerPool_safety` | types, exact count, no early exit, no lost wakeup, stall check unreachable; the inductive invariant of the proofs; the pool implements JobLedger | 3 workers, 4 jobs, panics, symmetry |
| `WorkerPool_live` | the pool terminates | 3 workers, 3 jobs, no panics |
| `WorkerPool_panic` | *violated*: after a panic the pool is never joined | 2 workers, 3 jobs, panics |
| `Scanner_safety` | arena, counters, options, outcome; Scanner implements ScanContract | 2 workers, 7 entries |
| `Scanner_live` | a scan delivers unless it loses a worker, and one that lost a worker delivers no tree | 2 workers, 3 entries, panics |
| `ModelDeletions` | aggregates and tombstones after any deletions | every tree of at most 5 nodes, 2 sizes |
| `Shell_deletes` | a valid treemap cache is fresh; nobody stands in a deleted directory; what is shown as deleted is gone; a deletion takes the object that was scanned, unless another program has been at work since it was verified | 1 scan, 2 trash or permanent deletions that may fail half-way, 1 change, both filters, no history keys |
| `Shell_rescan` | the place shown is a directory of the arena; sizes add up; what the tree holds is on the disk | 2 scans, 2 late deletions (trash, clear), history, filters |
| `Search` | no false and no missing hits; what stands in the field is searched for in the end | 3 arenas, 3 scans, 2 edits |
| `Duplicates` | the report is exact; only ticked files are removed; the tree agrees with the disk | 4 paths, 4 objects, one copy without identity on Windows, 2 scans, 2 detections, 1 removal, 1 change, both platforms |
| `Updater` | only agreed builds run; an executable is there; no busy state lasts | 2 processes, every kind of installation, 3 listings, 1 altered file |
| `Mft` | records are read in their place; the tree holds them | 6 records of 2 sectors, 3 volumes, 5 layouts, 2 rewrites |

Further configurations, not listed as runs: `Updater` with three processes and
without `BusyEnds` holds, in five million states. Each of the others shows
disagreements with what the code or its comments say, by violated properties:
`Scanner_options`, `Shell_hang`, `Shell_late`, `Shell_stale`, `Shell_verify`,
`Shell_views`, `Search_refine`, `Search_unicode`, `Search_late`,
`Duplicates_unknown`, `Duplicates_late`, `Updater_unanswered`,
`Updater_together`, `Mft_cycles`, `Mft_names`, `Mft_holes`. `Shell_views` names
five of them, `Shell_late` and `Duplicates_unknown` two each; TLC stops at the
first it meets, so that the others are checked by leaving one in the file.

**Bounds.** The pool's interesting cases need a worker that pushes, one that
searches and one that is parked: three workers; with four jobs a job can be
queued, held, in the middle of a push and yet to come at once. Jobs are never
reused (`pushed` is history), which is what distinct heap objects are. The
scanner's tree has a directory whose listing is longer than the inline prefix by
one whole chunk and a partial one, a directory that fails, a file that may
vanish, two links of one inode in different directories, a symlink, and a mount
point with an entry behind it; `InlineLimit = 1`, `Chunk = 2` and
`FlushEvery = 2` put every boundary within reach. Five nodes allow deletion
below, above and beside an earlier deletion at depth three. The shell's disk is
a top directory with a file and two nested directories: nested deletions overlap,
a rescan of a subdirectory gives a smaller arena, and a partial failure can leave
a parent without its child. Two scans are what a late callback needs, two
deletions what an overlap needs. `Shell_deletes` leaves out the history keys, the
clearing of directories and the second scan because properties it checks fail
with them: `Shell_views`, `Shell_hang` and `Shell_late` lift exactly those
restrictions. `RemovedIsGone` and `AliveIsThere` speak only of trees
that no deletion has outlived (`OneTree`), and `Shell_late` drops that premise;
`RemovesScanned` compares what a deletion takes with what was scanned, at the
moment it touches the disk. It excuses a change by another program after the last
verification, which the field `since` of a dialog or task records: the code cannot
exclude it, and `Shell_verify` shows that for a permanent deletion and a clearing
the window is as long as the dialog is open.

For `Search` two edits are what it takes to have a pass of an overtaken query
and a refinement at once, and three scans to have an index of an earlier tree
land while a scan is still running. The four
paths of `Duplicates` are a file, a link of it, a copy and a look-alike that
differs in the middle only, so that each of the three passes has something to
tell apart. Two processes of the `Updater` are what a file in use and a crash
while another one starts need; the listings have a draft, a prerelease with and
without its flag, a tag that is no version, a missing digest and a foreign host.
In `Mft` the extents split records at every parity, a chunk holds two records
and the valid length ends inside a record; an answer may begin and end where an
extent does and at the clusters 5 and 9 (`Cuts`), which lie within an extent and
within a record, so that extents are split, repeated and trimmed; the volumes have a cycle, a record
that is its own parent, a damaged parent, several names and a file that moves.

**Fairness.** The operating system runs every runnable thread: weak fairness on
each worker's own steps, on the join, and on the scan thread. The executor runs
the background tasks of the shell and the interface thread their callbacks
(`Search`, `Updater`), and requests and downloads have timeouts in the code; what
the user may do is never owed. Cancelling, a
panic and a spurious wakeup are never owed. A parked worker without a token has
no step of its own, so a lost wakeup shows as a violation of the liveness
properties. Because a spurious wakeup is always possible, TLC's deadlock check
says little about parked workers; `ParkedHasWaker` and the liveness runs are
what cover them. `PoolDone` and `Delivered` let a finished system stay as it is.

## Proofs

TLC finds a mistake in a small instance; the theorems hold for every value of
the constants that the `ASSUME` of the module allows. An invariant that a run
checks is seldom inductive, so each module of proofs defines the one that is,
proves that `Init` gives it and that every action keeps it (one lemma per action
or group of actions), and draws the checked properties from it.

| Module | Theorem | States |
|---|---|---|
| `WorkerPool_proofs` | `PoolInvariant` | `PoolSpec => []IInv` |
| | `TypeCorrect` | the pool is well typed; the unsigned `pending` never wraps below zero |
| | `PendingIsExact` | `pending` is the number of outstanding jobs |
| | `TerminationIsExact` | nobody leaves an uncancelled pool with a job outstanding |
| | `NoLostWakeup` | whoever is parked without a token is registered, and a worker still owes the wakeup |
| | `StallUnreachable` | the stall check of `run_pool` never fires |
| | `PoolImplementsLedger` | every behaviour of the pool is one of JobLedger |
| `ScanModel_proofs` | `AggregateExact` | one backward pass gives every node the totals of its subtree |
| | `DeletionAggregates` | after a deletion the totals are those of what is left |
| `Shell_proofs`, on ModelDeletions | `TreeStaysSound` | `DeletionSpec => []Sound(tree)` |
| | `DeletionsAggregated`, `DeletionsClosed` | any deletions leave exact totals, and lists of exactly what is alive |
| | `DeletionsExact` | a deletion takes the live subtree of its target, its bytes, files and directories off every ancestor, and changes no other node |
| `Scanner_proofs` | `ScanInvariant` | `Spec => []ScanInv` |
| | `ScanTypes` | the scan is well typed |
| | `TreeIsFaithful`, `EntriesOnce`, `DeviceKept` | what is in the arena lies where the file system has it, with its kind and bytes, once, and on one device |
| | `OutcomeIsAggregated`, `LinksOnce` | the tree that is sent has exact totals, the bytes of an inode at one node |
| | `NothingLost` | a scan in which a worker panicked delivers no tree |
| | `WholeInvariant` | `Spec => []WholeInv`: nothing listed drops out, and every count is of something |
| | `CountersKept` | the counters and what the workers hold back are exactly what is in the arena |
| | `OutcomeIsWhole` | an outcome not marked cancelled lacks only what could not be read, each counted as one error |
| | `ScanKeepsContract` | every behaviour of a scan is one of ScanContract |
| `Shell_proofs` | `ShellInvariant` | `Spec => []ShellInv` |
| | `PlaceStaysValid` | every place the user can be taken to is a directory of the arena shown |
| | `TreeStaysAggregated` | the sizes shown are exact |
| | `RemovedStaysGone`, `AliveStaysThere` | tombstones are off the disk; what is shown is there, when only deletions changed the disk |
| | `DeletionsTakeScanned` | a deletion takes what was scanned, unless another program has been at work since it was verified |
| | `CurrentStaysAlive`, `WalkEnds` | without the history and "Clear contents" nobody stands in a deleted directory, and the walk out of one ends |
| | `TreemapStaysCurrent` | without "Clear contents" and the escape key the treemap of the first scan is fresh |
| `Search_proofs` | `MemmemExact` | the substring scan finds what occurs |
| | `SearchInvariant` | `Spec => []SearchInv` |
| | `HitsAreTrue`, `HitsAreAll` | no false and no missing hits |
| `Duplicates_proofs` | `ReportExact` | two passes of hashes find what comparing all contents would |
| | `DuplicatesInvariant` | `Spec => []DupInv` |
| | `ReportsAreExact`, `TickedOnly`, `TreeStaysTrue` | the three properties of the run |
| `Updater_proofs` | `UpdaterInvariant` | `Spec => []IInv` |
| | `OnlyAgreedBuildsRun`, `ExecutableStaysThere` | the two invariants of the run |
| `Mft_proofs` | `MftInvariant` | `Spec => []MftInv` |
| | `RecordsStayInPlace` | every entry was read from its own place, once, in order and in one piece, and none is passed over |
| | `TreeIsWhole` | the list that is built is a tree, and in which only a record on a cycle, or below one, may be missing or at the root instead of under the one it names |

**Assumptions.** Those of the modules: finitely many workers, at least one; the
file system of a scan is a finite tree, whose listings are disjoint and name
nothing twice; `Order` names every path of `Shell` and `Duplicates` once, in
`Shell` parents first; the chunk and flush sizes are positive; the bounds are
natural numbers, of any size; the file table has an extent, and two extents of it
share no cluster, which is what a file is on NTFS. `NoWayBack` and `AllBump` in `Shell_proofs` are
hypotheses of three theorems: they are the circumstances in which the property
holds, and `Shell_views` and `Shell_hang` show it violated outside them.

**WorkerPool.** `IInv` adds what the program counter
says about the job variables (`PcMatchesJob`), that a job is in one place only
(`JobsDistinct`: without it a completion could lower the count by one and remove
two jobs), the finiteness of the outstanding set, and `WaitersServed`, which is
the argument of the idle protocol: a worker between its registration and its
park is registered or holds a token; if it is registered and its search missed a
job, or lost a race, then some worker is between taking a job and waking
everybody (or has died there); if it has seen a count that is not zero, the
same holds. Four lemmas say what taking, announcing, publishing and completing
do to the outstanding set. The safety part of it is used again in Scanner, whose
steps are those of the pool with jobs that do something.

**ScanModel.** The reverse pass is a fold. `AggregateExact` follows it stage by
stage: before position k is folded, the nodes from k on hold the totals of their
subtrees, and those before k what has been folded into them. It needs that
children come after their parents, which is why the arena is one.
`DeletionAggregates` needs that the ancestors of a node are a chain, and that a
clamped subtraction never bites because a total is at least that of a part.

**ModelDeletions.** `Sound` is: an arena, whose lists are exact (`ListsExact`: a
parent of a live node is live, a list holds the live children and a tombstone
has none) and whose totals are (`AggregatesExact`). Neither of the last two is
inductive without the other: totals are kept because what is visited through the
lists is the live subtree.

**Scanner.** `ScanInv` has the pool's invariant (`PoolOK`), where each worker
stands in `process_job` and with what (`StagesOK`), and while the scan runs: the
arena mirrors the file system (`ArenaOK`), every job that was ever made names a
node of it and a part of the listing (`JobsOK`), no job is made twice
(`TodoFresh`), a directory that is not listed yet has no chunks (`Unspilled`) and,
the heart of it, `ClaimsOK`: an entry that is not in the arena yet is to be
inserted by at most one of the jobs that are still to run, and an entry that is
there by none. What is sent is described by `OutcomeOK` (with `Sized`: only a file with several links may have lost its bytes),
and `LinksOK` says that
the hard-link candidates, spread over the workers and the shared list, are
exactly those of the nodes.

`ScanInv` says that nothing is inserted twice; that nothing is forgotten is
`WholeInv`, with `Owed` for what the jobs still to run have to insert. While
nobody cancelled and no worker panicked, an entry that is listed, not in the
arena and not owed could not be read, and was counted (`Lossless`). Neither half
is inductive without the other: the insertion of a batch lowers `Owed` by what it
inserts only if no other job owes the same. A job is owed by whoever holds it, so
that the steps between a steal and an insertion change who and not what. When the
pool has ended nothing is owed, so that `SentOK` follows for the outcome; a
cancellation or a panic, the only ways to drop a job, decide its kind. For the
counters `CountsOK` adds what each worker has not flushed: a flush moves it, an
insertion adds to it what it adds to the arena, and a worker that is done has
flushed everything. The refinement maps an insertion to `Discover`, the two
deliveries to `Send`, a cancellation to `Stop`, and every other step to a stutter.

**Shell.** `ShellInv` has the types and that the disk is a tree (`DiskClosed`),
that there is no model while a scan runs (`JobOK`), that the model is a tree in
which a node stands for one path and lies in the node of its directory
(`ModelOK`), and about every deletion (`TasksOK`): while the tree is the one it
was asked for, its node and its path go together; what it was to remove is off
the disk once it has succeeded, and off the tree once it has come back. That is
what makes deletions which overlap and come back in any order commute: `Cut`
says that a callback takes off the tree exactly the nodes whose paths lie in the
region of the task, however often they were taken before. `Buried` is stronger
than `RemovedIsGone`: absent, not only another object, since a replaced object
could otherwise become the scanned one again. `Untouched` explains every absent
path by a deletion. The disk's `Under` is recursive along the directories, its
counterpart on the tree along the parents; `SubtreeUnder` shows that they are
the same on a tree that a scan made (`ScanTree`), and `ClearIs` that clearing a
directory child by child, in any order, takes what lies in it.
`DeletionsTakeScanned` needs an invariant of its own, `VerifiedInv`: as long as no
other program has been at work since the dialog was verified, its path holds the
scanned object or nothing. A scan may replace the model under an open dialog, whose
node then names something else; but that scan has read the disk after the dialog
was opened, so that what it lists is true too (`Fresh`), and Rymd's own deletions
only take objects away.

**Search.** `SearchInv`: the answers of the present generation are for the
active query and the present index, and at most one is awaited (`PassesOK`); as
long as not `mixed`, the index is that of the latest model, and when nothing is
awaited the results are what the query finds (`ResultsOK`). The attempt to prove
it showed that `mixed` had been defined too weakly: an index of an earlier model
that lands while a scan is running is kept as that of the scan's model. It takes
three scans to see, which the run has since.

**Duplicates.** `DupInv`: a detection knows the files it collected, and as long
as nobody touches them its hashes are theirs, in either pass (`TasksOK`); the
report is exact (`GroupsExact`); what is ticked, confirmed and about to be removed
has the node and the path of one file, as long as no answer for an earlier tree
has landed (`TicksFit`, `TargetsOK`); under the same premise a file is gone when
its node is a tombstone or a removal under way has taken it (`TombstonesOK`).
Here the attempt showed that the premise of `GroupsExact` was too weak: one link
of unknown identity is enough to collapse a file with another, so the premise
(`KnownApart`) now asks that an unidentified file is alone with its object.

**Updater.** `IInv` adds to the types what each state of the flow implies about
the offer, the file and the dialog (`ProcessOK`), that an install installs what
was agreed to (`Agreements`), that on Windows every process runs the executable
or the parked file (`Parking`), that without an overlap one process installs at a
time (`Alone`), and that what it has staged, parked and moved was agreed to
(`Agreed`).

**Mft.** `MftInv` follows the table from the map to the tree. The map holds pieces
of the table's extents, each beginning where the one before ends (`MapOK`),
whatever Windows cuts off or repeats: an answer is a part of the table's extents
(`IsAnswer`), of which dropping and trimming leave what begins where the map ends
(`TrimmedFits`, `ParsedFits`), and `MapsJoin` joins the two. The same holds of the run list, and so of what is read one
after the other (`LaidOut`). Of a table without holes (`Solid`) it follows that
the parser and the volume stand at the same sector (`StreamOK`): extents behind
each other plus the sectors read are the records taken plus the carry, whose
sectors are the first of the record that comes next. `SectorIs` then finds the
sector that was read in the table; here the extents must not overlap. A record made
of its own sectors, written before or after a rewriting, is kept as a whole; one
whose halves are of different times fails its fixup and is refused; and none is
passed over (`EntriesOK`). For the tree, `Grown` is followed node by node: the list
holds distinct records, each under the parent it names or under the root, the
children of the first k and no others. It never exceeds the entries, so the queue
is served to its end, and what is not in the list has a parent that is not
either. The attempt needed `SelectSeq`, which takes an operator, replaced by `Keep`.

**Induction.** The library's induction theorems take an operator as a parameter,
which the provers cannot instantiate. The proofs use induction over a set of
naturals instead (`NatSetInduction`, from the least element of the complement),
and from it over the positions of a sequence, over the subsets of a finite set
and along the paths; that is how the recursive functions and the folds are
followed.

**Only model-checked.** The liveness properties (`PoolTerminates`,
`ScanDelivers`, `QueryServed`, `BusyEnds`): fairness rests on ENABLED, which the
provers do not handle. Every invariant, action property and refinement that the
passing runs check is also a theorem. What the violated properties show is shown
by TLC alone, in an instance each, which is all it takes.

## Findings

The first is a run, and its entry in `PROJECT.json` quotes the lines it
contradicts; the others are shown by the configuration in parentheses, and the
properties quote theirs.

Scan and shell:

* A panic in one of several workers hangs the scan (`WorkerPool_panic`): the job
  is never completed, its siblings park for ever, the join never returns, the
  recorded message is never read, and cancelling wakes nobody. The comment on
  `panic_msg` promises a failure "instead of a silent hang".
* `worker_loop` runs with `ScanOptions::default()` (`Scanner_options`):
  `stay_on_filesystem = false` has no effect.
* A rescan of the directory that is open keeps the treemap cache
  (`TilesInArena` in `Shell_late`): its ids belong to the earlier arena, and the look-up of a tile
  outside the new one panics.
* A deletion that comes back after a rescan is applied to the new arena: it
  tombstones another node (`TombstonesTrue` in `Shell_late`) or panics (`Shell_stale`).
* The back key leads into deleted directories (`Shell_views`: `CurrentAlive`); from there, the
  return of an enclosed deletion spins for ever (`Shell_hang`).
* After "Clear contents" the treemap is stale (`TreemapCurrent`); after the deletion
  of the current directory the table stays there (`TableFollowsCurrent`); after
  a new scan the table is filtered and the treemap is not (`FilterAgrees`); all
  three are in `Shell_views`.
* `delete_permanently` and `clear_contents` do not verify again when the dialog
  is accepted (`Shell_verify`); a deletion that stops half-way claims that
  nothing changed (`ErrorMeansUntouched` in `Shell_views`).

Search and duplicates:

* A query that grows while the pass of the one before is in flight refines the
  results of a third query, and hits are missing for good (`Search_refine`).
* Names with capitals outside ASCII only are not folded (`Search_unicode`).
* An index or a duplicate report of an earlier tree is installed on the present
  one: rows then name other nodes, or ids that are not there and panic
  (`Search_late`), and files the user never ticked can be removed
  (`Duplicates_late`).
* Files whose identity is unknown are collapsed into links of one
  (`Duplicates_unknown`).
* A removal that skipped targets reports a plain success (`SkippedIsReported` in
  `Duplicates_unknown`).
  On Windows it always does: the dialog takes (0, 0) for the identity of every
  target, so one target is kept and then fails the verification.

Updates and the file table:

* A check the user asks for while the silent one of the start runs is dropped,
  and may never be answered (`Updater_unanswered`).
* Two processes that install at once share the staged path, and one can move into
  place what the other has begun to copy (`Updater_together`).
* Records on a cycle of parents are dropped, not attached to the root
  (`Mft_cycles`); of several Win32 names the last wins, not the first
  (`Mft_names`); a hole in the table's extent map gives the records behind it the
  numbers of others (`Mft_holes`). In module MftRecords one can also see that a
  directory's allocated size is always 0: `INDEX_ROOT` comes before
  `INDEX_ALLOCATION` in a record, and only the first is looked at.

## Not modelled, and what comes next

* **Proofs**, next: the liveness properties, should the provers come to handle
  ENABLED; until then the ranking arguments behind them (outstanding jobs, bytes
  left to download) could be stated as action properties and proved.
* The Linux and Windows system calls behind `enumerate` and `stat_names`: module
  Scanner chooses from what they may return.
* In the shell: the selection, zoom, sheets, columns, sorting, notifications. In
  the updater: dismissed versions, progress, a downgrade by an older prepared
  update, a power loss that loses writes. In the finder: cancelling, which the
  shell never does. In the NTFS reader: malformed bytes other than as an
  attribute that is skipped or fails its record.
* Out of reach: the squarified layout (floating-point geometry), the painting,
  the window set-up, the benchmark driver and the formatting helpers.
