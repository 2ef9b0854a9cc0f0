------------------------------- MODULE Shell -------------------------------
(***************************************************************************)
(* The shell around a scanned tree (src/src/ui/shell.rs): scans that       *)
(* replace one another, navigation with its history, the confirmed         *)
(* deletions that run in the background and come back with the id of a     *)
(* node, and the two views of the current directory, the table             *)
(* (file_table.rs) and the cached treemap (shell_render.rs).               *)
(*                                                                         *)
(* Handlers run one at a time on the interface thread; between them the    *)
(* background tasks, and other programs, change the disk.  A scan is a     *)
(* snapshot of the disk (module Scanner has its steps); NodeId k is        *)
(* position k + 1 of the arena and 0 stands for None.  The size metric,    *)
(* which behaves as the filter does, the selection, notifications, search  *)
(* and duplicates are left out.                                            *)
(***************************************************************************)
EXTENDS ScanModel

CONSTANTS
    Order,          \* every path once, parents first: the order a scan finds them
    Up,             \* path -> the directory it lies in, NoPath for the top
    NoPath,
    DirPaths,       \* the paths that are directories
    FilteredOut,    \* the paths the "narrow" filter hides
    Roots,          \* the folders the user may pick
    Ops,            \* the deletions the user asks for: "trash", "delete", "clear"
    Keys,           \* the shortcuts the user presses: "back", "forward", ...
    Filters,        \* the filters the user types; "plain" is the empty one
    MaxScans,       \* bound on the scans started
    MaxTasks,       \* bound on the deletions started
    MaxChanges,     \* bound on the changes other programs make
    MaxHistory      \* bound on the navigation history

Paths == ToSet(Order)

ASSUME ShellAssumption ==
    /\ Up \in [Paths -> DirPaths \union {NoPath}]
    /\ Roots \subseteq DirPaths /\ DirPaths \subseteq Paths /\ NoPath \notin Paths
    /\ Order \in Seq(Paths)
    /\ \A i, k \in DOMAIN Order : i # k => Order[i] # Order[k]
    /\ \A k \in DOMAIN Order : Up[Order[k]] \in {Order[i] : i \in 1..(k - 1)} \union {NoPath}
    /\ {MaxScans, MaxTasks, MaxChanges, MaxHistory} \subseteq Nat
    /\ Ops \subseteq {"trash", "delete", "clear"}
    /\ Keys \subseteq {"back", "forward", "parent", "escape"}
    /\ Filters \subseteq {"plain", "narrow"}

VARIABLES
    disk,       \* the object at each path: 0 absent, else its identity
    changes,    \* how often other programs interfered
    job,        \* AppShell::scan_job
    scans,      \* number of scans started
    model,      \* AppShell::model, <<>> for None
    current,    \* AppState::current_node
    back,       \* AppState::history_back
    forward,    \* AppState::history_forward
    filter,     \* AppState::filter
    table,      \* FileTableDelegate: its dir and its own filter
    cache,      \* AppShell::treemap_cache, and whether its version is current
    dialog,     \* the confirmation that is open
    tasks,      \* the deletions started so far
    status      \* "running", "hung" in a loop, or "crashed" by a panic

diskVars == <<disk, changes>>
scanVars == <<job, scans>>
placeVars == <<current, back, forward, filter, table>>
vars == <<diskVars, scanVars, model, placeVars, cache, dialog, tasks, status>>

NoModel == <<>>
NoDialog == [op |-> "none", node |-> 0, since |-> 0]
IdleJob == [phase |-> "none", root |-> NoPath, id |-> 0, arena |-> NoModel]

Init ==
    /\ disk = [p \in Paths |-> 1]
    /\ changes = 0
    /\ job = IdleJob
    /\ scans = 0
    /\ model = NoModel
    /\ current = 0
    /\ back = <<>>
    /\ forward = <<>>
    /\ filter = "plain"
    /\ table = [dir |-> 0, filter |-> "plain"]
    /\ cache = [items |-> <<>>, valid |-> FALSE]
    /\ dialog = NoDialog
    /\ tasks = <<>>
    /\ status = "running"

-----------------------------------------------------------------------------
(* The disk.                                                               *)

\* The path and everything under it.
Under(p) ==
    LET in[q \in Paths] == q = p \/ (Up[q] # NoPath /\ in[Up[q]]) IN {q \in Paths : in[q]}

Without(lost) == [p \in Paths |-> IF p \in lost THEN 0 ELSE disk[p]]

\* Another program replaces or removes an object, with what lies under it.
OtherProgram(p) ==
    /\ changes < MaxChanges
    /\ disk[p] # 0
    /\ changes' = changes + 1
    /\ \/ disk' = Without(Under(p))
       \/ disk' = [Without(Under(p)) EXCEPT ![p] = disk[p] + 1]
    /\ UNCHANGED <<scanVars, model, placeVars, cache, dialog, tasks, status>>

\* What a scan of r comes across, in the order of the disk.
Found(r) == Keep(Order, {p \in Under(r) : p = r \/ disk[p] # 0})

\* The arena of a scan of r.  Each node records the identity of its object, the
\* root the one it had when the scan began.
ScanOf(r, id) ==
    LET found == Found(r)
        pos(p) == CHOOSE k \in DOMAIN found : found[k] = p
        kids(p) == {k \in DOMAIN found : found[k] # r /\ Up[found[k]] = p}
        made(p) ==
            IF p = r THEN RootNode([path |-> r, id |-> id])
            ELSE Node([path |-> p, id |-> disk[p]], pos(Up[p]),
                      IF p \in DirPaths THEN "dir" ELSE "file", 1, {})
    IN  Aggregate([k \in DOMAIN found |-> [made(found[k]) EXCEPT !.children = kids(found[k])]])

-----------------------------------------------------------------------------
(* What the handlers read of the model.  An id outside the arena panics.   *)

Shown == model # NoModel
InArena(n) == n \in DOMAIN model
PathOf(n) == model[n].entry.path
Gone(n) == "tombstoned" \in model[n].flags

\* Variant: nothing is verified.
Unverified(n) == TRUE

\* verify_unchanged: the path still holds the object that was scanned.
Unchanged(n) == disk[PathOf(n)] = model[n].entry.id

\* The children of a directory that pass a filter.
Passing(dir, f) == {c \in model[dir].children : f = "narrow" => PathOf(c) \notin FilteredOut}

\* What treemap_inputs computes when it does not use its cache.
FreshItems ==
    [c \in {k \in Passing(current, filter) : model[k].agg > 0} |-> model[c].agg]

\* The nodes a click can reach: table rows, and tiles (those outside the arena
\* have crashed the frame that was to show them).
Offered == Passing(table.dir, table.filter) \union {c \in DOMAIN cache.items : InArena(c)}

\* Variant: a change of the view forgets to raise view_version.
StillValid == cache

\* view_version += 1
Bumped == [cache EXCEPT !.valid = FALSE]

\* The user acts on the window, which no dialog covers; most handlers then do
\* nothing without a model.
Uncovered == status = "running" /\ dialog = NoDialog
Free == Uncovered /\ Shown

-----------------------------------------------------------------------------
(* Scans.                                                                  *)

\* Variant: the place and the history survive the start of a scan.
KeepPlace == UNCHANGED placeVars

\* AppState::default().  The table belongs to no AppState.
ResetPlace ==
    /\ current' = 0
    /\ back' = <<>>
    /\ forward' = <<>>
    /\ filter' = "plain"
    /\ UNCHANGED table

\* start_scan: the model goes, and with the job the receiver of the scan that
\* was running.  A root that cannot be opened fails at once.
StartScan(r) ==
    /\ scans < MaxScans
    /\ scans' = scans + 1
    /\ model' = NoModel
    /\ ResetPlace
    /\ job' = [IdleJob EXCEPT !.phase = IF disk[r] = 0 THEN "failed" ELSE "running",
                              !.root = r, !.id = disk[r]]
    /\ UNCHANGED <<diskVars, cache, dialog, tasks, status>>

\* The folder picker is a window of its own: it answers when it likes.
OpenFolder(r) == status = "running" /\ StartScan(r)

\* on_rescan scans the directory that is open.
Rescan == Free /\ StartScan(PathOf(current))

ScanEnds ==
    /\ job.phase = "running"
    /\ job' = [job EXCEPT !.phase = "sent", !.arena = ScanOf(job.root, job.id)]
    /\ UNCHANGED <<diskVars, scans, model, placeVars, cache, dialog, tasks, status>>

\* The poller finds an outcome: finish_scan.
FinishScan ==
    /\ status = "running"
    /\ \/ /\ job.phase = "sent"
          /\ model' = job.arena
          /\ current' = Root
          /\ table' = [table EXCEPT !.dir = Root]
       \/ /\ job.phase = "failed"
          /\ UNCHANGED <<model, current, table>>
    /\ job' = IdleJob
    /\ UNCHANGED <<diskVars, scans, back, forward, filter, cache, dialog, tasks, status>>

-----------------------------------------------------------------------------
(* Navigation.                                                             *)

SetCurrentDir(n) ==
    /\ current' = n
    /\ table' = [table EXCEPT !.dir = n]
    /\ cache' = Bumped

\* navigate_to refuses what is deleted, what is no directory, and staying.
Visit(n) ==
    /\ ~Gone(n) /\ model[n].kind = "dir" /\ n # current
    /\ Len(back) < MaxHistory
    /\ back' = Append(back, current)
    /\ forward' = <<>>
    /\ SetCurrentDir(n)
    /\ UNCHANGED <<diskVars, scanVars, model, filter, dialog, tasks, status>>

NavigateTo(n) == Free /\ n \in Offered /\ Visit(n)

GoParent ==
    /\ Free
    /\ "parent" \in Keys
    /\ model[current].parent # 0
    /\ Visit(model[current].parent)

\* go_back and go_forward do not look at the node they return to.
GoBack ==
    /\ Free
    /\ "back" \in Keys
    /\ back # <<>>
    /\ forward' = Append(forward, current)
    /\ back' = Front(back)
    /\ SetCurrentDir(Last(back))
    /\ UNCHANGED <<diskVars, scanVars, model, filter, dialog, tasks, status>>

GoForward ==
    /\ Free
    /\ "forward" \in Keys
    /\ forward # <<>>
    /\ back' = Append(back, current)
    /\ forward' = Front(forward)
    /\ SetCurrentDir(Last(forward))
    /\ UNCHANGED <<diskVars, scanVars, model, filter, dialog, tasks, status>>

-----------------------------------------------------------------------------
(* Views.                                                                  *)

SetFilter(f) ==
    /\ Uncovered
    /\ f # filter
    /\ filter' = f
    /\ table' = [table EXCEPT !.filter = f]
    /\ cache' = Bumped
    /\ UNCHANGED <<diskVars, scanVars, model, current, back, forward, dialog, tasks, status>>

\* clear_escape empties the filter; whether emptying the input box also reports
\* a change, and so bumps the version, is the library's affair.
ClearEscape ==
    /\ Uncovered
    /\ "escape" \in Keys
    /\ filter # "plain"
    /\ filter' = "plain"
    /\ table' = [table EXCEPT !.filter = "plain"]
    /\ cache' \in {cache, Bumped}
    /\ UNCHANGED <<diskVars, scanVars, model, current, back, forward, dialog, tasks, status>>

\* A frame: treemap_inputs, then the names of the tiles are looked up.
Render ==
    /\ status = "running" /\ Shown
    /\ \/ /\ ~cache.valid
          /\ cache' = [items |-> FreshItems, valid |-> TRUE]
          /\ UNCHANGED status
       \/ /\ cache.valid
          /\ \E c \in DOMAIN cache.items : ~InArena(c)
          /\ status' = "crashed"
          /\ UNCHANGED cache
    /\ UNCHANGED <<diskVars, scanVars, model, placeVars, dialog, tasks>>

-----------------------------------------------------------------------------
(* Deletions.                                                              *)

\* confirm_trash, confirm_delete, confirm_clear_dir: a dialog opens if the item
\* is what was scanned, else a warning tells the user to rescan.  The field since
\* is a history: the changes other programs had made at the last verification.
Confirm(op, n) ==
    /\ Free
    /\ n \in Offered
    /\ op = "clear" => model[n].kind = "dir"
    /\ Unchanged(n)
    /\ dialog' = [op |-> op, node |-> n, since |-> changes]
    /\ UNCHANGED <<diskVars, scanVars, model, placeVars, cache, tasks, status>>

CancelDialog ==
    /\ status = "running"
    /\ dialog # NoDialog
    /\ dialog' = NoDialog
    /\ UNCHANGED <<diskVars, scanVars, model, placeVars, cache, tasks, status>>

\* trash_node verifies anew, the other two rely on what the dialog verified.
NewTask(op, n) ==
    [op |-> op, node |-> n, path |-> PathOf(n), expect |-> model[n].entry.id,
     since |-> IF op = "trash" THEN changes ELSE dialog.since,
     scan |-> scans, phase |-> "queued", ok |-> FALSE, touched |-> FALSE]

\* Variant: trash_node relies on the dialog too.
AllowedOnce(op, n) == op # "clear" => PathOf(n) # PathOf(Root)

\* trash_node verifies again and spares the root, delete_permanently spares the
\* root, clear_contents does neither.
Allowed(op, n) ==
    /\ op = "trash" => Unchanged(n)
    /\ op # "clear" => PathOf(n) # PathOf(Root)

\* The OK button.
Accept ==
    /\ status = "running"
    /\ dialog # NoDialog
    /\ Len(tasks) < MaxTasks
    /\ LET n == dialog.node IN
       IF Shown /\ ~InArena(n)
       THEN status' = "crashed" /\ UNCHANGED tasks
       ELSE /\ tasks' = IF Shown /\ Allowed(dialog.op, n)
                        THEN Append(tasks, NewTask(dialog.op, n)) ELSE tasks
            /\ UNCHANGED status
    /\ dialog' = NoDialog
    /\ UNCHANGED <<diskVars, scanVars, model, placeVars, cache>>

\* What a task is to remove.
Doomed(t) ==
    {q \in Under(t.path) : disk[q] # 0} \ (IF t.op = "clear" THEN {t.path} ELSE {})

\* fs_ops on a background thread.  The trash takes all or nothing; the other two
\* remove children before parents and stop at the first error.
Perform(k) ==
    /\ tasks[k].phase = "queued"
    /\ LET t == tasks[k] IN
       \E lost \in SUBSET Doomed(t), ok \in BOOLEAN :
         /\ \A q \in lost : Under(q) \intersect Doomed(t) \subseteq lost
         /\ IF ok THEN lost = Doomed(t) /\ disk[t.path] # 0
                  ELSE lost = {} \/ (t.op # "trash" /\ lost # Doomed(t))
         /\ disk' = Without(lost)
         /\ tasks' = [tasks EXCEPT ![k] = [t EXCEPT !.phase = "ended", !.ok = ok,
                                                    !.touched = lost # {}]]
    /\ UNCHANGED <<changes, scanVars, model, placeVars, cache, dialog, status>>

Returned(k) == tasks' = [tasks EXCEPT ![k].phase = "back"]

\* Variant: the result of the task is not looked at.
AlwaysOk(t) == TRUE

Succeeded(t) == t.ok

\* Variant: only the directory itself is refreshed.
ChildrenKept(n) == model

\* refresh_after_clear: every child goes.
Forget(c, m) == ApplyDeletion(m, c)
ChildrenGone(n) == FoldSet(Forget, model, model[n].children)

\* Variant: nobody leaves a deleted directory.
StayThere(m, parent) == current

\* Where apply_deletion_and_refresh leaves the user: out of a deleted directory
\* to the parent of what was deleted.
Landing(m, parent) == IF current \in Alive(m) \/ parent = 0 THEN current ELSE parent

\* Its loop: the parent it moves to is always the same one.
LoopsForever(m, parent) ==
    current \notin Alive(m) /\ parent # 0 /\ parent \notin Alive(m)

\* A trashed or deleted node comes back.
ApplyAndRefresh(n) ==
    LET m == ApplyDeletion(model, n)
        parent == model[n].parent
    IN  /\ model' = m
        /\ current' = Landing(m, parent)
        /\ status' = IF LoopsForever(m, parent) THEN "hung" ELSE status
        /\ cache' = Bumped

\* The callback of a task, on whatever model is there by then.
Callback(k) ==
    /\ status = "running"
    /\ tasks[k].phase = "ended"
    /\ Returned(k)
    /\ LET t == tasks[k] IN
       \/ /\ ~Succeeded(t) \/ ~Shown
          /\ UNCHANGED <<model, current, cache, status>>
       \/ /\ Succeeded(t) /\ Shown /\ ~InArena(t.node)
          /\ status' = "crashed"
          /\ UNCHANGED <<model, current, cache>>
       \/ /\ Succeeded(t) /\ InArena(t.node) /\ t.op # "clear"
          /\ ApplyAndRefresh(t.node)
       \/ /\ Succeeded(t) /\ InArena(t.node) /\ t.op = "clear"
          /\ model' = ChildrenGone(t.node)
          /\ UNCHANGED <<current, cache, status>>
    /\ UNCHANGED <<diskVars, scanVars, back, forward, filter, table, dialog>>

-----------------------------------------------------------------------------
Next ==
    \/ \E p \in Paths : OtherProgram(p)
    \/ \E r \in Roots : OpenFolder(r)
    \/ Rescan \/ ScanEnds \/ FinishScan
    \/ \E n \in DOMAIN model : NavigateTo(n)
    \/ GoParent \/ GoBack \/ GoForward
    \/ \E f \in Filters : SetFilter(f)
    \/ ClearEscape
    \/ Render
    \/ \E op \in Ops, n \in DOMAIN model : Confirm(op, n)
    \/ CancelDialog \/ Accept
    \/ \E k \in DOMAIN tasks : Perform(k) \/ Callback(k)

Spec == Init /\ [][Next]_vars

-----------------------------------------------------------------------------
(* Properties.                                                             *)

\* Whatever scans replace one another and whatever comes back late, the current
\* directory, the table and every entry of the history are directories of the
\* arena that is shown, so that navigation can never index outside it.
PlaceValid ==
    Shown =>
        \A n \in {current, table.dir} \union ToSet(back) \union ToSet(forward) :
            InArena(n) /\ model[n].kind = "dir"

\* The sizes shown are the sums over what the tree still holds, also when
\* deletions overlap, come back in another order, or hit a newer arena.
TreeAggregated == Shown => AggregatesExact(model)

\* No deletion has outlived the tree it was asked for.
OneTree == \A k \in DOMAIN tasks : tasks[k].scan = scans

\* "Remove a deleted entry from the model" (scan_model.rs:206): what is shown as
\* deleted is no longer on the disk.
TombstonesTrue == \A n \in DOMAIN model : Gone(n) => ~Unchanged(n)

\* The same while the tree is the one the deletions were asked for, in whatever
\* order they end and fail and whatever other programs do meanwhile.
RemovedIsGone == OneTree => TombstonesTrue

\* The converse: when nobody else changed the disk and every deletion has come
\* back, none of them broken off half-way, what is shown is on the disk.
AliveIsThere ==
    ( /\ changes = 0
      /\ OneTree
      /\ \A k \in DOMAIN tasks : tasks[k].phase = "back" /\ (tasks[k].touched => tasks[k].ok) )
        => \A n \in Alive(model) : Unchanged(n)

\* The treemap is "invalidated by view_version bumps (navigation, filter,
\* metric, deletions)" (shell.rs:52): a cache that passes for valid is what a
\* fresh computation would give.
TreemapCurrent == Shown /\ cache.valid => cache.items = FreshItems

\* "Tombstone every descendant so stale ids are rejected" (scan_model.rs:228):
\* the directory the user stands in is never a deleted one.
CurrentAlive == Shown => ~Gone(current)

\* At the moment it takes something off the disk, a deletion finds the object
\* that was scanned at its path, unless another program has been at work since
\* that object was last verified: for the trash since the dialog was answered, for
\* the other two since it opened.  Neither the deletions that run beside it nor a
\* scan that replaced the model under the dialog count as an excuse.
RemovesScanned ==
    [][\A k \in DOMAIN tasks :
          tasks[k].phase = "queued" /\ tasks'[k].touched =>
             disk[tasks[k].path] = tasks[k].expect \/ changes > tasks[k].since]_vars

\* "inode re-verification before every destructive action" (README.md:28).
VerifiedStart ==
    [][\A k \in DOMAIN tasks' \ DOMAIN tasks :
          disk[tasks'[k].path] = tasks'[k].expect]_vars

\* "walk up to the nearest surviving ancestor" (shell.rs:967): the walk ends.
SurvivorReached == status # "hung"

\* "Returns false when target is the root or no longer present" is promised of a
\* deletion that is applied to the model (scan_model.rs:208): the callback of a
\* task whose id is stale does not end the program.
CallbackSurvives == [][tasks' # tasks => status' # "crashed"]_vars

\* "look-alike directories can never serve stale rectangles" (view.rs:52): a
\* tile of the treemap names a node of the tree that is shown.
TilesInArena == Shown /\ cache.valid => DOMAIN cache.items \subseteq DOMAIN model

\* "Current directory shown by table and treemap" (state.rs:40).
TableFollowsCurrent == Shown => table.dir = current

\* "Treemap weights honor the active name filter like the table does"
\* (shell_render.rs:830).
FilterAgrees == Shown => table.filter = filter

\* "Nothing changed" (shell.rs:912) is what the user reads after a failure.
ErrorMeansUntouched ==
    \A k \in DOMAIN tasks : tasks[k].phase = "back" /\ ~tasks[k].ok => ~tasks[k].touched
=============================================================================
