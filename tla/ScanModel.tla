----------------------------- MODULE ScanModel -----------------------------
(***************************************************************************)
(* The arena tree of a scan (src/src/model/scan_model.rs, node.rs): the    *)
(* nodes, the single reverse pass that aggregates them, and the operations *)
(* that update them after a scan.                                          *)
(*                                                                         *)
(* An arena is a sequence of node records; NodeId k of the code is         *)
(* position k + 1, and the parent of the root is 0.  The code keeps every  *)
(* byte count twice, logical and allocated, and treats both alike: one     *)
(* count stands for the pair.  Names, times and the issue list are left    *)
(* out; "entry" identifies the file-system entry a node was made from.     *)
(***************************************************************************)
EXTENDS Integers, Sequences, FiniteSets, FiniteSetsExt, SequencesExt

Root == 1

Node(entry, parent, kind, bytes, flags) ==
    [entry |-> entry, parent |-> parent, kind |-> kind,
     own |-> bytes, agg |-> bytes,
     files |-> IF kind = "file" THEN 1 ELSE 0,
     dirs |-> IF kind = "dir" THEN 1 ELSE 0,
     children |-> {}, flags |-> flags]

\* The elements of a sequence that are in S, in their order.
Keep(s, S) ==
    LET kept[k \in 0..Len(s)] ==
            IF k = 0 THEN <<>>
            ELSE IF s[k] \in S THEN Append(kept[k - 1], s[k]) ELSE kept[k - 1]
    IN  kept[Len(s)]

\* The root is pushed before the scan starts and counts neither itself nor its
\* own blocks.
RootNode(entry) == [Node(entry, 0, "dir", 0, {}) EXCEPT !.dirs = 0]

-----------------------------------------------------------------------------
\* One iteration of the aggregation pass: node ix is folded into its parent.
FoldIntoParent(ix, nodes) ==
    LET n == nodes[ix] IN
    IF n.parent = 0 THEN nodes
    ELSE [nodes EXCEPT ![n.parent].agg = @ + n.agg,
                       ![n.parent].files = @ + n.files,
                       ![n.parent].dirs = @ + n.dirs]

\* From the last index down to the first child of the root.
Aggregate(nodes) ==
    FoldRight(FoldIntoParent, [k \in 1..(Len(nodes) - 1) |-> k + 1], nodes)

\* The chain of parents of a node, the node excluded.
Ancestors(nodes, ix) ==
    LET up[i \in DOMAIN nodes] ==
            IF nodes[i].parent = 0 THEN {}
            ELSE {nodes[i].parent} \union up[nodes[i].parent]
    IN  up[ix]

-----------------------------------------------------------------------------
\* Variant: only the direct parent is adjusted.
AdjustParentOnly(nodes, start, bytes, files, dirs) ==
    IF nodes[start].parent = 0 THEN nodes
    ELSE [nodes EXCEPT ![nodes[start].parent].agg = @ + bytes,
                       ![nodes[start].parent].files = @ + files,
                       ![nodes[start].parent].dirs = @ + dirs]

\* adjust_ancestors: signed deltas, each field clamped at zero.
AdjustAncestors(nodes, start, bytes, files, dirs) ==
    LET Plus(x, d) == Max({x + d, 0})
        above == Ancestors(nodes, start)
    IN  [ix \in DOMAIN nodes |->
            IF ix \in above
            THEN [nodes[ix] EXCEPT !.agg = Plus(@, bytes),
                                   !.files = Plus(@, files),
                                   !.dirs = Plus(@, dirs)]
            ELSE nodes[ix]]

\* What the stack of apply_deletion visits: the target and everything reached
\* from it through the child lists.
Detached(nodes, target) ==
    LET below[k \in 0..Len(nodes)] ==
            IF k = 0 THEN {target}
            ELSE below[k - 1] \union UNION {nodes[ix].children : ix \in below[k - 1]}
    IN  below[Len(nodes)]

CanDelete(nodes, target) ==
    /\ target # Root
    /\ target \in DOMAIN nodes
    /\ "tombstoned" \notin nodes[target].flags

\* Variant: only the target is tombstoned, its subtree is forgotten.
TombstoneTargetOnly(nodes, target) ==
    [ix \in DOMAIN nodes |->
        IF ix = target
        THEN [nodes[ix] EXCEPT !.flags = @ \union {"tombstoned"}, !.children = {}]
        ELSE IF ix = nodes[target].parent
        THEN [nodes[ix] EXCEPT !.children = @ \ {target}]
        ELSE nodes[ix]]

\* Flag the subtree, empty its child lists and unlink it from its parent.
Tombstone(nodes, target) ==
    LET gone == Detached(nodes, target) IN
    [ix \in DOMAIN nodes |->
        IF ix \in gone
        THEN [nodes[ix] EXCEPT !.flags = @ \union {"tombstoned"}, !.children = {}]
        ELSE IF ix = nodes[target].parent
        THEN [nodes[ix] EXCEPT !.children = @ \ {target}]
        ELSE nodes[ix]]

\* Variant: the guard against a second deletion is missing.
DeleteUnguarded(nodes, target) ==
    IF target \notin DOMAIN nodes \ {Root} THEN nodes
    ELSE LET n == nodes[target] IN
         AdjustAncestors(Tombstone(nodes, target), target, -n.agg, -n.files, -n.dirs)

ApplyDeletion(nodes, target) ==
    IF ~CanDelete(nodes, target) THEN nodes
    ELSE LET n == nodes[target] IN
         AdjustAncestors(Tombstone(nodes, target), target, -n.agg, -n.files, -n.dirs)

-----------------------------------------------------------------------------
(* Reference definitions the algorithms above are checked against.         *)

Alive(nodes) == {ix \in DOMAIN nodes : "tombstoned" \notin nodes[ix].flags}

Subtree(nodes, ix) == {i \in DOMAIN nodes : i = ix \/ ix \in Ancestors(nodes, i)}

\* The parent of a live node is live; a child list leads to the live children of
\* a live node and to nothing else, and a tombstone has none.
ListsExact(nodes) ==
    \A ix \in DOMAIN nodes :
        /\ ix \in Alive(nodes) /\ nodes[ix].parent # 0 => nodes[ix].parent \in Alive(nodes)
        /\ ix \in Alive(nodes) => nodes[ix].children = {c \in Alive(nodes) : nodes[c].parent = ix}
        /\ ix \notin Alive(nodes) => nodes[ix].children = {}

Own(nodes) == [ix \in DOMAIN nodes |-> nodes[ix].own]

\* The aggregates of a live node are those of the live part of its subtree.
\* The root does not count itself as a directory.
AggregatesExact(nodes) ==
    \A ix \in Alive(nodes) :
        LET live == Subtree(nodes, ix) \intersect Alive(nodes) IN
        /\ nodes[ix].agg = SumFunctionOnSet(Own(nodes), live)
        /\ nodes[ix].files = Cardinality({i \in live : nodes[i].kind = "file"})
        /\ nodes[ix].dirs = Cardinality({i \in live \ {Root} : nodes[i].kind = "dir"})
=============================================================================
