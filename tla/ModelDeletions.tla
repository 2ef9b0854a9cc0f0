--------------------------- MODULE ModelDeletions ---------------------------
(***************************************************************************)
(* A scanned tree that lives on after the scan: any sequence of            *)
(* ScanModel::apply_deletion calls, on ids that may be stale, already      *)
(* deleted, the root, or out of range (src/src/model/scan_model.rs).       *)
(***************************************************************************)
EXTENDS ScanModel

CONSTANTS
    MaxNodes,   \* bound on the size of the initial trees
    Sizes       \* own bytes a node may have

ASSUME DeletionsAssumption == MaxNodes \in Nat \ {0} /\ Sizes \subseteq Nat

VARIABLE tree

\* The parents of n nodes: they come before their children.
Shapes(n) ==
    {p \in [1..n -> 0..(n - 1)] : p[Root] = 0 /\ \A i \in 2..n : p[i] \in 1..(i - 1)}

Build(parent, kind, size) ==
    [i \in DOMAIN parent |->
        [(IF i = Root THEN RootNode(Root) ELSE Node(i, parent[i], kind[i], size[i], {}))
            EXCEPT !.children = {c \in DOMAIN parent : parent[c] = i}]]

\* Every tree the scanner can hand over, up to MaxNodes.
Trees ==
    UNION {{Aggregate(Build(p, k, s)) :
               p \in Shapes(n), k \in [1..n -> {"dir", "file"}], s \in [1..n -> Sizes]}
           : n \in 1..MaxNodes}

ParentsAreDirs(t) == \A i \in DOMAIN t \ {Root} : t[t[i].parent].kind = "dir"

DeletionInit == tree \in {t \in Trees : ParentsAreDirs(t)}

Delete(target) == tree' = ApplyDeletion(tree, target)

DeletionNext == \E target \in 1..(MaxNodes + 1) : Delete(target)

DeletionSpec == DeletionInit /\ [][DeletionNext]_tree

-----------------------------------------------------------------------------
\* After any sequence of deletions the aggregates of every live node are the
\* sums over what is left of its subtree.
AlwaysAggregated == AggregatesExact(tree)

\* What was deleted stays deleted as a whole: below a tombstone everything is a
\* tombstone, and no child list leads from a live node to a dead one or misses
\* a live one.
TombstonesClosed == ListsExact(tree)

\* What becomes of node i when target goes: each ancestor loses what target had.
Shrunk(t, target, i) ==
    IF i \in Ancestors(t, target)
    THEN [t[i] EXCEPT !.agg = @ - t[target].agg,
                      !.files = @ - t[target].files,
                      !.dirs = @ - t[target].dirs,
                      !.children = @ \ {target}]
    ELSE t[i]

\* Whatever was deleted before, a deletion takes the live subtree of its target
\* and nothing else off the tree, and the bytes, files and directories of that
\* subtree off every ancestor; the clamp at zero never hides a difference, and no
\* other node that is left changes in any field.
DeletionExact ==
    [][\A target \in 1..(MaxNodes + 1) :
          Delete(target) /\ CanDelete(tree, target) =>
             /\ Alive(tree') = Alive(tree) \ Subtree(tree, target)
             /\ \A i \in Alive(tree') : tree'[i] = Shrunk(tree, target, i)]_tree
=============================================================================
