----------------------------- MODULE MCScanner -----------------------------
(***************************************************************************)
(* A small file system for TLC: a listing that spills two metadata chunks, *)
(* a sub-directory that may refuse to open, a file that may vanish, two    *)
(* links of one inode in different directories, a symlink, and a mount     *)
(* point with a file behind it.                                            *)
(***************************************************************************)
EXTENDS Scanner

CONSTANTS w1, w2, root, sub, mnt, lost, link1, link2, sym, far

MCWorkers == {w1, w2}
MCEntries == {sub, mnt, lost, link1, link2, sym, far}
MCKind == [e \in MCEntries |->
    IF e \in {sub, mnt} THEN "dir" ELSE IF e = sym THEN "symlink" ELSE "file"]
MCListing == [d \in {root, sub, mnt} |->
    IF d = root THEN <<lost, sub, link1, sym>>
    ELSE IF d = sub THEN <<link2, mnt>>
    ELSE <<far>>]
\* Powers of two: every subset has its own sum.
MCBytes == [e \in MCEntries |->
    IF e = lost THEN 1 ELSE IF e = sub THEN 2 ELSE IF e \in {link1, link2} THEN 4
    ELSE IF e = sym THEN 8 ELSE IF e = mnt THEN 16 ELSE 32]
MCDevice == [e \in MCEntries \union {root} |-> IF e \in {mnt, far} THEN 2 ELSE 1]
MCInode == [e \in MCEntries |->
    IF e \in {link1, link2} THEN 1 ELSE IF e = lost THEN 2 ELSE IF e = sub THEN 3
    ELSE IF e = sym THEN 4 ELSE IF e = mnt THEN 5 ELSE 6]
MCMultiLink == {link1, link2}
MCFlaky == {lost, sub}

\* A smaller tree for the run with panics and liveness: a spilled chunk and a
\* sub-directory that may refuse to open.
SmallEntries == {sub, link1, link2}
SmallListing == [d \in {root, sub} |-> IF d = root THEN <<link1, sub>> ELSE <<link2>>]
SmallKind == [e \in SmallEntries |-> MCKind[e]]
SmallBytes == [e \in SmallEntries |-> MCBytes[e]]
SmallFlaky == {sub}
=============================================================================
