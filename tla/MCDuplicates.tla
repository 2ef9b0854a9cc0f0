---------------------------- MODULE MCDuplicates ----------------------------
\* Instances of Duplicates: a file, a link of it, a copy, and a file that differs
\* from them in the middle only; a fresh object other programs may bring.
EXTENDS Duplicates

CONSTANTS p, q, r, s, nothing

MCOrder == <<p, q, r, s>>
MCObjects == {"o1", "o2", "o3", "fresh"}
MCFirst == [x \in {p, q, r, s} |->
                CASE x \in {p, q} -> "o1" [] x = r -> "o2" [] x = s -> "o3"]
MCContent == [o \in MCObjects |-> IF o \in {"o1", "o2"} THEN "aba" ELSE "aca"]
MCEnds == [c \in {"aba", "aca"} |-> "a_a"]
MCSize == [c \in {"aba", "aca"} |-> 1]
Both == {"unix", "windows"}
Unix == {"unix"}
Windows == {"windows"}
None == {}
OneCopy == {r}
Everything == {p, q, r, s}
=============================================================================
