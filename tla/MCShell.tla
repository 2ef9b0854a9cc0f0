------------------------------ MODULE MCShell ------------------------------
\* Instances of Shell: two nested directories and a file under the top one.
EXTENDS Shell

CONSTANTS top, a, b, f, nowhere

MCOrder == <<top, a, b, f>>
MCUp == [p \in {top, a, b, f} |->
            CASE p = top -> nowhere [] p = b -> a [] OTHER -> top]
MCDirs == {top, a, b}
MCHidden == {f}
MCRoots == {top}
NoHistoryKeys == {"parent"}
HistoryKeys == {"back", "forward", "parent"}
AllKeys == HistoryKeys \union {"escape"}
EscapeKey == {"escape"}
NoKeys == {}
Trash == {"trash"}
Delete == {"delete"}
Clear == {"clear"}
TrashDelete == {"trash", "delete"}
TrashClear == {"trash", "clear"}
AllOps == {"trash", "delete", "clear"}
PlainOnly == {"plain"}
BothFilters == {"plain", "narrow"}
=============================================================================
