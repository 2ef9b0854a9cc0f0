------------------------------- MODULE MCMft -------------------------------
\* Instances of Mft: records of two sectors; record 0 is metadata, 1 the root,
\* 2 to 4 are files and directories, 5 lies beyond the valid length.
EXTENDS Mft

Name(namespace, parent, name) ==
    [type |-> "name", fault |-> "none", namespace |-> namespace, parent |-> parent,
     name |-> name, length |-> 1]
Unreadable == [type |-> "name", fault |-> "skipped", namespace |-> "DOS", parent |-> 0,
               name |-> "z", length |-> 1]
Data(named, real) ==
    [type |-> "data", fault |-> "none", named |-> named, real |-> real, allocated |-> 8]
Index(allocated) == [type |-> "index", allocated |-> allocated]
Bad(attribute) == [attribute EXCEPT !.fault = "fatal"]

Dir(parent) == [inUse |-> TRUE, dir |-> TRUE,
                attributes |-> <<Name("Win32", parent, "d"), Index(0), Index(4)>>]
File(names) == [inUse |-> TRUE, dir |-> FALSE, attributes |-> names \o <<Data(TRUE, 9), Data(FALSE, 3)>>]
Plain(parent) == File(<<Name("both", parent, "f")>>)
Free == [inUse |-> FALSE, dir |-> FALSE, attributes |-> <<>>]
Broken == File(<<Bad(Name("Win32", 1, "x"))>>)
Linked == File(<<Name("DOS", 1, "f~1"), Name("Win32", 2, "f"), Unreadable, Name("Win32", 1, "g")>>)
Legacy == File(<<Name("POSIX", 2, "p"), Name("DOS", 2, "q")>>)

Stays(raw) == <<raw, raw>>
MCVolumes == {
    \* A file with several names; one that moves while the table is read.
    <<Stays(Free), Stays(Dir(1)), Stays(Dir(1)), <<Plain(2), Plain(1)>>, Stays(Linked), Stays(Plain(2))>>,
    \* Two directories in each other, one more below, and a child of metadata.
    <<Stays(Plain(1)), Stays(Dir(1)), <<Dir(3), Dir(1)>>, Stays(Dir(2)), <<Plain(0), Plain(3)>>, Stays(Free)>>,
    \* A damaged directory with a child, and a file that is its own parent.
    <<Stays(Free), Stays(Dir(1)), Stays(Broken), Stays(Legacy), <<Plain(4), Free>>, Stays(Free)>>}
Numbered(v) == [r \in 0..5 |-> v[r + 1]]
MCNumbered == {Numbered(v) : v \in MCVolumes}

At(lcn, clusters) == [lcn |-> lcn, clusters |-> clusters]
MCLayouts == {<<At(20, 12)>>, <<At(20, 3), At(5, 5), At(30, 4)>>, <<At(7, 7), At(2, 1), At(14, 4)>>}
MCHoles == {<<At(20, 6), At(None, 2), At(5, 6)>>, <<At(20, 6), At(None, 4), At(5, 2)>>}
MCAllLayouts == MCLayouts \union MCHoles
\* Within an extent of each layout, and within a record.
MCCuts == {5, 9}
MCValid == {10, 9}
=============================================================================
