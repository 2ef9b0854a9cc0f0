------------------------------ MODULE MCSearch ------------------------------
\* Instances of Search: two letters in both cases, one of them outside ASCII.
EXTENDS Search

MCLower == [c \in {"a", "A", "o", "O"} |-> IF c \in {"a", "A"} THEN "a" ELSE "o"]
MCAsciiUpper == {"A"}

\* "O" stands for a capital outside ASCII: "Oa" is not folded.  "oaoo" needs the
\* scan to go on after its first "o"; "oo" matches nothing that "a" does.
MCArenas == {<< <<"A", "O">>, <<"o", "o">>, <<"O", "a">> >>, << <<"o", "a", "o", "o">> >>}
MCTexts == {<<>>, <<"a">>, <<"O">>, <<"o", "o">>, <<"o", "a">>}
=============================================================================
