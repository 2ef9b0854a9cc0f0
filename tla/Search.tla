------------------------------- MODULE Search -------------------------------
(***************************************************************************)
(* Global search: the index of names (src/src/search.rs) and the protocol  *)
(* by which the shell keeps its results (src/src/ui/shell.rs), where       *)
(* indices are built and full passes run in the background while the user  *)
(* types and rescans.                                                      *)
(*                                                                         *)
(* A name is a sequence of letters, an arena a sequence of names (NodeId k *)
(* is position k + 1).  Answers come back in any order.  A pass carries    *)
(* the generation it was started in; an index build carries none.  Of the  *)
(* scans only what search reacts to is kept; nodes deleted from the tree   *)
(* stay in the index.                                                      *)
(***************************************************************************)
EXTENDS Integers, Sequences, FiniteSets, FiniteSetsExt, SequencesExt

CONSTANTS
    Lower,          \* letter -> its lower-case form
    AsciiUpper,     \* the ASCII capitals among the letters
    Arenas,         \* the arenas a scan may deliver
    Texts,          \* what may stand in the search field
    MaxScans,       \* bound on the scans started
    MaxTyped        \* bound on the edits of the search field

Letters == DOMAIN Lower

ASSUME SearchAssumption ==
    /\ \A c \in Letters : Lower[c] \in Letters /\ Lower[Lower[c]] = Lower[c]
    /\ AsciiUpper \subseteq {c \in Letters : Lower[c] # c}
    /\ Arenas \subseteq Seq(Seq(Letters))
    /\ Texts \subseteq Seq(Letters)
    /\ MaxScans \in Nat /\ MaxTyped \in Nat

VARIABLES
    models,     \* the arenas delivered so far; the last one is the latest
    shown,      \* AppShell::model is Some
    scanning,   \* a scan runs
    scans,      \* number of scans started
    input,      \* the text of the search field
    typed,      \* number of edits
    index,      \* AppShell::search_index: the model it was built from, 0 for None
    builds,     \* the models whose index is being built
    active,     \* AppShell::search_query_active
    results,    \* AppShell::search_results
    generation, \* AppShell::search_generation
    passes,     \* the full passes in flight: generation, query, index
    hurried,    \* history: results were refined while a pass was in flight
    mixed,      \* history: an index of an earlier model than the latest landed
    status      \* "running" or "crashed"

scanVars == <<models, shown, scanning, scans>>
history == <<hurried, mixed>>
vars == <<scanVars, input, typed, index, builds, active, results, generation,
          passes, history, status>>

Init ==
    /\ models = <<>> /\ shown = FALSE /\ scanning = FALSE /\ scans = 0
    /\ input = <<>> /\ typed = 0
    /\ index = 0 /\ builds = {}
    /\ active = <<>> /\ results = {} /\ generation = 0 /\ passes = {}
    /\ hurried = FALSE /\ mixed = FALSE
    /\ status = "running"

-----------------------------------------------------------------------------
(* search.rs                                                               *)

LowerCase(text) == [k \in DOMAIN text |-> Lower[text[k]]]

\* A name without ASCII capitals is taken as it is.
Normalize(name) ==
    IF \A k \in DOMAIN name : name[k] \notin AsciiUpper THEN name ELSE LowerCase(name)

\* Variant: the last position where the needle fits is not tried.
MemmemShort(hay, needle) ==
    \E k \in 1..(Len(hay) - Len(needle)) : SubSeq(hay, k, k + Len(needle) - 1) = needle

\* The substring scan, from one occurrence of the first letter to the next.
Memmem(hay, needle) ==
    LET last == Len(hay) - Len(needle) + 1
        from[start \in 1..(Len(hay) + 1)] ==
            LET firsts == {k \in start..Len(hay) : hay[k] = needle[1]} IN
            IF firsts = {} THEN FALSE
            ELSE LET i == Min(firsts) IN
                 /\ i <= last
                 /\ SubSeq(hay, i, i + Len(needle) - 1) = needle \/ from[i + 1]
    IN  Len(needle) = 0 \/ from[1]

\* SearchIndex::build: one normalized name per node.
Names(m) == [k \in DOMAIN models[m] |-> Normalize(models[m][k])]

Find(m, query) ==
    IF query = <<>> THEN {} ELSE {k \in DOMAIN models[m] : Memmem(Names(m)[k], query)}

\* Refine indexes the names with the ids it is given.
RefinePanics(m, previous) == ~ previous \subseteq DOMAIN models[m]

Refine(m, previous, query) == {k \in previous : Memmem(Names(m)[k], query)}

-----------------------------------------------------------------------------
(* shell.rs: the search of a text with a given index.                      *)

ClearSearch(bumps) ==
    /\ results' = {}
    /\ active' = <<>>
    /\ generation' = generation + bumps

InFlight == \E p \in passes : p.generation = generation

RunSearch(text, ix) ==
    LET query == LowerCase(text)
        extends == active # <<>> /\ IsPrefix(active, query) /\ results # {}
    IN
    \/ /\ query = <<>>
       /\ ClearSearch(1)
       /\ hurried' = FALSE
       /\ UNCHANGED <<passes, status>>
    \/ \* The query grew: what is there is filtered again.
       /\ query # <<>> /\ extends
       /\ generation' = generation + 1
       /\ active' = query
       /\ hurried' = (hurried \/ InFlight)
       /\ results' = IF ix = 0 \/ RefinePanics(ix, results) THEN {}
                     ELSE Refine(ix, results, query)
       /\ status' = IF ix # 0 /\ RefinePanics(ix, results) THEN "crashed" ELSE status
       /\ UNCHANGED passes
    \/ \* Another query: a full pass, until which the old results stay.
       /\ query # <<>> /\ ~ extends
       /\ active' = query
       /\ generation' = generation + 1
       /\ hurried' = FALSE
       /\ IF ix = 0 THEN results' = {} /\ UNCHANGED passes
          ELSE /\ passes' = passes \union
                     {[generation |-> generation + 1, query |-> query, index |-> ix]}
               /\ UNCHANGED results
       /\ UNCHANGED status

-----------------------------------------------------------------------------
(* The handlers.                                                           *)

StartScan ==
    /\ status = "running" /\ scans < MaxScans
    /\ scans' = scans + 1
    /\ scanning' = TRUE
    /\ shown' = FALSE
    /\ UNCHANGED <<models, input, typed, index, builds, active, results, generation,
                   passes, history, status>>

\* finish_scan with reset_search and build_search_index: both clear.
FinishScan(arena) ==
    /\ status = "running" /\ scanning
    /\ scanning' = FALSE
    /\ shown' = TRUE
    /\ models' = Append(models, arena)
    /\ ClearSearch(2)
    /\ index' = 0
    /\ builds' = builds \union {Len(models) + 1}
    /\ hurried' = FALSE /\ mixed' = FALSE
    /\ UNCHANGED <<scans, input, typed, passes, status>>

ScanFails ==
    /\ status = "running" /\ scanning
    /\ scanning' = FALSE
    /\ UNCHANGED <<models, shown, scans, input, typed, index, builds, active, results,
                   generation, passes, history, status>>

\* An input event; the field is there while a model is.
Type(text) ==
    /\ status = "running" /\ shown
    /\ text # input /\ typed < MaxTyped
    /\ input' = text
    /\ typed' = typed + 1
    /\ RunSearch(text, index)
    /\ UNCHANGED <<scanVars, index, builds, mixed>>

\* Variant: the search that was waiting for the index is not run.
IndexBuiltOnly(m) ==
    /\ status = "running" /\ m \in builds
    /\ builds' = builds \ {m}
    /\ index' = m
    /\ mixed' = (mixed \/ m # Len(models))
    /\ UNCHANGED <<scanVars, input, typed, active, results, generation, passes, hurried, status>>

\* The callback of build_search_index.
IndexBuilt(m) ==
    /\ status = "running" /\ m \in builds
    /\ builds' = builds \ {m}
    /\ index' = m
    /\ mixed' = (mixed \/ m # Len(models))
    /\ \/ input # <<>> /\ RunSearch(input, m)
       \/ input = <<>> /\ UNCHANGED <<active, results, generation, passes, hurried, status>>
    /\ UNCHANGED <<scanVars, input, typed>>

\* Variant: every answer is stored.
AnswerUnguarded(p) ==
    /\ status = "running" /\ p \in passes
    /\ passes' = passes \ {p}
    /\ results' = Find(p.index, p.query)
    /\ UNCHANGED <<scanVars, input, typed, index, builds, active, generation, history, status>>

\* A full pass is back; an older one than the latest is discarded.
Answer(p) ==
    /\ status = "running" /\ p \in passes
    /\ passes' = passes \ {p}
    /\ results' = IF p.generation = generation THEN Find(p.index, p.query) ELSE results
    /\ UNCHANGED <<scanVars, input, typed, index, builds, active, generation, history, status>>

\* The rows are there while a query is active; a row or a click on one looks its
\* node up in the model, and open_search_result clears the search.
ShowsRows == status = "running" /\ shown /\ active # <<>>

OpenSearchResult(n) ==
    /\ ShowsRows /\ n \in results
    /\ input' = <<>>
    /\ ClearSearch(1)
    /\ hurried' = FALSE
    /\ status' = IF n \in DOMAIN Last(models) THEN status ELSE "crashed"
    /\ UNCHANGED <<scanVars, typed, index, builds, passes, mixed>>

\* A frame resolves every row, and panics on an id outside the arena.
FramePanics ==
    /\ ShowsRows /\ ~ results \subseteq DOMAIN Last(models)
    /\ status' = "crashed"
    /\ UNCHANGED <<scanVars, input, typed, index, builds, active, results, generation,
                   passes, history>>

Next ==
    \/ StartScan \/ ScanFails \/ FramePanics
    \/ \E arena \in Arenas : FinishScan(arena)
    \/ \E text \in Texts : Type(text)
    \/ \E m \in builds : IndexBuilt(m)
    \/ \E p \in passes : Answer(p)
    \/ \E n \in results : OpenSearchResult(n)

\* The background executor runs what it was given and the interface thread its
\* callbacks; the user owes nothing.
Fairness ==
    /\ WF_vars(\E m \in builds : IndexBuilt(m))
    /\ WF_vars(\E p \in passes : Answer(p))

Spec == Init /\ [][Next]_vars /\ Fairness

-----------------------------------------------------------------------------
(* What a search promises.                                                 *)

\* A name matches when it contains the query, the case of letters aside.
Spells(name, query) ==
    \E k \in 0..(Len(name) - Len(query)) :
        \A i \in DOMAIN query : Lower[name[k + i]] = query[i]

Matches(m, query) == {k \in DOMAIN models[m] : Spells(models[m][k], query)}

\* Names with capitals outside ASCII only, which Normalize leaves as they are.
Unfolded(m) ==
    {k \in DOMAIN models[m] : LowerCase(models[m][k]) # Normalize(models[m][k])}

\* Nothing the shown results wait for is under way.
Settled == shown /\ active # <<>> /\ index # 0 /\ ~ InFlight

\* While no index of an earlier model than the latest has landed, the
\* results are nodes of it, no handler panics, and once the latest pass is in,
\* every hit contains the query: passes that were overtaken by other queries,
\* by scans or by an opened hit leave nothing behind (run_search, search.rs:11).
NoFalseHits ==
    ~ mixed =>
        /\ status = "running"
        /\ shown => results \subseteq DOMAIN Last(models)
        /\ Settled => results \subseteq Matches(Len(models), active)

\* Under the same premise nothing is missing either, unless the query was
\* extended while the pass of the one before was in flight (the results that
\* were refined then belong to a third query), names that Normalize does not
\* fold aside.  So refinement gives what a full search would (search.rs:165).
NoMissingHits ==
    (Settled /\ ~ mixed /\ ~ hurried) =>
        Matches(Len(models), active) \ Unfolded(Len(models)) \subseteq results

\* What stands in the search field is what is searched for in the end: a text
\* typed before the index was there, or kept over a rescan, is not forgotten
\* (build_search_index runs the search that waited).
QueryServed ==
    <>[](shown /\ status = "running" => index # 0 /\ ~ InFlight /\ active = LowerCase(input))

\* Violated: "a changed (non-extending) query falls back to a full pass"
\* (search.rs:10), and refining equals a full search (search.rs:177).
RefinementIsComplete ==
    (Settled /\ ~ mixed) => Matches(Len(models), active) \ Unfolded(Len(models)) \subseteq results

\* Violated: "lossy UTF-8, lowercased" (search.rs:3), "Unicode-aware otherwise"
\* (search.rs:73): capitals outside ASCII stay when no ASCII capital is there.
CaseIgnored ==
    (Settled /\ ~ mixed /\ ~ hurried) => Matches(Len(models), active) \subseteq results

\* Violated: the results belong to the model that is shown, whatever index
\* lands ("search over a completed ScanModel", search.rs:1).
HitsInArena == status = "running" /\ (shown => results \subseteq DOMAIN Last(models))
=============================================================================
