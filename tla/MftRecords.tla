----------------------------- MODULE MftRecords -----------------------------
(***************************************************************************)
(* The pure layer of the NTFS master file table reader                     *)
(* (src/src/scan/platform/mft.rs): records and their attributes, extent    *)
(* maps, and the hierarchy that is rebuilt from the parent references.     *)
(*                                                                         *)
(* Bytes are abstracted to what is read out of them.  A record is RS       *)
(* sectors; a sector of the table is the record it belongs to, its place   *)
(* in it and the update sequence number it was written with.  Offsets and  *)
(* lengths count sectors, and a cluster is one sector.                     *)
(***************************************************************************)
EXTENDS Integers, Sequences, FiniteSets, SequencesExt

CONSTANTS
    RS,             \* sectors per record
    Meta,           \* META_RECORDS: the numbers below it are not user data
    Root            \* ROOT_RECORD, one of those

ASSUME RecordsAssumption == RS \in Nat \ {0} /\ Meta \in Nat \ {0} /\ Root \in 0..(Meta - 1)

None == -1

\* The elements of a sequence that are in S, in their order.
Keep(s, S) ==
    LET kept[k \in 0..Len(s)] ==
            IF k = 0 THEN <<>>
            ELSE IF s[k] \in S THEN Append(kept[k - 1], s[k]) ELSE kept[k - 1]
    IN  kept[Len(s)]

-----------------------------------------------------------------------------
(* Records.  An attribute is [type, fault, ...]: of a "name", its          *)
(* namespace, the parent and the name with its length; of "data", whether  *)
(* it is named and its sizes; of an "index", the allocated size.  fault is *)
(* "skipped" for a body that is passed over and "fatal" for one that makes *)
(* the record malformed.                                                   *)

\* apply_fixups: the sectors end in one update sequence number.
FixedUp(sectors) == \A k \in DOMAIN sectors : sectors[k].usn = sectors[1].usn

OfType(raw, type) == SelectSeq(raw.attributes, LAMBDA a : a.type = type)

\* Whether a name takes the place of the best one so far.
Better(best, name) ==
    \/ name.namespace \in {"Win32", "both"}
    \/ best.namespace \notin {"Win32", "both"}

BestName(names) == FoldLeft(LAMBDA best, n : IF Better(best, n) THEN n ELSE best, names[1], names)

\* The name is read again from the first attribute that looks like the best.
NameOf(names, best) ==
    SelectSeq(names, LAMBDA n : /\ n.length = best.length /\ n.namespace = best.namespace
                                /\ n.parent = best.parent)[1].name

\* extract_entry: none for a malformed record, one otherwise.
ExtractEntry(no, raw) ==
    LET names == SelectSeq(OfType(raw, "name"), LAMBDA a : a.fault # "skipped")
        streams == SelectSeq(OfType(raw, "data"), LAMBDA a : ~ a.named)
        indices == OfType(raw, "index")
        sound == /\ names # <<>> /\ \A k \in DOMAIN names : names[k].fault = "none"
                 /\ streams # <<>> => streams[1].fault = "none"
        best == BestName(names)
    IN
    IF ~ sound THEN {}
    ELSE {[no |-> no, parent |-> best.parent, name |-> NameOf(names, best), dir |-> raw.dir,
           logical |-> IF raw.dir \/ streams = <<>> THEN 0 ELSE streams[1].real,
           allocated |-> IF raw.dir THEN (IF indices = <<>> THEN 0 ELSE indices[1].allocated)
                         ELSE IF streams = <<>> THEN 0 ELSE streams[1].allocated]}

-----------------------------------------------------------------------------
(* Extent maps.  An extent covers the clusters from vcn to next, at lcn or, *)
(* with None, nowhere.                                                      *)

\* Variant: the place is not moved along.
Shortened(from, next, lcn, expected) ==
    [vcn |-> IF from < expected THEN expected ELSE from, next |-> next, lcn |-> lcn]

\* An extent of an answer, without what lies before the cluster that was asked for.
Trimmed(from, next, lcn, expected) ==
    LET trim == IF from < expected THEN expected - from ELSE 0 IN
    [vcn |-> from + trim, next |-> next, lcn |-> IF lcn = None THEN None ELSE lcn + trim]

\* parse_retrieval_pointers_buffer.  The answer starts at or before the cluster
\* that was asked for; extents that lie before it are dropped.
ParsePointers(start, raw, expected) ==
    LET from(k) == IF k = 1 THEN start ELSE raw[k - 1].next
        all == [k \in DOMAIN raw |-> Trimmed(from(k), raw[k].next, raw[k].lcn, expected)]
        sound == /\ raw # <<>> /\ start <= expected
                 /\ \A k \in DOMAIN raw : raw[k].next > from(k)
                 /\ Last(raw).next > expected
    IN  IF sound THEN Keep(all, {e \in ToSet(all) : e.next > expected}) ELSE <<>>

\* Where the runs lie: offsets are relative to the run before.
Places(runs) ==
    LET lcn[k \in 0..Len(runs)] == IF k = 0 THEN 0 ELSE lcn[k - 1] + runs[k].delta IN lcn

\* decode_runs: sparse runs and empty ones are passed over.  {} when a run would
\* begin before the volume.
DecodeRuns(runs) ==
    LET solid == Keep(runs, {r \in ToSet(runs) : ~ r.sparse /\ r.clusters > 0})
        lcn == Places(solid)
    IN  IF \E k \in DOMAIN solid : lcn[k] < 0 THEN {}
        ELSE {[k \in DOMAIN solid |-> [lcn |-> lcn[k], clusters |-> solid[k].clusters]]}

\* The cluster at which the next run begins.
Ends(runs) ==
    LET end[k \in 0..Len(runs)] == IF k = 0 THEN 0 ELSE end[k - 1] + runs[k].clusters IN end

\* runs_to_extents.
RunsToExtents(runs) ==
    [k \in DOMAIN runs |->
        [vcn |-> Ends(runs)[k - 1], next |-> Ends(runs)[k], lcn |-> runs[k].lcn]]

\* validate_and_convert_extents: {} or the one list of what is read.
ValidateExtents(extents, valid, clusters) ==
    LET sound ==
            /\ extents # <<>> /\ extents[1].vcn = 0
            /\ \A k \in DOMAIN extents :
                   /\ extents[k].next > extents[k].vcn
                   /\ k > 1 => extents[k].vcn = extents[k - 1].next
                   /\ extents[k].lcn # None =>
                          extents[k].lcn + extents[k].next - extents[k].vcn <= clusters
            /\ Last(extents).next >= valid
        mapped == Keep(extents, {e \in ToSet(extents) : e.lcn # None})
    IN  IF sound THEN {[k \in DOMAIN mapped |->
                            [lcn |-> mapped[k].lcn, clusters |-> mapped[k].next - mapped[k].vcn]]}
        ELSE {}

-----------------------------------------------------------------------------
(* The hierarchy.                                                          *)

Numbers(entries) == {entries[k].no : k \in DOMAIN entries}

EntryOf(entries, no) == entries[CHOOSE k \in DOMAIN entries : entries[k].no = no]

\* Variant: a record may be its own parent.
ParentOrSelf(entries, e) ==
    IF e.parent >= Meta /\ e.parent \in Numbers(entries) THEN e.parent ELSE Root

\* The record an entry is placed under.
Parent(entries, e) ==
    IF e.parent # e.no /\ e.parent >= Meta /\ e.parent \in Numbers(entries) THEN e.parent
    ELSE Root

\* The entries that are placed under a record, in the order of the table.
Children(entries, no) ==
    Keep(entries, {e \in ToSet(entries) : e.no >= Meta /\ Parent(entries, e) = no})

\* The nodes after k of them were visited; the list is its own queue.
Grown(entries) ==
    LET nodes[k \in 0..Len(entries)] ==
            IF k = 0 THEN <<[no |-> Root, parent |-> None]>>
            ELSE IF k > Len(nodes[k - 1]) THEN nodes[k - 1]
            ELSE LET under == Children(entries, nodes[k - 1][k].no) IN
                 nodes[k - 1] \o [i \in DOMAIN under |-> [no |-> under[i].no, parent |-> k]]
    IN  nodes

\* build_model: {} without a root, or the one list of nodes, breadth first.
BuildModel(entries) ==
    IF Root \in Numbers(entries) THEN {Grown(entries)[Len(entries)]} ELSE {}
=============================================================================
