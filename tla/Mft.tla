-------------------------------- MODULE Mft --------------------------------
(***************************************************************************)
(* The scan of an NTFS volume from its master file table: the module       *)
(* reader of src/src/scan/platform/mft.rs, with MftStreamParser, over the  *)
(* pure layer of MftRecords.  It asks Windows for the extents of the table *)
(* in several calls, or reads them from the table's first record, reads    *)
(* them chunk by chunk from the raw volume and rebuilds the tree; when any *)
(* of it fails the scan walks the directories instead (module Scanner).    *)
(*                                                                         *)
(* NTFS goes on writing while it is read: a record may be rewritten        *)
(* between two chunks, each sector of it with a new update sequence number.*)
(***************************************************************************)
EXTENDS MftRecords, FiniteSetsExt

CONSTANTS
    LastRecord,     \* the last record the table has room for
    Volumes,        \* number -> the record and what it is rewritten to
    Layouts,        \* where the table may lie: sequences of [lcn, clusters]
    Cuts,           \* where Windows may cut an extent in two answers
    Valid,          \* possible values of mft_valid_length, in sectors
    Clusters,       \* total_volume_clusters
    Chunk,          \* READ_CHUNK, in sectors
    MaxRewrites     \* bound on the records rewritten during the scan

ASSUME MftAssumption ==
    /\ LastRecord \in Nat
    /\ Layouts \subseteq Seq([lcn : Nat \union {None}, clusters : Nat \ {0}]) \ {<<>>}
    \* Two extents of a file share no cluster.
    /\ \A l \in Layouts : \A i, j \in DOMAIN l :
           i # j /\ l[i].lcn # None /\ l[j].lcn # None =>
               \/ l[i].lcn + l[i].clusters <= l[j].lcn
               \/ l[j].lcn + l[j].clusters <= l[i].lcn
    /\ Cuts \subseteq Nat
    /\ Valid \subseteq Nat \ {0} /\ Clusters \in Nat /\ Chunk \in Nat \ {0}
    /\ MaxRewrites \in Nat

Records == 0..LastRecord

VARIABLES
    volume, layout, valid,      \* this volume
    rewritten,                  \* the records NTFS has rewritten
    phase,      \* "asking", "mapped", "fallback", "reading", "read", "built" or
                \* "failed": the directories are walked
    extents,    \* all_extents: the map as far as Windows has given it
    physical,   \* what is read: [lcn, clusters]
    done,       \* the extents that are read, and the sectors of the next one
    next,       \* next_record_no
    carry,      \* the sectors of a record that goes on in the next chunk
    entries,    \* the records found, with the sectors they were read from
    cancel,     \* the cancel flag
    nodes       \* the arena

disk == <<volume, layout, valid>>
parser == <<done, next, carry, entries>>
vars == <<disk, rewritten, phase, extents, physical, parser, cancel, nodes>>

Init ==
    /\ volume \in Volumes /\ layout \in Layouts /\ valid \in Valid
    /\ rewritten = {} /\ cancel = FALSE
    /\ phase = "asking" /\ extents = <<>> /\ physical = <<>>
    /\ done = [extents |-> 0, sectors |-> 0]
    /\ next = 0 /\ carry = <<>> /\ entries = <<>>
    /\ nodes = <<>>

-----------------------------------------------------------------------------
(* The volume, outside of the program.                                     *)

\* The true extent map of the table.
Table == RunsToExtents(layout)

\* The run list in the first record of the table.
RunList ==
    LET before(k) == {j \in 1..(k - 1) : layout[j].lcn # None}
        last(k) == IF before(k) = {} THEN 0 ELSE layout[Max(before(k))].lcn
    IN  [k \in DOMAIN layout |-> [clusters |-> layout[k].clusters, sparse |-> layout[k].lcn = None,
                                  delta |-> layout[k].lcn - last(k)]]

\* What a cluster holds: a sector of the table as it was written last.
Sector(cluster) ==
    LET e == CHOOSE x \in {Table[k] : k \in DOMAIN Table} :
                 x.lcn # None /\ cluster \in x.lcn..(x.lcn + x.next - x.vcn - 1)
        place == e.vcn + cluster - e.lcn
        record == place \div RS
    IN  [record |-> record, part |-> place % RS, usn |-> <<record, record \in rewritten>>]

Content(record, later) == volume[record][IF later THEN 2 ELSE 1]

-----------------------------------------------------------------------------
(* The extents of the table.                                               *)

\* Where an answer may begin and end: wherever an extent does, and at Cuts.
Marks == {0} \union {Table[k].next : k \in DOMAIN Table} \union Cuts

\* What Windows says of the clusters from start to stop: only the first of the
\* extents may have lost its beginning, only the last one its end.
Answer(start, stop) ==
    LET at(c) == CHOOSE k \in DOMAIN Table : c \in Table[k].vcn..(Table[k].next - 1)
        first == at(start)
    IN  [k \in 1..(at(stop - 1) - first + 1) |->
            LET e == Table[first + k - 1] IN
            [next |-> Min({e.next, stop}),
             lcn |-> IF e.lcn = None THEN None ELSE e.lcn + Max({e.vcn, start}) - e.vcn]]

\* query_retrieval_pointers: one call.  The answer may repeat what an earlier one
\* said, and begin or end within an extent; it says whether there is more.
Ask(start, stop, more) ==
    LET vcn == IF extents = <<>> THEN 0 ELSE Last(extents).next
        found == ParsePointers(start, Answer(start, stop), vcn)
    IN
    /\ phase = "asking" /\ vcn < Last(Table).next
    /\ start <= vcn /\ start < stop /\ stop <= Last(Table).next
    /\ stop < Last(Table).next => more
    /\ extents' = extents \o found
    /\ phase' = IF found = <<>> THEN "fallback" ELSE IF more THEN "asking" ELSE "mapped"
    /\ UNCHANGED <<disk, rewritten, physical, parser, cancel, nodes>>

\* ERROR_HANDLE_EOF.
AskedAll ==
    /\ phase = "asking" /\ extents # <<>> /\ Last(extents).next = Last(Table).next
    /\ phase' = "mapped"
    /\ UNCHANGED <<disk, rewritten, extents, physical, parser, cancel, nodes>>

AskFails ==
    /\ phase = "asking"
    /\ phase' = "fallback"
    /\ UNCHANGED <<disk, rewritten, extents, physical, parser, cancel, nodes>>

\* mft_extents: the map Windows gave.
UseMap ==
    LET sound == ValidateExtents(extents, valid, Clusters) IN
    /\ phase = "mapped"
    /\ \/ sound = {} /\ phase' = "fallback" /\ UNCHANGED physical
       \/ sound # {} /\ phase' = "reading" /\ physical' \in sound
    /\ UNCHANGED <<disk, rewritten, extents, parser, cancel, nodes>>

\* mft_extents: the run list of record 0.
UseRunList ==
    LET sound == UNION {ValidateExtents(RunsToExtents(runs), valid, Clusters) :
                            runs \in DecodeRuns(RunList)}
    IN
    /\ phase = "fallback"
    /\ \/ phase' = "failed" /\ UNCHANGED physical
       \/ phase' = "reading" /\ physical' \in sound
    /\ UNCHANGED <<disk, rewritten, extents, parser, cancel, nodes>>

-----------------------------------------------------------------------------
(* The records.                                                            *)

\* consume_record: what a record that starts with FILE, is in use and is the root
\* or no metadata holds.
Parsed(no, sectors) ==
    LET raw == Content(sectors[1].record, sectors[1].usn[2]) IN
    IF sectors[1].part = 0 /\ raw.inUse /\ (no >= Meta \/ no = Root)
    THEN {[no |-> x.no, parent |-> x.parent, name |-> x.name, dir |-> x.dir,
           logical |-> x.logical, allocated |-> x.allocated, sectors |-> sectors] :
              x \in ExtractEntry(no, raw)}
    ELSE {}

\* extract_entry applies the fixups before it looks at the attributes.
ConsumeRecord(no, sectors) == IF FixedUp(sectors) THEN Parsed(no, sectors) ELSE {}

Consumed(no, sectors) == SetToSeq(ConsumeRecord(no, sectors))

\* What the first complete records of the joined sectors add.
Taken(joined, count) ==
    LET found[k \in 0..count] ==
            IF k = 0 THEN entries
            ELSE found[k - 1] \o Consumed(next + k - 1, SubSeq(joined, (k - 1) * RS + 1, k * RS))
    IN  found[count]

\* process_chunk: complete records are consumed up to the valid length, what is
\* left of the chunk is carried over.
ProcessChunk(sectors) ==
    LET joined == carry \o sectors
        full == Len(joined) \div RS
        left == Max({0, (valid - next * RS + RS - 1) \div RS})
        \* The record that is carried over is completed in any case.
        read == Min({full, IF carry = <<>> THEN left ELSE Max({1, left})})
        more == (next + read) * RS < valid
    IN  [entries |-> Taken(joined, read), next |-> next + read,
         carry |-> IF more THEN SubSeq(joined, full * RS + 1, Len(joined)) ELSE <<>>,
         more |-> more]

\* One read of the volume and what the parser makes of it; a cancelled scan ends
\* with an error.
Read ==
    LET extent == physical[done.extents + 1]
        take == Min({extent.clusters - done.sectors, Chunk})
        sectors == [k \in 1..take |-> Sector(extent.lcn + done.sectors + k - 1)]
        parsed == ProcessChunk(sectors)
        ended == ~ parsed.more \/ done.sectors + take = extent.clusters
    IN
    /\ phase = "reading" /\ done.extents < Len(physical)
    /\ \/ /\ cancel
          /\ phase' = "failed" /\ UNCHANGED parser
       \/ /\ ~ cancel
          /\ entries' = parsed.entries /\ next' = parsed.next /\ carry' = parsed.carry
          /\ done' = IF ended THEN [extents |-> done.extents + 1, sectors |-> 0]
                     ELSE [done EXCEPT !.sectors = @ + take]
          /\ phase' = IF ended /\ parsed.next * RS >= valid THEN "read" ELSE "reading"
    /\ UNCHANGED <<disk, rewritten, extents, physical, cancel, nodes>>

AllRead ==
    /\ phase = "reading" /\ done.extents = Len(physical)
    /\ phase' = "read"
    /\ UNCHANGED <<disk, rewritten, extents, physical, parser, cancel, nodes>>

ReadFails ==
    /\ phase = "reading"
    /\ phase' = "failed"
    /\ UNCHANGED <<disk, rewritten, extents, physical, parser, cancel, nodes>>

\* The end of scan_with_handle.
Build ==
    LET complete == ~ cancel /\ next * RS >= valid
        built == IF complete THEN BuildModel(entries) ELSE {}
    IN
    /\ phase = "read"
    /\ \/ built = {} /\ phase' = "failed" /\ UNCHANGED nodes
       \/ phase' = "built" /\ nodes' \in built
    /\ UNCHANGED <<disk, rewritten, extents, physical, parser, cancel>>

Cancel ==
    /\ phase \in {"asking", "reading", "read"} /\ ~ cancel
    /\ cancel' = TRUE
    /\ UNCHANGED <<disk, rewritten, phase, extents, physical, parser, nodes>>

\* NTFS writes a record again, all its sectors at once.
Rewrite(r) ==
    /\ phase = "reading" /\ r \notin rewritten /\ Cardinality(rewritten) < MaxRewrites
    /\ rewritten' = rewritten \union {r}
    /\ UNCHANGED <<disk, phase, extents, physical, parser, cancel, nodes>>

Next ==
    \/ \E start, stop \in Marks, more \in BOOLEAN : Ask(start, stop, more)
    \/ AskedAll \/ AskFails \/ UseMap \/ UseRunList
    \/ Read \/ AllRead \/ ReadFails \/ Build \/ Cancel
    \/ \E r \in Records : Rewrite(r)

Spec == Init /\ [][Next]_vars

-----------------------------------------------------------------------------
(* What the scan promises.                                                 *)

Solid == \A k \in DOMAIN layout : layout[k].lcn # None

InTable(r) == r * RS < valid /\ (r >= Meta \/ r = Root)

WellFormed(r) == LET raw == Content(r, FALSE) IN raw.inUse /\ ExtractEntry(r, raw) # {}

\* When the table lies on the disk without holes, every record that is taken is
\* read from its own place, once, in order and in one piece, none from beyond
\* the valid length; and a tree is only built when every record in use below it
\* was read, those aside that are damaged or were rewritten meanwhile: however
\* the table is fragmented, the answers of Windows overlap and cut extents, the
\* extents and the chunks split records, and NTFS writes in between.
RecordsInPlace ==
    Solid =>
        /\ \A k \in DOMAIN entries :
               LET e == entries[k] IN
               /\ InTable(e.no)
               /\ k > 1 => e.no > entries[k - 1].no
               /\ \E later \in BOOLEAN :
                      e.sectors = [i \in 1..RS |-> [record |-> e.no, part |-> i - 1,
                                                    usn |-> <<e.no, later>>]]
        /\ phase = "built" =>
               {r \in Records \ rewritten : InTable(r) /\ WellFormed(r)} \subseteq Numbers(entries)

\* The tree that is built has a parent before its children, every record at most
\* once and under the one it names, or under the root where that one is metadata,
\* missing, itself or one of a cycle; what it leaves out is only what hangs on a
\* cycle (build_model).
TreeHoldsEntries ==
    LET out == {r \in Numbers(entries) : \A k \in DOMAIN nodes : nodes[k].no # r}
        up(r) == EntryOf(entries, r).parent
        misplaced(r) == up(r) = r \/ up(r) < Meta \/ up(r) \notin Numbers(entries)
        \* Nothing above r ends at the root.
        looped(r) == \E Q \in SUBSET Numbers(entries) :
                         r \in Q /\ \A q \in Q : ~ misplaced(q) /\ up(q) \in Q
    IN
    phase = "built" =>
        /\ nodes[1] = [no |-> Root, parent |-> None]
        /\ \A k \in 2..Len(nodes) :
               /\ nodes[k].parent \in 1..(k - 1)
               /\ \/ nodes[nodes[k].parent].no =
                         IF misplaced(nodes[k].no) THEN Root ELSE up(nodes[k].no)
                  \/ looped(nodes[k].no) /\ nodes[k].parent = 1
               /\ \A j \in 1..(k - 1) : nodes[j].no # nodes[k].no
        /\ \A r \in out : looped(r)

\* Violated: corrupt parent references, "self-loops, missing targets, cycles",
\* "attach the record to the scan root instead of dropping it" (mft.rs:373).
EveryRecordAttached ==
    phase = "built" => \A k \in DOMAIN entries : \E j \in DOMAIN nodes : nodes[j].no = entries[k].no

\* Violated: "the first $FILE_NAME in a Win32-capable namespace wins"
\* (mft.rs:476): the last one does.
FirstNameWins ==
    \A k \in DOMAIN entries :
        LET e == entries[k]
            raw == Content(e.no, e.sectors[1].usn[2])
            wide == SelectSeq(OfType(raw, "name"), LAMBDA a : a.namespace \in {"Win32", "both"})
        IN  wide # <<>> => e.parent = wide[1].parent

\* Violated with a hole in the map: the clusters behind it are read as if they
\* came right after it, and the records there get the numbers of others
\* ("clusters exist in the stream's virtual range", mft.rs:306).
HolesKeepNumbers ==
    \A k \in DOMAIN entries : entries[k].sectors[1].record = entries[k].no
=============================================================================
