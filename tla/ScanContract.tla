---------------------------- MODULE ScanContract ----------------------------
(***************************************************************************)
(* What a scan promises to the interface, without workers, jobs or locks:  *)
(* the tree grows downwards from the root, one outcome is sent, nothing    *)
(* changes after it, and an outcome that is called whole misses only what  *)
(* could not be read.  Module Scanner implements it.                       *)
(***************************************************************************)
EXTENDS Sequences

CONSTANTS RootDir, Entries, Kind, Listing, Device, Flaky

VARIABLES
    found,      \* the entries in the tree
    stop,       \* the user asked to cancel
    result      \* "none", "whole", "partial" or "failed"

contractVars == <<found, stop, result>>

\* A directory is walked unless it lies on another device.
Walked(d) ==
    /\ d = RootDir \/ Kind[d] = "dir"
    /\ Device[d] = Device[RootDir]

Listed(d) == {Listing[d][k] : k \in DOMAIN Listing[d]}

Whole == \A d \in found : Walked(d) /\ d \notin Flaky => Listed(d) \ Flaky \subseteq found

Init ==
    /\ found = {RootDir}
    /\ stop = FALSE
    /\ result = "none"

\* Some entries of one walked directory are found, all of them new.
Discover ==
    /\ result = "none"
    /\ \E d \in found :
         /\ Walked(d)
         /\ found' \ found \subseteq Listed(d)
    /\ found \subseteq found'
    /\ UNCHANGED <<stop, result>>

Stop ==
    /\ stop' = TRUE
    /\ UNCHANGED <<found, result>>

Send ==
    /\ result = "none"
    /\ \/ result' = "whole" /\ Whole
       \/ result' = "partial" /\ stop
       \/ result' = "failed"
    /\ UNCHANGED <<found, stop>>

Next == Discover \/ Stop \/ Send

Spec == Init /\ [][Next]_contractVars
=============================================================================
