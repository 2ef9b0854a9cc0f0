---------------------------- MODULE Updater_proofs ----------------------------
(***************************************************************************)
(* Proofs about Updater, for every set of releases GitHub may list, every  *)
(* kind of installation, any number of processes and of damaged downloads: *)
(* only an agreed build gets to run (AgreedBuildRuns), and there is always *)
(* a whole executable to go back to (ExecutableThere).                     *)
(***************************************************************************)
EXTENDS Updater, TLAPS

InfoType == [version : Nat, asset : BOOLEAN, hosted : BOOLEAN, sha256 : BOOLEAN]

Steps == {"none", "mark", "clear", "stage", "copy", "unpark", "park", "swap", "putback", "spawn"}

UpdateStates == {"Idle", "Checking", "Available", "Downloading", "Ready", "Installing", "Failed"}

\* "none" is a place of copies only.
Places == {"target", "staged", "parked", "unlinked", "none"}

ProcessType ==
    [life : {"unborn", "up", "down"}, build : Int, image : Places, update : UpdateStates,
     manual : BOOLEAN, owed : BOOLEAN, info : InfoType, dialog : {"none", "offer", "restart"},
     transfer : {"none", "flowing", "ok", "error"}, cancelled : BOOLEAN, artifact : Int,
     step : Steps, copies : Places]

\* What may be offered, and what may be installed at all.
Updates == {v \in Nat \ {0} : Proper(v)}
Good == {First} \union Updates

Files == {Gone, Broken} \union Good

\* A process by itself.  info describes an update from the offer on, until the
\* update failed; the temporary file is that update or damaged; an installing
\* process has its restart confirmed and no dialog open.
ProcessOK(q) ==
    /\ q \in ProcessType
    /\ q.life = "up" => q.build \in Good
    /\ q.artifact \in {Gone, Broken, q.info.version}
    /\ q.update \in {"Idle", "Checking", "Failed"} => q.artifact = Gone
    /\ q.update \notin {"Idle", "Checking", "Failed"} => q.info.version \in Updates
    /\ q.dialog = "restart" => q.update = "Ready"
    /\ q.transfer # "none" => q.update = "Downloading"
    /\ q.step # "none" => q.life = "up" /\ q.update = "Ready" /\ q.dialog = "none"

\* Two states of a process that differ in the places of its files only.
SamePlan(q, r) ==
    /\ r.life = q.life /\ r.build = q.build /\ r.update = q.update /\ r.info = q.info
    /\ r.dialog = q.dialog /\ r.transfer = q.transfer /\ r.artifact = q.artifact
    /\ r.step = q.step

\* What is agreed is proper, and an install installs what was agreed to.
Agreements ==
    /\ agreed \subseteq Updates
    /\ \A p \in Processes : process[p].step # "none" => process[p].info.version \in agreed

\* Only Windows parks the executable.  There every process runs the executable
\* or the parked file, and nobody runs an executable that is not there.
Parking ==
    /\ \A p \in Processes : process[p].step \in {"park", "putback"} => Windows
    /\ Windows => \A p \in Processes :
           Up(p) => process[p].image = "parked" \/ (process[p].image = "target" /\ target # Gone)

\* One install at a time, which copies to where it thinks it does; the
\* executable is missing only in its critical section or after an interruption.
Alone ==
    ~ overlapped =>
        /\ \A p, q \in Processes : process[p].step # "none" /\ process[q].step # "none" => p = q
        /\ \A p \in Processes : process[p].step = "copy" => process[p].copies = "staged"
        /\ target = Gone =>
               /\ Windows
               /\ stranded \/ \E p \in Processes : At(p, "swap") \/ At(p, "putback")

\* Everything an install may put in the place of the executable was agreed to.
Agreed ==
    LET right == {First} \union agreed IN
    ~ overlapped /\ ~ touched =>
        /\ {target, parked, setup} \subseteq right \union {Gone}
        /\ target = Gone => parked # Gone
        /\ \A p \in Processes :
               /\ Up(p) => process[p].build \in right
               /\ process[p].step # "none" => process[p].artifact \in {Gone, process[p].info.version}
               /\ process[p].step = "copy" => process[p].artifact # Gone
               /\ process[p].step \in {"unpark", "park", "swap"} => staged \in agreed

TypeOK ==
    /\ kind \in InstallKinds
    /\ {target, staged, parked, setup} \subseteq Files
    /\ DOMAIN process = Processes /\ process = [p \in Processes |-> process[p]]
    /\ alterations \in Nat
    /\ touched \in BOOLEAN /\ overlapped \in BOOLEAN /\ stranded \in BOOLEAN

IInv ==
    /\ TypeOK /\ (\A p \in Processes : ProcessOK(process[p]))
    /\ Agreements /\ Parking /\ Alone /\ Agreed

-----------------------------------------------------------------------------
(* One process.                                                            *)

\* What select_release offers to a build that may be installed may be installed
\* too: nothing leads from a stable build to a draft or a prerelease.
LEMMA OfferedIsGood ==
    ASSUME NEW listing \in Listings, NEW current \in Good, NEW r \in SelectRelease(listing, current)
    PROVE  r.version \in Updates /\ r.hosted \in BOOLEAN
<1>1. r \in listing /\ ParseTag(r) /\ ~ r.draft /\ (r.prerelease => current \in Prereleases)
      /\ Accepts(current, r.version) /\ r.version > current
  BY DEF SelectRelease
<1>2. r \in ReleaseType
  BY <1>1, ReleasesAssumption
<1>3. r.version \in Nat \ {0} /\ current \in Nat \ {0} /\ First \in Nat \ {0} /\ r.prerelease \in BOOLEAN
      /\ r.hosted \in BOOLEAN
  BY <1>1, <1>2, UpdaterAssumption DEF ReleaseType, ParseTag, Good, Updates
<1>4. CASE First \in Prereleases
  BY <1>3, <1>4 DEF Proper, Updates
<1>5. CASE First \notin Prereleases
  <2>1. current \notin Prereleases /\ current >= First
    BY <1>3, <1>5 DEF Good, Updates, Proper
  <2>2. r.version \notin Prereleases /\ ~ r.prerelease
    BY <1>1, <2>1 DEF Accepts
  <2>3. r.version \in Published
    BY <1>1, <2>2 DEF Published
  <2> QED
    BY <1>1, <1>3, <2>1, <2>2, <2>3 DEF Updates, Proper
<1> QED
  BY <1>4, <1>5

\* A failed update: the process forgets it and goes on.
LEMMA FailedFacts ==
    ASSUME NEW q \in ProcessType
    PROVE  /\ Failed(q) \in ProcessType
           /\ Failed(q).life = q.life /\ Failed(q).build = q.build /\ Failed(q).image = q.image
           /\ Failed(q).dialog = q.dialog /\ Failed(q).transfer = q.transfer
           /\ Failed(q).update = "Failed" /\ Failed(q).artifact = Gone /\ Failed(q).step = "none"
<1> DEFINE a == [q EXCEPT !.update = "Failed"]
           b == [a EXCEPT !.step = "none"]
           c == [b EXCEPT !.copies = "none"]
           d == [c EXCEPT !.info = NoInfo]
           e == [d EXCEPT !.artifact = Gone]
<1>1. a \in ProcessType
  BY DEF ProcessType, UpdateStates
<1>2. b \in ProcessType
  BY <1>1 DEF ProcessType, Steps
<1>3. c \in ProcessType
  BY <1>2 DEF ProcessType, Places
<1>4. NoInfo \in InfoType
  BY DEF NoInfo, InfoType
<1>5. d \in ProcessType
  <2> HIDE DEF c
  <2> QED
    BY <1>3, <1>4 DEF ProcessType
<1>6. e \in ProcessType
  <2> HIDE DEF d
  <2> QED
    BY <1>5 DEF ProcessType, Gone
<1>7. Failed(q) \in ProcessType
  BY <1>6 DEF Failed
<1> QED
  BY <1>7 DEF Failed, ProcessType

\* A process that follows a file keeps everything but its places.
LEMMA FollowFacts ==
    ASSUME NEW q \in ProcessType, NEW from \in Places, NEW to \in Places
    PROVE  /\ Follow(q, from, to) \in ProcessType
           /\ SamePlan(q, Follow(q, from, to))
           /\ Follow(q, from, to).image = IF q.image = from THEN to ELSE q.image
           /\ Follow(q, from, to).copies = IF q.copies = from THEN to ELSE q.copies
<1> DEFINE a == [q EXCEPT !.image = IF q.image = from THEN to ELSE q.image]
<1>1. a \in ProcessType /\ a.copies = q.copies
  BY DEF ProcessType
<1>2. [a EXCEPT !.copies = IF q.copies = from THEN to ELSE q.copies] \in ProcessType
  <2> HIDE DEF a
  <2> QED
    BY <1>1 DEF ProcessType
<1>3. Follow(q, from, to) \in ProcessType
  BY <1>2 DEF Follow
<1> QED
  BY <1>3 DEF Follow, SamePlan, ProcessType

\* Whatever keeps the plan keeps the process in order.
LEMMA SamePlanOK ==
    ASSUME NEW q, NEW r, ProcessOK(q), r \in ProcessType, SamePlan(q, r)
    PROVE  ProcessOK(r)
BY DEF ProcessOK, SamePlan

\* An install goes on to its next operation.
LEMMA StepFacts ==
    ASSUME NEW q, ProcessOK(q), q.step # "none", NEW step \in Steps
    PROVE  LET r == [q EXCEPT !.step = step] IN
           /\ ProcessOK(r) /\ r.step = step
           /\ r.life = q.life /\ r.build = q.build /\ r.image = q.image /\ r.copies = q.copies
           /\ r.info = q.info /\ r.artifact = q.artifact
<1>1. [q EXCEPT !.step = step] \in ProcessType
  BY DEF ProcessOK, ProcessType
<1> QED
  BY <1>1 DEF ProcessOK, ProcessType

-----------------------------------------------------------------------------
(* The handlers of the interface, and failures.                            *)

\* One process moves.
LEMMA OneMoves ==
    ASSUME IInv, NEW p \in Processes, NEW x, ProcessOK(x), process' = [process EXCEPT ![p] = x]
    PROVE  /\ process' = [q \in Processes |-> process'[q]] /\ DOMAIN process' = Processes
           /\ \A q \in Processes : ProcessOK(process'[q])
           /\ process'[p] = x
           /\ \A q \in Processes \ {p} : process'[q] = process[q]
<1>1. process = [q \in Processes |-> process[q]] /\ \A q \in Processes : ProcessOK(process[q])
  BY DEF IInv, TypeOK
<1> QED
  BY <1>1

\* A move of the interface leaves the files and its install, if any, alone.
LEMMA InterfaceMove ==
    ASSUME IInv, NEW p \in Processes, NEW x, ProcessOK(x), process' = [process EXCEPT ![p] = x],
           x.life = process[p].life, x.build = process[p].build, x.image = process[p].image,
           process[p].step = "none", x.step = "none",
           UNCHANGED <<kind, files, agreed, history>>
    PROVE  IInv'
<1>1. /\ process' = [q \in Processes |-> process'[q]] /\ DOMAIN process' = Processes
      /\ \A q \in Processes : ProcessOK(process'[q])
      /\ process'[p] = x
      /\ \A q \in Processes \ {p} : process'[q] = process[q]
  BY OneMoves
<1> USE <1>1 DEF files, history
<1>2. TypeOK'
  BY DEF IInv, TypeOK, Files, Good, Updates, Proper
<1>3. Agreements'
  BY DEF IInv, Agreements, Updates, Proper
<1>4. Parking'
  BY DEF IInv, Parking, Windows, Up
<1>5. Alone'
  BY DEF IInv, Alone, Windows, At, Up
<1>6. Agreed'
  BY DEF IInv, Agreed, Up
<1> QED
  BY <1>1, <1>2, <1>3, <1>4, <1>5, <1>6 DEF IInv

\* An install that fails where it does not strand its process.
LEMMA InstallFails ==
    ASSUME IInv, NEW p \in Processes, process[p].step # "none", Fails(p),
           staged' \in {staged, Gone}, stranded' \in BOOLEAN, stranded => stranded',
           ~ overlapped /\ target = Gone /\ process[p].step \in {"swap", "putback"} => stranded',
           UNCHANGED <<kind, target, parked, setup, agreed, alterations, touched, overlapped>>
    PROVE  IInv'
<1> DEFINE x == Failed(process[p])
<1>1. x \in ProcessType /\ x.life = process[p].life /\ x.build = process[p].build
      /\ x.image = process[p].image /\ x.step = "none" /\ x.dialog = process[p].dialog
      /\ x.transfer = process[p].transfer /\ x.update = "Failed" /\ x.artifact = Gone
  BY FailedFacts DEF IInv, ProcessOK
<1>2. process[p].dialog = "none" /\ process[p].transfer = "none"
  BY DEF IInv, ProcessOK
<1>3. ProcessOK(x)
  <2> HIDE DEF x
  <2> QED
    BY <1>1, <1>2 DEF ProcessOK, IInv
<1>4. /\ process' = [q \in Processes |-> process'[q]] /\ DOMAIN process' = Processes
      /\ \A q \in Processes : ProcessOK(process'[q])
      /\ process'[p] = x
      /\ \A q \in Processes \ {p} : process'[q] = process[q]
  BY <1>3, OneMoves DEF Fails
<1> HIDE DEF x
<1> USE <1>1, <1>4
<1>5. TypeOK'
  BY DEF IInv, TypeOK, Files, Good, Updates, Proper
<1>6. Agreements'
  BY DEF IInv, Agreements, Updates, Proper
<1>7. Parking'
  BY DEF IInv, Parking, Windows, Up
<1>8. Alone'
  BY DEF IInv, Alone, Windows, At, Up
<1>9. Agreed'
  BY DEF IInv, Agreed, Up, Alone
<1> QED
  BY <1>4, <1>5, <1>6, <1>7, <1>8, <1>9 DEF IInv

\* A check that finds nothing.
LEMMA NothingFoundStep == \A p \in Processes : IInv /\ NothingFound(p) => IInv'
<1> SUFFICES ASSUME IInv, NEW p \in Processes, NothingFound(p) PROVE IInv'
  OBVIOUS
<1> DEFINE x == [process[p] EXCEPT !.update = "Idle", !.manual = FALSE,
                                   !.owed = process[p].owed /\ ~ process[p].manual]
<1>1. process[p] \in ProcessType /\ ProcessOK(process[p])
  BY DEF IInv, ProcessOK
<1>2. process' = [process EXCEPT ![p] = x]
  BY DEF NothingFound
<1>3. x \in ProcessType
  BY <1>1 DEF ProcessType, UpdateStates
<1>4. ProcessOK(x)
  BY <1>1, <1>3 DEF ProcessOK, ProcessType, NothingFound
<1> QED
  BY <1>1, <1>2, <1>4, InterfaceMove DEF NothingFound, Free, ProcessType

\* A check that finds an update offers one that may be installed.
LEMMA UpdateFoundStep ==
    \A p \in Processes, listing \in Listings, fetched \in BOOLEAN :
        IInv /\ UpdateFound(p, listing, fetched) => IInv'
<1> SUFFICES ASSUME IInv, NEW p \in Processes, NEW listing \in Listings, NEW fetched \in BOOLEAN,
                    UpdateFound(p, listing, fetched)
             PROVE  IInv'
  OBVIOUS
<1>1. process[p] \in ProcessType /\ ProcessOK(process[p])
  BY DEF IInv, ProcessOK
<1>2. PICK r \in SelectRelease(listing, process[p].build) :
          process' = [process EXCEPT ![p].update = "Available", ![p].dialog = "offer",
                                     ![p].manual = FALSE, ![p].owed = FALSE,
                                     ![p].info = Describe(r, kind, fetched)]
  BY DEF UpdateFound
<1>3. r.version \in Updates /\ r.hosted \in BOOLEAN
  BY <1>1, OfferedIsGood DEF UpdateFound, Free, Up, ProcessOK
<1> DEFINE i == Describe(r, kind, fetched)
           x == [process[p] EXCEPT !.update = "Available", !.dialog = "offer",
                                   !.manual = FALSE, !.owed = FALSE, !.info = i]
<1>4. i \in InfoType /\ i.version = r.version
  <2>1. SelectAsset(r, kind) \in BOOLEAN
    BY DEF SelectAsset, AssetName
  <2> QED
    BY <1>3, <2>1 DEF Describe, InfoType, Updates
<1> HIDE DEF i
<1>5. process' = [process EXCEPT ![p] = x]
  BY <1>2 DEF i
<1>6. x \in ProcessType
  BY <1>1, <1>4 DEF ProcessType, UpdateStates
<1>7. ProcessOK(x)
  BY <1>1, <1>3, <1>4, <1>6 DEF ProcessOK, ProcessType, UpdateFound, Free
<1> QED
  BY <1>1, <1>5, <1>7, InterfaceMove DEF UpdateFound, Free, ProcessType

\* The menu entry.
LEMMA CheckForUpdateStep == \A p \in Processes : IInv /\ CheckForUpdate(p) => IInv'
<1> SUFFICES ASSUME IInv, NEW p \in Processes, CheckForUpdate(p) PROVE IInv'
  OBVIOUS
<1> DEFINE q == process[p]
           x == CASE q.update = "Available" -> [q EXCEPT !.dialog = "offer"]
                  [] q.update = "Ready" -> [q EXCEPT !.dialog = "restart"]
                  [] q.update \in {"Idle", "Failed"} ->
                         [q EXCEPT !.update = "Checking", !.manual = TRUE, !.owed = TRUE]
                  [] q.update = "Checking" -> [q EXCEPT !.owed = TRUE]
                  [] OTHER -> q
<1>1. q \in ProcessType /\ ProcessOK(q) /\ q.step = "none"
  BY DEF IInv, ProcessOK, CheckForUpdate, Menu, Free
<1>2. process' = [process EXCEPT ![p] = x]
  BY DEF CheckForUpdate
<1> HIDE DEF q
<1>3. ProcessOK(x) /\ x.life = q.life /\ x.build = q.build /\ x.image = q.image /\ x.step = "none"
  <2>1. CASE q.update = "Available"
    <3>1. x = [q EXCEPT !.dialog = "offer"]
      BY <2>1
    <3> QED
      BY <1>1, <2>1, <3>1 DEF ProcessOK, ProcessType
  <2>2. CASE q.update = "Ready"
    <3>1. x = [q EXCEPT !.dialog = "restart"]
      BY <2>2
    <3> QED
      BY <1>1, <2>2, <3>1 DEF ProcessOK, ProcessType
  <2>3. CASE q.update \in {"Idle", "Failed"}
    <3>1. x = [q EXCEPT !.update = "Checking", !.manual = TRUE, !.owed = TRUE]
      BY <2>3
    <3>2. x \in ProcessType
      BY <1>1, <3>1 DEF ProcessType, UpdateStates
    <3> QED
      BY <1>1, <2>3, <3>1, <3>2 DEF ProcessOK, ProcessType
  <2>4. CASE q.update = "Checking"
    <3>1. x = [q EXCEPT !.owed = TRUE]
      BY <2>4
    <3> QED
      BY <1>1, <2>4, <3>1 DEF ProcessOK, ProcessType
  <2>5. CASE q.update \in {"Downloading", "Installing"}
    BY <1>1, <2>5
  <2> QED
    BY <1>1, <2>1, <2>2, <2>3, <2>4, <2>5 DEF ProcessType, UpdateStates
<1> HIDE DEF x
<1> QED
  BY <1>1, <1>2, <1>3, InterfaceMove DEF CheckForUpdate, q

\* An offer is put off.
LEMMA LaterStep == \A p \in Processes : IInv /\ Later(p) => IInv'
<1> SUFFICES ASSUME IInv, NEW p \in Processes, Later(p) PROVE IInv'
  OBVIOUS
<1> DEFINE x == [process[p] EXCEPT !.dialog = "none"]
<1>1. process[p] \in ProcessType /\ ProcessOK(process[p])
  BY DEF IInv, ProcessOK
<1>2. process' = [process EXCEPT ![p] = x]
  BY DEF Later
<1>3. ProcessOK(x)
  BY <1>1 DEF ProcessOK, ProcessType
<1> QED
  BY <1>1, <1>2, <1>3, InterfaceMove DEF Later, Free, ProcessType

\* A download starts.
LEMMA AcceptOfferStep == \A p \in Processes : IInv /\ AcceptOffer(p) => IInv'
<1> SUFFICES ASSUME IInv, NEW p \in Processes, AcceptOffer(p) PROVE IInv'
  OBVIOUS
<1> DEFINE q == process[p]
           x == IF IsInstallable(q.info) /\ q.update = "Available"
                THEN [q EXCEPT !.dialog = "none", !.update = "Downloading", !.transfer = "flowing"]
                ELSE [q EXCEPT !.dialog = "none"]
<1>1. q \in ProcessType /\ ProcessOK(q) /\ q.step = "none"
  BY DEF IInv, ProcessOK, AcceptOffer, Free
<1>2. process' = [process EXCEPT ![p] = x]
  BY DEF AcceptOffer
<1> HIDE DEF q
<1>3. ProcessOK(x) /\ x.life = q.life /\ x.build = q.build /\ x.image = q.image /\ x.step = "none"
  <2>1. CASE IsInstallable(q.info) /\ q.update = "Available"
    <3>1. x = [q EXCEPT !.dialog = "none", !.update = "Downloading", !.transfer = "flowing"]
      BY <2>1
    <3>2. x \in ProcessType
      BY <1>1, <3>1 DEF ProcessType, UpdateStates
    <3> QED
      BY <1>1, <2>1, <3>1, <3>2 DEF ProcessOK, ProcessType
  <2>2. CASE ~ (IsInstallable(q.info) /\ q.update = "Available")
    <3>1. x = [q EXCEPT !.dialog = "none"]
      BY <2>2
    <3> QED
      BY <1>1, <3>1 DEF ProcessOK, ProcessType
  <2> QED
    BY <2>1, <2>2
<1> HIDE DEF x
<1> QED
  BY <1>1, <1>2, <1>3, InterfaceMove DEF AcceptOffer, q

\* The user cancels a download.
LEMMA CancelDownloadStep == \A p \in Processes : IInv /\ CancelDownload(p) => IInv'
<1> SUFFICES ASSUME IInv, NEW p \in Processes, CancelDownload(p) PROVE IInv'
  OBVIOUS
<1> DEFINE x == [process[p] EXCEPT !.cancelled = TRUE]
<1>1. process[p] \in ProcessType /\ ProcessOK(process[p])
  BY DEF IInv, ProcessOK
<1>2. process' = [process EXCEPT ![p] = x]
  BY DEF CancelDownload
<1>3. ProcessOK(x)
  BY <1>1 DEF ProcessOK, ProcessType
<1> QED
  BY <1>1, <1>2, <1>3, InterfaceMove DEF CancelDownload, Menu, Free, ProcessType

\* A download leaves the update, verified, or no file.
LEMMA TransferStep ==
    \A p \in Processes : IInv /\ Transferred(p) => IInv'
<1> SUFFICES ASSUME IInv, NEW p \in Processes, Transferred(p) PROVE IInv'
  OBVIOUS
<1> DEFINE q == process[p]
<1>1. q \in ProcessType /\ ProcessOK(q)
  BY DEF IInv, ProcessOK
<1>2. q.transfer = "flowing"
  BY DEF Transferred, Transfer, TransferFails
<1>3. q.step = "none" /\ q.update = "Downloading"
  BY <1>1, <1>2 DEF ProcessOK
<1>4. CASE TransferFails(p)
  <2> DEFINE x == [q EXCEPT !.transfer = "error"]
  <2>1. process' = [process EXCEPT ![p] = x]
    BY <1>4 DEF TransferFails
  <2>2. ProcessOK(x)
    BY <1>1, <1>3 DEF ProcessOK, ProcessType
  <2> QED
    BY <1>1, <1>3, <1>4, <2>1, <2>2, InterfaceMove DEF TransferFails, ProcessType
<1>5. ASSUME NEW sent, NEW complete \in BOOLEAN, NEW known \in BOOLEAN,
             Transfer(p, sent, complete, known)
      PROVE  IInv'
  <2> DEFINE file == DownloadVerified(q.info, sent, complete, known)
             answer == IF file = Gone THEN "error" ELSE "ok"
             x == [q EXCEPT !.artifact = file, !.transfer = answer]
  <2>1. process' = [process EXCEPT ![p] = x]
    BY <1>5 DEF Transfer
  <2>2. file \in {Gone, q.info.version} /\ q.info.version \in Int
    BY <1>1 DEF DownloadVerified, ProcessType, InfoType
  <2>3. answer \in {"none", "flowing", "ok", "error"}
    OBVIOUS
  <2> HIDE DEF file, answer
  <2>4. x \in ProcessType
    <3> DEFINE a == [q EXCEPT !.artifact = file]
    <3>1. a \in ProcessType
      BY <1>1, <2>2 DEF ProcessType, Gone
    <3> HIDE DEF a
    <3>2. [a EXCEPT !.transfer = answer] \in ProcessType
      BY <3>1, <2>3 DEF ProcessType
    <3> QED
      BY <3>2 DEF a
  <2>5. ProcessOK(x) /\ x.life = q.life /\ x.build = q.build /\ x.image = q.image /\ x.step = "none"
    BY <1>1, <1>3, <2>2, <2>4 DEF ProcessOK, ProcessType
  <2>6. UNCHANGED <<kind, files, agreed, history>>
    BY <1>5 DEF Transfer
  <2> HIDE DEF x
  <2> QED
    BY <1>1, <1>3, <2>1, <2>5, <2>6, InterfaceMove
<1> QED
  BY <1>4, <1>5 DEF Transferred

\* The callback of a download.
LEMMA DownloadEndsStep == \A p \in Processes : IInv /\ DownloadEnds(p) => IInv'
<1> SUFFICES ASSUME IInv, NEW p \in Processes, DownloadEnds(p) PROVE IInv'
  OBVIOUS
<1> DEFINE q == process[p]
           x == CASE q.update # "Downloading" -> [q EXCEPT !.transfer = "none"]
                  [] q.update = "Downloading" /\ q.transfer = "ok" ->
                         [q EXCEPT !.transfer = "none", !.cancelled = FALSE, !.update = "Ready",
                                   !.dialog = "restart"]
                  [] q.update = "Downloading" /\ q.transfer = "error" /\ q.cancelled ->
                         [q EXCEPT !.transfer = "none", !.cancelled = FALSE, !.update = "Available"]
                  [] q.update = "Downloading" /\ q.transfer = "error" /\ ~ q.cancelled ->
                         [Failed(q) EXCEPT !.transfer = "none"]
<1>1. q \in ProcessType /\ ProcessOK(q) /\ q.step = "none" /\ q.transfer \in {"ok", "error"}
  BY DEF IInv, ProcessOK, DownloadEnds, Free
<1>2. process' = [process EXCEPT ![p] = x]
  BY DEF DownloadEnds
<1> HIDE DEF q
<1>3. q.update = "Downloading"
  BY <1>1 DEF ProcessOK
<1>4. ProcessOK(x) /\ x.life = q.life /\ x.build = q.build /\ x.image = q.image /\ x.step = "none"
  <2>1. CASE q.transfer = "ok"
    <3>1. x = [q EXCEPT !.transfer = "none", !.cancelled = FALSE, !.update = "Ready",
                        !.dialog = "restart"]
      BY <1>3, <2>1
    <3> HIDE DEF x
    <3>2. x \in ProcessType
      BY <1>1, <3>1 DEF ProcessType, UpdateStates
    <3> QED
      BY <1>1, <1>3, <3>1, <3>2 DEF ProcessOK, ProcessType
  <2>2. CASE q.transfer = "error" /\ q.cancelled
    <3>1. x = [q EXCEPT !.transfer = "none", !.cancelled = FALSE, !.update = "Available"]
      BY <1>3, <2>2
    <3> HIDE DEF x
    <3>2. x \in ProcessType
      BY <1>1, <3>1 DEF ProcessType, UpdateStates
    <3> QED
      BY <1>1, <1>3, <3>1, <3>2 DEF ProcessOK, ProcessType
  <2>3. CASE q.transfer = "error" /\ ~ q.cancelled
    <3> DEFINE f == Failed(q)
    <3>1. x = [f EXCEPT !.transfer = "none"]
      BY <1>3, <2>3
    <3>2. /\ f \in ProcessType /\ f.life = q.life /\ f.build = q.build /\ f.image = q.image
          /\ f.dialog = q.dialog /\ f.update = "Failed" /\ f.artifact = Gone /\ f.step = "none"
      BY <1>1, FailedFacts
    <3> HIDE DEF f, x
    <3>3. x \in ProcessType
      BY <3>1, <3>2 DEF ProcessType
    <3> QED
      BY <1>1, <1>3, <3>1, <3>2, <3>3 DEF ProcessOK, ProcessType
  <2> QED
    BY <1>1, <2>1, <2>2, <2>3
<1> HIDE DEF x
<1> QED
  BY <1>1, <1>2, <1>4, InterfaceMove DEF DownloadEnds, q

\* The card of a failure goes.
LEMMA DismissFailureStep == \A p \in Processes : IInv /\ DismissFailure(p) => IInv'
<1> SUFFICES ASSUME IInv, NEW p \in Processes, DismissFailure(p) PROVE IInv'
  OBVIOUS
<1> DEFINE x == [process[p] EXCEPT !.update = "Idle"]
<1>1. process[p] \in ProcessType /\ ProcessOK(process[p])
  BY DEF IInv, ProcessOK
<1>2. process' = [process EXCEPT ![p] = x]
  BY DEF DismissFailure
<1>3. x \in ProcessType
  BY <1>1 DEF ProcessType, UpdateStates
<1>4. ProcessOK(x)
  BY <1>1, <1>3 DEF ProcessOK, ProcessType, DismissFailure
<1> QED
  BY <1>1, <1>2, <1>4, InterfaceMove DEF DismissFailure, Menu, Free, ProcessType

-----------------------------------------------------------------------------
(* Processes that come and go, and what else happens to the files.         *)

\* Rymd is installed, and nobody runs it.
LEMMA InitOK == Init => IInv
<1> SUFFICES ASSUME Init PROVE IInv
  OBVIOUS
<1>1. First \in Nat \ {0} /\ Kinds \subseteq InstallKinds
  BY UpdaterAssumption
<1>2. Unborn \in ProcessType
  <2>1. NoInfo \in InfoType
    BY DEF NoInfo, InfoType
  <2> QED
    BY <2>1 DEF Unborn, ProcessType, UpdateStates, Places, Steps, Gone
<1>3. ProcessOK(Unborn) /\ Unborn.step = "none" /\ Unborn.life = "unborn"
  BY <1>2 DEF Unborn, ProcessOK, Gone
<1> HIDE DEF Unborn
<1>4. \A p \in Processes : process[p] = Unborn
  BY DEF Init
<1>5. TypeOK
  BY <1>1 DEF Init, TypeOK, Files, Good
<1> QED
  BY <1>1, <1>3, <1>4, <1>5
     DEF Init, IInv, Agreements, Parking, Alone, Agreed, Up, At, Gone

\* A process starts from a whole executable.
LEMMA LaunchStep == \A p \in Processes : IInv /\ Launch(p) => IInv'
<1> SUFFICES ASSUME IInv, NEW p \in Processes, Launch(p) PROVE IInv'
  OBVIOUS
<1>1. PICK checks \in BOOLEAN : process' = [process EXCEPT ![p] = Started(checks)]
  BY DEF Launch
<1> DEFINE x == Started(checks)
<1>2. target \in Good /\ target > 0 /\ target # Gone /\ target \in Int
  BY UpdaterAssumption DEF Launch, Whole, IInv, TypeOK, Files, Good, Updates, Gone, Broken
<1>3. x \in ProcessType
  <2> DEFINE a == [Unborn EXCEPT !.life = "up", !.build = target]
  <2>1. NoInfo \in InfoType
    BY DEF NoInfo, InfoType
  <2>2. Unborn \in ProcessType
    BY <2>1 DEF Unborn, ProcessType, UpdateStates, Places, Steps, Gone
  <2>3. a \in ProcessType
    <3> HIDE DEF Unborn
    <3> QED
      BY <1>2, <2>2 DEF ProcessType
  <2>4. [a EXCEPT !.update = IF checks THEN "Checking" ELSE "Idle"] \in ProcessType
    <3> HIDE DEF a
    <3> QED
      BY <2>3 DEF ProcessType, UpdateStates
  <2> QED
    BY <2>4 DEF Started
<1>4. /\ x.life = "up" /\ x.build = target /\ x.image = "target" /\ x.artifact = Gone
      /\ x.update \in {"Idle", "Checking"} /\ x.dialog = "none" /\ x.transfer = "none"
      /\ x.step = "none"
  BY DEF Started, Unborn
<1> HIDE DEF x
<1>5. ProcessOK(x)
  BY <1>2, <1>3, <1>4 DEF ProcessOK
<1>6. /\ process' = [q \in Processes |-> process'[q]] /\ DOMAIN process' = Processes
      /\ \A q \in Processes : ProcessOK(process'[q])
      /\ process'[p] = x
      /\ \A q \in Processes \ {p} : process'[q] = process[q]
  BY <1>1, <1>5, OneMoves DEF x
<1>7. /\ UNCHANGED <<kind, target, staged, setup, agreed, history>>
      /\ parked' = parked \/ (Windows /\ parked' = Gone)
      /\ process[p].life = "unborn"
  BY DEF Launch
<1>8. process[p].step = "none"
  BY <1>7 DEF IInv, ProcessOK
<1> USE <1>2, <1>4, <1>6, <1>7, <1>8 DEF history
<1>9. TypeOK'
  BY DEF IInv, TypeOK, Files, Good, Updates, Proper
<1>10. Agreements'
  BY DEF IInv, Agreements, Updates, Proper
<1>11. Parking'
  BY DEF IInv, Parking, Windows, Up
<1>12. Alone'
  BY DEF IInv, Alone, Windows, At, Up
<1>13. Agreed'
  BY DEF IInv, Agreed, Up
<1> QED
  BY <1>6, <1>9, <1>10, <1>11, <1>12, <1>13 DEF IInv

\* A process that is over: nothing of it is left but its files.
LEMMA EndedFacts ==
    /\ ProcessOK(Ended) /\ Ended.life = "down" /\ Ended.step = "none"
<1>1. NoInfo \in InfoType
  BY DEF NoInfo, InfoType
<1>2. Unborn \in ProcessType
  BY <1>1 DEF Unborn, ProcessType, UpdateStates, Places, Steps, Gone
<1>3. Ended \in ProcessType
  <2> HIDE DEF Unborn
  <2> QED
    BY <1>2 DEF Ended, ProcessType
<1>4. /\ Ended.life = "down" /\ Ended.artifact = Gone /\ Ended.update = "Idle"
      /\ Ended.dialog = "none" /\ Ended.transfer = "none" /\ Ended.step = "none"
  BY DEF Ended, Unborn
<1> QED
  BY <1>3, <1>4 DEF ProcessOK

\* A process ends: it quits, or stops wherever it is.
LEMMA EndStep == \A p \in Processes : IInv /\ (Quit(p) \/ Stop(p)) => IInv'
<1> SUFFICES ASSUME IInv, NEW p \in Processes, Quit(p) \/ Stop(p) PROVE IInv'
  OBVIOUS
<1>1. /\ process' = [process EXCEPT ![p] = Ended]
      /\ UNCHANGED <<kind, files, agreed, alterations, touched, overlapped>>
      /\ stranded' = (stranded \/ (process[p].step \in {"swap", "putback"} /\ target = Gone))
  BY DEF Quit, Stop, history, Free, IInv, TypeOK
<1>2. /\ process' = [q \in Processes |-> process'[q]] /\ DOMAIN process' = Processes
      /\ \A q \in Processes : ProcessOK(process'[q])
      /\ process'[p] = Ended
      /\ \A q \in Processes \ {p} : process'[q] = process[q]
  BY <1>1, EndedFacts, OneMoves
<1> HIDE DEF Ended
<1> USE <1>1, <1>2, EndedFacts DEF files
<1>3. TypeOK'
  BY DEF IInv, TypeOK, Files, Good, Updates, Proper
<1>4. Agreements'
  BY DEF IInv, Agreements, Updates, Proper
<1>5. Parking'
  BY DEF IInv, Parking, Windows, Up
<1>6. Alone'
  BY DEF IInv, Alone, Windows, At, Up
<1>7. Agreed'
  BY DEF IInv, Agreed, Up
<1> QED
  BY <1>2, <1>3, <1>4, <1>5, <1>6, <1>7 DEF IInv

\* Another program damages or removes the downloaded file.
LEMMA AlterStep == \A p \in Processes : IInv /\ Alter(p) => IInv'
<1> SUFFICES ASSUME IInv, NEW p \in Processes, Alter(p) PROVE IInv'
  OBVIOUS
<1>1. PICK file \in {Broken, Gone} : process' = [process EXCEPT ![p].artifact = file]
  BY DEF Alter
<1> DEFINE q == process[p]
           x == [q EXCEPT !.artifact = file]
<1>2. process' = [process EXCEPT ![p] = x]
  BY <1>1
<1>3. q \in ProcessType /\ ProcessOK(q) /\ q.life = "up" /\ q.artifact # Gone
  BY DEF IInv, ProcessOK, Alter, Up
<1>4. ProcessOK(x) /\ SamePlan([x EXCEPT !.artifact = q.artifact], q) /\ x.step = q.step
      /\ x.life = q.life /\ x.build = q.build /\ x.image = q.image /\ x.copies = q.copies
      /\ x.info = q.info
  BY <1>3 DEF ProcessOK, ProcessType, SamePlan, Gone, Broken
<1> HIDE DEF x
<1>5. /\ process' = [r \in Processes |-> process'[r]] /\ DOMAIN process' = Processes
      /\ \A r \in Processes : ProcessOK(process'[r])
      /\ process'[p] = x
      /\ \A r \in Processes \ {p} : process'[r] = process[r]
  BY <1>2, <1>4, OneMoves
<1>6. /\ UNCHANGED <<kind, files, agreed, overlapped, stranded>>
      /\ alterations' = alterations + 1 /\ touched' = (touched \/ process[p].step # "none")
  BY DEF Alter
<1> USE <1>4, <1>5, <1>6 DEF files
<1>7. TypeOK'
  BY DEF IInv, TypeOK, Files, Good, Updates, Proper
<1>8. Agreements'
  BY DEF IInv, Agreements, Updates, Proper
<1>9. Parking'
  BY DEF IInv, Parking, Windows, Up
<1>10. Alone'
  BY DEF IInv, Alone, Windows, At, Up
<1>11. Agreed'
  <2>1. ~ touched' => ~ touched /\ x.step = "none"
    BY DEF IInv, TypeOK
  <2> QED
    BY <2>1 DEF IInv, Agreed, Up
<1> QED
  BY <1>5, <1>7, <1>8, <1>9, <1>10, <1>11 DEF IInv

\* Inno Setup replaces the executable.
LEMMA SetupReplacesStep == IInv /\ SetupReplaces => IInv'
<1> SUFFICES ASSUME IInv, SetupReplaces PROVE IInv'
  OBVIOUS
<1>1. /\ UNCHANGED <<kind, staged, parked, process, agreed, history>>
      /\ setup' = Gone /\ target' \in {setup, target} /\ (target' = setup => setup # Gone)
      /\ \A p \in Processes : ~ (Up(p) /\ process[p].image = "target")
  BY DEF SetupReplaces, ImageAt
<1> USE <1>1 DEF history
<1>2. TypeOK'
  BY DEF IInv, TypeOK, Files, Good, Updates, Proper
<1>3. Agreements'
  BY DEF IInv, Agreements, Updates, Proper
<1>4. Parking'
  BY DEF IInv, Parking, Windows, Up
<1>5. Alone'
  BY DEF IInv, Alone, Windows, At, Up
<1>6. Agreed'
  BY DEF IInv, Agreed, Up, Alone
<1>7. \A p \in Processes : ProcessOK(process'[p])
  BY DEF IInv, ProcessOK, Good, Updates, Proper
<1> QED
  BY <1>2, <1>3, <1>4, <1>5, <1>6, <1>7 DEF IInv

-----------------------------------------------------------------------------
(* The operations of an install.                                           *)

\* One process moves, and the others follow a file.
LEMMA OthersFollow ==
    ASSUME IInv, NEW p \in Processes, NEW x, ProcessOK(x),
           NEW from \in Places, NEW to \in Places,
           process' = [q \in Processes |-> IF q = p THEN x ELSE Follow(process[q], from, to)]
    PROVE  /\ process' = [q \in Processes |-> process'[q]] /\ DOMAIN process' = Processes
           /\ \A q \in Processes : ProcessOK(process'[q])
           /\ process'[p] = x
           /\ \A q \in Processes \ {p} :
                  /\ SamePlan(process[q], process'[q])
                  /\ process'[q].image = IF process[q].image = from THEN to ELSE process[q].image
<1>1. \A q \in Processes : ProcessOK(process[q]) /\ process[q] \in ProcessType
  BY DEF IInv, ProcessOK
<1>2. \A q \in Processes \ {p} : process'[q] = Follow(process[q], from, to)
  OBVIOUS
<1>3. \A q \in Processes \ {p} :
          /\ process'[q] \in ProcessType
          /\ SamePlan(process[q], process'[q])
          /\ process'[q].image = IF process[q].image = from THEN to ELSE process[q].image
  BY <1>1, <1>2, FollowFacts
<1>4. \A q \in Processes \ {p} : ProcessOK(process'[q])
  BY <1>1, <1>3, SamePlanOK
<1> QED
  BY <1>3, <1>4

\* The restart is confirmed: what is installed was agreed to, and the file is whole.
LEMMA AcceptRestartStep == \A p \in Processes : IInv /\ AcceptRestart(p) => IInv'
<1> SUFFICES ASSUME IInv, NEW p \in Processes, AcceptRestart(p) PROVE IInv'
  OBVIOUS
<1> DEFINE q == process[p]
           f == Failed(q)
           x == IF q.artifact = q.info.version THEN [q EXCEPT !.dialog = "none", !.step = "mark"]
                ELSE [f EXCEPT !.dialog = "none"]
<1>1. q \in ProcessType /\ ProcessOK(q) /\ q.step = "none" /\ q.life = "up" /\ q.dialog = "restart"
  BY DEF IInv, ProcessOK, AcceptRestart, Free, Up
<1>2. q.update = "Ready" /\ q.info.version \in Updates /\ q.transfer = "none"
  BY <1>1 DEF ProcessOK
<1>3. /\ process' = [process EXCEPT ![p] = x]
      /\ agreed' = agreed \union {q.info.version}
      /\ overlapped' = (overlapped \/ \E r \in Processes \ {p} : Up(r) /\ process[r].step # "none")
      /\ UNCHANGED <<kind, files, alterations, touched, stranded>>
  BY DEF AcceptRestart
<1> HIDE DEF q
<1>4. /\ ProcessOK(x) /\ x.life = "up" /\ x.build = q.build /\ x.image = q.image
      /\ x.step # "none" => /\ x.step = "mark" /\ x.info.version = q.info.version
                            /\ x.artifact = q.info.version
  <2>1. CASE q.artifact = q.info.version
    <3>1. x = [q EXCEPT !.dialog = "none", !.step = "mark"]
      BY <2>1
    <3> HIDE DEF x
    <3>2. x \in ProcessType
      BY <1>1, <3>1 DEF ProcessType, Steps
    <3> QED
      BY <1>1, <1>2, <2>1, <3>1, <3>2 DEF ProcessOK, ProcessType
  <2>2. CASE q.artifact # q.info.version
    <3>1. x = [f EXCEPT !.dialog = "none"]
      BY <2>2
    <3>2. /\ f \in ProcessType /\ f.life = q.life /\ f.build = q.build /\ f.image = q.image
          /\ f.transfer = q.transfer /\ f.update = "Failed" /\ f.artifact = Gone /\ f.step = "none"
      BY <1>1, FailedFacts
    <3> HIDE DEF f, x
    <3>3. x \in ProcessType
      BY <3>1, <3>2 DEF ProcessType
    <3> QED
      BY <1>1, <1>2, <3>1, <3>2, <3>3 DEF ProcessOK, ProcessType
  <2> QED
    BY <2>1, <2>2
<1>5. /\ process' = [r \in Processes |-> process'[r]] /\ DOMAIN process' = Processes
      /\ \A r \in Processes : ProcessOK(process'[r])
      /\ process'[p] = x
      /\ \A r \in Processes \ {p} : process'[r] = process[r]
  BY <1>3, <1>4, OneMoves
<1> HIDE DEF x
<1>6. overlapped \in BOOLEAN
  BY DEF IInv, TypeOK
<1>7. /\ ~ overlapped' => ~ overlapped
      /\ ~ overlapped' => \A r \in Processes \ {p} : process[r].step = "none"
  BY <1>3, <1>6 DEF IInv, ProcessOK, Up
<1> USE <1>1, <1>2, <1>4, <1>5 DEF files
<1>8. TypeOK'
  BY <1>3, <1>6 DEF IInv, TypeOK, Files, Good, Updates, Proper
<1>9. Agreements'
  BY <1>3 DEF IInv, Agreements, Updates, Proper
<1>10. Parking'
  BY <1>3 DEF IInv, Parking, Windows, Up, q
<1>11. Alone'
  BY <1>3, <1>7 DEF IInv, Alone, Windows, At, Up, q
<1>12. Agreed'
  BY <1>3, <1>7 DEF IInv, Agreed, Up, q
<1> QED
  BY <1>5, <1>8, <1>9, <1>10, <1>11, <1>12 DEF IInv

\* The start of the setup program and of the new build: the process is about to quit.
LEMMA InstallingFacts ==
    ASSUME NEW q, ProcessOK(q), q.step # "none"
    PROVE  LET r == [q EXCEPT !.step = "none", !.update = "Installing"] IN
           /\ ProcessOK(r) /\ r.step = "none" /\ r.life = q.life
           /\ r.build = q.build /\ r.image = q.image
<1> DEFINE r == [q EXCEPT !.step = "none", !.update = "Installing"]
<1>1. r \in ProcessType
  BY DEF ProcessOK, ProcessType, UpdateStates, Steps
<1> QED
  BY <1>1 DEF ProcessOK, ProcessType

\* The setup program is started from the verified file.
LEMMA StartSetupStep == \A p \in Processes : IInv /\ StartSetup(p) => IInv'
<1> SUFFICES ASSUME IInv, NEW p \in Processes, StartSetup(p) PROVE IInv'
  OBVIOUS
<1> DEFINE q == process[p]
           x == [q EXCEPT !.step = "none", !.update = "Installing"]
<1>1. ProcessOK(q) /\ q.step = "mark" /\ stranded \in BOOLEAN
  BY DEF IInv, StartSetup, At, TypeOK
<1>2. UNCHANGED <<kind, target, staged, parked, agreed, history>>
  BY DEF StartSetup
<1>3. CASE Fails(p) /\ UNCHANGED setup
  BY <1>1, <1>2, <1>3, InstallFails DEF history
<1>4. CASE /\ q.artifact # Gone /\ setup' = q.artifact
           /\ process' = [process EXCEPT ![p].step = "none", ![p].update = "Installing"]
  <2>1. process' = [process EXCEPT ![p] = x]
    BY <1>4
  <2>2. ProcessOK(x) /\ x.step = "none" /\ x.life = q.life /\ x.build = q.build /\ x.image = q.image
    BY <1>1, InstallingFacts
  <2> HIDE DEF x
  <2>3. /\ process' = [r \in Processes |-> process'[r]] /\ DOMAIN process' = Processes
        /\ \A r \in Processes : ProcessOK(process'[r])
        /\ process'[p] = x
        /\ \A r \in Processes \ {p} : process'[r] = process[r]
    BY <2>1, <2>2, OneMoves
  <2>4. q.artifact \in {Broken} \union Updates
    BY <1>1, <1>4 DEF ProcessOK
  <2> USE <1>1, <1>2, <1>4, <2>2, <2>3, <2>4 DEF history
  <2>5. TypeOK'
    BY DEF IInv, TypeOK, Files, Good, Updates, Proper
  <2>6. Agreements'
    BY DEF IInv, Agreements, Updates, Proper
  <2>7. Parking'
    BY DEF IInv, Parking, Windows, Up
  <2>8. Alone'
    BY DEF IInv, Alone, Windows, At, Up
  <2>9. Agreed'
    BY DEF IInv, Agreed, Up, Agreements
  <2> QED
    BY <2>3, <2>5, <2>6, <2>7, <2>8, <2>9 DEF IInv
<1> QED
  BY <1>3, <1>4 DEF StartSetup

\* The new build is started.
LEMMA SpawnStep == \A p \in Processes : IInv /\ Spawn(p) => IInv'
<1> SUFFICES ASSUME IInv, NEW p \in Processes, Spawn(p) PROVE IInv'
  OBVIOUS
<1> DEFINE q == process[p]
           x == [q EXCEPT !.step = "none", !.update = "Installing"]
<1>1. ProcessOK(q) /\ q.step = "spawn" /\ stranded \in BOOLEAN
  BY DEF IInv, Spawn, At, TypeOK
<1>2. UNCHANGED <<kind, files, agreed, history>>
  BY DEF Spawn
<1>3. CASE Fails(p)
  BY <1>1, <1>2, <1>3, InstallFails DEF history, files
<1>4. CASE process' = [process EXCEPT ![p].step = "none", ![p].update = "Installing"]
  <2>1. process' = [process EXCEPT ![p] = x]
    BY <1>4
  <2>2. ProcessOK(x) /\ x.step = "none" /\ x.life = q.life /\ x.build = q.build /\ x.image = q.image
    BY <1>1, InstallingFacts
  <2> HIDE DEF x
  <2>3. /\ process' = [r \in Processes |-> process'[r]] /\ DOMAIN process' = Processes
        /\ \A r \in Processes : ProcessOK(process'[r])
        /\ process'[p] = x
        /\ \A r \in Processes \ {p} : process'[r] = process[r]
    BY <2>1, <2>2, OneMoves
  <2> USE <1>1, <1>2, <1>4, <2>2, <2>3 DEF history, files
  <2>4. TypeOK'
    BY DEF IInv, TypeOK, Files, Good, Updates, Proper
  <2>5. Agreements'
    BY DEF IInv, Agreements, Updates, Proper
  <2>6. Parking'
    BY DEF IInv, Parking, Windows, Up
  <2>7. Alone'
    BY DEF IInv, Alone, Windows, At, Up
  <2>8. Agreed'
    BY DEF IInv, Agreed, Up
  <2> QED
    BY <2>3, <2>4, <2>5, <2>6, <2>7, <2>8 DEF IInv
<1> QED
  BY <1>3, <1>4 DEF Spawn

\* An operation that succeeds, whatever it does to the staged and the parked
\* file: the install goes on.
LEMMA GoesOn ==
    ASSUME IInv, NEW p \in Processes, NEW step \in Steps, process[p].step # "none",
           process[p].step \notin {"swap", "putback"}, GoTo(p, step),
           step \notin {"none", "copy"}, step \in {"park", "putback"} => Windows,
           step \in {"unpark", "park", "swap"} /\ ~ overlapped /\ ~ touched => staged' \in agreed,
           staged' \in Files, parked' \in {parked, Gone},
           ~ overlapped /\ target = Gone => parked' = parked,
           UNCHANGED <<kind, target, setup, agreed, history>>
    PROVE  IInv'
<1> DEFINE q == process[p]
           x == [q EXCEPT !.step = step]
<1>1. process' = [process EXCEPT ![p] = x]
  BY DEF GoTo
<1>2. ProcessOK(q)
  BY DEF IInv
<1>3. /\ ProcessOK(x) /\ x.step = step
      /\ x.life = q.life /\ x.build = q.build /\ x.image = q.image /\ x.copies = q.copies
      /\ x.info = q.info /\ x.artifact = q.artifact
  BY <1>2, StepFacts
<1> HIDE DEF x
<1>4. /\ process' = [r \in Processes |-> process'[r]] /\ DOMAIN process' = Processes
      /\ \A r \in Processes : ProcessOK(process'[r])
      /\ process'[p] = x
      /\ \A r \in Processes \ {p} : process'[r] = process[r]
  BY <1>1, <1>3, OneMoves
<1> USE <1>2, <1>3, <1>4 DEF history
<1>5. TypeOK'
  BY DEF IInv, TypeOK, Files, Good, Updates, Proper
<1>6. Agreements'
  BY DEF IInv, Agreements, Updates, Proper
<1>7. Parking'
  BY DEF IInv, Parking, Windows, Up
<1>8. Alone'
  BY DEF IInv, Alone, Windows, At, Up
<1>9. Agreed'
  BY DEF IInv, Agreed, Up, Alone
<1> QED
  BY <1>4, <1>5, <1>6, <1>7, <1>8, <1>9 DEF IInv

\* The file is made executable.
LEMMA MarkExecutableStep == \A p \in Processes : IInv /\ MarkExecutable(p) => IInv'
<1> SUFFICES ASSUME IInv, NEW p \in Processes, MarkExecutable(p) PROVE IInv'
  OBVIOUS
<1>1. process[p].step = "mark" /\ stranded \in BOOLEAN /\ staged \in Files
  BY DEF IInv, MarkExecutable, At, TypeOK
<1>2. UNCHANGED <<kind, target, staged, parked, setup, agreed, history>>
  BY DEF MarkExecutable, files
<1>3. CASE Fails(p)
  BY <1>1, <1>2, <1>3, InstallFails DEF history
<1>4. CASE GoTo(p, "clear")
  <2>1. "clear" \in Steps
    BY DEF Steps
  <2>2. staged' \in Files /\ parked' = parked
    BY <1>1, <1>2
  <2> QED
    BY <1>1, <1>2, <1>4, <2>1, <2>2, GoesOn
<1> QED
  BY <1>3, <1>4 DEF MarkExecutable

\* The parked file goes, unless it is the only whole build there is.
LEMMA ClearParkedStep == \A p \in Processes : IInv /\ ClearParked(p) => IInv'
<1> SUFFICES ASSUME IInv, NEW p \in Processes, ClearParked(p) PROVE IInv'
  OBVIOUS
<1> DEFINE next == IF Windows THEN "park" ELSE "swap"
<1>1. process[p].step = "unpark" /\ Up(p) /\ staged \in Files /\ staged' = staged
  BY DEF IInv, ClearParked, At, TypeOK
<1>2. GoTo(p, next) /\ UNCHANGED <<kind, target, setup, agreed, history>>
  BY DEF ClearParked
<1>3. next \in Steps /\ next \in {"park", "swap"} /\ (next = "park" => Windows)
  BY DEF Steps
<1>4. parked' = parked \/ (~ (Windows /\ ImageAt("parked")) /\ parked' = Gone)
  BY DEF ClearParked
<1>5. ~ overlapped /\ target = Gone => parked' = parked
  <2>1. ~ overlapped /\ target = Gone => Windows /\ process[p].image = "parked"
    BY <1>1 DEF IInv, Alone, Parking
  <2> QED
    BY <1>1, <1>4, <2>1 DEF ImageAt
<1>6. ~ overlapped /\ ~ touched => staged' \in agreed
  BY <1>1 DEF IInv, Agreed
<1> HIDE DEF next
<1> QED
  BY <1>1, <1>2, <1>3, <1>4, <1>5, <1>6, GoesOn

\* The staged file is unlinked or replaced; who copied to it goes on copying to
\* a file that has no name.
LEMMA StagedReplaced ==
    ASSUME IInv, NEW p \in Processes, NEW x, ProcessOK(x), process[p].step \in {"clear", "stage"},
           process' = [q \in Processes |->
               IF q = p THEN x ELSE Follow(process[q], "staged", "unlinked")],
           x.life = process[p].life, x.build = process[p].build, x.image = process[p].image,
           x.info = process[p].info, x.artifact \in {process[p].artifact, Gone},
           x.step \in {"stage", "unpark"}, staged' \in Files,
           x.step = "unpark" /\ ~ overlapped /\ ~ touched => staged' \in agreed,
           UNCHANGED <<kind, target, parked, setup, agreed, history>>
    PROVE  IInv'
<1> DEFINE q == process[p]
<1>1. ProcessOK(q)
  BY DEF IInv
<1>2. /\ process' = [r \in Processes |-> process'[r]] /\ DOMAIN process' = Processes
      /\ \A r \in Processes : ProcessOK(process'[r])
      /\ process'[p] = x
      /\ \A r \in Processes \ {p} :
             /\ SamePlan(process[r], process'[r])
             /\ process'[r].image = IF process[r].image = "staged" THEN "unlinked" ELSE process[r].image
  BY OthersFollow DEF Places
<1> USE <1>1, <1>2 DEF history
<1>3. TypeOK'
  BY DEF IInv, TypeOK, Files, Good, Updates, Proper
<1>4. Agreements'
  BY DEF IInv, Agreements, Updates, Proper, SamePlan
<1>5. Parking'
  BY DEF IInv, Parking, Windows, Up, SamePlan
<1>6. Alone'
  BY DEF IInv, Alone, Windows, At, Up, SamePlan
<1>7. Agreed'
  BY DEF IInv, Agreed, Up, Alone, SamePlan
<1> QED
  BY <1>2, <1>3, <1>4, <1>5, <1>6, <1>7 DEF IInv

\* A staged file of an earlier install goes.
LEMMA ClearStagedStep == \A p \in Processes : IInv /\ ClearStaged(p) => IInv'
<1> SUFFICES ASSUME IInv, NEW p \in Processes, ClearStaged(p) PROVE IInv'
  OBVIOUS
<1> DEFINE q == process[p]
           x == [q EXCEPT !.step = "stage"]
<1>1. q.step = "clear" /\ ProcessOK(q) /\ staged \in Files /\ "stage" \in Steps
  BY DEF IInv, ClearStaged, At, TypeOK, Steps
<1>2. UNCHANGED <<kind, target, parked, setup, agreed, history>>
  BY DEF ClearStaged
<1>3. CASE GoTo(p, "stage") /\ UNCHANGED staged
  <2>1. staged' \in Files /\ parked' = parked
    BY <1>1, <1>2, <1>3
  <2> QED
    BY <1>1, <1>2, <1>3, <2>1, GoesOn
<1>4. CASE /\ staged' = Gone
           /\ process' = [r \in Processes |->
                  IF r = p THEN x ELSE Follow(process[r], "staged", "unlinked")]
  <2>1. /\ ProcessOK(x) /\ x.step = "stage"
        /\ x.life = q.life /\ x.build = q.build /\ x.image = q.image
        /\ x.info = q.info /\ x.artifact = q.artifact
    BY <1>1, StepFacts
  <2>2. staged' \in Files
    BY <1>4 DEF Files
  <2> HIDE DEF x
  <2> QED
    BY <1>1, <1>2, <1>4, <2>1, <2>2, StagedReplaced
<1> QED
  BY <1>3, <1>4 DEF ClearStaged

\* The artifact is moved next to the executable, or a copy begins.
LEMMA StageStep == \A p \in Processes : IInv /\ Stage(p) => IInv'
<1> SUFFICES ASSUME IInv, NEW p \in Processes, Stage(p) PROVE IInv'
  OBVIOUS
<1> DEFINE q == process[p]
<1>1. /\ q.step = "stage" /\ ProcessOK(q) /\ q \in ProcessType
      /\ staged \in Files /\ stranded \in BOOLEAN
  BY DEF IInv, Stage, At, TypeOK, ProcessOK
<1>2. UNCHANGED <<kind, target, parked, setup, agreed, history>>
  BY DEF Stage
<1>3. CASE Fails(p) /\ UNCHANGED staged
  BY <1>1, <1>2, <1>3, InstallFails DEF history
<1>4. CASE /\ q.artifact # Gone /\ staged' = q.artifact
           /\ process' = [r \in Processes |->
                  IF r = p THEN [q EXCEPT !.step = "unpark", !.artifact = Gone]
                  ELSE Follow(process[r], "staged", "unlinked")]
  <2> DEFINE x == [q EXCEPT !.step = "unpark", !.artifact = Gone]
  <2>1. x \in ProcessType
    <3> DEFINE a == [q EXCEPT !.step = "unpark"]
    <3>1. a \in ProcessType
      BY <1>1 DEF ProcessType, Steps
    <3> HIDE DEF a
    <3>2. [a EXCEPT !.artifact = Gone] \in ProcessType
      BY <3>1 DEF ProcessType, Gone
    <3> QED
      BY <3>2 DEF a
  <2>2. /\ ProcessOK(x) /\ x.step = "unpark" /\ x.artifact = Gone
        /\ x.life = q.life /\ x.build = q.build /\ x.image = q.image /\ x.info = q.info
    BY <1>1, <2>1 DEF ProcessOK, ProcessType
  <2> HIDE DEF x
  <2>3. process' = [r \in Processes |->
                  IF r = p THEN x ELSE Follow(process[r], "staged", "unlinked")]
    BY <1>4 DEF x
  <2>4. staged' \in Files
    BY <1>1, <1>4 DEF ProcessOK, Files, Good
  <2>5. ~ overlapped /\ ~ touched => staged' \in agreed
    BY <1>1, <1>4 DEF IInv, Agreed, Agreements
  <2> QED
    BY <1>1, <1>2, <2>2, <2>3, <2>4, <2>5, StagedReplaced
<1>5. CASE /\ q.artifact # Gone /\ staged' = Broken
           /\ process' = [process EXCEPT ![p].step = "copy", ![p].copies = "staged"]
  <2> DEFINE x == [q EXCEPT !.step = "copy", !.copies = "staged"]
  <2>1. x \in ProcessType
    BY <1>1 DEF ProcessType, Steps, Places
  <2>2. /\ ProcessOK(x) /\ x.step = "copy" /\ x.copies = "staged"
        /\ x.life = q.life /\ x.build = q.build /\ x.image = q.image /\ x.info = q.info
        /\ x.artifact = q.artifact
    BY <1>1, <2>1 DEF ProcessOK, ProcessType
  <2>3. process' = [process EXCEPT ![p] = x]
    BY <1>5
  <2> HIDE DEF x
  <2>4. /\ process' = [r \in Processes |-> process'[r]] /\ DOMAIN process' = Processes
        /\ \A r \in Processes : ProcessOK(process'[r])
        /\ process'[p] = x
        /\ \A r \in Processes \ {p} : process'[r] = process[r]
    BY <2>2, <2>3, OneMoves
  <2> USE <1>1, <1>2, <1>5, <2>2, <2>4 DEF history
  <2>5. TypeOK'
    BY DEF IInv, TypeOK, Files, Good, Updates, Proper
  <2>6. Agreements'
    BY DEF IInv, Agreements, Updates, Proper
  <2>7. Parking'
    BY DEF IInv, Parking, Windows, Up
  <2>8. Alone'
    BY DEF IInv, Alone, Windows, At, Up
  <2>9. Agreed'
    BY DEF IInv, Agreed, Up, Alone
  <2> QED
    BY <2>4, <2>5, <2>6, <2>7, <2>8, <2>9 DEF IInv
<1> QED
  BY <1>3, <1>4, <1>5 DEF Stage

\* The copy is whole if the artifact is.
LEMMA CopyEndsStep == \A p \in Processes : IInv /\ CopyEnds(p) => IInv'
<1> SUFFICES ASSUME IInv, NEW p \in Processes, CopyEnds(p) PROVE IInv'
  OBVIOUS
<1> DEFINE q == process[p]
           copy == IF Whole(q.artifact) THEN q.artifact ELSE Broken
           filled(place, file) == IF q.copies = place THEN copy ELSE file
<1>1. /\ q.step = "copy" /\ ProcessOK(q) /\ q \in ProcessType
      /\ {target, staged, parked, setup} \subseteq Files /\ stranded \in BOOLEAN
  BY DEF IInv, CopyEnds, At, TypeOK, ProcessOK
<1>2. UNCHANGED <<kind, agreed, history>>
  BY DEF CopyEnds
<1>3. CASE Fails(p) /\ UNCHANGED files
  BY <1>1, <1>2, <1>3, InstallFails DEF history, files
<1>4. CASE /\ target' = filled("target", target)
           /\ staged' = filled("staged", staged)
           /\ parked' = filled("parked", parked)
           /\ process' = [process EXCEPT ![p].step = "unpark", ![p].copies = "none",
                                         ![p].artifact = Gone]
           /\ UNCHANGED setup
  <2> DEFINE x == [q EXCEPT !.step = "unpark", !.copies = "none", !.artifact = Gone]
  <2>1. x \in ProcessType
    <3> DEFINE a == [q EXCEPT !.step = "unpark", !.copies = "none"]
    <3>1. a \in ProcessType
      BY <1>1 DEF ProcessType, Steps, Places
    <3> HIDE DEF a
    <3>2. [a EXCEPT !.artifact = Gone] \in ProcessType
      BY <3>1 DEF ProcessType, Gone
    <3> QED
      BY <3>2 DEF a
  <2>2. /\ ProcessOK(x) /\ x.step = "unpark" /\ x.artifact = Gone
        /\ x.life = q.life /\ x.build = q.build /\ x.image = q.image /\ x.info = q.info
    BY <1>1, <2>1 DEF ProcessOK, ProcessType
  <2>3. process' = [process EXCEPT ![p] = x]
    BY <1>4
  <2> HIDE DEF x
  <2>4. /\ process' = [r \in Processes |-> process'[r]] /\ DOMAIN process' = Processes
        /\ \A r \in Processes : ProcessOK(process'[r])
        /\ process'[p] = x
        /\ \A r \in Processes \ {p} : process'[r] = process[r]
    BY <2>2, <2>3, OneMoves
  <2>5. copy \in {Broken} \union Updates /\ copy # Gone
    BY <1>1 DEF ProcessOK, Whole, Broken, Gone
  <2>6. ~ overlapped => /\ q.copies = "staged" /\ target' = target /\ parked' = parked
                        /\ ~ touched => staged' \in agreed
    <3>1. ~ overlapped => q.copies = "staged"
      BY <1>1 DEF IInv, Alone
    <3>2. ~ overlapped /\ ~ touched => q.artifact = q.info.version /\ q.info.version \in agreed
      BY <1>1 DEF IInv, Agreed, Agreements
    <3>3. agreed \subseteq Updates /\ \A v \in Updates : Whole(v)
      BY DEF IInv, Agreements, Updates, Whole
    <3> QED
      BY <1>4, <3>1, <3>2, <3>3
  <2>7. {target', staged', parked'} \subseteq Files /\ (target # Gone => target' # Gone) /\ setup' = setup
    BY <1>1, <1>4, <2>5 DEF Files, Good
  <2> HIDE DEF copy, filled
  <2> USE <1>1, <1>2, <2>2, <2>4, <2>6, <2>7 DEF history
  <2>8. TypeOK'
    BY DEF IInv, TypeOK, Files, Good, Updates, Proper
  <2>9. Agreements'
    BY DEF IInv, Agreements, Updates, Proper
  <2>10. Parking'
    BY DEF IInv, Parking, Windows, Up
  <2>11. Alone'
    BY DEF IInv, Alone, Windows, At, Up
  <2>12. Agreed'
    BY DEF IInv, Agreed, Up, Alone
  <2> QED
    BY <2>4, <2>8, <2>9, <2>10, <2>11, <2>12 DEF IInv
<1> QED
  BY <1>3, <1>4 DEF CopyEnds

\* The executable moves aside, and the processes that run it with it.
LEMMA ParkStep == \A p \in Processes : IInv /\ Park(p) => IInv'
<1> SUFFICES ASSUME IInv, NEW p \in Processes, Park(p) PROVE IInv'
  OBVIOUS
<1> DEFINE q == process[p]
           f == Follow(q, "target", "parked")
           x == [f EXCEPT !.step = "swap"]
<1>1. /\ q.step = "park" /\ ProcessOK(q) /\ q \in ProcessType /\ Windows
      /\ {target, parked, staged} \subseteq Files /\ stranded \in BOOLEAN
  BY DEF IInv, Park, At, TypeOK, ProcessOK, Parking
<1>2. UNCHANGED <<kind, staged, setup, agreed, history>>
  BY DEF Park
<1>3. CASE Fails(p) /\ UNCHANGED <<target, parked>>
  BY <1>1, <1>2, <1>3, InstallFails DEF history
<1>4. CASE /\ target # Gone /\ parked' = target /\ target' = Gone
           /\ process' = [r \in Processes |->
                  IF r = p THEN x ELSE Follow(process[r], "target", "parked")]
  <2>1. /\ f \in ProcessType /\ SamePlan(q, f)
        /\ f.image = IF q.image = "target" THEN "parked" ELSE q.image
    BY <1>1, FollowFacts DEF Places
  <2>2. ProcessOK(f) /\ f.step # "none" /\ "swap" \in Steps
    BY <1>1, <2>1, SamePlanOK DEF SamePlan, Steps
  <2> HIDE DEF f
  <2>3. /\ ProcessOK(x) /\ x.step = "swap"
        /\ x.life = f.life /\ x.build = f.build /\ x.image = f.image
        /\ x.info = f.info /\ x.artifact = f.artifact
    BY <2>2, StepFacts
  <2> HIDE DEF x
  <2>4. /\ process' = [r \in Processes |-> process'[r]] /\ DOMAIN process' = Processes
        /\ \A r \in Processes : ProcessOK(process'[r])
        /\ process'[p] = x
        /\ \A r \in Processes \ {p} :
               /\ SamePlan(process[r], process'[r])
               /\ process'[r].image = IF process[r].image = "target" THEN "parked"
                                      ELSE process[r].image
    BY <1>4, <2>3, OthersFollow DEF Places
  <2>5. x.life = q.life /\ x.build = q.build /\ x.info = q.info /\ x.artifact = q.artifact
        /\ x.image = (IF q.image = "target" THEN "parked" ELSE q.image)
    BY <2>1, <2>3 DEF SamePlan
  <2> USE <1>1, <1>2, <1>4, <2>3, <2>4, <2>5 DEF history
  <2>6. TypeOK'
    BY DEF IInv, TypeOK, Files, Good, Updates, Proper
  <2>7. Agreements'
    BY DEF IInv, Agreements, Updates, Proper, SamePlan
  <2>8. Parking'
    BY DEF IInv, Parking, Windows, Up, SamePlan
  <2>9. Alone'
    <3>1. q.life = "up"
      BY DEF ProcessOK
    <3> QED
      BY <3>1 DEF IInv, Alone, Windows, At, Up, SamePlan
  <2>10. Agreed'
    BY DEF IInv, Agreed, Up, Alone, SamePlan
  <2> QED
    BY <2>4, <2>6, <2>7, <2>8, <2>9, <2>10 DEF IInv
<1> QED
  BY <1>3, <1>4 DEF Park

\* The staged build takes the place of the executable.
LEMMA SwapStep == \A p \in Processes : IInv /\ Swap(p) => IInv'
<1> SUFFICES ASSUME IInv, NEW p \in Processes, Swap(p) PROVE IInv'
  OBVIOUS
<1> DEFINE q == process[p]
           moved(r) == Follow(Follow(process[r], "target", "unlinked"), "staged", "target")
           m == moved(p)
           x == [m EXCEPT !.step = "spawn"]
<1>1. /\ q.step = "swap" /\ ProcessOK(q) /\ q \in ProcessType
      /\ {target, parked, staged} \subseteq Files /\ stranded \in BOOLEAN
      /\ "spawn" \in Steps /\ "putback" \in Steps
      /\ \A r \in Processes : ProcessOK(process[r]) /\ process[r] \in ProcessType
  BY DEF IInv, Swap, At, TypeOK, ProcessOK, Steps
<1>2. UNCHANGED <<kind, parked, setup, agreed, history>>
  BY DEF Swap
<1>3. CASE ~ Windows /\ Fails(p) /\ UNCHANGED target /\ staged' \in {staged, Gone}
  <2>1. ~ overlapped => target # Gone
    BY <1>3 DEF IInv, Alone
  <2> QED
    BY <1>1, <1>2, <1>3, <2>1, InstallFails DEF history
<1>4. CASE Windows /\ GoTo(p, "putback") /\ UNCHANGED <<target, staged>>
  <2> DEFINE y == [q EXCEPT !.step = "putback"]
  <2>1. process' = [process EXCEPT ![p] = y]
    BY <1>4 DEF GoTo
  <2>2. /\ ProcessOK(y) /\ y.step = "putback"
        /\ y.life = q.life /\ y.build = q.build /\ y.image = q.image
        /\ y.info = q.info /\ y.artifact = q.artifact
    BY <1>1, StepFacts
  <2> HIDE DEF y
  <2>3. /\ process' = [r \in Processes |-> process'[r]] /\ DOMAIN process' = Processes
        /\ \A r \in Processes : ProcessOK(process'[r])
        /\ process'[p] = y
        /\ \A r \in Processes \ {p} : process'[r] = process[r]
    BY <2>1, <2>2, OneMoves
  <2>4. q.life = "up"
    BY <1>1 DEF ProcessOK
  <2> USE <1>1, <1>2, <1>4, <2>2, <2>3, <2>4 DEF history
  <2>5. TypeOK'
    BY DEF IInv, TypeOK, Files, Good, Updates, Proper
  <2>6. Agreements'
    BY DEF IInv, Agreements, Updates, Proper
  <2>7. Parking'
    BY DEF IInv, Parking, Windows, Up
  <2>8. Alone'
    BY DEF IInv, Alone, Windows, At, Up
  <2>9. Agreed'
    BY DEF IInv, Agreed, Up, Alone
  <2> QED
    BY <2>3, <2>5, <2>6, <2>7, <2>8, <2>9 DEF IInv
<1>5. CASE /\ staged # Gone /\ ~ (Windows /\ ImageAt("target"))
           /\ target' = staged /\ staged' = Gone
           /\ process' = [r \in Processes |-> IF r = p THEN x ELSE moved(r)]
  <2>1. \A r \in Processes :
            /\ ProcessOK(moved(r)) /\ SamePlan(process[r], moved(r))
            /\ moved(r).image =
                   CASE process[r].image = "target" -> "unlinked"
                     [] process[r].image = "staged" -> "target"
                     [] OTHER -> process[r].image
    <3> TAKE r \in Processes
    <3> DEFINE a == Follow(process[r], "target", "unlinked")
    <3>1. /\ a \in ProcessType /\ SamePlan(process[r], a)
          /\ a.image = IF process[r].image = "target" THEN "unlinked" ELSE process[r].image
      BY <1>1, FollowFacts DEF Places
    <3> HIDE DEF a
    <3>2. /\ Follow(a, "staged", "target") \in ProcessType
          /\ SamePlan(a, Follow(a, "staged", "target"))
          /\ Follow(a, "staged", "target").image = IF a.image = "staged" THEN "target" ELSE a.image
      BY <3>1, FollowFacts DEF Places
    <3>3. moved(r) = Follow(a, "staged", "target")
      BY DEF a
    <3>4. SamePlan(process[r], moved(r))
      BY <3>1, <3>2, <3>3 DEF SamePlan
    <3> QED
      BY <1>1, <3>1, <3>2, <3>3, <3>4, SamePlanOK
  <2>2. ProcessOK(m) /\ SamePlan(q, m) /\ m.step # "none"
    BY <1>1, <2>1 DEF SamePlan
  <2>3. m.image = moved(p).image
    OBVIOUS
  <2> HIDE DEF m
  <2>4. /\ ProcessOK(x) /\ x.step = "spawn"
        /\ x.life = m.life /\ x.build = m.build /\ x.image = m.image
        /\ x.info = m.info /\ x.artifact = m.artifact
    BY <1>1, <2>2, StepFacts
  <2> HIDE DEF x, moved
  <2>5. /\ process' = [r \in Processes |-> process'[r]] /\ DOMAIN process' = Processes
        /\ process'[p] = x
        /\ \A r \in Processes \ {p} : process'[r] = moved(r)
    BY <1>5
  <2>6. /\ x.life = q.life /\ x.build = q.build /\ x.info = q.info /\ x.artifact = q.artifact
        /\ \A r \in Processes : ProcessOK(process'[r])
        /\ \A r \in Processes \ {p} : SamePlan(process[r], process'[r])
    BY <2>1, <2>2, <2>4, <2>5 DEF SamePlan
  <2>7. Windows => \A r \in Processes : Up(r) => process'[r].image = "parked"
    <3> SUFFICES ASSUME Windows, NEW r \in Processes, Up(r) PROVE process'[r].image = "parked"
      OBVIOUS
    <3>1. process[r].image = "parked"
      BY <1>5 DEF IInv, Parking, ImageAt
    <3>2. moved(r).image = "parked"
      BY <2>1, <3>1
    <3> QED
      BY <2>3, <2>4, <2>5, <3>2
  <2> USE <1>1, <1>2, <2>4, <2>5, <2>6 DEF history
  <2>8. TypeOK'
    BY <1>5 DEF IInv, TypeOK, Files, Good, Updates, Proper
  <2>9. Agreements'
    BY DEF IInv, Agreements, Updates, Proper, SamePlan
  <2>10. Parking'
    <3>1. \A r \in Processes : process'[r].step \in {"park", "putback"} => Windows
      BY DEF IInv, Parking, SamePlan
    <3>2. \A r \in Processes : Up(r)' => Up(r)
      BY DEF Up, SamePlan
    <3> QED
      BY <2>7, <3>1, <3>2 DEF Parking, Windows
  <2>11. Alone'
    BY <1>5 DEF IInv, Alone, Windows, At, Up, SamePlan
  <2>12. Agreed'
    BY <1>5 DEF IInv, Agreed, Up, Alone, SamePlan
  <2> QED
    BY <2>6, <2>8, <2>9, <2>10, <2>11, <2>12 DEF IInv
<1> QED
  BY <1>3, <1>4, <1>5 DEF Swap

\* The old build goes back, or the process is stranded.
LEMMA PutBackStep == \A p \in Processes : IInv /\ PutBack(p) => IInv'
<1> SUFFICES ASSUME IInv, NEW p \in Processes, PutBack(p) PROVE IInv'
  OBVIOUS
<1> DEFINE q == process[p]
           f == Follow(q, "parked", "target")
           x == Failed(f)
<1>1. /\ q.step = "putback" /\ ProcessOK(q) /\ q \in ProcessType /\ Windows
      /\ q.dialog = "none" /\ q.transfer = "none"
      /\ {target, parked, staged} \subseteq Files /\ stranded \in BOOLEAN
  BY DEF IInv, PutBack, At, TypeOK, ProcessOK, Parking
<1>2. /\ UNCHANGED <<kind, setup, agreed, alterations, touched, overlapped>>
      /\ staged' \in {staged, Gone}
  BY DEF PutBack
<1>3. CASE Fails(p) /\ stranded' = TRUE /\ UNCHANGED <<target, parked>>
  BY <1>1, <1>2, <1>3, InstallFails
<1>4. CASE /\ parked # Gone /\ ~ ImageAt("target")
           /\ target' = parked /\ parked' = Gone
           /\ process' = [r \in Processes |->
                  IF r = p THEN x ELSE Follow(process[r], "parked", "target")]
           /\ UNCHANGED stranded
  <2>1. /\ f \in ProcessType /\ SamePlan(q, f)
        /\ f.image = IF q.image = "parked" THEN "target" ELSE q.image
    BY <1>1, FollowFacts DEF Places
  <2> HIDE DEF f
  <2>2. /\ x \in ProcessType /\ x.life = f.life /\ x.build = f.build /\ x.image = f.image
        /\ x.dialog = f.dialog /\ x.transfer = f.transfer
        /\ x.update = "Failed" /\ x.artifact = Gone /\ x.step = "none"
    BY <2>1, FailedFacts
  <2> HIDE DEF x
  <2>3. /\ x.life = q.life /\ x.build = q.build /\ x.step = "none"
        /\ x.image = IF q.image = "parked" THEN "target" ELSE q.image
    BY <2>1, <2>2 DEF SamePlan
  <2>4. ProcessOK(x)
    BY <1>1, <2>1, <2>2 DEF ProcessOK, SamePlan
  <2>5. /\ process' = [r \in Processes |-> process'[r]] /\ DOMAIN process' = Processes
        /\ \A r \in Processes : ProcessOK(process'[r])
        /\ process'[p] = x
        /\ \A r \in Processes \ {p} :
               /\ SamePlan(process[r], process'[r])
               /\ process'[r].image = IF process[r].image = "parked" THEN "target"
                                      ELSE process[r].image
    BY <1>4, <2>4, OthersFollow DEF Places
  <2> USE <1>1, <1>2, <1>4, <2>3, <2>5
  <2>6. TypeOK'
    BY DEF IInv, TypeOK, Files, Good, Updates, Proper
  <2>7. Agreements'
    BY DEF IInv, Agreements, Updates, Proper, SamePlan
  <2>8. Parking'
    BY DEF IInv, Parking, Windows, Up, SamePlan
  <2>9. Alone'
    BY DEF IInv, Alone, Windows, At, Up, SamePlan
  <2>10. Agreed'
    BY DEF IInv, Agreed, Up, Alone, SamePlan
  <2> QED
    BY <2>5, <2>6, <2>7, <2>8, <2>9, <2>10 DEF IInv
<1> QED
  BY <1>3, <1>4 DEF PutBack

-----------------------------------------------------------------------------
(* What the updater promises.                                              *)

\* The inductive invariant of the updater.
THEOREM UpdaterInvariant == Spec => []IInv
<1>1. IInv /\ [Next]_vars => IInv'
  <2> SUFFICES ASSUME IInv, [Next]_vars PROVE IInv'
    OBVIOUS
  <2>1. CASE SetupReplaces
    BY <2>1, SetupReplacesStep
  <2>2. ASSUME NEW p \in Processes,
               \/ Launch(p) \/ Stop(p) \/ Quit(p) \/ Alter(p)
               \/ CheckForUpdate(p) \/ Later(p) \/ AcceptOffer(p) \/ CancelDownload(p)
               \/ AcceptRestart(p) \/ DismissFailure(p)
               \/ Checked(p) \/ Transferred(p) \/ DownloadEnds(p)
        PROVE  IInv'
    BY <2>2, LaunchStep, EndStep, AlterStep, CheckForUpdateStep, LaterStep, AcceptOfferStep,
       CancelDownloadStep, AcceptRestartStep, DismissFailureStep, NothingFoundStep,
       UpdateFoundStep, TransferStep, DownloadEndsStep DEF Checked
  <2>3. ASSUME NEW p \in Processes, Install(p) PROVE IInv'
    BY <2>3, StartSetupStep, MarkExecutableStep, ClearStagedStep, StageStep, CopyEndsStep,
       ClearParkedStep, ParkStep, SwapStep, PutBackStep, SpawnStep DEF Install
  <2>4. CASE UNCHANGED vars
    BY <2>4 DEF vars, files, history, IInv, TypeOK, ProcessOK, Agreements, Parking, Alone,
               Agreed, Files, Good, Updates, Proper, Windows, At, Up
  <2> QED
    BY <2>1, <2>2, <2>3, <2>4 DEF Next
<1> QED
  BY <1>1, InitOK, PTL DEF Spec

\* Only the first build and whole builds the user agreed to, which are published,
\* stable and newer, are ever installed or run, while no two installs ran at once
\* and no file was touched after its last check.
THEOREM OnlyAgreedBuildsRun == Spec => []AgreedBuildRuns
<1>1. IInv => AgreedBuildRuns
  BY DEF IInv, Agreements, Agreed, AgreedBuildRuns, Updates
<1> QED
  BY <1>1, UpdaterInvariant, PTL

\* There is always a whole executable to go back to, and it is out of its place
\* only in the critical section of an install or after an interruption.
THEOREM ExecutableStaysThere == Spec => []ExecutableThere
<1>1. IInv => ExecutableThere
  <2> SUFFICES ASSUME IInv, ~ overlapped
               PROVE  /\ Whole(target) \/ touched \/ (Windows /\ target = Gone /\ Whole(parked))
                      /\ target = Gone =>
                             stranded \/ \E p \in Processes : At(p, "swap") \/ At(p, "putback")
    BY DEF ExecutableThere
  <2>1. \A v \in {First} \union agreed : Whole(v)
    BY UpdaterAssumption DEF IInv, Agreements, Updates, Whole
  <2> QED
    BY <2>1 DEF IInv, Alone, Agreed
<1> QED
  BY <1>1, UpdaterInvariant, PTL
===============================================================================
