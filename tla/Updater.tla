------------------------------- MODULE Updater -------------------------------
(***************************************************************************)
(* The update flow (src/src/ui/update_ui.rs) and the installers it ends in *)
(* (src/src/update/installer.rs), for the Rymd processes that share one    *)
(* installation: a process goes from a check over an offer and a download  *)
(* to the restart, and BinarySwap exchanges the executable file by file    *)
(* operation.  A process may crash before each of them, further processes  *)
(* may be started, and other programs may touch the downloaded file.       *)
(*                                                                         *)
(* The dialogs are modal: the user reaches the menu and the card only when *)
(* none is open.  Dismissed versions are left out: the only silent check   *)
(* of a process is its first, when nothing was dismissed.                  *)
(***************************************************************************)
EXTENDS Releases

CONSTANTS
    Kinds,          \* the kinds of installation of this instance
    First,          \* the version installed at first
    MaxProcesses,   \* bound on the processes started
    MaxAlterations  \* bound on the times other programs touch a download

ASSUME UpdaterAssumption ==
    /\ Kinds \subseteq InstallKinds
    /\ First \in Nat \ {0} /\ MaxProcesses \in Nat \ {0} /\ MaxAlterations \in Nat

Processes == 1..MaxProcesses

VARIABLES
    kind,       \* how Rymd is installed here
    target,     \* the executable (or AppImage) file
    staged,     \* its .rymd-update sibling
    parked,     \* its .rymd-old sibling
    setup,      \* the file the Inno Setup installer was started from
    process,    \* process -> see Started
    agreed,     \* history: the versions the user chose to update to
    alterations,\* number of times a download was touched
    touched,    \* history: one was touched after its last check
    overlapped, \* history: two installs ran at the same time
    stranded    \* history: an install stopped with the executable moved aside

files == <<target, staged, parked, setup>>
history == <<alterations, touched, overlapped, stranded>>
vars == <<kind, files, process, agreed, history>>

Windows == kind \in {"WindowsInstaller", "WindowsPortable"}

NoInfo == [version |-> 0, asset |-> FALSE, hosted |-> FALSE, sha256 |-> FALSE]

\* A process: the build it runs, where the file of its image is now, its
\* UpdateState, the open dialog, the download (artifact: the temporary file),
\* the next operation of an install ("none" outside one) and where the file it
\* copies to is.  owed: the user asked for a check and has no answer yet.
Unborn ==
    [life |-> "unborn", build |-> 0, image |-> "target", update |-> "Idle",
     manual |-> FALSE, owed |-> FALSE, info |-> NoInfo, dialog |-> "none",
     transfer |-> "none", cancelled |-> FALSE, artifact |-> Gone,
     step |-> "none", copies |-> "none"]

\* The startup check is skipped where RYMD_NO_UPDATE_CHECK is set.
Started(checks) ==
    [Unborn EXCEPT !.life = "up", !.build = target,
                   !.update = IF checks THEN "Checking" ELSE "Idle"]

Up(p) == process[p].life = "up"
ImageAt(place) == \E p \in Processes : Up(p) /\ process[p].image = place

Init ==
    /\ kind \in Kinds
    /\ target = First /\ staged = Gone /\ parked = Gone /\ setup = Gone
    /\ process = [p \in Processes |-> Unborn]
    /\ agreed = {} /\ alterations = 0
    /\ touched = FALSE /\ overlapped = FALSE /\ stranded = FALSE

\* main: a broken file does not start.  clean_stale_backup fails while the file
\* is the image of a process, and is best effort otherwise.
Launch(p) ==
    /\ process[p].life = "unborn" /\ \A q \in 1..(p - 1) : process[q].life # "unborn"
    /\ Whole(target)
    /\ \E checks \in BOOLEAN : process' = [process EXCEPT ![p] = Started(checks)]
    /\ \/ UNCHANGED parked
       \/ Windows /\ ~ ImageAt("parked") /\ parked' = Gone
    /\ UNCHANGED <<kind, target, staged, setup, agreed, history>>

-----------------------------------------------------------------------------
(* The check, the offer and the download.                                  *)

IsBusy(p) == process[p].update \in {"Checking", "Downloading", "Installing"}

\* No handler of the interface runs while install_update does.
Free(p) == Up(p) /\ process[p].step = "none"

Menu(p) == Free(p) /\ process[p].dialog = "none"

\* check_for_update(true).
CheckForUpdate(p) ==
    /\ Menu(p)
    /\ LET state == process[p].update IN
       process' = [process EXCEPT ![p] =
           CASE state = "Available" -> [@ EXCEPT !.dialog = "offer"]
             [] state = "Ready" -> [@ EXCEPT !.dialog = "restart"]
             [] state \in {"Idle", "Failed"} ->
                    [@ EXCEPT !.update = "Checking", !.manual = TRUE, !.owed = TRUE]
             [] state = "Checking" -> [@ EXCEPT !.owed = TRUE]
             [] OTHER -> @]
    /\ UNCHANGED <<kind, files, agreed, history>>

\* The request failed, or nothing newer is there; a silent check does not say so.
NothingFound(p) ==
    /\ Free(p) /\ process[p].update = "Checking"
    /\ process' = [process EXCEPT ![p].update = "Idle", ![p].manual = FALSE,
                                  ![p].owed = process[p].owed /\ ~ process[p].manual]
    /\ UNCHANGED <<kind, files, agreed, history>>

UpdateFound(p, listing, fetched) ==
    /\ Free(p) /\ process[p].update = "Checking"
    /\ \E r \in SelectRelease(listing, process[p].build) :
           process' = [process EXCEPT ![p].update = "Available", ![p].dialog = "offer",
                                      ![p].manual = FALSE, ![p].owed = FALSE,
                                      ![p].info = Describe(r, kind, fetched)]
    /\ UNCHANGED <<kind, files, agreed, history>>

\* "Later" in either dialog.
Later(p) ==
    /\ Free(p) /\ process[p].dialog # "none"
    /\ process' = [process EXCEPT ![p].dialog = "none"]
    /\ UNCHANGED <<kind, files, agreed, history>>

\* "Update now" with start_update_download, or the release page.
AcceptOffer(p) ==
    /\ Free(p) /\ process[p].dialog = "offer"
    /\ process' = [process EXCEPT ![p] =
           IF IsInstallable(@.info) /\ @.update = "Available"
           THEN [@ EXCEPT !.dialog = "none", !.update = "Downloading",
                          !.transfer = "flowing"]
           ELSE [@ EXCEPT !.dialog = "none"]]
    /\ UNCHANGED <<kind, files, agreed, history>>

CancelDownload(p) ==
    /\ Menu(p) /\ process[p].update = "Downloading"
    /\ process' = [process EXCEPT ![p].cancelled = TRUE]
    /\ UNCHANGED <<kind, files, agreed, history>>

\* The download thread is done; a cancellation after its last look is not seen.
Transfer(p, sent, complete, known) ==
    LET file == DownloadVerified(process[p].info, sent, complete, known) IN
    /\ Up(p) /\ process[p].transfer = "flowing"
    /\ process' = [process EXCEPT ![p].artifact = file,
                                  ![p].transfer = IF file = Gone THEN "error" ELSE "ok"]
    /\ UNCHANGED <<kind, files, agreed, history>>

\* The thread saw the cancellation, or the connection or the disk failed.
TransferFails(p) ==
    /\ Up(p) /\ process[p].transfer = "flowing"
    /\ process' = [process EXCEPT ![p].transfer = "error"]
    /\ UNCHANGED <<kind, files, agreed, history>>

\* Nothing refers to the temporary file any more.
Failed(q) == [q EXCEPT !.update = "Failed", !.step = "none", !.copies = "none",
                       !.info = NoInfo, !.artifact = Gone]

\* Variant: a failed download leaves the state as it is.
DownloadOver(p) ==
    /\ Free(p) /\ process[p].transfer \in {"ok", "error"}
    /\ process' = [process EXCEPT ![p] =
           IF @.transfer = "ok" THEN [@ EXCEPT !.transfer = "none", !.update = "Ready",
                                               !.dialog = "restart"]
           ELSE [@ EXCEPT !.transfer = "none"]]
    /\ UNCHANGED <<kind, files, agreed, history>>

\* The callback of the download.
DownloadEnds(p) ==
    /\ Free(p) /\ process[p].transfer \in {"ok", "error"}
    /\ process' = [process EXCEPT ![p] =
           CASE @.update # "Downloading" -> [@ EXCEPT !.transfer = "none"]
             [] @.update = "Downloading" /\ @.transfer = "ok" ->
                    [@ EXCEPT !.transfer = "none", !.cancelled = FALSE, !.update = "Ready",
                              !.dialog = "restart"]
             [] @.update = "Downloading" /\ @.transfer = "error" /\ @.cancelled ->
                    [@ EXCEPT !.transfer = "none", !.cancelled = FALSE, !.update = "Available"]
             [] @.update = "Downloading" /\ @.transfer = "error" /\ ~ @.cancelled ->
                    [Failed(@) EXCEPT !.transfer = "none"]]
    /\ UNCHANGED <<kind, files, agreed, history>>

\* "Dismiss" on the card of a failure.
DismissFailure(p) ==
    /\ Menu(p) /\ process[p].update = "Failed"
    /\ process' = [process EXCEPT ![p].update = "Idle"]
    /\ UNCHANGED <<kind, files, agreed, history>>

-----------------------------------------------------------------------------
(* The restart.  install_update and the installers run in one handler, one *)
(* file operation per action; every one of them may fail.                  *)

Fails(p) == process' = [process EXCEPT ![p] = Failed(@)]

At(p, step) == Up(p) /\ process[p].step = step

GoTo(p, step) == process' = [process EXCEPT ![p].step = step]

\* Renaming or removing a file takes the images and the copies in it along.
Follow(q, from, to) ==
    [q EXCEPT !.image = IF @ = from THEN to ELSE @, !.copies = IF @ = from THEN to ELSE @]

\* Variant: the file is not checked again.
RestartUnchecked(p) ==
    /\ Free(p) /\ process[p].dialog = "restart"
    /\ process' = [process EXCEPT ![p] = [@ EXCEPT !.dialog = "none", !.step = "mark"]]
    /\ agreed' = agreed \union {process[p].info.version}
    /\ overlapped' = (overlapped \/ \E q \in Processes \ {p} : Up(q) /\ process[q].step # "none")
    /\ UNCHANGED <<kind, files, alterations, touched, stranded>>

\* "Restart and update": the file is verified once more.
AcceptRestart(p) ==
    /\ Free(p) /\ process[p].dialog = "restart"
    /\ process' = [process EXCEPT ![p] =
           IF @.artifact = @.info.version THEN [@ EXCEPT !.dialog = "none", !.step = "mark"]
           ELSE [Failed(@) EXCEPT !.dialog = "none"]]
    /\ agreed' = agreed \union {process[p].info.version}
    /\ overlapped' = (overlapped \/ \E q \in Processes \ {p} : Up(q) /\ process[q].step # "none")
    /\ UNCHANGED <<kind, files, alterations, touched, stranded>>

\* WindowsInstallerUpdate: the file is started, and Rymd quits.
StartSetup(p) ==
    /\ At(p, "mark") /\ kind = "WindowsInstaller"
    /\ \/ Fails(p) /\ UNCHANGED setup
       \/ /\ process[p].artifact # Gone
          /\ setup' = process[p].artifact
          /\ process' = [process EXCEPT ![p].step = "none", ![p].update = "Installing"]
    /\ UNCHANGED <<kind, target, staged, parked, agreed, history>>

\* Inno Setup replaces the executable once no Rymd runs from it.
SetupReplaces ==
    /\ setup # Gone /\ ~ ImageAt("target")
    /\ target' = IF Whole(setup) THEN setup ELSE target
    /\ setup' = Gone
    /\ UNCHANGED <<kind, staged, parked, process, agreed, history>>

\* BinarySwap::install, from set_executable on.
MarkExecutable(p) ==
    /\ At(p, "mark") /\ kind # "WindowsInstaller"
    /\ Fails(p) \/ (process[p].artifact # Gone /\ GoTo(p, "clear"))
    /\ UNCHANGED <<kind, files, agreed, history>>

ClearStaged(p) ==
    /\ At(p, "clear")
    /\ \/ GoTo(p, "stage") /\ UNCHANGED staged
       \/ /\ staged' = Gone
          /\ process' = [q \in Processes |->
                 IF q = p THEN [process[p] EXCEPT !.step = "stage"]
                 ELSE Follow(process[q], "staged", "unlinked")]
    /\ UNCHANGED <<kind, target, parked, setup, agreed, history>>

\* move_file: a rename, or a copy that starts with an empty file.
Stage(p) ==
    /\ At(p, "stage")
    /\ \/ Fails(p) /\ UNCHANGED staged
       \/ /\ process[p].artifact # Gone
          /\ staged' = process[p].artifact
          /\ process' = [q \in Processes |->
                 IF q = p THEN [process[p] EXCEPT !.step = "unpark", !.artifact = Gone]
                 ELSE Follow(process[q], "staged", "unlinked")]
       \/ /\ process[p].artifact # Gone
          /\ staged' = Broken
          /\ process' = [process EXCEPT ![p].step = "copy", ![p].copies = "staged"]
    /\ UNCHANGED <<kind, target, parked, setup, agreed, history>>

CopyEnds(p) ==
    LET copy == IF Whole(process[p].artifact) THEN process[p].artifact ELSE Broken
        filled(place, file) == IF process[p].copies = place THEN copy ELSE file
    IN
    /\ At(p, "copy")
    /\ \/ Fails(p) /\ UNCHANGED files
       \/ /\ target' = filled("target", target)
          /\ staged' = filled("staged", staged)
          /\ parked' = filled("parked", parked)
          /\ process' = [process EXCEPT ![p].step = "unpark", ![p].copies = "none",
                                        ![p].artifact = Gone]
          /\ UNCHANGED setup
    /\ UNCHANGED <<kind, agreed, history>>

\* A file that is the image of a process cannot be removed on Windows.
ClearParked(p) ==
    /\ At(p, "unpark")
    /\ GoTo(p, IF Windows THEN "park" ELSE "swap")
    /\ \/ UNCHANGED parked
       \/ ~ (Windows /\ ImageAt("parked")) /\ parked' = Gone
    /\ UNCHANGED <<kind, target, staged, setup, agreed, history>>

\* Windows: the executable is renamed away, the processes that run it with it.
Park(p) ==
    /\ At(p, "park")
    /\ \/ Fails(p) /\ UNCHANGED <<target, parked>>
       \/ /\ target # Gone /\ ~ ImageAt("parked")
          /\ parked' = target /\ target' = Gone
          /\ process' = [q \in Processes |->
                 IF q = p THEN [Follow(process[p], "target", "parked") EXCEPT !.step = "swap"]
                 ELSE Follow(process[q], "target", "parked")]
    /\ UNCHANGED <<kind, staged, setup, agreed, history>>

Swap(p) ==
    /\ At(p, "swap")
    /\ \/ /\ staged # Gone /\ ~ (Windows /\ ImageAt("target"))
          /\ target' = staged /\ staged' = Gone
          /\ process' = [q \in Processes |->
                 LET moved == Follow(Follow(process[q], "target", "unlinked"), "staged", "target")
                 IN  IF q = p THEN [moved EXCEPT !.step = "spawn"] ELSE moved]
       \/ Windows /\ GoTo(p, "putback") /\ UNCHANGED <<target, staged>>
       \/ ~ Windows /\ Fails(p) /\ UNCHANGED target /\ staged' \in {staged, Gone}
    /\ UNCHANGED <<kind, parked, setup, agreed, history>>

\* Variant: the old build is not put back.
PutNothingBack(p) ==
    /\ At(p, "putback")
    /\ Fails(p)
    /\ staged' \in {staged, Gone}
    /\ UNCHANGED <<kind, target, parked, setup, agreed, history>>

\* The old build goes back, if that works, and the staged one is removed.
PutBack(p) ==
    /\ At(p, "putback")
    /\ \/ /\ parked # Gone /\ ~ ImageAt("target")
          /\ target' = parked /\ parked' = Gone
          /\ process' = [q \in Processes |->
                 IF q = p THEN Failed(Follow(process[p], "parked", "target"))
                 ELSE Follow(process[q], "parked", "target")]
          /\ UNCHANGED stranded
       \/ /\ Fails(p) /\ stranded' = TRUE
          /\ UNCHANGED <<target, parked>>
    /\ staged' \in {staged, Gone}
    /\ UNCHANGED <<kind, setup, agreed, alterations, touched, overlapped>>

\* The new process is launched by Launch, as one the user starts.
Spawn(p) ==
    /\ At(p, "spawn")
    /\ \/ Fails(p)
       \/ /\ Whole(target)
          /\ process' = [process EXCEPT ![p].step = "none", ![p].update = "Installing"]
    /\ UNCHANGED <<kind, files, agreed, history>>

Ended == [Unborn EXCEPT !.life = "down"]

\* cx.quit.
Quit(p) ==
    /\ Free(p) /\ process[p].update = "Installing"
    /\ process' = [process EXCEPT ![p] = Ended]
    /\ UNCHANGED <<kind, files, agreed, history>>

\* The process crashes, or its window is closed.
Stop(p) ==
    /\ Up(p)
    /\ process' = [process EXCEPT ![p] = Ended]
    /\ stranded' = (stranded \/ (process[p].step \in {"swap", "putback"} /\ target = Gone))
    /\ UNCHANGED <<kind, files, agreed, alterations, touched, overlapped>>

\* Another program damages or removes the temporary file.
Alter(p) ==
    /\ Up(p) /\ process[p].artifact # Gone /\ alterations < MaxAlterations
    /\ \E file \in {Broken, Gone} : process' = [process EXCEPT ![p].artifact = file]
    /\ alterations' = alterations + 1
    /\ touched' = (touched \/ process[p].step # "none")
    /\ UNCHANGED <<kind, files, agreed, overlapped, stranded>>

Install(p) ==
    \/ StartSetup(p) \/ MarkExecutable(p) \/ ClearStaged(p) \/ Stage(p) \/ CopyEnds(p)
    \/ ClearParked(p) \/ Park(p) \/ Swap(p) \/ PutBack(p) \/ Spawn(p)

Checked(p) ==
    \/ NothingFound(p)
    \/ \E listing \in Listings, fetched \in BOOLEAN : UpdateFound(p, listing, fetched)

\* What GitHub sends for an artifact: the build of the release or something else.
Transferred(p) ==
    \/ TransferFails(p)
    \/ \E sent \in {process[p].info.version, Broken}, complete \in BOOLEAN, known \in BOOLEAN :
           Transfer(p, sent, complete, known)

Next ==
    \/ SetupReplaces
    \/ \E p \in Processes :
           \/ Launch(p) \/ Stop(p) \/ Quit(p) \/ Alter(p)
           \/ CheckForUpdate(p) \/ Later(p) \/ AcceptOffer(p) \/ CancelDownload(p)
           \/ AcceptRestart(p) \/ DismissFailure(p)
           \/ Checked(p) \/ Transferred(p) \/ DownloadEnds(p) \/ Install(p)

\* Requests and downloads have a timeout (REQUEST_TIMEOUT, DOWNLOAD_TIMEOUT), the
\* interface thread runs its callbacks and the handler it is in; the user and
\* the other programs owe nothing.
Fairness ==
    \A p \in Processes :
        /\ WF_vars(Checked(p)) /\ WF_vars(Transferred(p))
        /\ WF_vars(DownloadEnds(p)) /\ WF_vars(Install(p)) /\ WF_vars(Quit(p))

Spec == Init /\ [][Next]_vars /\ Fairness

-----------------------------------------------------------------------------
(* What the updater promises.                                              *)

\* The releases a user of a stable build means by an update: published, with a
\* version, and stable.
Published ==
    UNION {{r.version : r \in {x \in listing : ~ x.draft /\ ~ x.prerelease}} : listing \in Listings}

Proper(v) == First \in Prereleases \/ (v \in Published \ Prereleases /\ v > First)

\* While no two installs ran at once and no file was touched after its last
\* check, the executable, what Inno Setup installs and every process that runs
\* are the first build or, whole, one the user agreed to, and what a stable
\* build is updated to is published, stable and newer: short, altered or
\* cancelled transfers, files damaged while they wait for the restart, crashes
\* in the middle of an install and retries never get another build to run
\* (download_verified, install_update).
AgreedBuildRuns ==
    LET right == {First} \union agreed IN
    /\ \A v \in agreed : Proper(v)
    /\ ~ overlapped /\ ~ touched =>
           /\ {target, setup} \subseteq right \union {Gone}
           /\ \A p \in Processes : Up(p) => process[p].build \in right

\* As long as no two installs run at once there is always a whole executable to
\* go back to, in its place or, on Windows, next to it; and it is missing from
\* its place only between the two renames of an install, or after one that was
\* interrupted there or could not put it back (BinarySwap::install).
ExecutableThere ==
    ~ overlapped =>
        /\ Whole(target) \/ touched \/ (Windows /\ target = Gone /\ Whole(parked))
        /\ target = Gone =>
               stranded \/ \E p \in Processes : At(p, "swap") \/ At(p, "putback")

\* A check, a download or an install comes to an end, so that the update flow of
\* a process, which accepts nothing meanwhile, is never stuck (is_busy).
BusyEnds ==
    \A p \in Processes :
        (Up(p) /\ IsBusy(p)) ~> ~ (Up(p) /\ IsBusy(p))

\* Violated: "a check the user asked for always answers" (update_ui.rs:40): one
\* that is asked for during the silent check of the start is dropped, and that
\* check tells nobody when it fails.
ManualCheckAnswers ==
    \A p \in Processes : process[p].owed => process[p].update = "Checking"

\* Violated: "a caller can never install a partial download" (github.rs:301):
\* two processes stage at the same path, and one moves into place what the other
\* has begun to copy.
NeverPartial == target # Broken \/ touched
=============================================================================
