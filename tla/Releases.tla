------------------------------ MODULE Releases ------------------------------
(***************************************************************************)
(* What the updater makes of GitHub's answers: the release it offers, the  *)
(* artifact and the digest that go with it, and whether a transfer passes  *)
(* (src/src/update/{github,version,installer}.rs).                         *)
(*                                                                         *)
(* A version is a positive number, those in Prereleases carry a semver     *)
(* pre-release part; 0 is a tag that is no version.  A file is the build   *)
(* it holds, Broken, or Gone; its digest is its content.                   *)
(***************************************************************************)
EXTENDS Integers, FiniteSets, FiniteSetsExt

CONSTANTS
    Prereleases,    \* the versions with a pre-release part
    Listings        \* the release listings GitHub may answer with

Gone == 0
Broken == -1
Whole(file) == file > 0

InstallKinds == {"WindowsInstaller", "WindowsPortable", "LinuxAppImage", "Managed"}

\* A release: its tag, the flags, the kinds of installation an artifact is there
\* for, whether those are on a GitHub host, and the artifacts SHA256SUMS lists.
ReleaseType == [version : Nat, draft : BOOLEAN, prerelease : BOOLEAN,
                assets : SUBSET InstallKinds, hosted : BOOLEAN, sums : SUBSET InstallKinds]

ASSUME ReleasesAssumption ==
    /\ Prereleases \subseteq Nat \ {0}
    /\ Listings \subseteq SUBSET ReleaseType

ParseTag(r) == r.version # 0

\* Channel::of and Channel::accepts.
Accepts(current, version) == version \in Prereleases => current \in Prereleases

\* The newest release the build may be offered: none or one.
SelectRelease(listing, current) ==
    LET offered == {r \in listing : /\ ParseTag(r) /\ ~ r.draft
                                    /\ r.prerelease => current \in Prereleases
                                    /\ Accepts(current, r.version)}
        best == {r \in offered : r.version = Max({o.version : o \in offered})}
    IN  {r \in best : r.version > current}

\* No release carries an artifact for a Managed installation.
AssetName(kind) == kind # "Managed"
SelectAsset(r, kind) == AssetName(kind) /\ kind \in r.assets

\* describe: the sums are missing when the fetch of SHA256SUMS failed.
Describe(r, kind, fetched) ==
    LET asset == SelectAsset(r, kind) IN
    [version |-> r.version, asset |-> asset, hosted |-> r.hosted,
     sha256 |-> asset /\ fetched /\ r.hosted /\ kind \in r.sums]

IsInstallable(info) == info.asset /\ info.sha256

\* stream_hashed: the digest of what came, or Gone when a transfer of known
\* length was short.
StreamHashed(sent, complete, known) ==
    CASE ~ complete /\ known -> Gone
      [] ~ complete /\ ~ known -> Broken
      [] OTHER -> sent

\* download_verified: the file that is kept.
DownloadVerified(info, sent, complete, known) ==
    IF /\ info.asset /\ info.sha256 /\ info.hosted
       /\ StreamHashed(sent, complete, known) = info.version
    THEN info.version ELSE Gone
=============================================================================
