----------------------------- MODULE MCUpdater -----------------------------
\* Instances of Updater: version 1 is installed, 2 is the next stable release,
\* 3 a prerelease and 4 a draft.
EXTENDS Updater

MCKinds == InstallKinds
MCPrereleases == {3}

Release(version, draft, prerelease, assets, hosted, sums) ==
    [version |-> version, draft |-> draft, prerelease |-> prerelease,
     assets |-> assets, hosted |-> hosted, sums |-> sums]

All == InstallKinds \ {"Managed"}
Stable == Release(2, FALSE, FALSE, All, TRUE, All)
Unlisted == Release(2, FALSE, FALSE, All, TRUE, {})
Elsewhere == Release(2, FALSE, FALSE, All, FALSE, All)
\* A prerelease whose flag on GitHub was not set, a draft and a stray tag.
Unflagged == Release(3, FALSE, FALSE, All, TRUE, All)
Draft == Release(4, TRUE, FALSE, All, TRUE, All)
Stray == Release(0, FALSE, FALSE, All, TRUE, All)

MCListings == {{Stable, Draft, Stray, Unflagged}, {Unlisted}, {Elsewhere}}
=============================================================================
