\* Either launcher: two launches that may be killed, signalled or slow, with no bound on how
\* long one holds the lock.
SPECIFICATION MachineFairSpec
CONSTANTS
    l1 = l1
    l2 = l2
    v1 = v1
    v2 = v2
    Launches <- TwoLaunches
    NoLaunch = NoLaunch
    Versions <- TwoVersions
    NoVersion = NoVersion
    Torn = Torn
    Hosted <- MCHosted
    Pointed <- MCPointed
    Patience = 2
    StaleAge = 2
    HoldTime = 3
    Kills = TRUE
    Signals = TRUE
INVARIANT NoLockLeftBehind
PROPERTY EveryLaunchEnds
