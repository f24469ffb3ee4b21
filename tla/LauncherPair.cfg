\* Two launches, either of which may be killed; a live one is quick with the lock.
SPECIFICATION Spec
CONSTANTS
    l1 = l1
    l2 = l2
    v1 = v1
    v2 = v2
    Launches <- TwoLaunches
    NoLaunch = NoLaunch
    Versions <- TwoVersions
    NoVersion = NoVersion
    Torn = Torn
    Hosted <- MCHosted
    Pointed <- MCPointed
    Patience = 3
    StaleAge = 5
    HoldTime = 2
    Kills = TRUE
    Signals = FALSE
INVARIANT TypeOK
INVARIANT OneProvisioner
INVARIANT InstallIsWhole
