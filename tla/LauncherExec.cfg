\* Two launches, nobody killed or slow: one rewrites the package as the other reaches exec.
SPECIFICATION Spec
CONSTANTS
    l1 = l1
    l2 = l2
    v1 = v1
    v2 = v2
    Launches <- TwoLaunches
    NoLaunch = NoLaunch
    Versions <- TwoVersions
    NoVersion = NoVersion
    Torn = Torn
    Hosted <- None
    Pointed <- MCPointed
    Patience = 3
    StaleAge = 5
    HoldTime = 2
    Kills = FALSE
    Signals = FALSE
INVARIANT ExecFindsServer
