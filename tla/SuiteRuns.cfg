\* A suite, while plans are saved, approved and revoked.
SPECIFICATION Spec
CONSTANTS
    Plans <- MCPlans
    Environments <- MCEnvironments
    BlockedEnvironments <- None
    AllowedEnvironments <- None
    MaxSteps = 100
    ApprovalRequiredRisk = "medium"
    AllowCssSelectors = TRUE
    Statuses <- MCStatuses
    s1 = s1
    Suites <- OneSuite
    Slugs <- MCSlugs
    SlugOf <- MCSlugOf
    Requests <- MCRequests
    MaxNames = 3
    Absent = Absent
    Broken = Broken
    NoPlan = NoPlan
INVARIANT TypeOK
INVARIANT VerdictIsHonest
INVARIANT OnlyFailureStops
PROPERTY SuiteKeepsTheGate
