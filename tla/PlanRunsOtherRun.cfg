\* A run passes on the answer another run got.
SPECIFICATION Spec
CONSTANTS
    Plans <- StatusPlans
    Environments <- MCEnvironments
    BlockedEnvironments <- MCBlocked
    AllowedEnvironments <- MCAllowed
    MaxSteps = 100
    ApprovalRequiredRisk = "medium"
    AllowCssSelectors = TRUE
    Statuses <- MCStatuses
    r1 = r1
    r2 = r2
    Runs <- TwoRuns
    NoRun = NoRun
    NoPlan = NoPlan
    Answered <- OneOfThem
INVARIANT StatusNeedsOwnRequest
