\* Two calls sharing one runner and one API executor, with requests as several identities
\* and status assertions, under the fairness of the event loop.
SPECIFICATION TokensFairSpec
CONSTANTS
    Plans <- TokenPlans
    Environments <- MCEnvironments
    BlockedEnvironments <- None
    AllowedEnvironments <- None
    MaxSteps = 100
    ApprovalRequiredRisk = "medium"
    AllowCssSelectors = TRUE
    Statuses <- MCStatuses
    Identities <- MCIdentities
    Configured <- MCConfigured
    LoginEnvironments <- WithLogin
    Unauthorized = 401
    Reviewed <- ReviewedPlans
    r1 = r1
    r2 = r2
    Runs <- TwoRuns
    NoRun = NoRun
    NoPlan = NoPlan
    Answered <- OneOfThem
INVARIANT AdjacentStatusIsOwn
INVARIANT TokensIndInv
INVARIANT TokenIsOwn
INVARIANT LoginsAreFew
PROPERTY AnsweredCallsReport
