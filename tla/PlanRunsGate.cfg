\* Two calls, the contents that exercise the gate, people approving and revoking.
SPECIFICATION Spec
CONSTANTS
    Plans <- GatePlans
    Environments <- MCEnvironments
    BlockedEnvironments <- MCBlocked
    AllowedEnvironments <- MCAllowed
    MaxSteps = 100
    ApprovalRequiredRisk = "medium"
    AllowCssSelectors = TRUE
    Statuses <- MCStatuses
    r1 = r1
    r2 = r2
    Runs <- TwoRuns
    NoRun = NoRun
    NoPlan = NoPlan
    Answered <- OneOfThem
INVARIANT TypeOK
INVARIANT RecordsMatchGrants
INVARIANT ReportIsTrue
INVARIANT NoAbandonedBrowser
INVARIANT AuditAddsUp
PROPERTY GateIsKept
