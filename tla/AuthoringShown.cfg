\* The fingerprint a check shows, approved, and the test still waits for approval.
SPECIFICATION Spec
CONSTANTS
    Plans <- MCPlans
    Environments <- MCEnvironments
    BlockedEnvironments <- None
    AllowedEnvironments <- None
    MaxSteps = 100
    ApprovalRequiredRisk = "medium"
    AllowCssSelectors = TRUE
    Statuses <- MCStatuses
    DefaultEnvironment = "demo"
    ActorOf <- MCActorOf
    NameOf <- MCNameOf
    DestructiveWords <- MCDestructiveWords
    CredentialShaped <- MCCredentialShaped
    c1 = c1
    c2 = c2
    server = server
    Calls <- TwoCalls
    Processes <- Server
    ProcessOf <- InServer
    Texts <- WrittenAndPurge
    Drafts <- MCDrafts
    MaxDrafts = 1
    Capabilities <- MCCapabilities
    AliasFor <- MCAliasFor
    RiskyWords <- MCRiskyWords
    Misread <- MCMisread
    MaxTests = 2
    CredentialsOf <- MCCredentialsOf
    NoText = NoText
    NoPlan = NoPlan
PROPERTY ApprovedAsShownRuns
