\* Two calls of one server for any of three files, while people approve and revoke.
SPECIFICATION Spec
CONSTANTS
    Plans <- MCPlans
    Environments <- MCEnvironments
    BlockedEnvironments <- None
    AllowedEnvironments <- None
    MaxSteps = 100
    ApprovalRequiredRisk = "medium"
    AllowCssSelectors = TRUE
    Statuses <- MCStatuses
    DefaultEnvironment = "demo"
    ActorOf <- MCActorOf
    NameOf <- MCNameOf
    DestructiveWords <- MCDestructiveWords
    CredentialShaped <- MCCredentialShaped
    c1 = c1
    c2 = c2
    server = server
    Calls <- TwoCalls
    Processes <- Server
    ProcessOf <- InServer
    Texts <- WrittenTexts
    Drafts <- MCDrafts
    MaxDrafts = 1
    Capabilities <- MCCapabilities
    AliasFor <- MCAliasFor
    RiskyWords <- MCRiskyWords
    Misread <- MCMisread
    MaxTests = 2
    CredentialsOf <- MCCredentialsOf
    NoText = NoText
    NoPlan = NoPlan
INVARIANT TypeOK
INVARIANT FileVerdictIsHonest
INVARIANT NothingIgnored
PROPERTY FileKeepsTheGate
PROPERTY SecretsStayInside
PROPERTY DraftsReadBack
PROPERTY DraftsAreAccountedFor
