\* Three forms, one after the other, while the host may stop the server.
SPECIFICATION AssistantSpec
CONSTANTS
    MaxForms = 3
    Forms <- MCForms
    Given <- MCGiven
    Workspaces <- MCWorkspaces
    Quoted <- MCQuoted
    Overlap = FALSE
    Stops = TRUE
INVARIANT TypeOK
INVARIANT RefusedUntouched
INVARIANT IdentityIsUsable
INVARIANT EntriesSurvive
INVARIANT FilledIsUsable
PROPERTY EveryFormIsAnswered
CHECK_DEADLOCK FALSE
