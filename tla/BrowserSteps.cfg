\* A run of three steps against pages that change, open windows and close them at will.
SPECIFICATION FairSpec
CONSTANTS
    Ways = 2
    Cap = 2
    Contents <- Pages
    Steps <- MCSteps
    Form <- MCForm
    MaxSteps = 3
    MaxWindows = 3
    Deadline = 1
INVARIANT TypeOK
INVARIANT WindowsNest
INVARIANT LeftForGood
PROPERTY ActsOnTheOneNamed
PROPERTY SeenIsThere
PROPERTY WaitsAreSatOut
PROPERTY EveryStepEnds
