\* "X should not be on the page", of pages that show it once, twice, or not at all.
SPECIFICATION Spec
CONSTANTS
    Ways = 2
    Cap = 2
    Contents <- Pages
    Steps <- AbsenceSteps
    Form <- MCForm
    MaxSteps = 1
    MaxWindows = 3
    Deadline = 1
PROPERTY AbsentIsAbsent
