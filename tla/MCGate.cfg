CONSTANTS
    Versions <- MCVersions
    MaxEdits = 2
SPECIFICATION Spec
INVARIANTS
    CleanMeansChecked
PROPERTY ExitMatchesReports
