CONSTANTS
    Versions <- MCVersions
    MaxEdits = 1
SPECIFICATION Spec
INVARIANT ExitTwoIsNoScan
