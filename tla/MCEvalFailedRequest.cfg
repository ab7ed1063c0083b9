CONSTANTS
    Items <- MCItems
    Cost = {0, 1}
    MaxCostUsd = 2
    MaxCrashes = 0
    MaxGone = 1
SPECIFICATION Spec
INVARIANT FailedRequestNotRecorded
