CONSTANTS
    Items <- MCItems
    Cost = {0, 1}
    MaxCostUsd = 2
    MaxCrashes = 2
    MaxGone = 1
SPECIFICATION FairSpec
INVARIANTS
    OneRecordPerItem
    SpentCoversFile
    CleanEndIsComplete
PROPERTY EventuallyComplete
