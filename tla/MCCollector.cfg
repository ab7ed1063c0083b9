CONSTANTS
    RefLists <- MCRefLists
    Slug <- MCSlug
    MaxRuns = 2
SPECIFICATION Spec
INVARIANTS
    WrittenMeansComplete
    LogsFromTheirBuild
    LeftoversAreOfFailedRuns
CHECK_DEADLOCK FALSE
