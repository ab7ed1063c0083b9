CONSTANTS
    Line <- MCLine
    StrLen <- MCStrLen
    Words <- MCWords
    Directive <- MCDirective
    Inputs <- MCInputs
    Garbage <- MCGarbage
    TestInput <- MCTestInput
    NULL = NULL
    NoText = NoText
    MAX_ARGS = 3
    HISTORY_SIZE = 32
    HISTORY_SLOTS = 4
    INT_MIN <- MCIntMin
    INT_MAX = 7
    LONG_MIN <- MCLongMin
    LONG_MAX = 31
    PIECES = 2
    BlockSize = 3
    Fragments <- MCFragments
    MaxTyped = 5
SPECIFICATION FairVulnSpec
INVARIANTS
    LostIffOverwritten
    RecallIgnoresGarbage
    GarbageReadOnlyEarly
    EngineMatrix
    ReplayOnlyAfterRewind
PROPERTIES EndsUnlessRewound
CHECK_DEADLOCK FALSE
