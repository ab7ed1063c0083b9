CONSTANTS
    Line <- MCLine
    StrLen <- MCStrLen
    Words <- MCWords
    NULL = NULL
    NoText = NoText
    MAX_ARGS = 3
    HISTORY_SIZE = 4
    HISTORY_SLOTS = 2
    INT_MIN <- MCIntMin
    INT_MAX = 7
    LONG_MIN <- MCLongMin
    LONG_MAX = 31
    Addr = {a1, a2}
    MaxCommands = 4
    FirstSize = 1
SPECIFICATION FairShellSpec
INVARIANTS
    InputPartition
    CommandAlone
    RunsWhatWasTyped
    RecordsWhatWasTyped
    StatusTellsFailure
    NothingLeft
PROPERTIES RingSpec EndsOrCommandRuns
CHECK_DEADLOCK FALSE
