CONSTANTS
    INT_BITS = 4
    BUFSIZE = 4
    MaxReplaced = 2
    USER1 = 500
    USER2 = 501
SPECIFICATION PackSpec
INVARIANTS
    LabelsMissNothing
    ReportsAreReal
    ObjectRulesMatchLabels
    OpenFileIsTheOneLookedAt
    OrderDecidesRoot
CHECK_DEADLOCK FALSE
