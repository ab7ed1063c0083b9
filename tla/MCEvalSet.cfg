CONSTANTS
    Inputs <- MCInputs
    Cwes <- MCCwes
    Rules <- MCRules
    Split <- MCSplit
    Quota <- MCQuota
    MAX_PER_FAMILY = 1
    RuleShare = 40
SPECIFICATION Spec
INVARIANTS
    SelectionWithinCaps
    ShortfallIsReal
    CwesTakeTurns
    LabelsFollowBlocks
PROPERTY SelectionEnds
CHECK_DEADLOCK FALSE
