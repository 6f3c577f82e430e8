SPECIFICATION FairHandoffSpec
CONSTANTS
    Panes = {p1, p2, p3}
    MaxFds = 2
    MaxAttempts = 2
CHECK_DEADLOCK FALSE
INVARIANTS
    HandoffTypeOK
    CapturedQuiesced
    OwnerServes
    PanesSurvive
PROPERTIES
    OwnershipContract
    CommitIsFinal
    HandoffEnds
