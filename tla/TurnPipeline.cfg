SPECIFICATION MCSpec
CONSTANTS
    Environments <- MCEnvironments
    Faults <- MCFaults
    ElapsedHint = 1
    CancelHint = 1
    ErrorDismiss = 1
    Horizon = 1
    MaxTurns = 9
    KeyEvents = {"down", "up", "tap", "cancel"}
    Mutes = {TRUE, FALSE}
    Tools = TRUE
    Renewals = TRUE
    MaxDirectives = 2
    MaxEvents = 1
    MaxWire = 0
INVARIANTS
    GateFollowsChip
    QuestionReachesTheModel
PROPERTIES
    ProcessingEnds
    MicCloses
CHECK_DEADLOCK FALSE
