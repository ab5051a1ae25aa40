SPECIFICATION MCSpec
CONSTANTS
    Environments <- MCEnvironments
    Faults <- MCFaults
    ElapsedHint = 1
    CancelHint = 1
    ErrorDismiss = 1
    Horizon = 1
    MaxTurns = 9
    KeyEvents = {"down", "up", "tap", "cancel"}
    Mutes = {}
    Tools = FALSE
    Renewals = FALSE
    MaxDirectives = 1
    MaxEvents = 2
    MaxWire = 1
INVARIANT
    CancelledIsForgotten
CHECK_DEADLOCK FALSE
