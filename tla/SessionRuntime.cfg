SPECIFICATION FairSpec
CONSTANTS
    Environments <- MCEnvironments
    Faults <- MCFaults
    ElapsedHint = 1
    CancelHint = 2
    ErrorDismiss = 2
    Horizon = 4
INVARIANTS
    TimersMatchPhase
    PhaseIsKept
    ChipIsCurrent
PROPERTIES
    NoTurnLeftBehind
    CaptureEnds
    TransientErrorClears
