SPECIFICATION Spec
CONSTANTS
    Registered = {"gsi", "sidecar"}
    MaxRestarts = 1
    Hysteresis = 1
    Quiet = 1
    Miss = 1
INVARIANT
    QuitLeavesNoProcess
CHECK_DEADLOCK FALSE
