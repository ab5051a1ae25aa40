SPECIFICATION Spec
CONSTANTS
    Registered = {"gsi", "log", "sidecar"}
    MaxRestarts = 2
    Hysteresis = 2
    Quiet = 1
    Miss = 1
INVARIANTS
    SidecarIsDriven
    NothingOutlivesTheApp
PROPERTIES
    RecoversSlowly
    SourcesLive
    RecoversInTheEnd
CHECK_DEADLOCK FALSE
