SPECIFICATION Spec
CONSTANTS
    MaxMatch = 2
    Backoffs = 1
    MaxPending = 3
    MaxBacklog = 2
    MaxInFlight = 1
CHECK_DEADLOCK FALSE
INVARIANT NoSessionAfterMatch
