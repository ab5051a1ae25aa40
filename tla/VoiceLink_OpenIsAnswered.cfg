SPECIFICATION FairSpec
CONSTANTS
    MaxMatch = 1
    Backoffs = 1
    MaxPending = 3
    MaxBacklog = 1
    MaxInFlight = 1
CHECK_DEADLOCK FALSE
PROPERTY OpenIsAnswered
