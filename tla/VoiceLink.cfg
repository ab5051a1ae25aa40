SPECIFICATION FairSpec
CONSTANTS
    MaxMatch = 2
    Backoffs = 1
    MaxPending = 2
    MaxBacklog = 1
    MaxInFlight = 1
CHECK_DEADLOCK FALSE
INVARIANTS
    LinkIsSound
    RenewalIsDriven
    StateIsTrue
    SessionOfTheMatch
PROPERTIES
    RenewalEnds
    NeverSilentlyLost
