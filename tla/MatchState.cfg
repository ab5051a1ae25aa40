SPECIFICATION MCSpec
CONSTANTS
    MaxMatch = 2
    Threshold = 1
    ShadowWindow = 2
    ConfidenceWindow = 1
    Admission = 2
    KeyframeInterval = 1
    HistoryWindow = 1
    Disks <- MCDisks
    Pausing = TRUE
    Drops = TRUE
    Detected = {"alive"}
    Confidences = {2, 3}
    MaxSightings = 3
    MaxAge = 1
    MaxTime = 2
    MaxRestarts = 1
INVARIANTS
    ReplayedFaithfully
    KillFeedIsTrusted
    MatchIdsAgree
    TracksTheMatch
    RecordedOrReported
    RecordIsAnchored
CHECK_DEADLOCK FALSE
