SPECIFICATION MCSpec
CONSTANTS
    MaxMatch = 1
    Threshold = 1
    ShadowWindow = 2
    ConfidenceWindow = 1
    Admission = 2
    KeyframeInterval = 1
    HistoryWindow = 1
    Disks <- SoundDisk
    Pausing = TRUE
    Drops = FALSE
    Detected = {"alive"}
    Confidences = {2, 3}
    MaxSightings = 2
    MaxAge = 1
    MaxTime = 3
    MaxRestarts = 0
PROPERTIES
    PauseKeepsFacts
CHECK_DEADLOCK FALSE
