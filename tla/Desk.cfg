SPECIFICATION Spec
CONSTANTS
    MaxRevision = 3
    MutesBySpeech = TRUE
INVARIANTS
    ChipIsDrawn
    ShownAsAsked
PROPERTIES
    ShowIsPainted
CHECK_DEADLOCK FALSE
