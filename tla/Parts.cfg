SPECIFICATION PartsSpec
CONSTANTS
    MaxLines = 3
    MaxFiles = 2
    FromStart = FALSE
    Bound = 2
    MaxObserved = 4
    Throws = TRUE
    Posts = {1, 2}
    MaxBody = 1
    BlackStreak = 4
    MissingStreak = 3
    RegionLists = {"huds", "maps"}
    MaxSessions = 2
    MaxCalls = 2
    Window = 1
    MaxEntries = 2
    Buildings = {b1, b2}
    MaxSeconds = 3
    MaxPerSecond = 1
    LastSecond = 800
    BountyPeriod = 180
    PowerFirst = 360
    PowerPeriod = 120
    Waters = {120, 240}
    StackSecond = 53
    RoshanMin = 480
    RoshanMax = 660
    RoshanDeaths = {0, 100}
    Threshold = 2
    Repeats = TRUE
    Launches = 3
    Matches = 2
    MaxItems = 2
    MaxAudio = 1
    MaxErrors = 1
    Budget = 1
    Transports = {"webrtc", "websocket"}
    ShownTurns = 1
    CallsPerTurn = 1
    ShownProblems = 1
    MaxTurns = 2
    MaxToolCalls = 2
    MaxRevision = 3
    WalkFrom <- MCWalkFrom
    WalkTo = 57
    StackTarget = 53
    PreRoll = 2
    SilenceHold = 2
    HalfWidth = 2
    Rates <- MCRates
    MaxChunk = 3
    MaxInput = 12
    Argvs <- MCArgvs
    DotEnvs <- MCDotEnvs
    Envs <- MCEnvs
    MaxSaves = 2
    Utterances <- MCUtterances
    Edits <- MCEdits
    MaxSilentTurns = 3
    MintInterval = 2
    MaxTick = 3
    MaxMints = 3
    FrameCount = 1
    Extent = 100
    MaxClock = 3
    MaxPipe = 1
    MaxRead = 2
    Offers <- MCOffers
    Sizes <- MCSizes
    Rects <- MCRects
    Paddings = {0, 2}
    Ten = {"net1", "net2"}
    Questions <- MCQuestions
    AnchorWindow = 1
    LastMoment = 1
    TapeLength = 3
INVARIANTS
    IngestIsAccounted
    SeesAsTold
    AnsweredOnce
    WorldIsTold
    CommandIsMeant
    LaunchIsClean
    TalkIsTrue
    InspectorIsTrue
PROPERTY SeenNeverGrowsYounger
CHECK_DEADLOCK FALSE
