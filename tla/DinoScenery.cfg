SPECIFICATION Spec
CONSTANTS
    Speeds = {60, 70, 80, 90, 130}
    Sizes = {1, 3}
    FrameTimes = {0, 694}
    StepTime = 20
    TrexXs = {24}
    Comers = 2
    LineWidth = 8
    CloudWidth = 1
    CloudGaps = {1, 3}
    MaxClouds = 3
    Moves <- MovesDef
    LateMoves <- LateMovesDef
    MaxLate = 8
    FrameMs = 100
    FramePx = 26
    LateFrames <- LateFramesDef
    MaxRun = 442
    MaxDistanceUnits = 1
    AchievementDistance = 5
    FlashDuration = 50
    FlashIterations = 1
    InvertDistance = 5
    InvertFadeDuration = 200
    FadeSteps = 2
    Phases = 2
    MaxGames = 3
    MaxUploadScore = 2
    MaxPosts = 3
INVARIANTS
    RowInPlace
    NoThreeAlike
    CanBePassed
    SceneryInPlace
    CrashIsScored
    NightIsTimed
    UploadsAreFinal
PROPERTIES
    EffectsEnd
CHECK_DEADLOCK FALSE
