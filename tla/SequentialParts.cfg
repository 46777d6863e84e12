CONSTANTS
    Usernames = {"ann", "bob"}
    ScoreValues = {1, 2, 3}
    Sizes = {0, 1, 2, 3}
    MaxScores = 5
    MaxTokens = 8
    PortStatements <- PortStatementsDef
    ThreadStatements <- ThreadStatementsDef
    LocationStatements <- LocationStatementsDef
    NoNumber = NoNumber
    MaxStatements = 2
    MaxLocations = 3
    Texts = {"", "a", "b", "c", "x", "1", "*", "newscore", "scoreboard"}
    Segments = {"", "a", "b"}
    MaxSegments = 4
    Requests <- RequestsDef
    MaxRequests = 3
SPECIFICATION Spec
INVARIANTS
    RankingIsRight
    ParsesConfigs
    WritesBack
    RequestsFindTheirLocation
    ResponsesAreWhole
CHECK_DEADLOCK FALSE
