CONSTANTS
    Workers = {w1, w2}
    Managers = {m1}
    Usernames = {"ann", "bob"}
    ScoreValues = {1, 2}
    Sizes = {0, 1, 2}
    MaxAccepted = 3
    MaxCrashes = 1
    MaxFaults = 1
    None = None
SPECIFICATION Spec
PROPERTIES
    ImplementsLeaderboard
    BoardOnlyImproves
    OversizedIsFrozen
