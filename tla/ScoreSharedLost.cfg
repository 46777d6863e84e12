CONSTANTS
    Workers = {w1, w2}
    Managers = {m1, m2}
    Usernames = {"ann"}
    ScoreValues = {1, 2}
    Sizes = {2}
    MaxAccepted = 2
    MaxCrashes = 0
    MaxFaults = 0
    None = None
SPECIFICATION Spec
PROPERTIES
    BoardOnlyImproves
