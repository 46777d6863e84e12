SPECIFICATION Spec
CONSTANTS
    Elapsed = {0, 100}
    ClearTime = 50
    MaxTime = 100
    MaxDistance = 100
    MaxBlinkCount = 1
    Speed = 60
    MaxGames = 2
    MaxReturns = 2
    MaxResizes = 1
PROPERTIES
    ResetMeansRunning
CHECK_DEADLOCK FALSE
