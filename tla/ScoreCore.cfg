CONSTANTS
    Workers = {w1, w2}
    Managers = {m1}
    Usernames = {"ann", "bob"}
    ScoreValues = {1, 2}
    Sizes = {2}
    MaxAccepted = 3
    MaxCrashes = 1
    MaxFaults = 1
    None = None
SPECIFICATION FairSpec
INVARIANTS
    TypeOK
    LockExcludes
    AnsweredTrueIsKept
    BoardIsTopOfAccepted
    GetIsCurrent
    BoardIsGenuine
PROPERTIES
    DamageIsNotHidden
    LockComesFree
