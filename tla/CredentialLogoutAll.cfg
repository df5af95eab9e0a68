CONSTANTS
    Procs = {p1, p2}
    Names = {1, 2}
    Default = 2
    Sessions = {"s1", "s2", "s3"}
    Scenes <- OrderlyScene
    TokenProcs = {q1}
    MaxAttempts = 1
    MaxGrants = 1
SPECIFICATION BothSpec
CHECK_DEADLOCK FALSE
PROPERTIES
    LogoutAllRemovesCaches
