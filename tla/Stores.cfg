CONSTANTS
    Procs = {p1, p2}
    Names = {1, 2}
    Default = 2
    Sessions = {"s1", "s2", "s3"}
    Scenes <- EveryScene
    TokenProcs = {q1, q2, q3}
    MaxAttempts = 3
    MaxGrants = 4
    Ann = Ann
    Bob = Bob
    Devs = {Ann, Bob}
    Teams <- EveryTeam
    MaxVersion = 6
    Alphabets <- ScriptAlphabets
    MaxLen = 6
SPECIFICATION AllSpec
SYMMETRY ProcSymmetry
CHECK_DEADLOCK FALSE
INVARIANTS
    AllTypeOK
    ProfilesAgree
    CachesMatchProfiles
    LoginSurvives
    SessionSurvives
    FindsPending
    HistoryTellsWhatRan
    RunsInOrder
    FilesAreRun
    CutsAtEnds
PROPERTIES
    DownKeepsTheRest
    RepairsAgree
