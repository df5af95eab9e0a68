CONSTANTS
    w1 = w1
    w2 = w2
    b1 = b1
    b2 = b2
    None = None
    Handlers <- MCHandlers
    Workspaces <- MCWorkspaces
    Branches <- MCBranches
    Regions <- MCRegions
    Retries = 1
    Others = 1
    Procs = {1, 2}
    Dirs <- MCWorkspaces
    Urls <- MCBranches
    Turns = 2
SPECIFICATION AllSpec
SYMMETRY Symmetric
CHECK_DEADLOCK FALSE
INVARIANTS
    AllTypeOK
    AskedAndConfirmed
    DoneOnce
    ReportsAreTrue
    PolicyHolds
    SentIsClosed
    DeployedAsAsked
    LinkKeepsProfile
    RequestsGoHome
    RunsInstalled
    MainIsComplete
PROPERTY NewKeepsFiles
