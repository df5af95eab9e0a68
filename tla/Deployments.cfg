CONSTANTS
    Functions = {f1, f2, f3}
    MaxJobs = 2
    Nil = nil
    Files = {f1, f2, f3}
    Outages = TRUE
    Slugs = {"a", "b", "c", "d"}
    MaxRetries = 3
    Disabled = {"d"}
    Undeployable = {}
    Branches = {"main", "dev"}
    None = None
    Window = 1
    Ticks = 2
    Migrations <- MCMigrations
    Plugins <- MCPlugins
    Names <- MCNames
    Suffix <- MCSuffix
    Initial <- MCInitial
    Arguments <- MCArguments
    PageLimit = 1
    Others = 1
    Buckets = {"images", "texts"}
    HomeOf <- MCHomeOf
    Dirs = {"functions", "lib"}
    Root = "functions"
    Edits = 2
    Crashes = 1
    BranchNames = {"main", "a", "b"}
    Turns = 6
    Calls = {c1, c2, c3}
    Logins = {l1, l2}
SPECIFICATION AllSpec
CHECK_DEADLOCK FALSE
INVARIANTS
    AllTypeOK
    BulkIsAtomic
    ObjectsAreKept
    SuccessMeansDone
    GivesUpOnlyOnOutages
    OneBranchOnce
    OneOpenLogin
    StatusIsOwnResult
PROPERTIES
    NothingAfterReturn
    Returns
