CONSTANTS
    w1 = w1
    w2 = w2
    b1 = b1
    b2 = b2
    None = None
    Handlers <- QuotaHandlers
    Workspaces <- MCWorkspaces
    Branches <- MCBranches
    Regions <- MCRegions
    Retries = 1
    Others = 0
SPECIFICATION Spec
SYMMETRY Symmetric
CHECK_DEADLOCK FALSE
INVARIANT WritesAreNotRetried
