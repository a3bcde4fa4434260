SPECIFICATION RestartSpec
CONSTANTS
    v1 = v1
    v2 = v2
    w = w
    core = core
    None = None
    NoSnapshot = NoSnapshot
    Rows <- TrioRows
    Candidates <- TrioRows
    OwnerOf <- TrioOwner
    Claims <- TrioClaims
    Base <- TrioBase
    Dependents <- TrioDependents
    Legacy = {}
    Newer <- PairNewer
    MaxPosts = 2
    MaxApprovals = 2
    MaxCrashes = 1
    MaxFatals = 0
    MaxDiskFaults = 0
    MaxTampers = 0
    MaxMishaps = 2
INVARIANTS
    ActiveWasApproved
    RuntimeSettled
    LkgMounted
PROPERTIES
    CommitsOnBase
    UndoLive
    RollbackExact
    DecidedAsShown
