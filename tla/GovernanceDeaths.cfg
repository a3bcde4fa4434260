SPECIFICATION DirectFairSpec
CONSTANTS
    v1 = v1
    v2 = v2
    w = w
    core = core
    None = None
    NoSnapshot = NoSnapshot
    Rows <- SoloRows
    Candidates <- SoloCandidates
    OwnerOf <- SoloOwner
    Claims <- SoloClaims
    Base <- SoloBase
    Dependents <- SoloDependents
    Legacy = {}
    Newer = {}
    MaxPosts = 2
    MaxApprovals = 1
    MaxCrashes = 1
    MaxFatals = 1
    MaxDiskFaults = 2
    MaxTampers = 0
    MaxMishaps = 2
INVARIANTS
    MutationReleased
PROPERTIES
    BootCompletes
    CallsEnd
CHECK_DEADLOCK FALSE
