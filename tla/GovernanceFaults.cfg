SPECIFICATION DirectSpec
CONSTANTS
    v1 = v1
    v2 = v2
    w = w
    core = core
    None = None
    NoSnapshot = NoSnapshot
    Rows <- MixedRows
    Candidates <- MixedCandidates
    OwnerOf <- MixedOwner
    Claims <- MixedClaims
    Base <- MixedBase
    Dependents <- MixedDependents
    Legacy = {w}
    Newer = {}
    MaxPosts = 2
    MaxApprovals = 1
    MaxCrashes = 1
    MaxFatals = 0
    MaxDiskFaults = 1
    MaxTampers = 1
    MaxMishaps = 2
INVARIANTS
    NoConflict
    LegacyWithheld
PROPERTIES
    UninstallUndone
    BootFaithful
CHECK_DEADLOCK FALSE
