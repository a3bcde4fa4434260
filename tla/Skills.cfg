SPECIFICATION SkillsSpec
CONSTANTS
    n1 = n1
    b1 = b1
    b2 = b2
    sa = sa
    sb = sb
    SkillParts = {"store", "desk"}
    MaxTrouble = 3
    Revisions <- DeskRevisions
    Requirements <- DeskRequirements
    FirstInUse <- FirstRevisions
    NoRevision = NoRevision
    Rooms <- DeskRooms
    None = None
    Torn = Torn
    Names = {n1}
    Ids <- TwoRevisions
    Bytes = {b1, b2}
    Passing = {b1, b2}
    Policies = {"both", "user"}
    PolicyOf <- PolicyOfBytes
    DefaultPolicy = "both"
    Faults = {"directory", "cleanup", "index", "sync"}
    MaxFaults = 2
    MaxDetours = 1
    MaxKills = 2
INVARIANTS
    ServedIsCommitted
    StartsAgain
    ServedWasApproved
PROPERTIES
    ActsAsShown
CHECK_DEADLOCK FALSE
