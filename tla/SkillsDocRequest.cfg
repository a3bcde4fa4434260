SPECIFICATION SkillsSpec
CONSTANTS
    n1 = n1
    b1 = b1
    b2 = b2
    sa = sa
    sb = sb
    SkillParts = {"store"}
    MaxTrouble = 3
    Revisions <- DeskRevisions
    Requirements <- DeskRequirements
    FirstInUse <- FirstRevisions
    NoRevision = NoRevision
    Rooms <- DeskRooms
    None = None
    Torn = Torn
    Names = {n1}
    Ids <- OneRevision
    Bytes = {b1}
    Passing = {b1}
    Policies = {"both", "user"}
    PolicyOf <- PolicyOfBytes
    DefaultPolicy = "both"
    Faults = {}
    MaxFaults = 0
    MaxDetours = 1
    MaxKills = 1
INVARIANTS
    StartPasses
CHECK_DEADLOCK FALSE
