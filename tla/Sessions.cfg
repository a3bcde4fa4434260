SPECIFICATION Spec
CONSTANTS
    ticket = ticket
    MaxSessions = 3
    Confirmations = {ticket}
    InitialSessions = 2
    Flags = {}
    MaxRevision = 5
    MaxFaults = 1
    MaxCrashes = 2
INVARIANTS
    StartReadable
    RouteAgrees
    TranscriptKept
PROPERTIES
    AllOrNothing
CHECK_DEADLOCK FALSE
