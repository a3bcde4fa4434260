SPECIFICATION Spec
CONSTANTS
    ticket = ticket
    MaxSessions = 3
    Confirmations = {ticket}
    InitialSessions = 2
    Flags = {1, 2}
    MaxRevision = 5
    MaxFaults = 0
    MaxCrashes = 1
INVARIANTS
    TranscriptKept
CHECK_DEADLOCK FALSE
