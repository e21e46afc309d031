SPECIFICATION Spec
CONSTANTS
    MaxSessions = 1
    MaxRuns = 2
    MaxRequests = 2
    MaxDeltas = 1
    MaxEvents = 1
    WhileRunning = {}
    RevisingAnytime = TRUE
    MaxChanges = 1
    Quitting = FALSE
INVARIANTS
    NoEventIsDropped
CHECK_DEADLOCK FALSE
