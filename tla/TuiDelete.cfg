SPECIFICATION Spec
CONSTANTS
    MaxSessions = 2
    MaxRuns = 2
    MaxRequests = 1
    MaxDeltas = 1
    MaxEvents = 1
    WhileRunning = {}
    RevisingAnytime = FALSE
    MaxChanges = 0
    Quitting = FALSE
INVARIANTS
    ActiveSessionRemains
CHECK_DEADLOCK FALSE
