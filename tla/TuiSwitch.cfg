SPECIFICATION Spec
CONSTANTS
    MaxSessions = 2
    MaxRuns = 2
    MaxRequests = 2
    MaxDeltas = 1
    MaxEvents = 1
    WhileRunning = {"switch"}
    RevisingAnytime = FALSE
    MaxChanges = 0
    Quitting = FALSE
INVARIANTS
    OneWorker
CHECK_DEADLOCK FALSE
