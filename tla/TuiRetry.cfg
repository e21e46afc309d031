SPECIFICATION Spec
CONSTANTS
    MaxSessions = 2
    MaxRuns = 2
    MaxRequests = 2
    MaxDeltas = 1
    MaxEvents = 1
    WhileRunning = {}
    RevisingAnytime = FALSE
    MaxChanges = 0
    Quitting = FALSE
INVARIANTS
    RetryRepeatsFailedRequest
CHECK_DEADLOCK FALSE
