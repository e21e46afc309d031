SPECIFICATION Spec
CONSTANTS
    MaxSessions = 2
    MaxRuns = 2
    MaxRequests = 1
    MaxDeltas = 2
    MaxEvents = 1
    WhileRunning = {"like"}
    RevisingAnytime = FALSE
    MaxChanges = 0
    Quitting = FALSE
INVARIANTS
    UiDoesNotPanic
CHECK_DEADLOCK FALSE
