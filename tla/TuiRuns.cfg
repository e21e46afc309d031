SPECIFICATION FairSpec
CONSTANTS
    MaxSessions = 2
    MaxRuns = 2
    MaxRequests = 2
    MaxDeltas = 1
    MaxEvents = 1
    WhileRunning = {}
    RevisingAnytime = FALSE
    MaxChanges = 1
    Quitting = TRUE
INVARIANTS
    OneWorker
    ShownSessionIsActive
    StreamHasItsPlace
    NoEventIsDropped
    FinishedRunIsShown
    RunBeginsWithItsRequest
PROPERTIES
    OnlyItsWorkerChangesARun
    ResultIsTaken
CHECK_DEADLOCK FALSE
