SPECIFICATION Spec
CONSTANTS
    MaxRuns = 1
    MaxAnswers = 3
    MaxIterations = 2
    MaxRequestedSkills = 1
    Responses <- BesideResponses
    Streaming = FALSE
    Faults = {"crash"}
INVARIANTS
    CallsAreAnsweredOnce
CHECK_DEADLOCK FALSE
