SPECIFICATION Spec
CONSTANTS
    MaxRuns = 1
    MaxAnswers = 1
    MaxIterations = 2
    MaxRequestedSkills = 0
    Responses <- QuestionResponses
    Streaming = TRUE
    Faults = {"cancel"}
INVARIANTS
    TextIsPersistedOnce
CHECK_DEADLOCK FALSE
