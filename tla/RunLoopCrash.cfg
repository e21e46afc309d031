SPECIFICATION Spec
CONSTANTS
    MaxRuns = 1
    MaxAnswers = 1
    MaxIterations = 2
    MaxRequestedSkills = 0
    Responses <- QuestionResponses
    Streaming = FALSE
    Faults = {"crash"}
INVARIANTS
    WaitingRunHasQuestion
CHECK_DEADLOCK FALSE
