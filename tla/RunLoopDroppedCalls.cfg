SPECIFICATION Spec
CONSTANTS
    MaxRuns = 1
    MaxAnswers = 1
    MaxIterations = 2
    MaxRequestedSkills = 0
    Responses <- QuestionResponses
    Streaming = FALSE
    Faults = {}
INVARIANTS
    TurnIsAnsweredBeforeNext
CHECK_DEADLOCK FALSE
