SPECIFICATION Spec
CONSTANTS
    MaxRuns = 1
    MaxAnswers = 2
    MaxIterations = 1
    MaxRequestedSkills = 2
    Responses <- BesideResponses
    Streaming = FALSE
    Faults = {"crash"}
INVARIANTS
    SkillCallsAreBounded
CHECK_DEADLOCK FALSE
