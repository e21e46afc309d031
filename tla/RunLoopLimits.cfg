SPECIFICATION FairSpec
CONSTANTS
    MaxRuns = 1
    MaxAnswers = 2
    MaxIterations = 2
    MaxRequestedSkills = 2
    Responses <- ToolResponses
    Streaming = FALSE
    Faults = {"cancel"}
INVARIANTS
    RequestedSkillsComeFirst
    OnlySuspensionDropsCalls
    IterationsAreBounded
PROPERTIES
    RunningEnds
CHECK_DEADLOCK FALSE
