SPECIFICATION Spec
CONSTANTS
    MaxRuns = 2
    MaxAnswers = 2
    MaxIterations = 1
    MaxRequestedSkills = 0
    Responses <- QuestionResponses
    Streaming = TRUE
    Faults = {"crash", "cancel"}
INVARIANTS
    TypeOK
    WorkerMatchesStore
    PausedAtQuestion
    ResultsMatchCalls
    OutcomeIsRecorded
PROPERTIES
    EndedRunIsFrozen
    RefinesLifecycle
CHECK_DEADLOCK FALSE
