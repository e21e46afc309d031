SPECIFICATION Spec
CONSTANTS
    Root <- MCRoot
    ConfigFiles <- MCConfigFiles
    Contents <- MCContents
    InstructionFiles <- MCInstructionFiles
    SkillNames = {"lint"}
    PathRequests <- MCPathRequests
    HttpRequests <- MCHttpRequests
    MaxEdits = 2
    MaxRuns = 1
INVARIANTS
    ReadOnlyIsNotWritten
CHECK_DEADLOCK FALSE
