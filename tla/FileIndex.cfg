SPECIFICATION FairSpec
CONSTANTS
    Dirs <- MCDirs
    Names = {"x"}
    Repositories = {"none", "inside", "outside"}
    MaxEdits = 2
PROPERTIES
    IndexFollowsDisk
    QuitEnds
CHECK_DEADLOCK FALSE
