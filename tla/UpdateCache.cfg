SPECIFICATION FairSpec
CONSTANTS
    Procs = {"p", "q"}
    KindsOf <- MCKindsOf
    MaxVersion = 2
INVARIANTS
    NoticeIsAnUpdate
    StartupMessageOnce
PROPERTIES
    NewReleaseIsNoticed
CHECK_DEADLOCK FALSE
