SPECIFICATION FairSpec
CONSTANTS
    Kinds = {"key", "wheel up"}
    Rows = 5
    MaxInput = 2
PROPERTIES
    ScrollArrives
CHECK_DEADLOCK FALSE
