SPECIFICATION FairSpec
CONSTANTS
    Kinds <- MCKinds
    Rows = 5
    MaxInput = 4
INVARIANTS
    NothingElseIsReduced
PROPERTIES
    KeysArrive
CHECK_DEADLOCK FALSE
