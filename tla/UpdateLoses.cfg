SPECIFICATION Spec
CONSTANTS
    Procs = {"p", "q"}
    KindsOf <- MCKindsOf
    MaxVersion = 2
PROPERTIES
    ResultsStayCached
CHECK_DEADLOCK FALSE
