SPECIFICATION Spec
CONSTANTS
    Files = {"a", "b", "secret"}
    Outside = {"outside"}
    Sensitive = {"secret"}
    Proposals <- MCProposals
    EditedTo = {"absent", "edited", "binary"}
    MaxProposals = 2
    MaxEdits = 2
INVARIANTS
    OverwritesOnlyWhatWasShown
    AppliedIsOnDisk
PROPERTIES
    KeepsPromise
CHECK_DEADLOCK FALSE
