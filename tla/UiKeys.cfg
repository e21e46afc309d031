SPECIFICATION Spec
CONSTANTS
    Lines <- MCLines
    Begins <- MCBegins
    Spaced <- MCSpaced
    Slashed <- MCSlashed
    Sessions <- MCSessions
    Found = {"s2"}
    Skills <- MCSkills
    Options <- MCOptions
INVARIANTS
    FocusIsShown
PROPERTIES
    InterruptIsConfirmed
    NothingTypedIsLost
    OnlyAnswersAreSent
CHECK_DEADLOCK FALSE
