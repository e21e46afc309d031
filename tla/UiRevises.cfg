SPECIFICATION Spec
CONSTANTS
    Lines <- MCLines
    Begins <- MCBegins
    Spaced <- MCSpaced
    Slashed <- MCSlashed
    Sessions <- MCSessions
    Found = {"s2"}
    Skills <- MCSkills
    Options <- MCOptions
PROPERTIES
    OnlyOptionsAreSent
CHECK_DEADLOCK FALSE
