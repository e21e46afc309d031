SPECIFICATION Spec
CONSTANTS
    Typed = {"wide", "nl", "at"}
    Width <- MCWidth
    Spaces <- MCSpaces
    Pastes <- MCPastes
    Snapshots <- MCSnapshots
    Histories <- MCHistories
    MaxLength = 2
    MaxHistory = 2
INVARIANTS
    SuggestionsAreCurrent
PROPERTIES
    DraftComesBack
    ReferencesStayWhole
CHECK_DEADLOCK FALSE
