SPECIFICATION FairSpec
CONSTANTS
    Nodes = {n1, n2}
    MaxLength = 2
    MaxMessages = 2
    Window = 1
    Stripped = TRUE
INVARIANTS
    TypeOK
    NothingLeftBehind
    ClosedWhenDone
PROPERTIES
    PumpsEnd
    SessionEnds
    RelaysBothWays
