SPECIFICATION Spec
CONSTANTS
    Nodes <- GapNodes
    HttpRequests = {r1}
    Upgrades = {u1}
    ErrorThreshold = 2
    MaxRetries = 1
    FailbackChecks = 2
    NoNode = NoNode
INVARIANTS
    TypeOK
    DemotedIsLeaving
    TwiceListedIsLeaving
