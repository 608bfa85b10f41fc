SPECIFICATION FairSpec
CONSTANTS
    Nodes <- ThreeNodes
    HttpRequests = {r1}
    Upgrades = {}
    ErrorThreshold = 1
    MaxRetries = 2
    FailbackChecks = 2
    NoNode = NoNode
INVARIANTS
    PromotesBest
    OfficeInv
PROPERTIES
    RequestsEnd
    HealthyBackupIsListed
    FailingBackupIsUnlisted
    OriginalPrimaryReturns
    HoldsOffice
