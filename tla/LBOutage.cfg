SPECIFICATION FairSpec
CONSTANTS
    Nodes <- TwoNodes
    HttpRequests = {r1}
    Upgrades = {}
    ErrorThreshold = 1
    MaxRetries = 2
    FailbackChecks = 2
    NoNode = NoNode
PROPERTY
    BackupTakesOver
