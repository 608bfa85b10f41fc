SPECIFICATION Spec
CONSTANTS
    Handlers = {}
    Checker = Checker
    Sites <- FailedSites
    MaxCalls = 2
    Nil = Nil
INVARIANTS
    StaysUp
