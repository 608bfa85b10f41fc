SPECIFICATION Spec
CONSTANTS
    Handlers = {h1, h2}
    Checker = Checker
    Sites <- SharedSites
    MaxCalls = 2
    Nil = Nil
SYMMETRY Interchangeable
INVARIANTS
    TypeOK
    NothingUncounted
PROPERTIES
    PanicsHaveACause
