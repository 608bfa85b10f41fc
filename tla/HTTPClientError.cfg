SPECIFICATION Spec
CONSTANTS
    Nodes = {n1, n2}
    MaxLength = 3
    MaxRetries = 2
    Chunks = 2
INVARIANT
    RetriedAfterServerErrors
