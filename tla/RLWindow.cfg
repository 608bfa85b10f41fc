SPECIFICATION Spec
CONSTANTS
    Clients = {c1, c2}
    Limit = 2
    Window = 3
    Expiry = 3
    Horizon = 7
INVARIANTS
    TypeOK
    Remembered
    WindowsHoldLimit
PROPERTY
    IsSlidingWindow
