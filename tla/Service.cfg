SPECIFICATION FairSpec
CONSTANTS
    Names = {a, b}
    MaxNames = 2
    Mistakes = {"interval", "requests_per_second"}
    MaxWrong = 1
INVARIANTS
    TypeOK
    PriorityIsThePosition
    LimitsHold
    TrafficIsAdmitted
PROPERTIES
    FailsLoudly
