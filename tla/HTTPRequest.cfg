SPECIFICATION FairSpec
CONSTANTS
    Nodes = {n1, n2}
    MaxLength = 3
    MaxRetries = 2
    Chunks = 2
INVARIANTS
    TypeOK
    ReplyIsOneAnswer
    BodyGoesToTheFirst
    NoBlameForAnAnswer
    SuccessIsNotRetried
    NoAttemptAfterTheCut
PROPERTIES
    RequestEnds
    RelaysFirstAnswer
