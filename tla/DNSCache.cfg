SPECIFICATION FairSpec
CONSTANTS
    Hosts = {h1, h2}
    Callers = {c1, c2}
    TTL = 2
    MaxAddresses = 2
    MaxSleepers = 1
INVARIANTS
    TypeOK
    AnswersAreFresh
PROPERTIES
    LoneEntryLastsTheTTL
    EntriesExpire
