SPECIFICATION FairSpec
CONSTANTS
    Users = {u1, u2}
    Queries = {balance}
    Readers = {r1}
    Sessions = {s1}
    MaxCommits = 1
INVARIANTS
    StaleOnlyWhenExplained
PROPERTIES
    ReadsEnd
    StalenessHeals
CHECK_DEADLOCK FALSE
