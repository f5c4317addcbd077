SPECIFICATION Spec
CONSTANTS
    Users = {u1}
    Queries = {balance}
    Readers = {r1, r2}
    Sessions = {s1, s2}
    MaxCommits = 1
SYMMETRY Symmetry
INVARIANTS
    TypeOK
    VersionNeverAheadOfCommits
    PublishedWritesAreRead
CHECK_DEADLOCK FALSE
