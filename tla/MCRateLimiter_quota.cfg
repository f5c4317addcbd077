SPECIFICATION FairSpec
CONSTANTS
    Attempts = {a1, a2, a3, a4}
    Threads = 2
    Limit = 2
    Window = 2
INVARIANTS
    TypeOK
    QuotaHolds
    LocalQuotaHolds
PROPERTIES
    LockoutsEnd
