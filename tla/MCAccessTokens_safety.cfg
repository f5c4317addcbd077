SPECIFICATION AccessSpec
CONSTANTS
    Tokens = {t1, t2, t3}
    Requests = {r1, r2}
    MaxChanges = 1
    MayCrash = TRUE
    MaxSecond = 1
SYMMETRY Symmetry
INVARIANTS
    AccessTypeOK
    OneTokenPerSession
    SurvivorsExplained
    OldAccessExplained
PROPERTY LifecycleSpec
CHECK_DEADLOCK FALSE
