SPECIFICATION Spec
CONSTANTS
    Created = 1
    LastDay = 5
    CatchUp = 2
INVARIANTS
    TypeOK
    RepeatsExplained
    NoDayLost
PROPERTY LogSpec
