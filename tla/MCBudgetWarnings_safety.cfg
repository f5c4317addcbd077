SPECIFICATION Spec
CONSTANTS
    Limits = {1, 2}
    MaxUsed = 3
    Tasks = {t1, t2, t3}
SYMMETRY Symmetry
INVARIANTS
    TypeOK
    RepeatsExplained
    OverrunsAreNoticed
PROPERTY LogSpec
