SPECIFICATION Spec
CONSTANTS
    food = food
    home = home
    pay = pay
    Shared <- MCShared
    Own <- MCOwn
    Kind <- MCKind
    Amounts = {1}
    Limits = {1, 2}
    Entries = {t1}
    Budgets = {b1, b2}
    Requests = {r1, r2}
SYMMETRY Symmetry
INVARIANTS
    TypeOK
    KindsAgree
    OverspendingIsChecked
    AnsweredLimitsStand
