SPECIFICATION SavingsSpec
CONSTANTS
    LastMonth = 2
    CreatedIn = 1
    Nets <- MCNets
    Goals = {100}
    Overviews = {w1, w2}
SYMMETRY Symmetry
INVARIANTS
    SavingsTypeOK
    OverviewAddsUp
    NeverBelowNothing
