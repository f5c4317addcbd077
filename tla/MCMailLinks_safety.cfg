SPECIFICATION Spec
CONSTANTS
    Users = {u1, u2}
    Addresses = {a1, a2, a3}
    Links = {l1, l2}
    Requests = {r1, r2}
SYMMETRY Symmetry
INVARIANTS
    TypeOK
    OlderLinksAreDead
    OneUsePerLink
    AddressesAreUnique
    AddressesAreProved
CHECK_DEADLOCK FALSE
