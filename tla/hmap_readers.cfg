SPECIFICATION Spec
CONSTANTS
    Thread = {t1, t2}
    Key = {k1, k2, k3}
    NoOwner = NoOwner
    NumPages = 3
INVARIANTS TypeOK OwnPageOnly
SYMMETRY Symmetry
