SPECIFICATION Spec
CONSTANTS
    AccountIds = {a1, a2, a3}
    Keys = {k1, k2, k3}
    NoKey = NoKey
    NoAccount = NoAccount
    Procs = {p1, p2}
    DbErrors = TRUE
SYMMETRY Symmetry
INVARIANTS
    SharersBounded
PROPERTIES
    RollsCurrentKey
