SPECIFICATION Spec
CONSTANTS
    OrderIds = {o1}
    Accounts = {a1}
    NoAccount = NoAccount
    NoOrder = NoOrder
    Procs = {p1, p2}
    MaxPosts = 2
    DbErrors = FALSE
SYMMETRY Symmetry
INVARIANTS
    OneClaimPerOrder
