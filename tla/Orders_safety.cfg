SPECIFICATION Spec
CONSTANTS
    OrderIds = {o1, o2}
    Accounts = {a1}
    NoAccount = NoAccount
    NoOrder = NoOrder
    Procs = {p1, p2, p3}
    MaxPosts = 2
    DbErrors = TRUE
SYMMETRY Symmetry
INVARIANTS
    TypeOK
    ClaimsBackedByProofs
    AnonymousNeverIssued
    ValidHasCert
    InvalidExplained
PROPERTIES
    ImplementsLifecycle
