SPECIFICATION FairSpec
CONSTANTS
    OrderIds = {o1}
    Accounts = {a1}
    NoAccount = NoAccount
    NoOrder = NoOrder
    Procs = {p1, p2, p3}
    MaxPosts = 3
    DbErrors = FALSE
INVARIANTS
    ProcessingHasWorker
PROPERTIES
    ProcessingSettles
    AuthzSettles
