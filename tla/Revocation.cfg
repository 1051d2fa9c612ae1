SPECIFICATION Spec
CONSTANTS
    OrderIds = {o1, o2, o3}
    Accounts = {a1, a2}
    NoAccount = NoAccount
    Procs = {p1, p2}
    RateLimit = 1
    RateWindow = 1
    MaxTime = 4
    Certs = {c1}
    NoCert = NoCert
    Revokers = {r1}
SYMMETRY Symmetry
INVARIANTS
    QuotaOvershoot
    OnlyOwnersRevoke
    ConfirmedOnce
    NoFalseRefusal
