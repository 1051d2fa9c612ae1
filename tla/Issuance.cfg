SPECIFICATION FairSpec
CONSTANTS
    d1 = d1
    d2 = d2
    f1 = f1
    f2 = f2
    o1 = o1
    o2 = o2
    Flows = {f1, f2}
    UpOrders = {o1, o2}
    Domains = {d1, d2}
    NoFlow = NoFlow
    NoDomain = NoDomain
    NoOrder = NoOrder
    Providers = {"cloudflare", "route53", "namecheap"}
    Interruptions = TRUE
INVARIANTS RecordPresentUntilValidated OrderUrlAtHand RefusedByLeftoverOnly
PROPERTIES ImplementsCertService OnlyOwnNameWritten EveryFlowEnds
CHECK_DEADLOCK FALSE
