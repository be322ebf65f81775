SPECIFICATION FairSpec
CONSTANTS
    Workers = {w1}
    Clients = {c1}
    CtxId = {k1, k2, k3}
    MaxRenewals = 1
    MaxFailures = 1
    NULL = NULL
INVARIANTS
    RefsExact
    TlsReady
    ExpiryShown
PROPERTIES
    RenewalServed
    DrainEnds
    LostOnlyToDrain
