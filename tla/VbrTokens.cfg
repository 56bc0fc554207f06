SPECIFICATION Spec
CONSTANTS
    Callers = {c1, c2}
    MaxGrants = 3
    Nobody = Nobody
INVARIANTS
    TypeOK
    RenewsCurrentPair
    HoldsNewestPair
    ExpiredOnlyAfterRetry
PROPERTIES
    EveryFetchEnds
