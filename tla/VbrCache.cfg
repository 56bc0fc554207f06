SPECIFICATION Safety
CONSTANTS
    Callers = {c1, c2, c3}
    Cacheable = {jobs, oddJob}
    Volatile = {sessions}
    Malformed = {oddJob}
    CacheTTL = 0
    StaleTTL = 1
    MaxNow = 3
    Nobody = Nobody
    Gone = Gone
SYMMETRY CallerSymmetry
\* Whoever waits for a call that was lost waits for ever.
CHECK_DEADLOCK FALSE
INVARIANTS
    TypeOK
    SingleFlight
    WaitersHaveLeader
    FailsOnlyWithoutCopy
    ServedCopyAge
    VolatileIsFresh
PROPERTIES
    CacheNeverRegresses
    MonotoneReads
