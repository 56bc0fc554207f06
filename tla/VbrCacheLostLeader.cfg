SPECIFICATION Spec
CONSTANTS
    Callers = {c1, c2}
    Cacheable = {oddJob}
    Volatile = {}
    Malformed = {oddJob}
    CacheTTL = 0
    StaleTTL = 1
    MaxNow = 1
    Nobody = Nobody
    Gone = Gone
PROPERTY EveryWaiterIsAnswered
\* Whoever waits for a call that was lost waits for ever.
CHECK_DEADLOCK FALSE
