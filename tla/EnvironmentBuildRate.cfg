SPECIFICATION Safety
CHECK_DEADLOCK FALSE
CONSTANTS
    PageSize = 2
    Pages = 2
    maxSessions = 1
    fetchWorkers = 1
    MaxHistory = 3
    MaxStarts = 1
INVARIANT RateOfWindow
