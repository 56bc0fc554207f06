SPECIFICATION Spec
\* Build returns, and then nothing is left to do.
CHECK_DEADLOCK FALSE
CONSTANTS
    PageSize = 2
    Pages = 2
    maxSessions = 3
    fetchWorkers = 2
    MaxHistory = 3
    MaxStarts = 1
INVARIANT TypeOK
INVARIANT FirstListedIsNewest
INVARIANT RepeatsAreShifts
INVARIANT NoGapInRuns
INVARIANT SlotsAreWorkers
INVARIANT EveryRunRecorded
PROPERTY BuildEnds
