SPECIFICATION Spec
CHECK_DEADLOCK FALSE
CONSTANTS
    NumProxies = 2
    SlotCounts <- TwoSlotsOrUnknown
    MaxJobs = 2
    MaxPin = 1
INVARIANT NeverOntoBottleneck
