SPECIFICATION Spec
CONSTANTS
    Sessions = {s1}
    Handlers = {h1, h2}
    Jobs = {j1, j2}
    Watched = {j1}
    Repos = {r1}
    OtherOperations = {other}
    MaxSpeed = 0
    Nothing = nothing
PROPERTY EveryJobEnds
PROPERTY EveryPollEnds
