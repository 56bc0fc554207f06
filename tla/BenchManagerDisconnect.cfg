SPECIFICATION Safety
CONSTANTS
    Sessions = {s1}
    Handlers = {h1, h2}
    Jobs = {j1}
    Watched = {}
    Repos = {r1}
    OtherOperations = {other}
    MaxSpeed = 1
    Nothing = nothing
INVARIANT DisconnectLeavesNothing
