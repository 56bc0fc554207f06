SPECIFICATION Safety
CONSTANTS
    Sessions = {s1, s2}
    Handlers = {h1, h2}
    Jobs = {j1, j2}
    Watched = {}
    Repos = {r1}
    OtherOperations = {other}
    MaxSpeed = 1
    Nothing = nothing
SYMMETRY IdSymmetry
INVARIANT TypeOK
INVARIANT ResultsAreComplete
INVARIANT LeftoversWereInFlight
PROPERTY JobsRunForward
PROPERTY OnlyDisconnectDiscards
PROPERTY CeilingNeverFalls
