SPECIFICATION FairSpec
CONSTANTS
    NumPorts = 1
    u1 = u1
    u2 = u2
    User = {u1, u2}
    NoUser = NoUser
    Worker = {w1, w2}
    SessionId = {s1}
    NoSession = NoSession
    Endpoints <- HoldEndpoints
    PatchStatus = {}
    MaxLogs = 1
PROPERTIES
    LapsedHoldIsFreed
