SPECIFICATION Spec
CONSTANTS
    NumPorts = 1
    u1 = u1
    u2 = u2
    User = {u1, u2}
    NoUser = NoUser
    Worker = {w1, w2}
    SessionId = {s1, s2}
    NoSession = NoSession
    Endpoints <- WebEndpoints
    PatchStatus = {}
    MaxLogs = 2
PROPERTIES
    HeldPortGoesToItsHolder
