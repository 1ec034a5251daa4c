SPECIFICATION Spec
CONSTANTS
    l1 = l1 l2 = l2 u1 = u1 u2 = u2
    Lifts = {l1, l2}
    Requests = {q1, q2}
    Logins = {u1, u2}
    Login <- MCLogin
    NoLift = NoLift
    NoRequest = NoRequest
    NoLogin = NoLogin
    Topics = {}
    MaxChunk = 1
    MaxSent = 0
    MaxFaults = 1
    MaxConn = 1
    MaxChanges = 1
    MaxRounds = 2
SYMMETRY Symmetric
CHECK_DEADLOCK FALSE
INVARIANTS MovesSound
PROPERTY ImplementsTableStore
