SPECIFICATION Spec
CONSTANTS
    Controllers = {k1, k2}
    Logins = {u1, u2}
    NoName = NoName
    NoLogin = NoLogin
    Topics = {t1}
    MaxConn = 3
SYMMETRY Symmetry
CHECK_DEADLOCK FALSE
INVARIANTS NamedIsConnected CommandsReach
