SPECIFICATION Spec
CONSTANTS
    h1 = h1  h2 = h2  s1 = s1  s2 = s2  s3 = s3  b1 = b1  b2 = b2
    m1 = m1  l1 = l1  l2 = l2  x1 = x1  x2 = x2  y1 = y1  y2 = y2
    Https = {h1, h2}
    Stations = {s1, s2, s3}
    Registered = {s1, s2}
    StationWorkers <- MCStationWorkers
    StationBlock <- MCStationBlock
    BlockWorkers <- MCBlockWorkers
    MarusiaLinks = {x1}
    LiftLinks = {y1, y2}
    WorkerOf <- MCWorkerOf
    Answers = {"static", "move"}
    NoSession = NoSession
    MaxReconnect = 1
SYMMETRY Perms
CHECK_DEADLOCK FALSE
INVARIANTS RequestsSound OnlyRegisteredMove
PROPERTY WaitingKept
