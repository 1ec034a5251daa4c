SPECIFICATION FairSpec
CONSTANTS
    Lifts = {l1, l2}
    Requests = {q1}
    NoLift = NoLift
    NoRequest = NoRequest
    MaxChunk = 2
    MaxSent = 1
    MaxFaults = 2
CONSTRAINT Bounded
CHECK_DEADLOCK FALSE
INVARIANTS LinkSound
PROPERTIES Reconnects CommandAnswered
