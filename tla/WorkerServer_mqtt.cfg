SPECIFICATION FairSpec
CONSTANTS
    Workers = {w1}
    Known = {w1}
    Requests = {q1, q2}
    NoWorker = NoWorker
    NoRequest = NoRequest
    MaxConn = 1
    MaxChunk = 2
    Kind = "mqtt"
INVARIANTS Monitored NoSelfAbort NoLiveClosed AnswersAreRead PingNotLost
PROPERTY DeadLinkRemoved
