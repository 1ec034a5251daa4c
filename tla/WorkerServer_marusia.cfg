SPECIFICATION Spec
CONSTANTS
    Workers = {w1, w2}
    Known = {w1}
    Requests = {q1}
    NoWorker = NoWorker
    NoRequest = NoRequest
    MaxConn = 2
    MaxChunk = 2
    Kind = "marusia"
INVARIANTS NoSelfAbort AnswersAreRead
