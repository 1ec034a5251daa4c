SPECIFICATION FairSpec
CONSTANTS
    Requests = {q1, q2}
    NoRequest = NoRequest
    Heard <- MCHeard
    NoPhrase = NoPhrase
    MaxChunk = 2
    MaxSent = 1
    MaxFaults = 1
    MaxSplits = 1
    Words <- MCWords
    RootsIn <- MCRootsIn
    Loads <- MCLoads
    Commands <- MCCommands
    FoundIn <- MCFoundIn
    Houses = {"h1", "h2"}
    NoHouse = NoHouse
    House <- MCHouse
    StaticPhrases <- MCStaticPhrases
    MaxWords = 3
CONSTRAINT Bounded
CHECK_DEADLOCK FALSE
INVARIANTS LinkSound FloorIsOfOneWord
PROPERTIES Reconnects ClearIsAnswered
