SPECIFICATION FairSpec
CONSTANTS
    Conns = {c1, c2}
    Nobody = Nobody
    MaxQueries = 2
CHECK_DEADLOCK FALSE
INVARIANTS SessionsSound
PROPERTIES ClientAnswered 
