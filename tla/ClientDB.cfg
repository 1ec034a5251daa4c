SPECIFICATION FairSpec
CONSTANTS
    WorkerMarussia = WorkerMarussia
    WorkerLU = WorkerLU
    Tables <- MCTables
    Fits <- MCFits
    NoTable = NoTable
    MaxRounds = 3
    MaxVersion = 2
    MaxFaults = 1
    MaxRefused = 1
CHECK_DEADLOCK FALSE
INVARIANTS ExchangeSound FreshInstall RightTable
PROPERTIES ExchangeEnds ImplementsTableStore
