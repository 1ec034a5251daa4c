SPECIFICATION LogSpec
CONSTANTS
    Limit = 3
    MaxLine = 2
    MaxDays = 2
    MaxFiles = 3
    MaxRestarts = 2
    MaxTemp = 7
CHECK_DEADLOCK FALSE
INVARIANTS SizeBounded MisfiledOnce NoGap TempNewest
