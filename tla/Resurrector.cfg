SPECIFICATION FairSpec
CONSTANTS
    Programs = {"ServerDB", "Worker"}
    Fields <- MCFields
    Configs <- MCConfigs
    MaxEarly = 2
CHECK_DEADLOCK FALSE
INVARIANTS NoneTooMany
PROPERTIES Restarted HungReplaced
