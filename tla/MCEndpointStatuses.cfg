SPECIFICATION FairSpec
CONSTANTS
    TargetGroups = {t1}
    Endpoints = {e1}
    TaskChanCap = 1
    MaxRows = 1
    MaxWatches = 2
    MaxFaults = 1
INVARIANTS
    TypeOK
    SkippedIsApplied
PROPERTIES
    NeverOlder
    
CHECK_DEADLOCK FALSE
