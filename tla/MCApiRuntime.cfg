SPECIFICATION FairSpec
CONSTANTS
    TargetGroups = {t1}
    Writers = {w1, w2}
    MaxTxRetryAttempts = 2
    MaxSpecs = 1
    MaxEntries = 2
    MaxFaults = 1
    MaxPlacements = 1
INVARIANTS
    TypeOK
    CachedChangelogIsWritten
PROPERTIES
    ChangelogAppendOnly
    NoEntrySkipped
    AgentGoesFurther
    
