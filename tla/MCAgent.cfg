SPECIFICATION FairSpec
CONSTANTS
    t1 = t1
    p1 = p1
    e1 = e1
    e2 = e2
    TargetGroups = {t1}
    Endpoints = {e1, e2}
    HealthyEndpoints = {{e2}, {e1, e2}}
    Events <- MCEvents
    Ports = {p1}
    FirstPort <- MCFirstPort
    MaxReconcileAttempts = 2
    TaskChanCap = 1
    MaxChanges = 1
    MaxPlacements = 2
    MaxStatuses = 2
    MaxFaults = 1
INVARIANTS
    TypeOK
    StoredFollowsChangelog
    PlacementStored
    NothingForgotten

    
CHECK_DEADLOCK FALSE
