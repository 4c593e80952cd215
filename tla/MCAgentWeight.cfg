SPECIFICATION Spec
CONSTANTS
    t1 = t1
    p1 = p1
    e1 = e1
    e2 = e2
    TargetGroups = {t1}
    Endpoints = {e1}
    HealthyEndpoints = {{}, {e1}}
    Events <- MCWeights
    Ports = {p1}
    FirstPort <- MCFirstPort
    MaxReconcileAttempts = 2
    TaskChanCap = 1
    MaxChanges = 2
    MaxPlacements = 1
    MaxStatuses = 1
    MaxFaults = 0
INVARIANT
    ActualWeightIsApplied
CHECK_DEADLOCK FALSE
