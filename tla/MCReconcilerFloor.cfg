SPECIFICATION Spec
CONSTANTS
  t1 = t1
  t2 = t2
  t3 = t3
  t4 = t4
  t5 = t5
  DataPlanes = {1, 2, 3}
  TargetGroups = {t1, t2, t3, t4, t5}
  ReplicationFactor = 1
  AmbiguousCommits = FALSE
  MaxEvents = 0
  MaxTicks = 0
  MaxTxnErrors = 0
  MaxFailovers = 0
CHECK_DEADLOCK FALSE
INVARIANTS
  FloorEnforced
