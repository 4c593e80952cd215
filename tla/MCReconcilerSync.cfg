SPECIFICATION Spec
CONSTANTS
  t1 = t1
  t2 = t2
  t3 = t3
  t4 = t4
  t5 = t5
  DataPlanes = {1, 2}
  TargetGroups = {t1, t2}
  ReplicationFactor = 1
  AmbiguousCommits = TRUE
  MaxEvents = 1
  MaxTicks = 0
  MaxTxnErrors = 1
  MaxFailovers = 0
CHECK_DEADLOCK FALSE
INVARIANTS
  InSyncWithEtcd
