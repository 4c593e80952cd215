SPECIFICATION FairSpec
CONSTANTS
  t1 = t1
  t2 = t2
  t3 = t3
  t4 = t4
  t5 = t5
  DataPlanes = {1, 2}
  TargetGroups = {t1}
  ReplicationFactor = 1
  AmbiguousCommits = FALSE
  MaxEvents = 2
  MaxTicks = 1
  MaxTxnErrors = 1
  MaxFailovers = 1
CHECK_DEADLOCK FALSE
PROPERTIES
  EventuallyReplicated
