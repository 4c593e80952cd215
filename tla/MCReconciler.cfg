SPECIFICATION Spec
CONSTANTS
  t1 = t1
  t2 = t2
  t3 = t3
  t4 = t4
  t5 = t5
  DataPlanes = {1, 2, 3}
  TargetGroups = {t1, t2}
  ReplicationFactor = 2
  AmbiguousCommits = FALSE
  MaxEvents = 2
  MaxTicks = 0
  MaxTxnErrors = 1
  MaxFailovers = 1
SYMMETRY Symmetry
CHECK_DEADLOCK FALSE
INVARIANTS
  TypeOK
  AssignmentsMatchPlacements
  ReplicationBound
  
  IdleMeansReplicated
PROPERTIES
  ReconcileReplicates
  VersionsAdvance
