SPECIFICATION Spec
CONSTANTS
  Me = me
  a = a
  b = b
  v1 = v1
  v2 = v2
  Others = {a, b}
  Targets = {t1}
  VShards = {v1, v2}
  VShardOf <- MCVShardOf
  Circles <- MCCircles
  ReplicationFactor = 2
  MaxChanges = 2
  MaxMembership = 3
  MaxFaults = 1
INVARIANTS TypeOK MyVShardsFollowCircle 
 
CHECK_DEADLOCK FALSE
