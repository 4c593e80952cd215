----------------------------- MODULE MCSharding -----------------------------
EXTENDS Sharding, TLC

CONSTANTS a, b, v1, v2

MCVShardOf == [t \in Targets |-> v1]
\* Two workers meet twice before the third; the keys of the shards fall on different points, and the
\* first point is in turn this worker's and another's.
MCCircles == {[points |-> <<Me, a, Me, b>>, key |-> (v1 :> 2 @@ v2 :> 4)],
              [points |-> <<a, a, b, Me>>, key |-> (v1 :> 1 @@ v2 :> 4)]}
=============================================================================
