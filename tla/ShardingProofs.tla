--------------------------- MODULE ShardingProofs ---------------------------
(***************************************************************************)
(* Proofs about a health-check worker, for every circle, every number of   *)
(* workers, shards and targets and every replication factor.  A worker is  *)
(* one of a shard's nodes when fewer than ReplicationFactor of the hosts   *)
(* are met before it; a host that comes or goes moves it by one place, so  *)
(* that the differences the sharder applies add up to what the circle      *)
(* says, and a row that the worker has to check is always covered by       *)
(* something: a check, a message to come, or work in progress.             *)
(***************************************************************************)
EXTENDS Sharding, FiniteSetTheorems, TLAPS

(* The least element of a set of natural numbers.                          *)
LEMMA NatMin ==
  ASSUME NEW T \in SUBSET Nat, T # {}
  PROVE  Min(T) \in T
<1>1. IsWellFoundedOn(OpToRel(<, Nat), Nat)
  BY NatLessThanWellFounded
<1>2. PICK x \in T : \A y \in T : ~ (<<y, x>> \in OpToRel(<, Nat))
  BY <1>1, WFMin
<1>3. \A y \in T : ~(y < x)  BY <1>2 DEF OpToRel
<1>4. \E z \in T : \A y \in T : z <= y  BY <1>3
<1> QED  BY <1>4 DEF Min

LEMMA Wrapped ==
  ASSUME NEW L \in Nat, NEW x \in Nat, x < L
  PROVE  x % L = x /\ (x + L) % L = x
<1>1. x % L = x  OBVIOUS
<1>2. (x + L) % L = x  OBVIOUS
<1> QED  BY <1>1, <1>2

-----------------------------------------------------------------------------
(* A search that starts at the shard's key meets every worker.             *)
LEMMA DistanceMeets ==
  ASSUME NEW c \in Circles, NEW v \in VShards, NEW n \in Nodes
  PROVE  LET L == Len(c.points)
             d == Distance(c, v, n)
         IN  d \in Nat /\ c.points[((c.key[v] + d - 1) % L) + 1] = n
<1> DEFINE L == Len(c.points)
           k == c.key[v]
           D == {i \in 0 .. L - 1 : c.points[((k + i - 1) % L) + 1] = n}
<1>1. c.points \in Seq(Nodes) /\ c.key \in [VShards -> DOMAIN c.points]
  BY ShardingAssumption
<1>2. L \in Nat /\ k \in 1 .. L  BY <1>1
<1>3. PICK i \in 1 .. L : c.points[i] = n
  BY <1>1, ShardingAssumption
<1> HIDE DEF k, L
<1>4. \E j \in 0 .. L - 1 : ((k + j - 1) % L) + 1 = i
  <2>0. i - 1 \in Nat /\ i - 1 < L  BY <1>2, <1>3
  <2>1. (i - 1) % L = i - 1 /\ ((i - 1) + L) % L = i - 1  BY <1>2, <2>0, Wrapped
  <2>2. CASE i >= k
    <3>1. i - k \in 0 .. L - 1 /\ k + (i - k) - 1 = i - 1  BY <1>2, <1>3, <2>2
    <3>2. (i - 1) + 1 = i  BY <1>3
    <3> QED  BY <2>1, <3>1, <3>2
  <2>3. CASE i < k
    <3>1. i - k + L \in 0 .. L - 1 /\ k + (i - k + L) - 1 = (i - 1) + L  BY <1>2, <1>3, <2>3
    <3>2. (i - 1) + 1 = i  BY <1>3
    <3> QED  BY <2>1, <3>1, <3>2
  <2> QED  BY <1>2, <1>3, <2>2, <2>3
<1>5. D # {} /\ D \in SUBSET Nat
  <2>1. PICK j \in 0 .. L - 1 : ((k + j - 1) % L) + 1 = i  BY <1>4
  <2>2. j \in D  BY <1>3, <2>1
  <2>3. D \in SUBSET (0 .. L - 1)  OBVIOUS
  <2>4. 0 .. L - 1 \in SUBSET Nat  BY <1>2
  <2> QED  BY <2>2, <2>3, <2>4
<1>6. Min(D) \in D  BY <1>5, NatMin
<1>7. Distance(c, v, n) = Min(D)  BY DEF Distance, k, L
<1> HIDE DEF D
<1>8. Distance(c, v, n) \in D  BY <1>6, <1>7
<1> QED  BY <1>5, <1>8 DEF D, k, L

LEMMA DistancesDiffer ==
  ASSUME NEW c \in Circles, NEW v \in VShards
  PROVE  /\ \A n \in Nodes : Distance(c, v, n) \in Nat
         /\ \A n, m \in Nodes : Distance(c, v, n) = Distance(c, v, m) => n = m
<1>1. \A n \in Nodes : Distance(c, v, n) \in Nat  BY DistanceMeets
<1>2. ASSUME NEW n \in Nodes, NEW m \in Nodes, Distance(c, v, n) = Distance(c, v, m) PROVE n = m
  <2>1. c.points[((c.key[v] + Distance(c, v, n) - 1) % Len(c.points)) + 1] = n  BY DistanceMeets
  <2>2. c.points[((c.key[v] + Distance(c, v, m) - 1) % Len(c.points)) + 1] = m  BY DistanceMeets
  <2> QED  BY <1>2, <2>1, <2>2
<1> QED  BY <1>1, <1>2

-----------------------------------------------------------------------------
(* The hosts that are met before a worker, and its place among the hosts.  *)
Before(c, v, h, n) == {x \in h : Distance(c, v, x) < Distance(c, v, n)}
Rank(c, v, h, n) == Cardinality(Before(c, v, h, n))

LEMMA RankRange ==
  ASSUME NEW c \in Circles, NEW v \in VShards, NEW h \in SUBSET Nodes, IsFiniteSet(h), NEW n \in h
  PROVE  /\ IsFiniteSet(Before(c, v, h, n))
         /\ Rank(c, v, h, n) \in Nat
         /\ Rank(c, v, h, n) < Cardinality(h)
<1> DEFINE B == Before(c, v, h, n)
<1>1. n \notin B /\ B \in SUBSET (h \ {n})
  <2>1. Distance(c, v, n) \in Nat  BY DistancesDiffer
  <2>2. n \notin B  BY <2>1 DEF Before
  <2> QED  BY <2>2 DEF Before
<1>2. IsFiniteSet(h \ {n}) /\ Cardinality(h \ {n}) = Cardinality(h) - 1  BY FS_RemoveElement
<1>3. IsFiniteSet(B) /\ Cardinality(B) <= Cardinality(h \ {n})  BY <1>1, <1>2, FS_Subset
<1>4. Cardinality(h) \in Nat /\ Cardinality(B) \in Nat  BY <1>3, FS_CardinalityType
<1>5. \A p, q \in Nat : p <= q - 1 => p < q  OBVIOUS
<1> QED  BY <1>2, <1>3, <1>4, <1>5 DEF Rank

(* A worker that is met earlier has a smaller rank.                        *)
LEMMA RankOrder ==
  ASSUME NEW c \in Circles, NEW v \in VShards, NEW h \in SUBSET Nodes, IsFiniteSet(h),
         NEW n \in h, NEW m \in h, Distance(c, v, n) < Distance(c, v, m)
  PROVE  Rank(c, v, h, n) < Rank(c, v, h, m)
<1> DEFINE A == Before(c, v, h, n)
           B == Before(c, v, h, m)
<1>1. \A x \in h : Distance(c, v, x) \in Nat  BY DistancesDiffer
<1>2. A \in SUBSET B /\ n \in B /\ n \notin A  BY <1>1 DEF Before
<1>3. IsFiniteSet(A) /\ IsFiniteSet(B)  BY RankRange
<1>4. Cardinality(A) <= Cardinality(B) /\ Cardinality(A) # Cardinality(B)  BY <1>2, <1>3, FS_Subset
<1>5. Cardinality(A) \in Nat /\ Cardinality(B) \in Nat  BY <1>3, FS_CardinalityType
<1> QED  BY <1>4, <1>5 DEF Rank

LEMMA RanksDiffer ==
  ASSUME NEW c \in Circles, NEW v \in VShards, NEW h \in SUBSET Nodes, IsFiniteSet(h),
         NEW n \in h, NEW m \in h, Rank(c, v, h, n) = Rank(c, v, h, m)
  PROVE  n = m
<1>1. Rank(c, v, h, n) \in Nat /\ Rank(c, v, h, m) \in Nat  BY RankRange
<1>2. Distance(c, v, n) \in Nat /\ Distance(c, v, m) \in Nat  BY DistancesDiffer
<1>3. ~(Distance(c, v, n) < Distance(c, v, m))  BY <1>1, RankOrder
<1>4. ~(Distance(c, v, m) < Distance(c, v, n))  BY <1>1, RankOrder
<1>5. Distance(c, v, n) = Distance(c, v, m)  BY <1>2, <1>3, <1>4
<1> QED  BY <1>5, DistancesDiffer

(* The ranks of the hosts are the numbers below their count.               *)
LEMMA RanksTaken ==
  ASSUME NEW c \in Circles, NEW v \in VShards, NEW h \in SUBSET Nodes, IsFiniteSet(h),
         NEW i \in Nat, i < Cardinality(h)
  PROVE  \E n \in h : Rank(c, v, h, n) = i
<1> DEFINE N == Cardinality(h)
           f == [n \in h |-> Rank(c, v, h, n)]
<1>1. N \in Nat  BY FS_CardinalityType
<1>2. IsFiniteSet(0 .. N - 1) /\ Cardinality(0 .. N - 1) = N
  <2>1. 0 \in Int /\ N - 1 \in Int  BY <1>1
  <2>2. IsFiniteSet(0 .. N - 1) /\ Cardinality(0 .. N - 1) = IF 0 > N - 1 THEN 0 ELSE N - 1 - 0 + 1
    BY <2>1, FS_Interval
  <2> QED  BY <1>1, <2>2
<1>3. \A n \in h : Rank(c, v, h, n) \in 0 .. N - 1  BY <1>1, RankRange
<1>4. f \in Injection(h, 0 .. N - 1)
  <2>1. f \in [h -> 0 .. N - 1]  BY <1>3
  <2>2. \A n, m \in h : f[n] = f[m] => n = m  BY RanksDiffer
  <2> QED  BY <2>1, <2>2 DEF Injection, IsInjective
<1>5. f \in Surjection(h, 0 .. N - 1)  BY <1>2, <1>4, FS_Injection
<1>6. i \in 0 .. N - 1  BY <1>1
<1> QED  BY <1>5, <1>6 DEF Surjection

(* A host is one of a shard's nodes exactly when fewer hosts than the      *)
(* replication factor are met before it.                                   *)
LEMMA NodeIsNear ==
  ASSUME NEW c \in Circles, NEW v \in VShards, NEW h \in SUBSET Nodes, IsFiniteSet(h), NEW n \in h
  PROVE  n \in NodeIDsByVshard[c][v][h] <=> Rank(c, v, h, n) < ReplicationFactor
<1>0. NodeIDsByVshard[c][v][h] = {GetWithOffset(c, v, i, h) : i \in 0 .. ReplicationFactor - 1}
  <2>1. h \in (SUBSET Nodes) \ {{}}  OBVIOUS
  <2> QED  BY <2>1 DEF NodeIDsByVshard
<1>1. ReplicationFactor \in Nat  BY ShardingAssumption
<1>2. Cardinality(h) \in Nat /\ Rank(c, v, h, n) \in Nat /\ Rank(c, v, h, n) < Cardinality(h)
  BY FS_CardinalityType, RankRange
<1>3. ASSUME NEW i \in Nat, i < Cardinality(h)
      PROVE  GetWithOffset(c, v, i, h) \in h /\ Rank(c, v, h, GetWithOffset(c, v, i, h)) = i
  <2>1. GetWithOffset(c, v, i, h) = CHOOSE x \in h : Rank(c, v, h, x) = i
    <3>1. ~(i >= Cardinality(h))  BY <1>2, <1>3
    <3> QED  BY <3>1, Zenon DEF GetWithOffset, Rank, Before
  <2>2. \E x \in h : Rank(c, v, h, x) = i  BY <1>3, RanksTaken
  <2> QED  BY <2>1, <2>2
<1>4. ASSUME n \in NodeIDsByVshard[c][v][h] PROVE Rank(c, v, h, n) < ReplicationFactor
  <2>1. PICK i \in 0 .. ReplicationFactor - 1 : n = GetWithOffset(c, v, i, h)  BY <1>0, <1>4
  <2>2. CASE i < Cardinality(h)
    <3>1. Rank(c, v, h, n) = i  BY <1>1, <1>3, <2>1, <2>2
    <3> QED  BY <1>1, <3>1
  <2>3. CASE ~(i < Cardinality(h))
    BY <1>1, <1>2, <2>3
  <2> QED  BY <2>2, <2>3
<1>5. ASSUME Rank(c, v, h, n) < ReplicationFactor PROVE n \in NodeIDsByVshard[c][v][h]
  <2> DEFINE i == Rank(c, v, h, n)
             m == GetWithOffset(c, v, i, h)
  <2>1. m \in h /\ Rank(c, v, h, m) = i  BY <1>2, <1>3
  <2>2. m = n  BY <2>1, RanksDiffer
  <2>3. i \in 0 .. ReplicationFactor - 1  BY <1>1, <1>2, <1>5
  <2> QED  BY <1>0, <2>2, <2>3
<1> QED  BY <1>4, <1>5

(* A host that comes takes a shard from a worker only for itself, and one  *)
(* that goes takes none away.                                              *)
LEMMA HostComes ==
  ASSUME NEW c \in Circles, NEW v \in VShards, NEW h \in SUBSET Nodes, IsFiniteSet(h), NEW m \in h,
         NEW n \in Nodes
  PROVE  /\ m \in NodeIDsByVshard[c][v][h \cup {n}] => m \in NodeIDsByVshard[c][v][h]
         /\ m \in NodeIDsByVshard[c][v][h] /\ m \notin NodeIDsByVshard[c][v][h \cup {n}]
               => n \in NodeIDsByVshard[c][v][h \cup {n}]
<1> DEFINE H == h \cup {n}
           A == Before(c, v, h, m)
           B == Before(c, v, H, m)
           R == ReplicationFactor
<1>0. H \in SUBSET Nodes /\ IsFiniteSet(H) /\ m \in H /\ n \in H /\ R \in Nat
  BY FS_AddElement, ShardingAssumption
<1>1. IsFiniteSet(A) /\ IsFiniteSet(B) /\ Cardinality(A) \in Nat /\ Cardinality(B) \in Nat
  BY <1>0, RankRange DEF Rank
<1>2. A \in SUBSET B /\ B \in SUBSET (A \cup {n})  BY DEF Before
<1>3. Cardinality(A) <= Cardinality(B)  BY <1>1, <1>2, FS_Subset
<1>4. /\ m \in NodeIDsByVshard[c][v][h] <=> Cardinality(A) < R
      /\ m \in NodeIDsByVshard[c][v][H] <=> Cardinality(B) < R
  <2>1. m \in NodeIDsByVshard[c][v][h] <=> Rank(c, v, h, m) < R  BY NodeIsNear
  <2>2. m \in NodeIDsByVshard[c][v][H] <=> Rank(c, v, H, m) < R
    <3> HIDE DEF H
    <3> QED  BY <1>0, NodeIsNear
  <2> QED  BY <2>1, <2>2 DEF Rank
<1>5. ASSUME Cardinality(A) < R, ~(Cardinality(B) < R) PROVE n \in NodeIDsByVshard[c][v][H]
  <2>1. n \in B  BY <1>1, <1>2, <1>5
  <2>2. IsFiniteSet(A \cup {n}) /\ Cardinality(A \cup {n}) <= Cardinality(A) + 1
    <3>1. /\ IsFiniteSet(A \cup {n})
          /\ Cardinality(A \cup {n}) = IF n \in A THEN Cardinality(A) ELSE Cardinality(A) + 1
      BY <1>1, FS_AddElement
    <3> QED  BY <1>1, <3>1
  <2>3. Cardinality(B) <= Cardinality(A \cup {n})  BY <1>2, <2>2, FS_Subset
  <2>4. Cardinality(A \cup {n}) \in Nat  BY <2>2, FS_CardinalityType
  <2>5. \A a, b, d \in Nat : a < R /\ d <= a + 1 /\ b <= d => b <= R  BY <1>0
  <2>6. Cardinality(B) <= R  BY <1>1, <1>5, <2>2, <2>3, <2>4, <2>5
  <2>7. Distance(c, v, n) < Distance(c, v, m)  BY <2>1 DEF Before
  <2>8. Rank(c, v, H, n) < Rank(c, v, H, m) /\ Rank(c, v, H, n) \in Nat
    <3> HIDE DEF H
    <3> QED  BY <1>0, <2>7, RankOrder, RankRange
  <2>9. Rank(c, v, H, m) = Cardinality(B)  BY DEF Rank
  <2>10. Rank(c, v, H, n) < R  BY <1>0, <1>1, <2>6, <2>8, <2>9
  <2> HIDE DEF H
  <2> QED  BY <1>0, <2>10, NodeIsNear
<1> HIDE DEF A, B, H
<1>6. Cardinality(B) < R => Cardinality(A) < R  BY <1>0, <1>1, <1>3
<1> QED  BY <1>4, <1>5, <1>6 DEF H

LEMMA HostGoes ==
  ASSUME NEW c \in Circles, NEW v \in VShards, NEW h \in SUBSET Nodes, IsFiniteSet(h), NEW n, NEW m \in h \ {n}
  PROVE  m \in NodeIDsByVshard[c][v][h] => m \in NodeIDsByVshard[c][v][h \ {n}]
<1>1. CASE n \in h
  <2> DEFINE H == h \ {n}
  <2>1. H \in SUBSET Nodes /\ IsFiniteSet(H) /\ m \in H /\ n \in Nodes /\ H \cup {n} = h
    BY <1>1, FS_RemoveElement
  <2> HIDE DEF H
  <2>2. m \in NodeIDsByVshard[c][v][H \cup {n}] => m \in NodeIDsByVshard[c][v][H]
    BY <2>1, HostComes
  <2> QED  BY <2>1, <2>2 DEF H
<1>2. CASE n \notin h
  <2>1. h \ {n} = h  BY <1>2
  <2> QED  BY <2>1
<1> QED  BY <1>1, <1>2

LEMMA AloneOwnsAll ==
  ASSUME NEW c \in Circles, NEW v \in VShards
  PROVE  Me \in NodeIDsByVshard[c][v][{Me}]
<1>1. {Me} \in SUBSET Nodes /\ IsFiniteSet({Me}) /\ Cardinality({Me}) = 1  BY FS_Singleton DEF Nodes
<1>2. Rank(c, v, {Me}, Me) \in Nat /\ Rank(c, v, {Me}, Me) < 1  BY <1>1, RankRange
<1>3. Rank(c, v, {Me}, Me) < ReplicationFactor  BY <1>2, ShardingAssumption
<1> QED  BY <1>1, <1>3, NodeIsNear

-----------------------------------------------------------------------------
(* The shards of the worker.                                               *)
Owned(c, h) == {v \in VShards : Me \in NodeIDsByVshard[c][v][h]}

Events == {e \in [type : {"New", "Updating", "Dead"}, from : Nodes] : e.type = "Dead" => e.from # Me}

Crds == {Idle} \cup [stage : {"get"}, shards : SUBSET VShards]
        \cup [stage : {"settings", "drop"}, targets : SUBSET Targets]
        \cup [stage : {"apply"}, targets : SUBSET Targets, found : BOOLEAN]
        \cup [stage : {"added"}, node : Nodes] \cup [stage : {"removed"}]

(* In stage "added" the circle has the host already and the sharder has    *)
(* not: myVShards is what it was, which is at least what is owned now.     *)
ShardInv ==
    /\ circle \in Circles
    /\ hosts \in SUBSET Nodes /\ Me \in hosts /\ IsFiniteSet(hosts)
    /\ known \in SUBSET Others
    /\ events \in Seq(Events)
    /\ crd \in Crds
    /\ myVShards \in SUBSET VShards
    /\ crd.stage \notin {"added", "removed"} => myVShards = Owned(circle, hosts)
    /\ crd.stage = "added" =>
          /\ Owned(circle, hosts) \subseteq myVShards
          /\ \A v \in myVShards \ Owned(circle, hosts) : crd.node \in NodeIDsByVshard[circle][v][hosts]
    /\ crd.stage = "removed" => myVShards \subseteq Owned(circle, hosts)

shardVars == <<circle, hosts, known, events, crd, myVShards>>

LEMMA ShardSame ==
  ASSUME ShardInv, UNCHANGED shardVars
  PROVE  ShardInv'
  BY DEF ShardInv, shardVars, Owned

(* A step of the membership goroutine between two events, which keeps the  *)
(* circle and the shards.                                                  *)
LEMMA ShardWork ==
  ASSUME ShardInv, UNCHANGED <<circle, hosts, known, events, myVShards>>, crd' \in Crds,
         crd.stage \notin {"added", "removed"}, crd'.stage \notin {"added", "removed"}
  PROVE  ShardInv'
  BY DEF ShardInv, Owned

LEMMA FetchIsCrd ==
  ASSUME NEW s \in SUBSET VShards
  PROVE  FetchTargets(s) \in Crds /\ FetchTargets(s).stage = "get" /\ FetchTargets(s).shards = s
  BY DEF FetchTargets, Crds

LEMMA ShardFresh ==
  ASSUME NEW c \in Circles
  PROVE  /\ {Me} \in SUBSET Nodes /\ IsFiniteSet({Me})
         /\ VShards = Owned(c, {Me})
         /\ <<[type |-> "New", from |-> Me]>> \in Seq(Events)
         /\ FetchTargets(VShards) \in Crds /\ FetchTargets(VShards).stage = "get"
<1>1. VShards = Owned(c, {Me})  BY AloneOwnsAll DEF Owned
<1>2. {Me} \in SUBSET Nodes /\ IsFiniteSet({Me})  BY FS_Singleton DEF Nodes
<1>3. [type |-> "New", from |-> Me] \in Events  BY DEF Events, Nodes
<1>4. <<[type |-> "New", from |-> Me]>> \in Seq(Events)  BY <1>3
<1> QED  BY <1>1, <1>2, <1>4, FetchIsCrd

LEMMA ShardInit == Init => ShardInv
<1> SUFFICES ASSUME Init PROVE ShardInv
  OBVIOUS
<1>1. circle \in Circles  BY DEF Init
<1> QED  BY <1>1, ShardFresh DEF Init, Started, ShardInv

LEMMA ShardRestart ==
  ASSUME ShardInv, Restart
  PROVE  ShardInv'
<1>1. circle \in Circles  BY DEF ShardInv
<1> QED  BY <1>1, ShardFresh DEF Restart, ShardInv

LEMMA ShardGossip ==
  ASSUME ShardInv, NEW n \in Others, NEW event, NEW state, Gossip(n, event, state),
         \/ event = "NodeJoin"
         \/ event = "NodeLeave" /\ state \in {"Left", "Dead"}
  PROVE  ShardInv'
<1> DEFINE e == [type |-> MemberShipEventType(event, state), from |-> n]
<1>1. MemberShipEventType(event, state) \in {"New", "Updating", "Dead"}
  BY DEF MemberShipEventType
<1>2. n \in Nodes /\ n # Me  BY ShardingAssumption DEF Nodes
<1>3. e \in Events  BY <1>1, <1>2 DEF Events
<1>4. events' = Append(events, e)  BY DEF Gossip
<1> HIDE DEF e
<1>5. events' \in Seq(Events)  BY <1>3, <1>4 DEF ShardInv
<1>6. known' \in SUBSET Others  BY DEF Gossip, ShardInv
<1>7. UNCHANGED <<circle, hosts, crd, myVShards>>  BY DEF Gossip, sharder
<1> QED  BY <1>5, <1>6, <1>7 DEF ShardInv, Owned

LEMMA ShardEvent ==
  ASSUME ShardInv, HandleMembershipEvent
  PROVE  ShardInv'
<1> DEFINE e == Head(events)
<1>0. circle \in Circles /\ hosts \in SUBSET Nodes /\ Me \in hosts /\ IsFiniteSet(hosts)
  BY DEF ShardInv
<1>1. events \in Seq(Events) /\ events # <<>>  BY DEF ShardInv, HandleMembershipEvent
<1>2. e \in Events /\ Tail(events) \in Seq(Events)  BY <1>1
<1>3. events' \in Seq(Events) /\ UNCHANGED <<circle, known, myVShards>>
  BY <1>2 DEF HandleMembershipEvent, gossip
<1>4. myVShards = Owned(circle, hosts)  BY DEF ShardInv, HandleMembershipEvent
<1>5. e.from \in Nodes /\ (e.type = "Dead" => e.from # Me)  BY <1>2 DEF Events
<1>6. CASE e.type = "New" /\ e.from # Me
  <2>1. hosts' = hosts \cup {e.from} /\ crd' = [stage |-> "added", node |-> e.from]
    BY <1>6 DEF HandleMembershipEvent, MarkHealthy
  <2>2. hosts' \in SUBSET Nodes /\ Me \in hosts' /\ IsFiniteSet(hosts')
    BY <1>0, <1>5, <2>1, FS_AddElement
  <2>3. ASSUME NEW v \in VShards
        PROVE  /\ Me \in NodeIDsByVshard[circle][v][hosts'] => Me \in NodeIDsByVshard[circle][v][hosts]
               /\ Me \in NodeIDsByVshard[circle][v][hosts] /\ Me \notin NodeIDsByVshard[circle][v][hosts']
                     => e.from \in NodeIDsByVshard[circle][v][hosts']
    <3> HIDE DEF e
    <3> QED  BY <1>0, <1>5, <2>1, HostComes
  <2>4. crd' \in Crds /\ crd'.stage = "added" /\ crd'.node = e.from  BY <1>5, <2>1 DEF Crds
  <2>5. Owned(circle, hosts') \subseteq myVShards  BY <1>4, <2>3 DEF Owned
  <2>6. \A v \in myVShards \ Owned(circle, hosts') : e.from \in NodeIDsByVshard[circle][v][hosts']
    BY <1>4, <2>3 DEF Owned
  <2> HIDE DEF e
  <2> QED  BY <1>3, <2>2, <2>4, <2>5, <2>6 DEF ShardInv
<1>7. CASE e.type = "Dead"
  <2>1. hosts' = hosts \ {e.from} /\ crd' = [stage |-> "removed"]
    BY <1>7 DEF HandleMembershipEvent, MarkUnhealthy
  <2>2. hosts' \in SUBSET Nodes /\ Me \in hosts' /\ IsFiniteSet(hosts')
    BY <1>0, <1>5, <1>7, <2>1, FS_RemoveElement
  <2>3. ASSUME NEW v \in VShards
        PROVE  Me \in NodeIDsByVshard[circle][v][hosts] => Me \in NodeIDsByVshard[circle][v][hosts']
    <3>1. Me \in hosts \ {e.from}  BY <1>0, <1>5, <1>7
    <3> HIDE DEF e
    <3> QED  BY <1>0, <2>1, <3>1, HostGoes
  <2>4. crd' \in Crds /\ crd'.stage = "removed"  BY <2>1 DEF Crds
  <2>5. myVShards \subseteq Owned(circle, hosts')  BY <1>4, <2>3 DEF Owned
  <2> QED  BY <1>3, <2>2, <2>4, <2>5 DEF ShardInv
<1>8. CASE ~(e.type = "New" /\ e.from # Me) /\ e.type # "Dead"
  <2>1. UNCHANGED <<hosts, crd>>  BY <1>8 DEF HandleMembershipEvent
  <2> QED  BY <1>3, <2>1 DEF ShardInv, Owned
<1> QED  BY <1>6, <1>7, <1>8

(* The differences the sharder applies.                                    *)
LEMMA ShardAdded ==
  ASSUME ShardInv, AddNewMember, links \subseteq Targets
  PROVE  ShardInv'
<1> DEFINE lost == LostShards(crd.node)
           drop == {t \in links : VShardOf[t] \in lost}
<1>1. myVShards' = myVShards \ lost /\ crd' = [stage |-> "drop", targets |-> drop] /\ crd.stage = "added"
  BY DEF AddNewMember
<1>2. UNCHANGED <<circle, hosts, known, events>>  BY DEF AddNewMember, gossip
<1>3. lost = {v \in myVShards : crd.node \in NodeIDsByVshard[circle][v][hosts]
                                /\ Me \notin NodeIDsByVshard[circle][v][hosts]}
  BY DEF LostShards, GetNodeIDsByVshard
<1> HIDE DEF lost
<1>4. myVShards' = Owned(circle, hosts)
  BY <1>1, <1>3 DEF ShardInv, Owned
<1>5. crd' \in Crds /\ crd'.stage = "drop"  BY <1>1 DEF Crds
<1> QED  BY <1>2, <1>4, <1>5 DEF ShardInv, Owned

LEMMA ShardRemoved ==
  ASSUME ShardInv, RemoveMember
  PROVE  ShardInv'
<1>1. myVShards' = myVShards \cup GainedShards /\ crd' = FetchTargets(GainedShards) /\ crd.stage = "removed"
  BY DEF RemoveMember
<1>2. UNCHANGED <<circle, hosts, known, events>>  BY DEF RemoveMember, gossip
<1>3. GainedShards = {v \in VShards \ myVShards : Me \in NodeIDsByVshard[circle][v][hosts]}
  BY DEF GainedShards, GetNodeIDsByVshard
<1>4. myVShards' = Owned(circle, hosts)
  BY <1>1, <1>3 DEF ShardInv, Owned
<1>5. GainedShards \in SUBSET VShards  BY <1>3
<1>6. crd' \in Crds /\ crd'.stage = "get"  BY <1>1, <1>5, FetchIsCrd
<1> QED  BY <1>2, <1>4, <1>6 DEF ShardInv, Owned

-----------------------------------------------------------------------------
(* What the rows, the topic, the sets and the watcher range over.          *)
Messages == [op : {"Create", "Delete"}, target : Targets]

Watchers == [stage : {"off", "join", "idle"}]
            \cup [stage : {"settings", "remove", "unlink", "add"}, target : Targets]
            \cup [stage : {"link"}, target : Targets, found : BOOLEAN]

RowInv ==
    /\ db \in SUBSET Targets /\ settings \in BOOLEAN
    /\ log \in Seq(Messages)
    /\ next \in Nat /\ next <= Len(log)
    /\ committed \in Int /\ -1 <= committed /\ committed <= next
    /\ links \in SUBSET Targets /\ sched \in SUBSET Targets /\ missed \in SUBSET Targets
    /\ watcher \in Watchers

(* Every row is covered by something: its check, a message to come, the    *)
(* event the watcher handles, or the fetch of the membership goroutine.    *)
Create(t) == [op |-> "Create", target |-> t]
Delete(t) == [op |-> "Delete", target |-> t]

Comes(l, n, t) == \E i \in DOMAIN l : i > n /\ l[i] = Create(t)

Watched(w, t) == w.stage \in {"settings", "link", "add"} /\ w.target = t

Fetching(c, m, t) ==
    \/ c.stage = "get" /\ VShardOf[t] \in c.shards
    \/ c.stage \in {"settings", "apply"} /\ t \in c.targets
    \/ c.stage = "removed" /\ VShardOf[t] \notin m

(* A row that was deleted and is there again was created after that.       *)
Recreated(l, rows) == \A t \in rows : \A i \in DOMAIN l : l[i] = Delete(t) => Comes(l, i, t)

DropInv == crd.stage = "drop" => \A t \in crd.targets : VShardOf[t] \notin Owned(circle, hosts)

RemoveInv == watcher.stage \in {"remove", "unlink"} => next \in DOMAIN log /\ log[next] = Delete(watcher.target)

Accounted(t) == Covered(t) \/ Comes(log, next, t) \/ Watched(watcher, t) \/ Fetching(crd, myVShards, t)

RowsAccounted == \A t \in db : VShardOf[t] \in Owned(circle, hosts) => Accounted(t)

CoverInv == Recreated(log, db) /\ RemoveInv /\ DropInv /\ RowsAccounted

-----------------------------------------------------------------------------
LEMMA CrdShape ==
  ASSUME NEW c \in Crds
  PROVE  /\ c.stage \in Stages
         /\ c.stage = "get" => c.shards \in SUBSET VShards
         /\ c.stage \in {"settings", "drop", "apply"} => c.targets \in SUBSET Targets
         /\ c.stage = "apply" => c.found \in BOOLEAN
  BY DEF Crds, Stages, Idle

LEMMA CrdMade ==
  /\ Idle \in Crds /\ Idle.stage = "idle"
  /\ \A T \in SUBSET Targets :
        /\ [stage |-> "settings", targets |-> T] \in Crds
        /\ [stage |-> "drop", targets |-> T] \in Crds
        /\ \A b \in BOOLEAN : [stage |-> "apply", targets |-> T, found |-> b] \in Crds
  BY DEF Crds, Idle

(* The steps of the membership goroutine that neither read an event nor    *)
(* change the shards.                                                      *)
LEMMA ShardOther ==
  ASSUME ShardInv, RowInv,
         DropTarget \/ GetTargets \/ GetSettingsForTargetGroups \/ FetchFails \/ ScheduleTargets
  PROVE  ShardInv'
<1>0. crd \in Crds /\ db \in SUBSET Targets /\ settings \in BOOLEAN  BY DEF ShardInv, RowInv
<1>1. UNCHANGED <<circle, hosts, known, events, myVShards>>
  BY DEF DropTarget, GetTargets, GetSettingsForTargetGroups, FetchFails, ScheduleTargets, sharder, gossip
<1>2. crd.stage \notin {"added", "removed"}
  BY DEF DropTarget, GetTargets, GetSettingsForTargetGroups, FetchFails, ScheduleTargets
<1>3. crd' \in Crds /\ crd'.stage \notin {"added", "removed"}
  <2>1. CASE DropTarget
    <3>0. crd.stage = "drop" /\ crd.targets \in SUBSET Targets  BY <1>0, <2>1, CrdShape DEF DropTarget
    <3>1. CASE crd.targets = {}  BY <2>1, <3>1, CrdMade DEF DropTarget
    <3>2. CASE crd.targets # {}
      <4>1. PICK t \in crd.targets : crd' = [crd EXCEPT !.targets = @ \ {t}]
        BY <2>1, <3>2 DEF DropTarget
      <4>2. crd \in [stage : {"settings", "drop"}, targets : SUBSET Targets]
        BY <1>0, <3>0 DEF Crds, Idle
      <4>3. crd' = [stage |-> "drop", targets |-> crd.targets \ {t}]
        BY <3>0, <4>1, <4>2
      <4> QED  BY <3>0, <4>3, CrdMade
    <3> QED  BY <3>1, <3>2
  <2>2. CASE GetTargets
    <3> DEFINE T == {t \in db : VShardOf[t] \in crd.shards /\ NeedHandle(t)}
    <3>1. T \in SUBSET Targets  BY <1>0
    <3>2. crd' = [stage |-> "settings", targets |-> T]  BY <2>2 DEF GetTargets
    <3> HIDE DEF T
    <3> QED  BY <3>1, <3>2, CrdMade
  <2>3. CASE GetSettingsForTargetGroups
    <3>1. crd.targets \in SUBSET Targets  BY <1>0, <2>3, CrdShape DEF GetSettingsForTargetGroups
    <3>2. crd' = [stage |-> "apply", targets |-> crd.targets, found |-> settings]
      BY <2>3 DEF GetSettingsForTargetGroups
    <3> QED  BY <1>0, <3>1, <3>2, CrdMade
  <2>4. CASE FetchFails  BY <2>4, CrdMade DEF FetchFails
  <2>5. CASE ScheduleTargets  BY <2>5, CrdMade DEF ScheduleTargets
  <2> QED  BY <2>1, <2>2, <2>3, <2>4, <2>5
<1> QED  BY <1>1, <1>2, <1>3, ShardWork

LEMMA ShardNext ==
  ASSUME ShardInv, RowInv, [Next]_vars
  PROVE  ShardInv'
<1>1. CASE \E t \in Targets : AddEndpoints(t) \/ RemoveEndpoints(t)
  <2>1. UNCHANGED shardVars  BY <1>1 DEF AddEndpoints, RemoveEndpoints, shardVars, gossip, sharder
  <2> QED  BY <2>1, ShardSame
<1>2. CASE CreateSettings
  <2>1. UNCHANGED shardVars  BY <1>2 DEF CreateSettings, shardVars, gossip, sharder
  <2> QED  BY <2>1, ShardSame
<1>3. CASE \E n \in Others : \/ Gossip(n, "NodeJoin", "Alive")
                             \/ \E state \in {"Left", "Dead"} : Gossip(n, "NodeLeave", state)
  BY <1>3, ShardGossip
<1>4. CASE MembershipStep \/ FetchFails
  <2>1. links \subseteq Targets  BY DEF RowInv
  <2> QED  BY <1>4, <2>1, ShardEvent, ShardAdded, ShardRemoved, ShardOther DEF MembershipStep
<1>5. CASE WatcherStep \/ ReadSettingsFails
  <2>1. UNCHANGED shardVars
    BY <1>5 DEF WatcherStep, ReadSettingsFails, JoinTopic, FetchMessage, ReadSettings, LinkTarget, AddCheck,
                RemoveCheck, RemoveTargetLink, shardVars, gossip, sharder
  <2> QED  BY <2>1, ShardSame
<1>6. CASE Restart  BY <1>6, ShardRestart
<1>7. CASE UNCHANGED vars
  <2>1. UNCHANGED shardVars  BY <1>7 DEF vars, shardVars, gossip, sharder
  <2> QED  BY <2>1, ShardSame
<1> QED  BY <1>1, <1>2, <1>3, <1>4, <1>5, <1>6, <1>7 DEF Next

-----------------------------------------------------------------------------
LEMMA WatcherShape ==
  ASSUME NEW w \in Watchers
  PROVE  /\ w.stage \in WatcherStages
         /\ w.stage \in {"settings", "link", "add", "remove", "unlink"} => w.target \in Targets
         /\ w.stage = "link" => w.found \in BOOLEAN
  BY DEF Watchers, WatcherStages

LEMMA WatcherMade ==
  /\ Idle \in Watchers /\ Idle.stage = "idle"
  /\ [stage |-> "off"] \in Watchers /\ [stage |-> "join"] \in Watchers
  /\ \A t \in Targets :
        /\ \A s \in {"settings", "remove", "unlink", "add"} : [stage |-> s, target |-> t] \in Watchers
        /\ \A b \in BOOLEAN : [stage |-> "link", target |-> t, found |-> b] \in Watchers
  BY DEF Watchers, Idle

LEMMA WatcherRemoves ==
  ASSUME NEW w \in Watchers, w.stage = "remove"
  PROVE  [w EXCEPT !.stage = "unlink"] = [stage |-> "unlink", target |-> w.target]
<1>1. w \in [stage : {"settings", "remove", "unlink", "add"}, target : Targets]  BY DEF Watchers
<1> QED  BY <1>1

LEMMA RowInit == Init => RowInv
<1> SUFFICES ASSUME Init PROVE RowInv
  OBVIOUS
<1>1. log = <<>> /\ next = 0 /\ committed = -1 /\ watcher = [stage |-> "off"]
  BY DEF Init, Started
<1>2. log \in Seq(Messages) /\ next \in Nat /\ next <= Len(log) /\ committed \in Int /\ -1 <= committed
      /\ committed <= next
  BY <1>1
<1> QED  BY <1>1, <1>2, WatcherMade DEF Init, Started, RowInv

(* The writes of the controller.                                           *)
LEMMA RowWritten ==
  ASSUME RowInv, NEW t \in Targets, AddEndpoints(t) \/ RemoveEndpoints(t)
  PROVE  RowInv'
<1>1. PICK m \in Messages : log' = Append(log, m)
  BY DEF AddEndpoints, RemoveEndpoints, CreateTargets, RemoveTargets, Messages
<1>2. log' \in Seq(Messages) /\ Len(log') = Len(log) + 1 /\ Len(log) \in Nat  BY <1>1 DEF RowInv
<1>3. UNCHANGED <<settings, next, committed, links, sched, watcher>>
  BY DEF AddEndpoints, RemoveEndpoints, sharder
<1>4. db' \in SUBSET Targets /\ missed' \in SUBSET Targets
  BY DEF AddEndpoints, RemoveEndpoints, CreateTargets, RemoveTargets, RowInv
<1>5. next <= Len(log')  BY <1>2 DEF RowInv
<1> QED  BY <1>2, <1>3, <1>4, <1>5 DEF RowInv

(* The steps of the membership goroutine.                                  *)
LEMMA RowMembership ==
  ASSUME ShardInv, RowInv, MembershipStep \/ FetchFails
  PROVE  RowInv'
<1>0. crd \in Crds  BY DEF ShardInv
<1>1. UNCHANGED <<db, settings, log, next, committed>>
  BY DEF MembershipStep, HandleMembershipEvent, AddNewMember, DropTarget, RemoveMember, GetTargets,
         GetSettingsForTargetGroups, FetchFails, ScheduleTargets, db_vars
<1>2. watcher' \in Watchers
  BY WatcherMade DEF MembershipStep, HandleMembershipEvent, AddNewMember, DropTarget, RemoveMember, GetTargets,
         GetSettingsForTargetGroups, FetchFails, ScheduleTargets, RowInv
<1>3. links' \in SUBSET Targets /\ sched' \in SUBSET Targets /\ missed' \in SUBSET Targets
  <2>1. CASE HandleMembershipEvent \/ RemoveMember \/ GetTargets \/ GetSettingsForTargetGroups
    BY <2>1 DEF HandleMembershipEvent, RemoveMember, GetTargets, GetSettingsForTargetGroups, RowInv, sharder
  <2>2. CASE AddNewMember  BY <2>2 DEF AddNewMember, RowInv
  <2>3. CASE DropTarget  BY <2>3 DEF DropTarget, RowInv, sharder
  <2>4. CASE FetchFails
    <3>1. crd.stage = "settings" => crd.targets \in SUBSET Targets  BY <1>0, CrdShape
    <3> QED  BY <2>4, <3>1 DEF FetchFails, RowInv, sharder
  <2>5. CASE ScheduleTargets
    <3>1. crd.targets \in SUBSET Targets  BY <1>0, <2>5, CrdShape DEF ScheduleTargets
    <3> QED  BY <2>5, <3>1 DEF ScheduleTargets, RowInv
  <2> QED  BY <2>1, <2>2, <2>3, <2>4, <2>5 DEF MembershipStep
<1> QED  BY <1>1, <1>2, <1>3 DEF RowInv

(* The steps of the watcher.                                               *)
LEMMA RowWatcher ==
  ASSUME RowInv, WatcherStep \/ ReadSettingsFails
  PROVE  RowInv'
<1>0. watcher \in Watchers /\ next \in Nat /\ Len(log) \in Nat /\ log \in Seq(Messages) /\ settings \in BOOLEAN
  BY DEF RowInv
<1>1. UNCHANGED <<db, settings, log>>
  BY DEF WatcherStep, ReadSettingsFails, JoinTopic, FetchMessage, ReadSettings, LinkTarget, AddCheck,
         RemoveCheck, RemoveTargetLink, db_vars
<1>2. CASE JoinTopic
  <2>1. next' = IF committed = -1 THEN Len(log) ELSE committed  BY <1>2 DEF JoinTopic
  <2>2. watcher' = Idle /\ UNCHANGED <<committed, links, sched>>  BY <1>2 DEF JoinTopic, sharder
  <2>3. next' \in Nat /\ next' <= Len(log) /\ committed <= next'  BY <1>0, <2>1 DEF RowInv
  <2>4. missed' \in SUBSET Targets  BY <1>2 DEF JoinTopic, RowInv
  <2> QED  BY <1>1, <2>2, <2>3, <2>4, WatcherMade DEF RowInv
<1>3. CASE FetchMessage
  <2>1. next < Len(log) /\ next' = next + 1 /\ UNCHANGED <<links, sched, missed>>
    BY <1>3 DEF FetchMessage, sharder
  <2>2. log[next + 1] \in Messages  BY <1>0, <2>1
  <2>3. log[next + 1].target \in Targets  BY <2>2 DEF Messages
  <2>4. watcher' \in Watchers /\ (committed' = committed \/ committed' = next + 1)
    <3>1. CASE NeedHandle(log[next + 1].target)
      BY <1>3, <2>3, <3>1, WatcherMade DEF FetchMessage
    <3>2. CASE ~NeedHandle(log[next + 1].target)
      BY <1>0, <1>3, <3>2 DEF FetchMessage
    <3> QED  BY <3>1, <3>2
  <2>5. next' \in Nat /\ next' <= Len(log)  BY <1>0, <2>1
  <2>6. committed' \in Int /\ -1 <= committed' /\ committed' <= next'  BY <1>0, <2>1, <2>4 DEF RowInv
  <2> QED  BY <1>1, <2>1, <2>4, <2>5, <2>6 DEF RowInv
<1>4. CASE ReadSettings \/ ReadSettingsFails
  <2>1. watcher.target \in Targets  BY <1>0, <1>4, WatcherShape DEF ReadSettings, ReadSettingsFails
  <2>2. watcher' \in Watchers  BY <1>0, <1>4, <2>1, WatcherMade DEF ReadSettings, ReadSettingsFails
  <2>3. UNCHANGED <<next, committed, links, sched>> /\ missed' \in SUBSET Targets
    BY <1>4, <2>1 DEF ReadSettings, ReadSettingsFails, sharder, RowInv
  <2> QED  BY <1>1, <2>2, <2>3 DEF RowInv
<1>5. CASE LinkTarget \/ AddCheck \/ RemoveCheck \/ RemoveTargetLink
  <2>1. watcher.target \in Targets
    BY <1>0, <1>5, WatcherShape DEF LinkTarget, AddCheck, RemoveCheck, RemoveTargetLink
  <2>2. watcher' \in Watchers
    BY <1>0, <1>5, <2>1, WatcherMade, WatcherRemoves
    DEF LinkTarget, AddCheck, RemoveCheck, RemoveTargetLink, CommitMessage
  <2>3. links' \in SUBSET Targets /\ sched' \in SUBSET Targets /\ missed' \in SUBSET Targets
    BY <1>5, <2>1 DEF LinkTarget, AddCheck, RemoveCheck, RemoveTargetLink, CommitMessage, sharder, RowInv
  <2>4. next' = next /\ (committed' = committed \/ committed' = next)
    BY <1>5 DEF LinkTarget, AddCheck, RemoveCheck, RemoveTargetLink, CommitMessage
  <2>5. committed' \in Int /\ -1 <= committed' /\ committed' <= next'  BY <1>0, <2>4 DEF RowInv
  <2> QED  BY <1>1, <2>2, <2>3, <2>4, <2>5 DEF RowInv
<1> QED  BY <1>2, <1>3, <1>4, <1>5 DEF WatcherStep

LEMMA RowNext ==
  ASSUME ShardInv, RowInv, [Next]_vars
  PROVE  RowInv'
<1>1. CASE \E t \in Targets : AddEndpoints(t) \/ RemoveEndpoints(t)  BY <1>1, RowWritten
<1>2. CASE CreateSettings
  <2>1. settings' \in BOOLEAN  BY <1>2 DEF CreateSettings
  <2>2. UNCHANGED <<db, log, next, committed, links, sched, missed, watcher>>  BY <1>2 DEF CreateSettings, sharder
  <2> QED  BY <2>1, <2>2 DEF RowInv
<1>3. CASE \E n \in Others : \/ Gossip(n, "NodeJoin", "Alive")
                             \/ \E state \in {"Left", "Dead"} : Gossip(n, "NodeLeave", state)
  <2>1. UNCHANGED <<db, settings, log, next, committed, links, sched, missed, watcher>>
    BY <1>3 DEF Gossip, sharder, db_vars
  <2> QED  BY <2>1 DEF RowInv
<1>4. CASE MembershipStep \/ FetchFails  BY <1>4, RowMembership
<1>5. CASE WatcherStep \/ ReadSettingsFails  BY <1>5, RowWatcher
<1>6. CASE Restart
  <2>1. UNCHANGED <<db, settings, log, next, committed>>  BY <1>6 DEF Restart, db_vars
  <2>2. links' = {} /\ sched' = {} /\ missed' = {} /\ watcher' = [stage |-> "off"]  BY <1>6 DEF Restart
  <2> QED  BY <2>1, <2>2, WatcherMade DEF RowInv
<1>7. CASE UNCHANGED vars
  <2>1. UNCHANGED <<db, settings, log, next, committed, links, sched, missed, watcher>>
    BY <1>7 DEF vars, sharder, db_vars
  <2> QED  BY <2>1 DEF RowInv
<1> QED  BY <1>1, <1>2, <1>3, <1>4, <1>5, <1>6, <1>7 DEF Next

-----------------------------------------------------------------------------
(* A message more in the topic.                                            *)
LEMMA MoreComes ==
  ASSUME NEW l \in Seq(Messages), NEW m \in Messages
  PROVE  /\ \A t, n : Comes(l, n, t) => Comes(Append(l, m), n, t)
         /\ \A n \in Nat : n <= Len(l) => \A t : m = Create(t) => Comes(Append(l, m), n, t)
         /\ \A i \in DOMAIN l : Append(l, m)[i] = l[i] /\ i \in DOMAIN Append(l, m)
<1> DEFINE k == Append(l, m)
<1>1. /\ Len(k) = Len(l) + 1 /\ k[Len(l) + 1] = m /\ \A i \in 1 .. Len(l) : k[i] = l[i]
      /\ DOMAIN k = 1 .. Len(k) /\ DOMAIN l = 1 .. Len(l) /\ Len(l) \in Nat
  OBVIOUS
<1> HIDE DEF k
<1>2. \A i \in DOMAIN l : k[i] = l[i] /\ i \in DOMAIN k  BY <1>1
<1>3. \A t, n : Comes(l, n, t) => Comes(k, n, t)  BY <1>2 DEF Comes
<1>4. \A n \in Nat : n <= Len(l) => \A t : m = Create(t) => Comes(k, n, t)
  <2>1. Len(l) + 1 \in DOMAIN k  BY <1>1
  <2>2. \A n \in Nat : n <= Len(l) => Len(l) + 1 > n  BY <1>1
  <2> QED  BY <1>1, <2>1, <2>2 DEF Comes
<1> QED  BY <1>2, <1>3, <1>4 DEF k

LEMMA RecreatedWritten ==
  ASSUME NEW l \in Seq(Messages), NEW rows \in SUBSET Targets, Recreated(l, rows), NEW t \in Targets
  PROVE  /\ Recreated(Append(l, Create(t)), rows \cup {t})
         /\ Recreated(Append(l, Delete(t)), rows \ {t})
<1>0. Create(t) \in Messages /\ Delete(t) \in Messages
      /\ \A s : Create(t) # Delete(s) /\ (Delete(t) = Delete(s) => s = t)
  BY DEF Create, Delete, Messages
<1>1. ASSUME NEW m \in {Create(t), Delete(t)}, NEW s \in Targets, NEW i \in DOMAIN Append(l, m),
             Append(l, m)[i] = Delete(s),
             s \in rows \/ (s = t /\ m = Create(t)), m = Delete(t) => s # t
      PROVE  Comes(Append(l, m), i, s)
  <2> DEFINE k == Append(l, m)
  <2>0. m \in Messages  BY <1>0
  <2>1. /\ \A r, n : Comes(l, n, r) => Comes(k, n, r)
        /\ \A n \in Nat : n <= Len(l) => \A r : m = Create(r) => Comes(k, n, r)
        /\ \A j \in DOMAIN l : k[j] = l[j]
    BY <2>0, MoreComes
  <2>2. i \in 1 .. Len(l) + 1 /\ k[Len(l) + 1] = m /\ DOMAIN l = 1 .. Len(l) /\ Len(l) \in Nat
    BY <2>0
  <2> HIDE DEF k
  <2>3. i # Len(l) + 1  BY <1>0, <1>1, <2>2 DEF k
  <2>4. i \in DOMAIN l /\ i \in Nat /\ i <= Len(l)  BY <2>2, <2>3
  <2>5. CASE s \in rows
    <3>1. l[i] = Delete(s)  BY <1>1, <2>1, <2>4 DEF k
    <3>2. Comes(l, i, s)  BY <2>4, <2>5, <3>1 DEF Recreated
    <3> QED  BY <2>1, <3>2 DEF k
  <2>6. CASE s = t /\ m = Create(t)  BY <2>1, <2>4, <2>6 DEF k
  <2> QED  BY <1>1, <2>5, <2>6
<1>2. Recreated(Append(l, Create(t)), rows \cup {t})  BY <1>0, <1>1 DEF Recreated
<1>3. Recreated(Append(l, Delete(t)), rows \ {t})  BY <1>0, <1>1 DEF Recreated
<1> QED  BY <1>2, <1>3

LEMMA RecreatedNext ==
  ASSUME RowInv, Recreated(log, db), [Next]_vars
  PROVE  Recreated(log, db)'
<1>0. log \in Seq(Messages) /\ db \in SUBSET Targets  BY DEF RowInv
<1>1. CASE \E t \in Targets : AddEndpoints(t) \/ RemoveEndpoints(t)
  <2>1. PICK t \in Targets : AddEndpoints(t) \/ RemoveEndpoints(t)  BY <1>1
  <2>2. \/ db' = db \cup {t} /\ log' = Append(log, Create(t))
        \/ db' = db \ {t} /\ log' = Append(log, Delete(t))
    BY <2>1 DEF AddEndpoints, RemoveEndpoints, CreateTargets, RemoveTargets, Create, Delete
  <2>3. Recreated(log', db')  BY <1>0, <2>2, RecreatedWritten
  <2> QED  BY <2>3
<1>2. CASE ~ \E t \in Targets : AddEndpoints(t) \/ RemoveEndpoints(t)
  <2>1. UNCHANGED <<db, log>>
    BY <1>2 DEF Next, MembershipStep, HandleMembershipEvent, AddNewMember, DropTarget, RemoveMember, GetTargets,
         GetSettingsForTargetGroups, FetchFails, ScheduleTargets, WatcherStep, ReadSettingsFails, JoinTopic,
         FetchMessage, ReadSettings, LinkTarget, AddCheck, RemoveCheck, RemoveTargetLink, Restart, Gossip,
         CreateSettings, vars, db_vars
  <2>2. Recreated(log', db')  BY <2>1
  <2> QED  BY <2>2
<1> QED  BY <1>1, <1>2

(* The message of a removal is the last one fetched.                       *)
LEMMA RemoveNext ==
  ASSUME RowInv, RemoveInv, [Next]_vars
  PROVE  RemoveInv'
<1>0. log \in Seq(Messages) /\ next \in Nat /\ next <= Len(log) /\ watcher \in Watchers  BY DEF RowInv
<1>1. CASE \E t \in Targets : AddEndpoints(t) \/ RemoveEndpoints(t)
  <2>1. PICK m \in Messages : log' = Append(log, m)
    BY <1>1 DEF AddEndpoints, RemoveEndpoints, CreateTargets, RemoveTargets, Messages
  <2>2. UNCHANGED <<next, watcher>>  BY <1>1 DEF AddEndpoints, RemoveEndpoints
  <2>3. \A i \in DOMAIN log : log'[i] = log[i] /\ i \in DOMAIN log'  BY <1>0, <2>1, MoreComes
  <2> QED  BY <2>2, <2>3 DEF RemoveInv
<1>2. CASE CreateSettings \/ UNCHANGED vars \/ ReadSettings \/ ReadSettingsFails \/ LinkTarget
           \/ AddCheck \/ RemoveTargetLink \/ JoinTopic \/ Restart
  <2>1. watcher'.stage \notin {"remove", "unlink"} \/ UNCHANGED <<next, log, watcher>>
    BY <1>2, WatcherMade DEF CreateSettings, vars, ReadSettings, ReadSettingsFails, LinkTarget, AddCheck,
         RemoveTargetLink, JoinTopic, Restart, CommitMessage, Idle, db_vars
  <2> QED  BY <2>1 DEF RemoveInv
<1>3. CASE \E n \in Others : \/ Gossip(n, "NodeJoin", "Alive")
                             \/ \E state \in {"Left", "Dead"} : Gossip(n, "NodeLeave", state)
  <2>1. UNCHANGED <<next, log, watcher>>  BY <1>3 DEF Gossip, db_vars
  <2> QED  BY <2>1 DEF RemoveInv
<1>4. CASE MembershipStep \/ FetchFails
  <2>1. UNCHANGED <<next, log>> /\ (UNCHANGED watcher \/ watcher' = [stage |-> "join"])
    BY <1>4 DEF MembershipStep, HandleMembershipEvent, AddNewMember, DropTarget, RemoveMember, GetTargets,
         GetSettingsForTargetGroups, FetchFails, ScheduleTargets, db_vars
  <2> QED  BY <2>1 DEF RemoveInv
<1>5. CASE FetchMessage
  <2>0. next < Len(log) /\ next' = next + 1 /\ UNCHANGED log /\ watcher.stage = "idle"
    BY <1>5 DEF FetchMessage, db_vars
  <2>1. next + 1 \in DOMAIN log  BY <1>0, <2>0
  <2>2. log[next + 1] \in Messages  BY <1>0, <2>1
  <2>3. CASE watcher' = watcher  BY <2>0, <2>3 DEF RemoveInv
  <2>4. CASE watcher' # watcher
    <3> DEFINE e == log[next + 1]
    <3>1. watcher' = [stage |-> IF e.op = "Create" THEN "settings" ELSE "remove", target |-> e.target]
      BY <1>5, <2>4 DEF FetchMessage
    <3>2. e.op # "Create" => e = Delete(e.target)  BY <2>2 DEF Messages, Delete
    <3> HIDE DEF e
    <3>3. watcher'.target = e.target /\ (watcher'.stage \in {"remove", "unlink"} => e.op # "Create")
      BY <3>1
    <3> QED  BY <2>0, <2>1, <3>2, <3>3 DEF RemoveInv, e
  <2> QED  BY <2>3, <2>4
<1>6. CASE RemoveCheck
  <2>1. watcher.stage = "remove" /\ UNCHANGED <<next, log>>  BY <1>6 DEF RemoveCheck, db_vars
  <2>2. watcher' = [stage |-> "unlink", target |-> watcher.target]
    BY <1>0, <1>6, <2>1, WatcherRemoves DEF RemoveCheck
  <2> QED  BY <2>1, <2>2 DEF RemoveInv
<1> QED  BY <1>1, <1>2, <1>3, <1>4, <1>5, <1>6 DEF Next, WatcherStep

(* The targets that are dropped are of shards the worker has lost.         *)
LEMMA DropNext ==
  ASSUME ShardInv, RowInv, DropInv, [Next]_vars
  PROVE  DropInv'
<1>0. crd \in Crds  BY DEF ShardInv
<1>1. CASE AddNewMember
  <2> DEFINE lost == LostShards(crd.node)
             drop == {t \in links : VShardOf[t] \in lost}
  <2>1. crd' = [stage |-> "drop", targets |-> drop] /\ UNCHANGED <<circle, hosts>>  BY <1>1 DEF AddNewMember
  <2>2. \A v \in lost : v \notin Owned(circle, hosts)  BY DEF LostShards, GetNodeIDsByVshard, Owned
  <2> HIDE DEF lost
  <2>3. \A t \in drop : VShardOf[t] \notin Owned(circle, hosts)  BY <2>2
  <2> HIDE DEF drop
  <2> QED  BY <2>1, <2>3 DEF DropInv, Owned
<1>2. CASE DropTarget
  <2>0. crd.stage = "drop" /\ UNCHANGED <<circle, hosts>>  BY <1>2 DEF DropTarget, sharder
  <2>1. crd' = Idle \/ \E t \in crd.targets : crd' = [crd EXCEPT !.targets = @ \ {t}]  BY <1>2 DEF DropTarget
  <2>2. crd \in [stage : {"settings", "drop"}, targets : SUBSET Targets]
    BY <1>0, <2>0 DEF Crds, Idle
  <2>3. crd'.stage = "drop" => crd'.targets \subseteq crd.targets  BY <2>0, <2>1, <2>2 DEF Idle
  <2> QED  BY <2>0, <2>3 DEF DropInv, Owned
<1>3. CASE HandleMembershipEvent
  <2>1. crd'.stage # "drop"
    BY <1>3 DEF HandleMembershipEvent
  <2> QED  BY <2>1 DEF DropInv
<1>4. CASE RemoveMember \/ GetTargets \/ GetSettingsForTargetGroups \/ FetchFails \/ ScheduleTargets \/ Restart
  <2>1. crd'.stage # "drop"
    BY <1>4 DEF RemoveMember, GetTargets, GetSettingsForTargetGroups, FetchFails, ScheduleTargets, Restart,
                FetchTargets, Idle
  <2> QED  BY <2>1 DEF DropInv
<1>5. CASE UNCHANGED <<circle, hosts, crd>>  BY <1>5 DEF DropInv, Owned
<1>6. [Next]_vars => \/ AddNewMember \/ DropTarget \/ HandleMembershipEvent
        \/ RemoveMember \/ GetTargets \/ GetSettingsForTargetGroups \/ FetchFails \/ ScheduleTargets \/ Restart
        \/ UNCHANGED <<circle, hosts, crd>>
  BY DEF Next, MembershipStep, WatcherStep, ReadSettingsFails, JoinTopic, AddEndpoints, RemoveEndpoints,
         FetchMessage, ReadSettings, LinkTarget, AddCheck, RemoveCheck, RemoveTargetLink, Gossip,
         CreateSettings, vars, sharder
<1> QED  BY <1>1, <1>2, <1>3, <1>4, <1>5, <1>6

-----------------------------------------------------------------------------
(* No row is lost from the account.                                        *)
LEMMA AccountedWritten ==
  ASSUME RowInv, RowsAccounted, NEW t \in Targets, AddEndpoints(t) \/ RemoveEndpoints(t)
  PROVE  RowsAccounted'
<1>0. log \in Seq(Messages) /\ next \in Nat /\ next <= Len(log)  BY DEF RowInv
<1>1. PICK n \in Messages : log' = Append(log, n) /\ (AddEndpoints(t) => n = Create(t))
  <2>1. CASE AddEndpoints(t)
    BY <2>1 DEF AddEndpoints, CreateTargets, Messages, Create
  <2>2. CASE ~AddEndpoints(t)
    BY <2>2 DEF RemoveEndpoints, RemoveTargets, Messages
  <2> QED  BY <2>1, <2>2
<1>2. UNCHANGED <<circle, hosts, next, links, sched, watcher, crd, myVShards>> /\ missed' = missed \ {t}
  BY DEF AddEndpoints, RemoveEndpoints, sharder
<1>3. /\ \A s : Comes(log, next, s) => Comes(log', next, s)
      /\ AddEndpoints(t) => Comes(log', next, t)
  BY <1>0, <1>1, MoreComes
<1>4. ASSUME NEW s \in db', VShardOf[s] \in Owned(circle, hosts) PROVE Accounted(s)'
  <2>1. CASE s = t
    <3>1. AddEndpoints(t)  BY <1>4, <2>1 DEF RemoveEndpoints, RemoveTargets
    <3> QED  BY <1>2, <1>3, <2>1, <3>1 DEF Accounted
  <2>2. CASE s # t
    <3>1. s \in db  BY <1>4, <2>2 DEF AddEndpoints, RemoveEndpoints, CreateTargets, RemoveTargets
    <3>2. Accounted(s)  BY <1>4, <3>1 DEF RowsAccounted
    <3>3. Covered(s) => Covered(s)'  BY <1>2, <2>2 DEF Covered
    <3>4. Comes(log, next, s) => Comes(log, next, s)'  BY <1>2, <1>3
    <3>5. Watched(watcher, s) => Watched(watcher, s)'  BY <1>2
    <3>6. Fetching(crd, myVShards, s) => Fetching(crd, myVShards, s)'  BY <1>2
    <3> QED  BY <3>2, <3>3, <3>4, <3>5, <3>6 DEF Accounted
  <2> QED  BY <2>1, <2>2
<1> QED  BY <1>2, <1>4 DEF RowsAccounted, Owned

LEMMA AccountedMembership ==
  ASSUME ShardInv, RowInv, DropInv, RowsAccounted, MembershipStep \/ FetchFails
  PROVE  RowsAccounted'
<1>0. /\ circle \in Circles /\ hosts \in SUBSET Nodes /\ Me \in hosts /\ IsFiniteSet(hosts) /\ crd \in Crds
      /\ db \in SUBSET Targets
  BY DEF ShardInv, RowInv
<1>1. UNCHANGED <<circle, db, log, next>>
  BY DEF MembershipStep, HandleMembershipEvent, AddNewMember, DropTarget, RemoveMember, GetTargets,
         GetSettingsForTargetGroups, FetchFails, ScheduleTargets, db_vars
<1> SUFFICES ASSUME NEW t \in db, VShardOf[t] \in Owned(circle, hosts') PROVE Accounted(t)'
  BY <1>1 DEF RowsAccounted, Owned
<1>2. Comes(log, next, t) => Comes(log, next, t)'  BY <1>1
<1>3. Watched(watcher, t) => Watched(watcher, t)'
  <2>1. watcher' = watcher \/ watcher.stage = "off"
    BY DEF MembershipStep, HandleMembershipEvent, AddNewMember, DropTarget, RemoveMember, GetTargets,
           GetSettingsForTargetGroups, FetchFails, ScheduleTargets
  <2> QED  BY <2>1 DEF Watched
<1>4. Accounted(t) \/ VShardOf[t] \notin Owned(circle, hosts)  BY DEF RowsAccounted
<1>5. VShardOf[t] \in VShards  BY <1>0, ShardingAssumption
<1>6. CASE HandleMembershipEvent
  <2>1. crd.stage = "idle" /\ UNCHANGED <<myVShards, links, sched, watcher, missed>>
    BY <1>6 DEF HandleMembershipEvent
  <2>2. ~Fetching(crd, myVShards, t)  BY <2>1 DEF Fetching
  <2>3. CASE VShardOf[t] \in Owned(circle, hosts)
    BY <1>2, <1>3, <1>4, <2>1, <2>2, <2>3 DEF Accounted, Covered
  <2>4. CASE VShardOf[t] \notin Owned(circle, hosts)
    <3> DEFINE e == Head(events)
    <3>1. myVShards = Owned(circle, hosts)  BY <2>1 DEF ShardInv
    <3>2. hosts' # hosts  BY <2>4
    <3>3. ~(e.type = "New" /\ e.from # Me)
      <4>1. SUFFICES ASSUME e.type = "New" /\ e.from # Me PROVE FALSE
        OBVIOUS
      <4>2. hosts' = hosts \cup {e.from}  BY <1>6, <4>1 DEF HandleMembershipEvent, MarkHealthy
      <4>3. events \in Seq(Events) /\ events # <<>>  BY <1>6 DEF ShardInv, HandleMembershipEvent
      <4>4. e \in Events  BY <4>3
      <4>5. e.from \in Nodes  BY <4>4 DEF Events
      <4> HIDE DEF e
      <4>6. Me \in NodeIDsByVshard[circle][VShardOf[t]][hosts'] => Me \in NodeIDsByVshard[circle][VShardOf[t]][hosts]
        BY <1>0, <1>5, <4>2, <4>5, HostComes
      <4> QED  BY <2>4, <4>6 DEF Owned
    <3>4. e.type = "Dead"  BY <1>6, <3>2, <3>3 DEF HandleMembershipEvent
    <3>5. crd' = [stage |-> "removed"]  BY <1>6, <3>4 DEF HandleMembershipEvent
    <3>6. Fetching(crd, myVShards, t)'  BY <2>1, <2>4, <3>1, <3>5 DEF Fetching
    <3> QED  BY <3>6 DEF Accounted
  <2> QED  BY <2>3, <2>4
<1>7. ASSUME ~HandleMembershipEvent PROVE hosts' = hosts /\ Accounted(t)
  <2>1. hosts' = hosts
    BY <1>7 DEF MembershipStep, AddNewMember, DropTarget, RemoveMember, GetTargets,
         GetSettingsForTargetGroups, FetchFails, ScheduleTargets, sharder
  <2> QED  BY <1>4, <2>1
<1>8. CASE AddNewMember
  <2> DEFINE lost == LostShards(crd.node)
             drop == {x \in links : VShardOf[x] \in lost}
  <2>0. hosts' = hosts /\ Accounted(t)  BY <1>7, <1>8 DEF HandleMembershipEvent, AddNewMember
  <2>1. links' = links \ drop /\ crd.stage = "added" /\ UNCHANGED <<sched, missed>>  BY <1>8 DEF AddNewMember
  <2>2. VShardOf[t] \notin lost  BY <2>0 DEF LostShards, GetNodeIDsByVshard, Owned
  <2> HIDE DEF lost
  <2>3. Covered(t) => Covered(t)'  BY <2>1, <2>2 DEF Covered
  <2>4. ~Fetching(crd, myVShards, t)  BY <2>1 DEF Fetching
  <2> QED  BY <1>2, <1>3, <2>0, <2>3, <2>4 DEF Accounted
<1>9. CASE DropTarget
  <2>0. hosts' = hosts /\ Accounted(t)  BY <1>7, <1>9 DEF HandleMembershipEvent, DropTarget
  <2>1. crd.stage = "drop" /\ UNCHANGED <<links, missed>>  BY <1>9 DEF DropTarget, sharder
  <2>2. t \notin crd.targets  BY <2>0, <2>1 DEF DropInv
  <2>3. t \in sched => t \in sched'  BY <1>9, <2>2 DEF DropTarget
  <2>4. Covered(t) => Covered(t)'  BY <2>1, <2>3 DEF Covered
  <2>5. ~Fetching(crd, myVShards, t)  BY <2>1 DEF Fetching
  <2> QED  BY <1>2, <1>3, <2>0, <2>4, <2>5 DEF Accounted
<1>10. CASE RemoveMember
  <2>0. hosts' = hosts /\ Accounted(t)  BY <1>7, <1>10 DEF HandleMembershipEvent, RemoveMember
  <2>1. crd.stage = "removed" /\ UNCHANGED <<links, sched, missed>> /\ crd' = FetchTargets(GainedShards)
    BY <1>10 DEF RemoveMember
  <2>2. Covered(t) => Covered(t)'  BY <2>1 DEF Covered
  <2>3. Fetching(crd, myVShards, t) => VShardOf[t] \in GainedShards
    BY <1>5, <2>0, <2>1 DEF Fetching, GainedShards, GetNodeIDsByVshard, Owned
  <2>4. crd'.stage = "get" /\ crd'.shards = GainedShards  BY <2>1 DEF FetchTargets
  <2>5. Fetching(crd, myVShards, t) => Fetching(crd, myVShards, t)'  BY <2>3, <2>4 DEF Fetching
  <2> QED  BY <1>2, <1>3, <2>0, <2>2, <2>5 DEF Accounted
<1>11. CASE GetTargets
  <2> DEFINE T == {x \in db : VShardOf[x] \in crd.shards /\ NeedHandle(x)}
  <2>0. hosts' = hosts /\ Accounted(t)  BY <1>7, <1>11 DEF HandleMembershipEvent, GetTargets
  <2>1. crd.stage = "get" /\ UNCHANGED <<links, sched, missed>> /\ crd' = [stage |-> "settings", targets |-> T]
    BY <1>11 DEF GetTargets, sharder
  <2>2. Covered(t) => Covered(t)'  BY <2>1 DEF Covered
  <2>3. Fetching(crd, myVShards, t) => t \in T  BY <2>0, <2>1 DEF Fetching, NeedHandle, GetNodeIDsByVshard, Owned
  <2> HIDE DEF T
  <2>5. Fetching(crd, myVShards, t) => Fetching(crd, myVShards, t)'  BY <2>1, <2>3 DEF Fetching
  <2> QED  BY <1>2, <1>3, <2>0, <2>2, <2>5 DEF Accounted
<1>12. CASE GetSettingsForTargetGroups
  <2>0. hosts' = hosts /\ Accounted(t)  BY <1>7, <1>12 DEF HandleMembershipEvent, GetSettingsForTargetGroups
  <2>1. /\ crd.stage = "settings" /\ UNCHANGED <<links, sched, missed>>
        /\ crd' = [stage |-> "apply", targets |-> crd.targets, found |-> settings]
    BY <1>12 DEF GetSettingsForTargetGroups, sharder
  <2>2. Covered(t) => Covered(t)'  BY <2>1 DEF Covered
  <2>5. Fetching(crd, myVShards, t) => Fetching(crd, myVShards, t)'  BY <2>1 DEF Fetching
  <2> QED  BY <1>2, <1>3, <2>0, <2>2, <2>5 DEF Accounted
<1>13. CASE FetchFails
  <2>0. hosts' = hosts /\ Accounted(t)  BY <1>7, <1>13 DEF HandleMembershipEvent, FetchFails
  <2>1. crd.stage \in {"get", "settings"} /\ UNCHANGED <<links, sched>>
        /\ missed' = missed \cup (IF crd.stage = "get" THEN {x \in db : VShardOf[x] \in crd.shards} ELSE crd.targets)
    BY <1>13 DEF FetchFails, sharder
  <2>2. Covered(t) => Covered(t)'  BY <2>1 DEF Covered
  <2>3. Fetching(crd, myVShards, t) => Covered(t)'  BY <2>1 DEF Fetching, Covered
  <2> QED  BY <1>2, <1>3, <2>0, <2>2, <2>3 DEF Accounted
<1>14. CASE ScheduleTargets
  <2>0. hosts' = hosts /\ Accounted(t)  BY <1>7, <1>14 DEF HandleMembershipEvent, ScheduleTargets
  <2>1. /\ crd.stage = "apply" /\ links \subseteq links' /\ sched \subseteq sched'
        /\ missed \subseteq missed' \cup sched' /\ crd.targets \subseteq sched' \cup missed'
    BY <1>14 DEF ScheduleTargets
  <2>2. Covered(t) => Covered(t)'  BY <2>1 DEF Covered
  <2>3. Fetching(crd, myVShards, t) => Covered(t)'  BY <2>1 DEF Fetching, Covered
  <2> QED  BY <1>2, <1>3, <2>0, <2>2, <2>3 DEF Accounted
<1> QED  BY <1>6, <1>8, <1>9, <1>10, <1>11, <1>12, <1>13, <1>14 DEF MembershipStep

LEMMA AccountedWatcher ==
  ASSUME RowInv, Recreated(log, db), RemoveInv, RowsAccounted, WatcherStep \/ ReadSettingsFails
  PROVE  RowsAccounted'
<1>0. log \in Seq(Messages) /\ next \in Nat /\ watcher \in Watchers /\ committed \in Int /\ committed <= next
      /\ db \in SUBSET Targets
  BY DEF RowInv
<1>1. UNCHANGED <<circle, hosts, myVShards, db, log, crd>>
  BY DEF WatcherStep, ReadSettingsFails, JoinTopic, FetchMessage, ReadSettings, LinkTarget, AddCheck,
         RemoveCheck, RemoveTargetLink, db_vars, sharder
<1> SUFFICES ASSUME NEW t \in db, VShardOf[t] \in Owned(circle, hosts) PROVE Accounted(t)'
  BY <1>1 DEF RowsAccounted, Owned
<1>2. Accounted(t)  BY DEF RowsAccounted
<1>3. Fetching(crd, myVShards, t) => Fetching(crd, myVShards, t)'  BY <1>1
<1>4. NeedHandle(t)  BY DEF Owned, NeedHandle, GetNodeIDsByVshard
<1>5. next' = next => (Comes(log, next, t) => Comes(log, next, t)')  BY <1>1
<1>6. CASE JoinTopic
  <2>1. watcher.stage = "join" /\ UNCHANGED <<sched, links>>  BY <1>6 DEF JoinTopic, sharder
  <2>2. ~Watched(watcher, t)  BY <2>1 DEF Watched
  <2>3. CASE committed = -1
    <3>1. t \in sched' \/ t \in missed'  BY <1>4, <1>6, <2>1, <2>3 DEF JoinTopic
    <3> QED  BY <3>1 DEF Accounted, Covered
  <2>4. CASE committed # -1
    <3>1. next' = committed /\ missed' = missed  BY <1>6, <2>4 DEF JoinTopic
    <3>2. \A i \in DOMAIN log : i > next => i > committed  BY <1>0
    <3>3. Comes(log, next, t) => Comes(log, next, t)'  BY <1>1, <3>1, <3>2 DEF Comes
    <3>4. Covered(t) => Covered(t)'  BY <2>1, <3>1 DEF Covered
    <3> QED  BY <1>2, <1>3, <2>2, <3>3, <3>4 DEF Accounted
  <2> QED  BY <2>3, <2>4
<1>7. CASE FetchMessage
  <2> DEFINE e == log[next + 1]
  <2>1. watcher.stage = "idle" /\ next < Len(log) /\ next' = next + 1 /\ UNCHANGED <<sched, links, missed>>
    BY <1>7 DEF FetchMessage, sharder
  <2>2. Covered(t) => Covered(t)'  BY <2>1 DEF Covered
  <2>3. ~Watched(watcher, t)  BY <2>1 DEF Watched
  <2>4. CASE e = Create(t)
    <3>1. e.op = "Create" /\ e.target = t  BY <2>4 DEF Create
    <3>2. watcher' = [stage |-> IF e.op = "Create" THEN "settings" ELSE "remove", target |-> e.target]
      BY <1>4, <1>7, <3>1 DEF FetchMessage
    <3> HIDE DEF e
    <3>3. Watched(watcher, t)'  BY <3>1, <3>2 DEF Watched
    <3> QED  BY <3>3 DEF Accounted
  <2>5. CASE e # Create(t)
    <3>1. ASSUME Comes(log, next, t) PROVE Comes(log, next, t)'
      <4>1. PICK i \in DOMAIN log : i > next /\ log[i] = Create(t)  BY <3>1 DEF Comes
      <4>2. i # next + 1  BY <2>5, <4>1
      <4>3. i > next + 1  BY <1>0, <4>1, <4>2
      <4> QED  BY <1>1, <2>1, <4>1, <4>3 DEF Comes
    <3> QED  BY <1>2, <1>3, <2>2, <2>3, <3>1 DEF Accounted
  <2> QED  BY <2>4, <2>5
<1>8. CASE ReadSettings \/ ReadSettingsFails \/ LinkTarget \/ AddCheck
  <2>1. next' = next  BY <1>8 DEF ReadSettings, ReadSettingsFails, LinkTarget, AddCheck
  <2>2. Covered(t) => Covered(t)'
    BY <1>8 DEF ReadSettings, ReadSettingsFails, LinkTarget, AddCheck, Covered, sharder
  <2>3. Watched(watcher, t) => Covered(t)' \/ Watched(watcher, t)'
    BY <1>8 DEF ReadSettings, ReadSettingsFails, LinkTarget, AddCheck, Covered, Watched
  <2> QED  BY <1>2, <1>3, <1>5, <2>1, <2>2, <2>3 DEF Accounted
<1>9. CASE RemoveCheck \/ RemoveTargetLink
  <2>1. next' = next /\ watcher.stage \in {"remove", "unlink"} /\ missed' = missed
    BY <1>9 DEF RemoveCheck, RemoveTargetLink, CommitMessage
  <2>2. ~Watched(watcher, t)  BY <2>1 DEF Watched
  <2>3. CASE t = watcher.target
    <3>1. next \in DOMAIN log /\ log[next] = Delete(t)  BY <2>1, <2>3 DEF RemoveInv
    <3>2. Comes(log, next, t)  BY <3>1 DEF Recreated
    <3> QED  BY <1>5, <2>1, <3>2 DEF Accounted
  <2>4. CASE t # watcher.target
    <3>1. Covered(t) => Covered(t)'  BY <1>9, <2>1, <2>4 DEF RemoveCheck, RemoveTargetLink, Covered, sharder
    <3> QED  BY <1>2, <1>3, <1>5, <2>1, <2>2, <3>1 DEF Accounted
  <2> QED  BY <2>3, <2>4
<1> QED  BY <1>6, <1>7, <1>8, <1>9 DEF WatcherStep

LEMMA CoverInit == Init => CoverInv
<1> SUFFICES ASSUME Init PROVE CoverInv
  OBVIOUS
<1>1. log = <<>> /\ watcher.stage = "off" /\ crd = FetchTargets(VShards)  BY DEF Init, Started
<1>2. crd.stage = "get" /\ crd.shards = VShards  BY <1>1 DEF FetchTargets
<1>3. Recreated(log, db)  BY <1>1 DEF Recreated
<1>4. RemoveInv /\ DropInv  BY <1>1, <1>2 DEF RemoveInv, DropInv
<1>5. RowsAccounted  BY <1>2 DEF RowsAccounted, Accounted, Fetching, Owned
<1> QED  BY <1>3, <1>4, <1>5 DEF CoverInv

LEMMA AccountedNext ==
  ASSUME ShardInv, RowInv, CoverInv, [Next]_vars
  PROVE  RowsAccounted'
<1>0. Recreated(log, db) /\ RemoveInv /\ DropInv /\ RowsAccounted  BY DEF CoverInv
<1>1. CASE \E t \in Targets : AddEndpoints(t) \/ RemoveEndpoints(t)  BY <1>0, <1>1, AccountedWritten
<1>2. CASE MembershipStep \/ FetchFails  BY <1>0, <1>2, AccountedMembership
<1>3. CASE WatcherStep \/ ReadSettingsFails  BY <1>0, <1>3, AccountedWatcher
<1>4. CASE Restart
  <2>1. crd' = FetchTargets(VShards)  BY <1>4 DEF Restart
  <2>2. crd'.stage = "get" /\ crd'.shards = VShards  BY <2>1 DEF FetchTargets
  <2> QED  BY <2>2 DEF RowsAccounted, Accounted, Fetching, Owned
<1>5. CASE UNCHANGED <<circle, hosts, db, log, next, watcher, crd, myVShards, sched, links, missed>>
  BY <1>0, <1>5 DEF RowsAccounted, Accounted, Covered, Owned
<1>6. CASE CreateSettings \/ UNCHANGED vars
  BY <1>5, <1>6 DEF CreateSettings, vars, db_vars, sharder
<1>7. CASE \E n \in Others : \/ Gossip(n, "NodeJoin", "Alive")
                             \/ \E state \in {"Left", "Dead"} : Gossip(n, "NodeLeave", state)
  BY <1>5, <1>7 DEF Gossip, db_vars, sharder
<1> QED  BY <1>1, <1>2, <1>3, <1>4, <1>6, <1>7 DEF Next

-----------------------------------------------------------------------------
(* The inductive invariant.                                                *)
WorkerInv == ShardInv /\ RowInv /\ CoverInv

LEMMA WorkerNext ==
  ASSUME WorkerInv, [Next]_vars
  PROVE  WorkerInv'
<1>1. ShardInv /\ RowInv /\ CoverInv  BY DEF WorkerInv
<1>2. ShardInv'  BY <1>1, ShardNext
<1>3. RowInv'  BY <1>1, RowNext
<1>4. CoverInv'  BY <1>1, RecreatedNext, RemoveNext, DropNext, AccountedNext DEF CoverInv
<1> QED  BY <1>2, <1>3, <1>4 DEF WorkerInv

LEMMA WorkerInvariant == Spec => []WorkerInv
<1>1. Init => WorkerInv  BY ShardInit, RowInit, CoverInit DEF WorkerInv
<1>2. WorkerInv /\ [Next]_vars => WorkerInv'  BY WorkerNext
<1> QED  BY <1>1, <1>2, PTL DEF Spec

(* The state of a worker stays in range: it never removes itself from the  *)
(* circle, and no offset is committed of a message not yet fetched.        *)
THEOREM WorkerTypes == Spec => []TypeOK
<1>1. WorkerInv => TypeOK
  <2> SUFFICES ASSUME WorkerInv PROVE TypeOK
    OBVIOUS
  <2>1. crd \in Crds /\ watcher \in Watchers  BY DEF WorkerInv, ShardInv, RowInv
  <2>2. crd.stage \in Stages /\ watcher.stage \in WatcherStages  BY <2>1, CrdShape, WatcherShape
  <2>3. next \in 0 .. Len(log) /\ committed \in -1 .. next  BY DEF WorkerInv, RowInv
  <2> QED  BY <2>2, <2>3 DEF WorkerInv, ShardInv, RowInv, TypeOK
<1> QED  BY <1>1, WorkerInvariant, PTL

(* The shards that AddNewMember and RemoveMember keep by differences are   *)
(* those of the circle, whatever workers came and went before.             *)
THEOREM ShardsFollowCircle == Spec => []MyVShardsFollowCircle
<1>1. WorkerInv => MyVShardsFollowCircle
  BY DEF WorkerInv, ShardInv, MyVShardsFollowCircle, Owned, GetNodeIDsByVshard
<1> QED  BY <1>1, WorkerInvariant, PTL

(* When both goroutines have nothing left to do, every row of the worker's *)
(* shards is checked or passed over by an error, in whatever order rows,   *)
(* members, restarts and failures came.                                    *)
THEOREM NothingMissed == Spec => []TakeoverMissesNothing
<1>1. WorkerInv => TakeoverMissesNothing
  <2> SUFFICES ASSUME WorkerInv, crd.stage = "idle", watcher.stage = "idle", next = Len(log),
                      NEW t \in db, NeedHandle(t)
               PROVE  Covered(t)
    BY DEF TakeoverMissesNothing
  <2>0. log \in Seq(Messages) /\ db \in SUBSET Targets  BY DEF WorkerInv, RowInv
  <2>1. VShardOf[t] \in Owned(circle, hosts)
    BY <2>0, ShardingAssumption DEF NeedHandle, GetNodeIDsByVshard, Owned
  <2>2. Accounted(t)  BY <2>1 DEF WorkerInv, CoverInv, RowsAccounted
  <2>3. ~Watched(watcher, t) /\ ~Fetching(crd, myVShards, t)  BY DEF Watched, Fetching
  <2>4. ~Comes(log, next, t)  BY <2>0 DEF Comes
  <2> QED  BY <2>2, <2>3, <2>4 DEF Accounted
<1> QED  BY <1>1, WorkerInvariant, PTL
=============================================================================
