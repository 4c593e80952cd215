------------------------ MODULE ReconcilerReplication ------------------------
(***************************************************************************)
(* What the reconciler promises about replication, proved for every set of *)
(* nodes and target groups and every replication factor, under the one     *)
(* assumption that a transaction that returns an error was not applied.    *)
(***************************************************************************)
EXTENDS ReconcilerProofs

\* etcd is what the reconciler believes, no target group has too many replicas,
\* and a desired placement has all the replicas that can be had.
ReplicationInv ==
  /\ store = placements
  /\ ReplicationBound
  /\ InCall => Replicated(desired)

----------------------------------------------------------------------------
\* Counting

LEMMA HoldersFinite ==
  ASSUME NEW pls, NEW tg
  PROVE  /\ Holders(pls, tg) \subseteq DataPlanes
         /\ IsFiniteSet(Holders(pls, tg))
         /\ Cardinality(Holders(pls, tg)) \in Nat
  <1>1. Holders(pls, tg) \in SUBSET DataPlanes
    BY DEF Holders
  <1> QED
    BY <1>1, ConstantsAssumption, FS_Subset, FS_CardinalityType

\* The replicas a target group lacks, counted by calculateDesiredLazy through the
\* nodes that are not alive and the assignments: never negative.
LEMMA NeedReplaceCounts ==
  ASSUME LocalInv, ReplicationInv, NEW tg \in targetGroups
  PROVE  LET H == Holders(placements, tg)
         IN /\ NeedReplace(tg) = ReplicationFactor - Cardinality(H \cap Alive)
            /\ Cardinality(H \cap Alive) \in Nat
            /\ Cardinality(H \cap Alive) <= ReplicationFactor
            /\ IsFiniteSet(H \cap Alive)
  <1> DEFINE H == Holders(placements, tg)
  <1>1. tg \in TargetGroups
    BY DEF LocalInv, TypeOK
  <1>2. assignments[tg] = H
    BY <1>1 DEF LocalInv, AssignmentsMatchPlacements
  <1>3. {d \in known \ Alive : tg \in placements[d].tgs} = H \ Alive
    BY DEF LocalInv, TypeOK, KnownInv, Holders, Unplaced
  <1>4. IsFiniteSet(H) /\ Cardinality(H) \in Nat
    BY HoldersFinite
  <1>5. Cardinality(H) <= ReplicationFactor
    BY <1>1 DEF ReplicationInv, ReplicationBound
  <1> HIDE DEF H
  <1>6. Cardinality(H \ Alive) = Cardinality(H) - Cardinality(H \cap Alive)
    BY <1>4, FS_Difference
  <1>7. IsFiniteSet(H \cap Alive) /\ Cardinality(H \cap Alive) <= Cardinality(H)
    BY <1>4, FS_Intersection
  <1>8. Cardinality(H \cap Alive) \in Nat
    BY <1>7, FS_CardinalityType
  <1>9. NeedReplace(tg) = MinOf(Cardinality(H \ Alive) + (ReplicationFactor - Cardinality(H)),
                                ReplicationFactor)
    BY <1>2, <1>3 DEF NeedReplace
  <1>10. NeedReplace(tg) = ReplicationFactor - Cardinality(H \cap Alive)
    BY <1>4, <1>5, <1>6, <1>8, <1>9, ConstantsAssumption DEF MinOf
  <1> QED
    BY <1>4, <1>5, <1>7, <1>8, <1>10, ConstantsAssumption DEF H

\* replaceMissedTargetGroups adds exactly the replicas that can be had.
LEMMA ReplacementsComplete ==
  ASSUME LocalInv, ReplicationInv, NEW tg \in targetGroups, NEW new \in Replacements(tg)
  PROVE  LET kept == Holders(placements, tg) \cap Alive
         IN /\ new \subseteq Alive
            /\ Cardinality(kept \cup new) = MinOf(ReplicationFactor, Cardinality(Alive))
  <1> DEFINE H == Holders(placements, tg)
             kept == H \cap Alive
             a == Cardinality(kept)
             n == Cardinality(Alive)
             free == Cardinality(Candidates(tg))
  <1>1. Candidates(tg) = Alive \ H
    BY AliveType DEF Candidates, Holders, LocalInv
  <1>2. /\ NeedReplace(tg) = ReplicationFactor - a /\ a \in Nat /\ a <= ReplicationFactor
        /\ IsFiniteSet(kept)
    BY NeedReplaceCounts
  <1>3. IsFiniteSet(Alive) /\ n \in Nat
    BY AliveType DEF LocalInv
  <1>4. free = n - a
    <2>1. Cardinality(Alive \ H) = Cardinality(Alive) - Cardinality(Alive \cap H)
      BY <1>3, FS_Difference
    <2>2. Alive \cap H = kept
      OBVIOUS
    <2> QED
      BY <1>1, <2>1, <2>2
  <1>5. a <= n
    BY <1>3, FS_Intersection
  <1>6. new \in SUBSET (Alive \ H)
    BY <1>1 DEF Replacements
  <1>7. Cardinality(new) = MinOf(ReplicationFactor - a, n - a)
    <2>1. Cardinality(new) = IF NeedReplace(tg) < 0 THEN free
                             ELSE MinOf(NeedReplace(tg), free)
      BY DEF Replacements
    <2> QED
      BY <1>2, <1>4, <2>1, ConstantsAssumption
  <1>8. IsFiniteSet(new)
    <2>1. new \in SUBSET Alive
      BY <1>6
    <2> QED
      BY <1>3, <2>1, FS_Subset
  <1>9. Cardinality(kept \cup new) = a + Cardinality(new)
    <2>1. kept \cap new = {}
      BY <1>6
    <2>2. Cardinality(kept \cup new) = a + Cardinality(new) - Cardinality(kept \cap new)
      BY <1>2, <1>8, FS_Union
    <2>3. Cardinality(new) \in Nat
      BY <1>8, FS_CardinalityType
    <2>4. Cardinality(kept \cap new) = 0
      BY <2>1, FS_EmptySet
    <2> HIDE DEF kept
    <2> QED
      BY <1>2, <2>2, <2>3, <2>4
  <1>10. a + MinOf(ReplicationFactor - a, n - a) = MinOf(ReplicationFactor, n)
    BY <1>2, <1>3, ConstantsAssumption DEF MinOf
  <1> QED
    BY <1>6, <1>7, <1>9, <1>10

\* A replica that moves from one node to another.
LEMMA SwapHolder ==
  ASSUME NEW S, IsFiniteSet(S), NEW x \in S, NEW y, y \notin S
  PROVE  Cardinality((S \ {x}) \cup {y}) = Cardinality(S)
  <1>1. IsFiniteSet(S \ {x}) /\ Cardinality(S \ {x}) = Cardinality(S) - 1
    BY FS_RemoveElement
  <1>2. Cardinality((S \ {x}) \cup {y}) = Cardinality(S \ {x}) + 1
    BY <1>1, FS_AddElement
  <1>3. Cardinality(S) \in Nat
    BY FS_CardinalityType
  <1> QED
    BY <1>1, <1>2, <1>3

----------------------------------------------------------------------------
\* A call

LEMMA CalculateDesiredReplicates ==
  ASSUME LocalInv, ReplicationInv, CalculateDesired
  PROVE  Replicated(desired)'
  <1>1. UNCHANGED <<placementVars, targetGroups, dplStatuses>>
    BY DEF CalculateDesired
  <1>2. PICK new \in [targetGroups -> SUBSET Alive] :
          /\ \A tg \in targetGroups : new[tg] \in Replacements(tg)
          /\ desired' = [d \in DataPlanes |->
                           DesiredLazy(d, {tg \in targetGroups : d \in new[tg]})]
    BY DEF CalculateDesired
  <1>3. Alive' = Alive /\ targetGroups' = targetGroups
    BY <1>1 DEF Alive, placementVars
  <1>4. ASSUME NEW tg \in targetGroups
        PROVE  Holders(desired', tg) = (Holders(placements, tg) \cap Alive) \cup new[tg]
    <2>1. new[tg] \subseteq Alive /\ Alive \subseteq DataPlanes
      BY <1>2, AliveType DEF LocalInv
    <2>2. ASSUME NEW d \in DataPlanes
          PROVE  tg \in desired'[d].tgs
                   <=> d \in Alive /\ (tg \in placements[d].tgs \/ d \in new[tg])
      <3> DEFINE tgs == {t \in targetGroups : d \in new[t]}
      <3>1. tgs \in SUBSET targetGroups /\ (d \notin Alive => tgs = {})
        BY <1>2
      <3>2. desired'[d] = DesiredLazy(d, tgs)
        BY <1>2
      <3>3. tg \in tgs <=> d \in new[tg]
        OBVIOUS
      <3> HIDE DEF tgs
      <3>4. /\ d \in Alive => desired'[d].tgs = placements[d].tgs \cup tgs
            /\ d \notin Alive => desired'[d].tgs = {}
        BY <3>1, <3>2, DesiredLazyType
      <3> QED
        BY <3>3, <3>4
    <2> QED
      BY <2>1, <2>2 DEF Holders
  <1>5. ASSUME NEW tg \in targetGroups
        PROVE  /\ Holders(desired', tg) \subseteq Alive
               /\ Cardinality(Holders(desired', tg)) = MinOf(ReplicationFactor, Cardinality(Alive))
    <2>1. new[tg] \in Replacements(tg)
      BY <1>2
    <2>2. /\ new[tg] \subseteq Alive
          /\ Cardinality((Holders(placements, tg) \cap Alive) \cup new[tg])
               = MinOf(ReplicationFactor, Cardinality(Alive))
      BY <2>1, ReplacementsComplete
    <2> QED
      BY <1>4, <2>2
  <1> QED
    BY <1>3, <1>5 DEF Replicated, Holders

LEMMA MovementReplicates ==
  ASSUME LocalInv, ReplicationInv, GenerateTgMovement
  PROVE  Replicated(desired)'
  <1>1. InCall /\ UNCHANGED <<placementVars, targetGroups, dplStatuses>>
    BY DEF GenerateTgMovement, InCall
  <1>2. Alive' = Alive /\ targetGroups' = targetGroups
    BY <1>1 DEF Alive, placementVars
  <1>3. Replicated(desired)
    BY <1>1 DEF ReplicationInv
  <1>4. CASE UNCHANGED desired
    BY <1>2, <1>3, <1>4 DEF Replicated, Holders
  <1>5. ASSUME NEW from \in Alive, NEW to \in Alive,
               NEW tgs \in SUBSET (desired[from].tgs \ desired[to].tgs),
               from # to, Move(from, to, tgs)
        PROVE  Replicated(desired)'
    <2>1. from \in DataPlanes /\ to \in DataPlanes
      BY AliveType DEF LocalInv
    <2>2. tgs \in SUBSET desired[from].tgs
      OBVIOUS
    <2>3. /\ desired'[to].tgs = desired[to].tgs \cup tgs
          /\ desired'[from].tgs = desired[from].tgs \ tgs
          /\ \A d \in DataPlanes \ {from, to} : desired'[d] = desired[d]
      BY <1>5, <2>1, <2>2, MoveChanges
    <2>4. ASSUME NEW tg \in targetGroups
          PROVE  /\ Holders(desired', tg) \subseteq Alive
                 /\ Cardinality(Holders(desired', tg))
                      = MinOf(ReplicationFactor, Cardinality(Alive))
      <3> DEFINE H == Holders(desired, tg)
      <3>1. H \subseteq Alive /\ Cardinality(H) = MinOf(ReplicationFactor, Cardinality(Alive))
        BY <1>3 DEF Replicated
      <3>2. CASE tg \notin tgs
        <4>1. Holders(desired', tg) = H
          BY <2>3, <3>2 DEF Holders
        <4> QED
          BY <3>1, <4>1
      <3>3. CASE tg \in tgs
        <4>1. Holders(desired', tg) = (H \ {from}) \cup {to}
          BY <1>5, <2>1, <2>3, <3>3 DEF Holders
        <4>2. from \in H /\ to \notin H /\ IsFiniteSet(H)
          BY <2>1, <3>3, HoldersFinite DEF Holders
        <4> HIDE DEF H
        <4>3. Cardinality((H \ {from}) \cup {to}) = Cardinality(H)
          BY <4>2, SwapHolder
        <4> QED
          BY <3>1, <4>1, <4>3
      <3> QED
        BY <3>2, <3>3
    <2> QED
      BY <1>2, <2>4 DEF Replicated, Holders
  <1> QED
    BY <1>4, <1>5, MovementStep

\* The store after a commit that succeeds is the desired placement.
LEMMA CommitStoresDesired ==
  ASSUME LocalInv, ReplicationInv, CommitSucceeds
  PROVE  /\ store' = desired
         /\ placements' = desired
         /\ InCall
         /\ targetGroups' = targetGroups
         /\ Alive' = Alive
  <1>1. InCall
    BY DEF CommitSucceeds, InCall
  <1>2. WrittenTo(store) = desired /\ WrittenTo(placements) = desired
    BY <1>1, WrittenIsDesired DEF ReplicationInv
  <1> QED
    BY <1>1, <1>2 DEF CommitSucceeds, Alive

\* A replicated placement exceeds the replication factor nowhere.
LEMMA DesiredBound ==
  ASSUME LocalInv, ReplicationInv, InCall, NEW tg \in TargetGroups
  PROVE  Cardinality(Holders(desired, tg)) <= ReplicationFactor
  <1>1. CASE tg \in targetGroups
    <2>1. Cardinality(Holders(desired, tg)) = MinOf(ReplicationFactor, Cardinality(Alive))
      BY <1>1 DEF ReplicationInv, Replicated
    <2> QED
      BY <2>1, AliveType, ConstantsAssumption DEF MinOf, LocalInv
  <1>2. CASE tg \notin targetGroups
    <2>1. Holders(desired, tg) = {}
      BY <1>2 DEF Holders, LocalInv, DesiredInv
    <2> QED
      BY <2>1, FS_EmptySet, ConstantsAssumption
  <1> QED
    BY <1>1, <1>2

----------------------------------------------------------------------------
\* The invariant ReplicationInv

LEMMA ReplicationInit == Init => ReplicationInv
  <1> SUFFICES ASSUME Init PROVE ReplicationInv
    OBVIOUS
  <1>1. \A tg \in TargetGroups : Holders(store, tg) = {}
    BY DEF Init, Holders, NothingDesired, Unplaced
  <1>2. ReplicationBound
    BY <1>1, FS_EmptySet, ConstantsAssumption DEF ReplicationBound
  <1> QED
    BY <1>2 DEF Init, ReplicationInv, InCall

\* A step that leaves etcd and the placements alone and ends up outside a call.
LEMMA ReplicationUntouched ==
  ASSUME ReplicationInv, store' = store, placements' = placements, ~InCall'
  PROVE  ReplicationInv'
  BY DEF ReplicationInv, ReplicationBound, Holders

LEMMA ReplicationStutter ==
  ASSUME ReplicationInv, store' = store, placements' = placements,
         UNCHANGED <<known, dplStatuses, targetGroups, desired>>, InCall' = InCall
  PROVE  ReplicationInv'
  <1>1. Alive' = Alive
    BY DEF Alive
  <1>2. ReplicationBound'
    BY DEF ReplicationInv, ReplicationBound, Holders
  <1>3. InCall' => Replicated(desired)'
    BY <1>1 DEF ReplicationInv, Replicated, Holders
  <1> QED
    BY <1>2, <1>3 DEF ReplicationInv

LEMMA LoopStaysOut ==
  ASSUME LocalInv, EventLoop
  PROVE  ~InCall' /\ store' = store /\ placements' = placements
  <1>1. ASSUME pc = "idle", StayIdle \/ StartReconcile
        PROVE  ~InCall'
    BY <1>1, LoopCall DEF InCall
  <1>2. CASE ReceiveDeath \/ HandleDataPlaneDrained
    BY <1>2 DEF ReceiveDeath, HandleDataPlaneDrained, Receive, InCall, callVars,
                etcdVars, placementVars
  <1>3. CASE HandleDataPlaneAlive
    BY <1>1, <1>3, AliveKeepsPlacements DEF HandleDataPlaneAlive, Receive, etcdVars
  <1>4. CASE HandleTargetGroupEvent
    BY <1>1, <1>4 DEF HandleTargetGroupEvent, Receive, etcdVars, placementVars
  <1>5. CASE HandleDataPlaneDeath
    BY <1>1, <1>5 DEF HandleDataPlaneDeath, etcdVars, placementVars
  <1>6. CASE RunReconcile \/ ForceReconcile
    BY <1>1, <1>6 DEF RunReconcile, ForceReconcile, etcdVars, placementVars
  <1> QED
    BY <1>2, <1>3, <1>4, <1>5, <1>6 DEF EventLoop

LEMMA EnvironmentStaysOut ==
  ASSUME Environment
  PROVE  UNCHANGED <<store, placementVars, targetGroups, dplStatuses, callVars, delayedRuns>>
  BY DEF Environment, PutStatus, ExpireStatus, PutTargetGroup, Notify, LoseLease

LEMMA ReplicationCall ==
  ASSUME ~AmbiguousCommits, LocalInv, ReplicationInv, Call
  PROVE  ReplicationInv'
  <1>1. CASE NoAliveDataPlanes \/ NoChanges
    BY <1>1, ReplicationUntouched
       DEF NoAliveDataPlanes, NoChanges, FinishCall, InCall, etcdVars, placementVars
  <1>2. CASE CalculateDesired
    <2>1. store' = store /\ placements' = placements
      BY <1>2 DEF CalculateDesired, etcdVars, placementVars
    <2> QED
      BY <1>2, <2>1, CalculateDesiredReplicates
         DEF ReplicationInv, ReplicationBound, Holders
  <1>3. CASE GenerateTgMovement
    <2>1. store' = store /\ placements' = placements
      BY <1>3 DEF GenerateTgMovement, etcdVars, placementVars
    <2> QED
      BY <1>3, <2>1, MovementReplicates DEF ReplicationInv, ReplicationBound, Holders
  <1>4. CASE UpdatePlacements
    BY <1>4, ReplicationStutter
       DEF UpdatePlacements, Balanced, InCall, etcdVars, placementVars
  <1>5. CASE CommitSucceeds
    <2>1. ReplicationBound'
      BY <1>5, CommitStoresDesired, DesiredBound DEF ReplicationBound, Holders
    <2>2. ~InCall'
      BY <1>5 DEF CommitSucceeds, FinishCall, InCall
    <2> QED
      BY <1>5, <2>1, <2>2, CommitStoresDesired DEF ReplicationInv
  <1>6. CASE CommitRejected \/ CommitError
    <2>1. AttemptFailed /\ store' = store /\ placements' = placements
      BY <1>6 DEF CommitRejected, CommitError, etcdVars, placementVars
    <2>2. ~InCall'
      BY <2>1, Failed DEF InCall
    <2> QED
      BY <2>1, <2>2, ReplicationUntouched
  <1> QED
    BY <1>1, <1>2, <1>3, <1>4, <1>5, <1>6 DEF Call

LEMMA ReplicationNext ==
  ~AmbiguousCommits /\ LocalInv /\ ReplicationInv /\ [Next]_vars => ReplicationInv'
  <1> SUFFICES ASSUME ~AmbiguousCommits, LocalInv, ReplicationInv, [Next]_vars
               PROVE  ReplicationInv'
    OBVIOUS
  <1>1. CASE Environment
    BY <1>1, EnvironmentStaysOut, ReplicationStutter DEF InCall, placementVars, callVars
  <1>2. CASE BecomeLeader
    BY <1>2 DEF BecomeLeader, ReplicationInv, ReplicationBound, Holders, InCall
  <1>3. CASE EventLoop
    BY <1>3, LoopStaysOut, ReplicationUntouched
  <1>4. CASE Call
    BY <1>4, ReplicationCall
  <1>5. CASE UNCHANGED vars
    BY <1>5, ReplicationStutter DEF InCall, vars, etcdVars, placementVars, callVars
  <1> QED
    BY <1>1, <1>2, <1>3, <1>4, <1>5 DEF Next

LEMMA ReplicationAlways ==
  ASSUME ~AmbiguousCommits
  PROVE  Spec => []ReplicationInv
  <1>1. LocalInv /\ ReplicationInv /\ [Next]_vars => ReplicationInv'
    BY ReplicationNext
  <1> QED
    BY <1>1, ReplicationInit, LocalAlways, PTL DEF Spec

----------------------------------------------------------------------------

\* No interleaving of registrations, deaths, failed attempts and failovers puts a
\* target group on more nodes than the replication factor.
THEOREM NeverOverReplicated ==
  ASSUME ~AmbiguousCommits
  PROVE  Spec => []ReplicationBound
  <1>1. ReplicationInv => ReplicationBound
    BY DEF ReplicationInv
  <1> QED
    BY <1>1, ReplicationAlways, PTL

\* The step that shows VersionsAdvance.
LEMMA VersionStep ==
  ASSUME ~AmbiguousCommits, LocalInv, ReplicationInv, [Next]_vars,
         NEW d \in DataPlanes, store'[d] # store[d]
  PROVE  store'[d].version > store[d].version
  <1>1. CASE CommitSucceeds
    <2>1. store'[d] = desired[d] /\ InCall /\ store[d] = placements[d]
      BY <1>1, CommitStoresDesired DEF ReplicationInv
    <2>2. desired[d] \in Placement /\ placements[d] \in Placement
      BY DEF LocalInv, TypeOK
    <2>3. /\ desired[d].version >= placements[d].version
          /\ desired[d].version = placements[d].version => desired[d].tgs = placements[d].tgs
      BY <2>1 DEF LocalInv, DesiredInv
    <2> QED
      BY <2>1, <2>2, <2>3 DEF Placement
  <1>2. CASE ~CommitSucceeds
    <2>1. CASE Call
      BY <1>2, <2>1 DEF Call, NoAliveDataPlanes, CalculateDesired, GenerateTgMovement,
        NoChanges, UpdatePlacements, CommitRejected, CommitError, etcdVars
    <2>2. CASE Environment \/ BecomeLeader \/ EventLoop \/ UNCHANGED vars
      BY <2>2, EnvironmentStaysOut, LoopStaysOut DEF BecomeLeader, vars, etcdVars
    <2> QED
      BY <2>1, <2>2 DEF Next
  <1> QED
    BY <1>1, <1>2

\* A placement in etcd changes only together with an increase of its version.
THEOREM VersionsAlwaysAdvance ==
  ASSUME ~AmbiguousCommits
  PROVE  Spec => VersionsAdvance
  <1>1. LocalInv /\ ReplicationInv /\ [Next]_vars
          => [\A d \in DataPlanes :
                store'[d] # store[d] => store'[d].version > store[d].version]_vars
    BY VersionStep
  <1> QED
    BY <1>1, LocalAlways, ReplicationAlways, PTL DEF Spec, VersionsAdvance

\* A call with "no changes" found the desired placement in etcd.
LEMMA NoChangesReplicated ==
  ASSUME LocalInv, ReplicationInv, NoChanges
  PROVE  Replicated(store)'
  <1>1. InCall
    BY DEF NoChanges, Balanced, InCall
  <1>2. WrittenTo(placements) = placements
    BY DEF NoChanges, WrittenTo, LocalInv, TypeOK
  <1>3. store' = desired
    BY <1>1, <1>2, WrittenIsDesired DEF NoChanges, ReplicationInv, etcdVars
  <1>4. Alive' = Alive /\ targetGroups' = targetGroups
    BY DEF NoChanges, Alive, placementVars
  <1> QED
    BY <1>1, <1>3, <1>4 DEF ReplicationInv, Replicated, Holders

\* The step that shows ReconcileReplicates.
LEMMA ReplicateStep ==
  ASSUME ~AmbiguousCommits, LocalInv, ReplicationInv, [Next]_vars,
         InCall, pc' = "idle", lease, delayedRuns' = delayedRuns
  PROVE  Replicated(store)'
  <1>1. CASE CommitSucceeds
    BY <1>1, CommitStoresDesired DEF ReplicationInv, Replicated, Holders
  <1>2. CASE NoChanges
    BY <1>2, NoChangesReplicated
  <1>3. ~(Environment \/ UNCHANGED vars)
    BY EnvironmentStaysOut DEF InCall, vars, callVars
  <1>4. ~BecomeLeader
    BY DEF BecomeLeader
  <1>5. ~EventLoop
    BY DEF EventLoop, ReceiveDeath, HandleDataPlaneAlive, HandleDataPlaneDrained,
      HandleTargetGroupEvent, HandleDataPlaneDeath, RunReconcile, ForceReconcile,
      Receive, InCall
  <1>6. ~(CommitRejected \/ CommitError)
    <2>1. AttemptFailed => pc' = "calc" \/ delayedRuns' = delayedRuns + 1
      BY DEF AttemptFailed
    <2>2. delayedRuns + 1 # delayedRuns
      BY DEF LocalInv, TypeOK
    <2>3. ~AttemptFailed
      BY <2>1, <2>2
    <2> QED
      BY <2>3 DEF CommitRejected, CommitError
  <1>7. ~(NoAliveDataPlanes \/ CalculateDesired \/ GenerateTgMovement \/ UpdatePlacements)
    BY DEF NoAliveDataPlanes, CalculateDesired, GenerateTgMovement, UpdatePlacements, InCall
  <1> QED
    BY <1>1, <1>2, <1>3, <1>4, <1>5, <1>6, <1>7 DEF Next, Call

\* A call of reconcile() that ends without an error leaves every target group
\* fully replicated in etcd, over nodes that are alive.
THEOREM CallsReplicate ==
  ASSUME ~AmbiguousCommits
  PROVE  Spec => ReconcileReplicates
  <1>1. LocalInv /\ ReplicationInv /\ [Next]_vars
          => [(/\ pc \in {"balance", "commit"}
               /\ pc' = "idle"
               /\ lease
               /\ delayedRuns' = delayedRuns)
              => (Replicated(store))']_vars
    BY ReplicateStep DEF InCall
  <1> QED
    BY <1>1, LocalAlways, ReplicationAlways, PTL DEF Spec, ReconcileReplicates

\* The part of IdleMeansReplicated that concerns one step of a call: it ends
\* replicated, with a delayed RunReconcile, or with no node to place anything on.
LEMMA CallEnds ==
  ASSUME ~AmbiguousCommits, LocalInv, ReplicationInv, Call, pc' = "idle", delayedRuns' = 0
  PROVE  (Alive # {} => Replicated(store))'
  <1>1. CASE NoAliveDataPlanes
    BY <1>1 DEF NoAliveDataPlanes, Alive, placementVars
  <1>2. CASE CommitSucceeds
    BY <1>2, CommitStoresDesired DEF ReplicationInv, Replicated, Holders
  <1>3. CASE NoChanges
    BY <1>3, NoChangesReplicated
  <1>4. ~(CommitRejected \/ CommitError)
    <2>1. AttemptFailed => pc' = "calc" \/ delayedRuns' = delayedRuns + 1
      BY DEF AttemptFailed
    <2>2. delayedRuns + 1 # 0
      BY DEF LocalInv, TypeOK
    <2> QED
      BY <2>1, <2>2 DEF CommitRejected, CommitError
  <1>5. ~(CalculateDesired \/ GenerateTgMovement \/ UpdatePlacements)
    BY DEF CalculateDesired, GenerateTgMovement, UpdatePlacements
  <1> QED
    BY <1>1, <1>2, <1>3, <1>4, <1>5 DEF Call

\* A step of the event loop that does not start a call leaves the nodes that are
\* alive, the target groups and the delayed runs as they are.
LEMMA QuietLoop ==
  ASSUME LocalInv, EventLoop, pc' = "idle"
  PROVE  Alive' = Alive /\ UNCHANGED <<targetGroups, delayedRuns, pc>>
  <1>1. ~StartReconcile
    BY DEF StartReconcile
  <1>2. CASE ReceiveDeath \/ HandleDataPlaneDrained
    BY <1>2 DEF ReceiveDeath, HandleDataPlaneDrained, Receive, Alive, placementVars, callVars
  <1>3. CASE HandleTargetGroupEvent
    <2>1. Head(eventCh).tg \in targetGroups
      BY <1>1, <1>3 DEF HandleTargetGroupEvent
    <2> QED
      BY <1>3, <2>1 DEF HandleTargetGroupEvent, Receive, Alive, placementVars
  <1>4. CASE HandleDataPlaneAlive
    <2> DEFINE d == Head(eventCh).node
    <2>1. dplStatuses[d].State = "alive"
      BY <1>1, <1>4 DEF HandleDataPlaneAlive
    <2>2. known' = known
      BY <1>4, <2>1 DEF HandleDataPlaneAlive, NoStatus
    <2>3. \A x \in DataPlanes : dplStatuses'[x].State = "alive" <=> dplStatuses[x].State = "alive"
      BY <1>4, <2>1 DEF HandleDataPlaneAlive, LocalInv, TypeOK
    <2>4. known \subseteq DataPlanes
      BY DEF LocalInv, TypeOK
    <2> QED
      BY <1>4, <2>2, <2>3, <2>4 DEF HandleDataPlaneAlive, Receive, Alive
  <1>5. CASE HandleDataPlaneDeath
    <2> DEFINE death == Head(delayedDeaths)
    <2>1. CASE Cancelled(death)
      BY <1>5, <2>1 DEF HandleDataPlaneDeath, Alive, placementVars
    <2>2. CASE ~Cancelled(death)
      <3>1. dplStatuses[death.node].State # "alive"
        BY <1>1, <1>5, <2>2 DEF HandleDataPlaneDeath
      <3>2. \A x \in DataPlanes : dplStatuses'[x].State = "alive" <=> dplStatuses[x].State = "alive"
        BY <1>5, <2>2, <3>1 DEF HandleDataPlaneDeath, LocalInv, TypeOK
      <3>3. known \subseteq DataPlanes
        BY DEF LocalInv, TypeOK
      <3> QED
        BY <1>5, <3>2, <3>3 DEF HandleDataPlaneDeath, Alive, placementVars
    <2> QED
      BY <2>1, <2>2
  <1>6. ~(RunReconcile \/ ForceReconcile)
    BY <1>1 DEF RunReconcile, ForceReconcile
  <1> QED
    BY <1>2, <1>3, <1>4, <1>5, <1>6 DEF EventLoop

\* The step that shows IdleMeansReplicated.
LEMMA IdleStep ==
  ASSUME ~AmbiguousCommits, LocalInv, ReplicationInv, IdleMeansReplicated, [Next]_vars
  PROVE  IdleMeansReplicated'
  <1>1. ASSUME pc = "idle", store' = store, Alive' = Alive, UNCHANGED <<pc, targetGroups, delayedRuns>>
        PROVE  IdleMeansReplicated'
    BY <1>1 DEF IdleMeansReplicated, Replicated, Holders
  <1> SUFFICES ASSUME pc' = "idle", delayedRuns' = 0
               PROVE  (Alive # {} => Replicated(store))'
    BY DEF IdleMeansReplicated
  <1>2. CASE Environment \/ UNCHANGED vars
    <2>1. UNCHANGED <<store, placementVars, targetGroups, dplStatuses, callVars, delayedRuns>>
      BY <1>2, EnvironmentStaysOut DEF vars, etcdVars
    <2>2. Alive' = Alive /\ pc = "idle"
      BY <2>1 DEF Alive, placementVars, callVars
    <2>3. IdleMeansReplicated'
      BY <1>1, <2>1, <2>2
    <2> QED
      BY <2>3 DEF IdleMeansReplicated
  <1>3. ~BecomeLeader
    BY DEF BecomeLeader
  <1>4. CASE EventLoop
    <2>1. pc = "idle" /\ IdleMeansReplicated'
      BY <1>1, <1>4, LoopStaysOut, QuietLoop
    <2> QED
      BY <2>1 DEF IdleMeansReplicated
  <1>5. CASE Call
    BY <1>5, CallEnds
  <1> QED
    BY <1>2, <1>3, <1>4, <1>5 DEF Next

\* When the event loop waits with nothing left to repeat and a node is alive,
\* every target group is fully replicated in etcd: no trigger is ever lost.
THEOREM NoTriggerIsLost ==
  ASSUME ~AmbiguousCommits
  PROVE  Spec => []IdleMeansReplicated
  <1>1. Init => IdleMeansReplicated
    BY DEF Init, IdleMeansReplicated
  <1>2. LocalInv /\ ReplicationInv /\ IdleMeansReplicated /\ [Next]_vars => IdleMeansReplicated'
    BY IdleStep
  <1> QED
    BY <1>1, <1>2, LocalAlways, ReplicationAlways, PTL DEF Spec
=============================================================================
